------------------------- MODULE GroupContributions -------------------------
(***************************************************************************)
(* JOIN GROUP and CONTRIBUTE: the contract first, the database after it,   *)
(* and the lock on the payout order that the first contribution sets       *)
(* (message-processor.service.ts handleJoinGroup and handleContribute,     *)
(* group.service.ts, payout.service.ts lockOrderForCycle).                 *)
(***************************************************************************)
EXTENDS GroupState

\* joinGroup inserts a row; (userId, groupId) is unique, so nobody rejoins.
Join(u) ==
    /\ "JOIN" \in Commands
    /\ status[u] = "NONE"
    /\ status' = [status EXCEPT ![u] = "ACTIVE"]
    /\ joined' = Append(joined, u)
    /\ UNCHANGED <<role, rotation, isPaused, clock, queue, contributions, payouts,
                   settlements, pool, control>>

\* The sender is an active member and the group is not paused.
BeginContribute(s, u) ==
    /\ "CONTRIBUTE" \in Commands
    /\ status[u] = "ACTIVE"
    /\ ~isPaused
    /\ onChain[u] < MaxContributions
    /\ Enter(s, "invoke", [NoFrame EXCEPT !.user = u])
    /\ UNCHANGED <<members, rotation, isPaused, clock, queue, contributions, payouts,
                   settlements, pool>>

\* Mutant of InvokeContribute: the row is written before the contract answers.
RecordFirst(s) ==
    /\ pc[s] = "invoke"
    /\ recorded' = [recorded EXCEPT ![frame[s].user] = @ + 1]
    /\ \/ Goto(s, "record")
       \/ "down" \in Faults /\ Return(s)
    /\ UNCHANGED <<members, rotation, isPaused, clock, queue, onChain, counted, late,
                   payouts, settlements, pool>>

\* invokeContribute: the contract takes the money.  Unconfirmed after 30 s it
\* is recorded as PENDING, which nothing counts.
InvokeContribute(s) ==
    /\ pc[s] = "invoke"
    /\ \/ /\ onChain' = [onChain EXCEPT ![frame[s].user] = @ + 1]
          /\ pool' = pool + 1
          /\ \/ Goto(s, "record")
             \/ "replyLost" \in Faults /\ Return(s)
       \/ "down" \in Faults /\ Return(s) /\ UNCHANGED <<onChain, pool>>
    /\ UNCHANGED <<members, rotation, isPaused, clock, queue, recorded, counted, late,
                   payouts, settlements>>

\* addContribution: a COMPLETED row, created now.
RecordContribution(s) ==
    /\ pc[s] = "record"
    /\ recorded' = [recorded EXCEPT ![frame[s].user] = @ + 1]
    /\ IF window = "over"
       THEN late' = late \cup {frame[s].user} /\ UNCHANGED counted
       ELSE counted' = counted \cup {frame[s].user} /\ UNCHANGED late
    /\ \/ Goto(s, "readLock")
       \/ "db" \in Faults /\ Return(s)
    /\ UNCHANGED <<members, rotation, isPaused, clock, queue, onChain, payouts,
                   settlements, pool>>

RecordFails(s) ==
    /\ "db" \in Faults
    /\ pc[s] = "record"
    /\ Return(s)
    /\ UNCHANGED <<members, rotation, isPaused, clock, queue, contributions, payouts,
                   settlements, pool>>

\* lockOrderForCycle reads the group ...
ReadLock(s) ==
    /\ pc[s] = "readLock"
    /\ IF orderLocked
       THEN Return(s)
       ELSE GotoWith(s, "writeLock", [frame[s] EXCEPT !.order = ResolveOrder])
    /\ UNCHANGED <<members, rotation, isPaused, clock, queue, contributions, payouts,
                   settlements, pool>>

\* ... and writes the lock with the order it read.  A failure is swallowed.
WriteLock(s) ==
    /\ pc[s] = "writeLock"
    /\ \/ orderLocked' = TRUE /\ payoutOrder' = frame[s].order
       \/ "db" \in Faults /\ UNCHANGED <<orderLocked, payoutOrder>>
    /\ Return(s)
    /\ UNCHANGED <<members, payoutIndex, totalCycles, extensionsUsed, isPaused, clock,
                   queue, contributions, payouts, settlements, pool>>

ContributionStep(s) ==
    \/ InvokeContribute(s)
    \/ RecordContribution(s) \/ RecordFails(s)
    \/ ReadLock(s) \/ WriteLock(s)
=============================================================================
