------------------------------ MODULE GroupExit ------------------------------
(***************************************************************************)
(* LEAVE GROUP and KICK (group-exit.service.ts): settle, mark the member   *)
(* as LEFT, log the exit, take the member out of the rotation, hand the    *)
(* creator role on and pause a group of one.  The group is read once, at   *)
(* the start; every later await works with that copy.                      *)
(***************************************************************************)
EXTENDS GroupState

\* Mutant of BeginExit: a member who has left is let out again.
ExitAgain(s, u) ==
    /\ \/ "LEAVE" \in Commands
       \/ "KICK" \in Commands /\ Creators \ {u} # {}
    /\ status[u] # "NONE"
    /\ <<totalCycles + 1, u>> \notin payoutRows
    /\ Enter(s, "settle", [NoFrame EXCEPT !.user = u, !.stay = Active \ {u},
                                          !.lead = role[u] = "CREATOR"])
    /\ UNCHANGED <<members, rotation, isPaused, clock, queue, contributions, payouts,
                   settlements, pool>>

\* leaveGroup and kickMember: an active member who has not been paid in this
\* cycle; to kick takes an active creator other than the target.
BeginExit(s, u) ==
    /\ \/ "LEAVE" \in Commands
       \/ "KICK" \in Commands /\ Creators \ {u} # {}
    /\ status[u] = "ACTIVE"
    /\ <<totalCycles + 1, u>> \notin payoutRows
    /\ Enter(s, "settle", [NoFrame EXCEPT !.user = u, !.stay = Active \ {u},
                                          !.lead = role[u] = "CREATOR"])
    /\ UNCHANGED <<members, rotation, isPaused, clock, queue, contributions, payouts,
                   settlements, pool>>

\* computeSettlement: only a positive net position is refunded.
Settle(s) ==
    /\ pc[s] = "settle"
    /\ LET u == frame[s].user
           owed == recorded[u] - received[u] IN
       IF owed > 0
       THEN GotoWith(s, "refund", [frame[s] EXCEPT !.amount = owed])
       ELSE Goto(s, "markLeft")
    /\ UNCHANGED <<members, rotation, isPaused, clock, queue, contributions, payouts,
                   settlements, pool>>

\* refundMember: a transfer from the treasury.
Refund(s) ==
    /\ pc[s] = "refund"
    /\ \/ /\ refunded' = [refunded EXCEPT ![frame[s].user] = @ + frame[s].amount]
          /\ pool' = pool - frame[s].amount
          /\ \/ Goto(s, "markLeft")
             \/ "replyLost" \in Faults /\ Return(s)
       \/ "down" \in Faults /\ Return(s) /\ UNCHANGED <<refunded, pool>>
    /\ UNCHANGED <<members, rotation, isPaused, clock, queue, contributions, payouts,
                   exits>>

MarkLeft(s) ==
    /\ pc[s] = "markLeft"
    /\ status' = [status EXCEPT ![frame[s].user] = "LEFT"]
    /\ \/ Goto(s, "logExit")
       \/ "db" \in Faults /\ Return(s)
    /\ UNCHANGED <<role, joined, rotation, isPaused, clock, queue, contributions,
                   payouts, settlements, pool>>

LogExit(s) ==
    /\ pc[s] = "logExit"
    /\ exits' = [exits EXCEPT ![frame[s].user] = @ + 1]
    /\ \/ Goto(s, "readOrder")
       \/ "db" \in Faults /\ Return(s)
    /\ UNCHANGED <<members, rotation, isPaused, clock, queue, contributions, payouts,
                   refunded, pool>>

\* Mutant of NextStop: only an empty group is paused.
PauseWhenEmpty(s) ==
    IF frame[s].lead /\ frame[s].stay # {} THEN "transfer"
    ELSE IF frame[s].stay = {} THEN "pause" ELSE "idle"

\* Where performExit goes on once the order is dealt with: without a role to
\* hand on and with two members left nothing is awaited any more.
NextStop(s) ==
    IF frame[s].lead /\ frame[s].stay # {} THEN "transfer"
    ELSE IF Cardinality(frame[s].stay) <= 1 THEN "pause" ELSE "idle"

GoOn(s, label) == IF label = "idle" THEN Return(s) ELSE Goto(s, label)

\* Mutant of ReadOrder: without a configured order there is nothing to remove from.
ReadStoredOrder(s) ==
    /\ pc[s] = "readOrder"
    /\ IF frame[s].user \in ToSet(payoutOrder)
       THEN GotoWith(s, "dropFromOrder",
                [frame[s] EXCEPT !.order = Without(payoutOrder, frame[s].user),
                                 !.index = payoutIndex])
       ELSE GoOn(s, NextStop(s))
    /\ UNCHANGED <<members, rotation, isPaused, clock, queue, contributions, payouts,
                   settlements, pool>>

\* removeMemberFromOrder reads the order and the index ...
ReadOrder(s) ==
    /\ pc[s] = "readOrder"
    /\ LET u == frame[s].user
           rest == Without(ResolveOrder, u) IN
       IF u \in ToSet(ResolveOrder)
       THEN GotoWith(s, "dropFromOrder",
                [frame[s] EXCEPT !.order = rest,
                                 !.index = IF rest = <<>> THEN 0
                                           ELSE Min({payoutIndex, Len(rest) - 1})])
       ELSE GoOn(s, NextStop(s))
    /\ UNCHANGED <<members, rotation, isPaused, clock, queue, contributions, payouts,
                   settlements, pool>>

\* ... and writes both back.  A failure is swallowed.
DropFromOrder(s) ==
    /\ pc[s] = "dropFromOrder"
    /\ \/ payoutOrder' = frame[s].order /\ payoutIndex' = frame[s].index
       \/ "db" \in Faults /\ UNCHANGED <<payoutOrder, payoutIndex>>
    /\ GoOn(s, NextStop(s))
    /\ UNCHANGED <<members, totalCycles, orderLocked, extensionsUsed, isPaused, clock,
                   queue, contributions, payouts, settlements, pool>>

\* Mutant of Heir: members who left long ago may inherit.
FirstOther(s) == joined[SelectInSeq(joined, LAMBDA u : u # frame[s].user)]

\* The earliest of those who were active when the exit began.
Heir(s) == joined[SelectInSeq(joined, LAMBDA u : u \in frame[s].stay)]

Transfer(s) ==
    /\ pc[s] = "transfer"
    /\ role' = [role EXCEPT ![Heir(s)] = "CREATOR"]
    /\ \/ GoOn(s, IF Cardinality(frame[s].stay) <= 1 THEN "pause" ELSE "idle")
       \/ "db" \in Faults /\ Return(s)
    /\ UNCHANGED <<status, joined, rotation, isPaused, clock, queue, contributions,
                   payouts, settlements, pool>>

Pause(s) ==
    /\ pc[s] = "pause"
    /\ isPaused' = TRUE
    /\ \/ Goto(s, "stopCron")
       \/ "db" \in Faults /\ Return(s)
    /\ UNCHANGED <<members, rotation, clock, queue, contributions, payouts,
                   settlements, pool>>

\* removeGroupCycle; without Redis it returns, and a failure is swallowed.
StopCron(s) ==
    /\ pc[s] = "stopCron"
    /\ \/ cron' = FALSE
       \/ "queue" \in Faults /\ UNCHANGED cron
    /\ Return(s)
    /\ UNCHANGED <<members, rotation, isPaused, clock, periods, endFor, endTries,
                   contributions, payouts, settlements, pool>>

\* A write that is not caught ends the exit where it is.
ExitWriteFails(s) ==
    /\ "db" \in Faults
    /\ pc[s] \in {"markLeft", "logExit", "transfer", "pause"}
    /\ Return(s)
    /\ UNCHANGED <<members, rotation, isPaused, clock, queue, contributions, payouts,
                   settlements, pool>>

ExitStep(s) ==
    \/ Settle(s) \/ Refund(s)
    \/ MarkLeft(s) \/ LogExit(s)
    \/ ReadOrder(s) \/ DropFromOrder(s)
    \/ Transfer(s) \/ Pause(s) \/ StopCron(s)
    \/ ExitWriteFails(s)
=============================================================================
