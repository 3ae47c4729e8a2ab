--------------------------- MODULE PayoutRotation ---------------------------
(***************************************************************************)
(* The rotation of payouts: the scheduler's cycle-start and cycle-end jobs *)
(* (contribution-scheduler.worker.ts and its queue) and the PAYOUT         *)
(* commands, all through payout.service.ts.                                *)
(*                                                                         *)
(* executePayout runs in a scheduler job and in PAYOUT PROCEED alike: it   *)
(* reads the group, looks for a Payout row of this cycle number, sends the *)
(* pot, writes the row, advances the index, and at the end of the order    *)
(* resets the cycle.  Each of these is an await.                           *)
(***************************************************************************)
EXTENDS GroupState

-----------------------------------------------------------------------------
(* The cycle-start job *)

\* The cron fires: the window is the one that starts now.  The update may throw
\* after it took effect, before the cycle-end job is added.
StartCycle(w) ==
    /\ pc[w] = "idle"
    /\ cron
    /\ periods < MaxPeriods
    /\ window' = "open"
    /\ periods' = periods + 1
    /\ deadline' = periods' * DaysOfCycle
    /\ counted' = {} /\ late' = {}
    /\ \/ Enter(w, "enqueueEnd", [NoFrame EXCEPT !.deadline = deadline'])
       \/ "db" \in Faults /\ UNCHANGED control
    /\ UNCHANGED <<members, rotation, isPaused, cron, endFor, endTries, onChain,
                   recorded, payouts, settlements, pool>>

\* enqueueCycleEnd, for a cycle-start job and for PAYOUT WAIT; without Redis
\* it returns null.
EnqueueEnd(p) ==
    /\ pc[p] = "enqueueEnd"
    /\ \/ \E j \in EndJobs :
             /\ endFor[j] = 0 /\ \A i \in EndJobs : i < j => endFor[i] # 0
             /\ endFor' = [endFor EXCEPT ![j] = frame[p].deadline]
       \/ "queue" \in Faults /\ UNCHANGED endFor
    /\ Return(p)
    /\ UNCHANGED <<members, rotation, isPaused, clock, cron, periods, endTries,
                   contributions, payouts, settlements, pool>>

\* The clock reaches currentCycleEnd.
ReachDeadline ==
    /\ window = "open"
    /\ window' = "over"
    /\ UNCHANGED <<members, rotation, isPaused, deadline, queue, contributions, payouts,
                   settlements, pool, control>>

-----------------------------------------------------------------------------
(* The cycle-end job: processCycleEnd *)

\* Mutant of Due: the job is added without its delay.
DueAtOnce(j) == endFor[j] # 0

\* Its delay is over when the deadline it was added for has passed.
Due(j) == endFor[j] # 0 /\ (endFor[j] < deadline \/ window = "over")

Running(j) == \E w \in Workers : frame[w].job = j

\* Mutant of AllContributed: more than everybody has to contribute.
OneMoreContributed == Cardinality(counted) > Len(ResolveOrder)

AllContributed == \A i \in 1 .. Len(ResolveOrder) : ResolveOrder[i] \in counted

\* getCycleContributionStatus reads the window of now, whichever window the
\* job was added for.  If somebody is missing, messages are sent and that is all.
StartEnd(w, j) ==
    /\ pc[w] = "idle"
    /\ Due(j) /\ ~Running(j)
    /\ IF AllContributed
       THEN Enter(w, "load", [NoFrame EXCEPT !.job = j]) /\ UNCHANGED <<endFor, endTries>>
       ELSE DropJob(j) /\ UNCHANGED control
    /\ UNCHANGED <<members, rotation, isPaused, clock, cron, periods, contributions,
                   payouts, settlements, pool>>

-----------------------------------------------------------------------------
(* executePayout and completeCycle *)

\* The group is read: who is next and what the pot is.
LoadPayout(p) ==
    /\ pc[p] = "load"
    /\ LET order == ResolveOrder IN
       GotoWith(p, "lookup",
           [frame[p] EXCEPT !.user = IF payoutIndex < Len(order)
                                     THEN order[payoutIndex + 1] ELSE None,
                            !.index = payoutIndex + 1,
                            !.last = payoutIndex + 1 >= Len(order),
                            !.cycle = totalCycles + 1,
                            !.amount = IF @ = None THEN Len(order) ELSE @])
    /\ UNCHANGED <<members, rotation, isPaused, clock, queue, contributions, payouts,
                   settlements, pool>>

PaidInCycle(c) == \E u \in Users : <<c, u>> \in payoutRows

\* Mutant of LookupPayout: the idempotency check is left out.
PayAgain(p) ==
    /\ pc[p] = "lookup"
    /\ \/ frame[p].user = None /\ Throw(p)
       \/ frame[p].user # None /\ Goto(p, "pay") /\ UNCHANGED queue
    /\ UNCHANGED <<members, rotation, isPaused, clock, contributions, payouts,
                   settlements, pool>>

\* An existing row for this cycle number ends the handler, whoever it paid.
LookupPayout(p) ==
    /\ pc[p] = "lookup"
    /\ \/ PaidInCycle(frame[p].cycle) /\ Finish(p)
       \/ ~PaidInCycle(frame[p].cycle) /\ frame[p].user = None /\ Throw(p)
       \/ /\ ~PaidInCycle(frame[p].cycle) /\ frame[p].user # None
          /\ Goto(p, "pay")
          /\ UNCHANGED queue
    /\ UNCHANGED <<members, rotation, isPaused, clock, contributions, payouts,
                   settlements, pool>>

\* The treasury sends the pot.
Pay(p) ==
    /\ pc[p] = "pay"
    /\ sent' = [sent EXCEPT ![frame[p].cycle][frame[p].user] = @ + 1]
    /\ pool' = pool - frame[p].amount
    /\ \/ Goto(p, "savePayout") /\ UNCHANGED queue
       \/ "replyLost" \in Faults /\ Throw(p)
    /\ UNCHANGED <<members, rotation, isPaused, clock, contributions, payoutRows,
                   received, settlements>>

PayFails(p) ==
    /\ "down" \in Faults
    /\ pc[p] = "pay"
    /\ Throw(p)
    /\ UNCHANGED <<members, rotation, isPaused, clock, contributions, payouts,
                   settlements, pool>>

SavePayout(p) ==
    /\ pc[p] = "savePayout"
    /\ payoutRows' = payoutRows \cup {<<frame[p].cycle, frame[p].user>>}
    /\ received' = [received EXCEPT ![frame[p].user] = @ + frame[p].amount]
    /\ \/ Goto(p, "advance") /\ UNCHANGED queue
       \/ "db" \in Faults /\ Throw(p)
    /\ UNCHANGED <<members, rotation, isPaused, clock, contributions, sent,
                   settlements, pool>>

\* The index that was read is written back plus one.  Notifying the members
\* reads them again, and may throw.
AdvanceIndex(p) ==
    /\ pc[p] = "advance"
    /\ payoutIndex' = frame[p].index
    /\ \/ frame[p].last /\ Goto(p, "reset") /\ UNCHANGED queue
       \/ ~frame[p].last /\ Finish(p)
       \/ "db" \in Faults /\ Throw(p)
    /\ UNCHANGED <<members, payoutOrder, totalCycles, orderLocked, extensionsUsed,
                   isPaused, clock, contributions, payouts, settlements, pool>>

\* completeCycle reads totalCycles and resets the contract ...
ResetCycle(p) ==
    /\ pc[p] = "reset"
    /\ \/ /\ GotoWith(p, "newCycle", [frame[p] EXCEPT !.cycle = totalCycles + 1])
          /\ UNCHANGED queue
       \/ "down" \in Faults /\ Throw(p)
    /\ UNCHANGED <<members, rotation, isPaused, clock, contributions, payouts,
                   settlements, pool>>

\* ... and begins the next rotation.
NewCycle(p) ==
    /\ pc[p] = "newCycle"
    /\ frame[p].cycle <= MaxCycles
    /\ totalCycles' = frame[p].cycle
    /\ payoutIndex' = 0 /\ extensionsUsed' = 0 /\ orderLocked' = FALSE
    /\ \/ Finish(p)
       \/ "db" \in Faults /\ Throw(p)
    /\ UNCHANGED <<members, payoutOrder, isPaused, clock, contributions, payouts,
                   settlements, pool>>

\* A read or a write is rejected, the rest of the handler does not run.
PayoutWriteFails(p) ==
    /\ "db" \in Faults
    /\ pc[p] \in {"load", "savePayout", "advance", "newCycle"}
    /\ Throw(p)
    /\ UNCHANGED <<members, rotation, isPaused, clock, contributions, payouts,
                   settlements, pool>>

PayoutStep(p) ==
    \/ LoadPayout(p) \/ LookupPayout(p)
    \/ Pay(p) \/ PayFails(p)
    \/ SavePayout(p) \/ AdvanceIndex(p)
    \/ ResetCycle(p) \/ NewCycle(p)
    \/ PayoutWriteFails(p)

-----------------------------------------------------------------------------
(* PAYOUT PROCEED, ORDER, SKIP and WAIT, by the creator *)

\* proceedWithPartialPool: one pot share for every contribution of the window.
BeginProceed(s) ==
    /\ "PROCEED" \in Commands
    /\ Creators # {}
    /\ Enter(s, "load", [NoFrame EXCEPT !.amount = Cardinality(counted)])
    /\ UNCHANGED <<members, rotation, isPaused, clock, queue, contributions, payouts,
                   settlements, pool>>

\* Mutant of BeginOrder: the lock is not looked at.
OrderAlthoughLocked(s, order) ==
    /\ "ORDER" \in Commands
    /\ Creators # {}
    /\ ToSet(order) = ToSet(joined)
    /\ Enter(s, "writeOrder", [NoFrame EXCEPT !.order = order])
    /\ UNCHANGED <<members, rotation, isPaused, clock, queue, contributions, payouts,
                   settlements, pool>>

\* setPayoutOrder: unlocked, and every member row is named exactly once.
BeginOrder(s, order) ==
    /\ "ORDER" \in Commands
    /\ Creators # {}
    /\ ~orderLocked
    /\ ToSet(order) = ToSet(joined)
    /\ Enter(s, "writeOrder", [NoFrame EXCEPT !.order = order])
    /\ UNCHANGED <<members, rotation, isPaused, clock, queue, contributions, payouts,
                   settlements, pool>>

\* Mutant of ToBack: the member keeps the old turn too.
OneTurnMore(order, u) == Append(order, u)

ToBack(order, u) == Append(Without(order, u), u)

\* skipDefaultingMember: u goes to the back of the order that was read.
BeginSkip(s, u) ==
    /\ "SKIP" \in Commands
    /\ Creators # {}
    /\ u \in ToSet(ResolveOrder)
    /\ Enter(s, "writeOrder", [NoFrame EXCEPT !.order = ToBack(ResolveOrder, u)])
    /\ UNCHANGED <<members, rotation, isPaused, clock, queue, contributions, payouts,
                   settlements, pool>>

\* The order and its log row are written in one transaction.
WriteOrder(s) ==
    /\ pc[s] = "writeOrder"
    /\ \/ payoutOrder' = frame[s].order
       \/ "db" \in Faults /\ UNCHANGED payoutOrder
    /\ Return(s)
    /\ UNCHANGED <<members, payoutIndex, totalCycles, orderLocked, extensionsUsed,
                   isPaused, clock, queue, contributions, payouts, settlements, pool>>

\* extendDeadline: there is a deadline, and extensions are left.
BeginWait(s) ==
    /\ "WAIT" \in Commands
    /\ Creators # {}
    /\ window # "none"
    /\ extensionsUsed < MaxExtensions
    /\ Enter(s, "extend", [NoFrame EXCEPT !.deadline = deadline + 1])
    /\ UNCHANGED <<members, rotation, isPaused, clock, queue, contributions, payouts,
                   settlements, pool>>

\* 24 hours after the deadline that was read: that may be in the past already,
\* or what another WAIT has written; late contributions may now be in time.
\* If the update throws, with or without effect, no job is added.
Extend(s) ==
    /\ pc[s] = "extend"
    /\ deadline' = frame[s].deadline
    /\ extensionsUsed' = extensionsUsed + 1
    /\ \/ /\ window = "open" \/ frame[s].deadline > deadline
          /\ window' = "open"
          /\ counted' = counted \cup late /\ late' = {}
       \/ /\ window = "over" /\ UNCHANGED window
          /\ \E inTime \in SUBSET late :
                counted' = counted \cup inTime /\ late' = late \ inTime
    /\ \/ Goto(s, "enqueueEnd")
       \/ "db" \in Faults /\ Return(s)
    /\ UNCHANGED <<members, payoutOrder, payoutIndex, totalCycles, orderLocked,
                   isPaused, queue, onChain, recorded, payouts, settlements, pool>>

ExtendFails(s) ==
    /\ "db" \in Faults
    /\ pc[s] = "extend"
    /\ Return(s)
    /\ UNCHANGED <<members, rotation, isPaused, clock, queue, contributions, payouts,
                   settlements, pool>>

RotationCommand(s) ==
    \/ BeginProceed(s)
    \/ \E named \in SUBSET Users : \E order \in SetToSeqs(named) : BeginOrder(s, order)
    \/ \E u \in Users : BeginSkip(s, u)
    \/ BeginWait(s)

RotationStep(p) ==
    \/ PayoutStep(p)
    \/ WriteOrder(p)
    \/ Extend(p) \/ ExtendFails(p) \/ EnqueueEnd(p)

SchedulerStart(w) ==
    \/ StartCycle(w)
    \/ \E j \in EndJobs : StartEnd(w, j)
=============================================================================
