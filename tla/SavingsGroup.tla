---------------------------- MODULE SavingsGroup ----------------------------
(***************************************************************************)
(* A savings group: contributions, the rotation of payouts and exits, run  *)
(* by the message worker's and the scheduler worker's slots side by side.  *)
(***************************************************************************)
EXTENDS GroupContributions, PayoutRotation, GroupExit

Command(s) ==
    \/ \E u \in Users : BeginContribute(s, u)
    \/ \E u \in Users : BeginExit(s, u)
    \/ RotationCommand(s)

SessionStep(s) == ContributionStep(s) \/ RotationStep(s) \/ ExitStep(s)

WorkerStep(w) == SchedulerStart(w) \/ PayoutStep(w) \/ EnqueueEnd(w)

\* What a process did is kept.  A cycle-end job it had is given out again as
\* long as BullMQ allows, which the model counts among the attempts.
Crash(p) ==
    /\ "crash" \in Faults
    /\ pc[p] # "idle"
    /\ Throw(p)
    /\ UNCHANGED <<members, rotation, isPaused, clock, contributions, payouts,
                   settlements, pool>>

Next ==
    \/ \E u \in Users : Join(u)
    \/ \E s \in Sessions : Command(s) \/ SessionStep(s)
    \/ \E w \in Workers : WorkerStep(w)
    \/ ReachDeadline
    \/ \E p \in Procs : Crash(p)

Spec == Init /\ [][Next]_vars

\* A handler that was entered runs on, the scheduler worker takes the cycle-end
\* jobs that are due, and time passes.
Fairness ==
    /\ \A s \in Sessions : WF_vars(SessionStep(s))
    /\ \A w \in Workers : WF_vars(PayoutStep(w) \/ EnqueueEnd(w))
    /\ \A w \in Workers, j \in EndJobs : WF_vars(StartEnd(w, j))
    /\ WF_vars(ReachDeadline)

FairSpec == Spec /\ Fairness
-----------------------------------------------------------------------------
(* Money and the order *)

SumOf(f) == MapThenSumSet(LAMBDA u : f[u], Users)

\* The database never claims money the chain did not move: a contribution row
\* only after the contract confirmed it, a Payout row only after a transfer,
\* and what the rows say was paid has left the treasury.
RecordsAreBacked ==
    /\ \A u \in Users : recorded[u] <= onChain[u]
    /\ \A c \in Cycles, u \in Users : <<c, u>> \in payoutRows => sent[c][u] > 0
    /\ pool + SumOf(received) + SumOf(refunded) <= SumOf(onChain)

\* The stored order never names a member twice and never names a stranger,
\* although it is read, changed and written back by four handlers.
OrderWellFormed ==
    /\ IsInjective(payoutOrder)
    /\ ToSet(payoutOrder) \subseteq ToSet(joined)
-----------------------------------------------------------------------------
(* Progress *)

EverybodyContributed == ToSet(ResolveOrder) \subseteq counted

FullWindow ==
    /\ window # "none"
    /\ EverybodyContributed
    /\ \E j \in EndJobs : endFor[j] = deadline

\* The first window of a rotation in which everybody contributed ends with a pot
\* being paid under that rotation's number, unless it is not full any more when
\* the cycle-end job looks: the next cycle-start job moved the window before, or
\* somebody joined (processCycleEnd, "Pays out automatically if every member
\* contributed").  What becomes of the later ones is RotationGoesOn's question.
FirstPotIsPaid ==
    \A c \in Cycles :
        FullWindow /\ totalCycles + 1 = c ~> PaidInCycle(c) \/ ~EverybodyContributed

\* The rotation goes on: who is next in turn is not next for ever while a
\* window is full and its pot is in the treasury.
RotationGoesOn ==
    \A i \in 1 .. N :
        payoutIndex = i /\ FullWindow /\ pool >= Len(ResolveOrder) ~> payoutIndex # i
=============================================================================
