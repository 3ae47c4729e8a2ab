------------------------ MODULE PaymentRequestProofs ------------------------
(***************************************************************************)
(* Proofs about PaymentRequest for any number of users, requests,          *)
(* sessions and workers, and any retry limit.                              *)
(***************************************************************************)
EXTENDS PaymentRequestInductive, TLAPS, FiniteSetTheorems

\* A conditional update touches one status and leaves the others alone.
LEMMA CasStatusEffect ==
    ASSUME status \in [RequestIds -> Statuses],
           NEW r \in RequestIds, NEW from, NEW to \in Statuses,
           CasStatus(r, from, to)
    PROVE  /\ status' \in [RequestIds -> Statuses]
           /\ \A q \in RequestIds : q # r => status'[q] = status[q]
           /\ status[r] = from => status'[r] = to
           /\ status[r] # from => status'[r] = status[r]
  BY DEF CasStatus

\* Ending a job can only turn an active job into the outcome.
LEMMA EndJobEffect ==
    ASSUME NEW job \in [RequestIds -> JobStates], NEW w \in Workers,
           NEW outcome \in {"none", "failed"}
    PROVE  /\ EndJob(job, w, outcome) \in [RequestIds -> JobStates]
           /\ \A q \in RequestIds :
                 \/ EndJob(job, w, outcome)[q] = job[q]
                 \/ EndJob(job, w, outcome)[q] = outcome /\ job[q] = w
  BY DEF EndJob, JobStates

\* Queueing a job can only turn an unknown id into a waiting job.
LEMMA EnqueueEffect ==
    ASSUME NEW job \in [RequestIds -> JobStates], NEW r \in RequestIds
    PROVE  /\ Enqueue(job, r) \in [RequestIds -> JobStates]
           /\ \A q \in RequestIds : q # r => Enqueue(job, r)[q] = job[q]
           /\ job[r] = "none" => Enqueue(job, r)[r] = "waiting"
           /\ job[r] # "none" => Enqueue(job, r)[r] = job[r]
  BY DEF Enqueue, JobStates

Typed == TypeOK /\ FramesOK

\* Every step keeps the types and leaves each process what its next step needs.
LEMMA TypedStep == Typed /\ [Next]_vars => Typed'
<1> SUFFICES ASSUME Typed, [Next]_vars
             PROVE  Typed'
  OBVIOUS
<1> USE ConstantsAssumption, ProcessesAssumption
        DEF Typed, TypeOK, FramesOK, rows, jobs, escrow, vars, Procs, SessionPcs,
            WorkerPcs, Claimable, Statuses, Goto, Return, HoldingPcs, ClaimingPcs,
            CompletingPcs
<1>1. ASSUME NEW s \in Sessions, Command(s)
      PROVE  Typed'
  BY <1>1 DEF Command, CountPending, BeginAccept, BeginDecline
<1>2. ASSUME NEW s \in Sessions, SessionStep(s)
      PROVE  Typed'
  <2>1. CASE CreateRow(s)
    BY <2>1 DEF CreateRow, NewRow
  <2>2. CASE CreateRowFails(s)
    BY <2>2 DEF CreateRowFails, NewRow
  <2>3. CASE ScheduleExpiry(s)
    <3>1. Enqueue(expireJob, cur[s]) \in [RequestIds -> JobStates]
      BY <2>3, EnqueueEffect DEF ScheduleExpiry
    <3> QED
      BY <2>3, <3>1 DEF ScheduleExpiry
  <2>4. CASE TakeHold(s)
    <3>1. status' \in [RequestIds -> Statuses]
      BY <2>4, CasStatusEffect DEF TakeHold
    <3> QED
      BY <2>4, <3>1, SMTT(30) DEF TakeHold
  <2>5. CASE TakeHoldFails(s)
    BY <2>5, CasStatusEffect DEF TakeHoldFails
  <2>6. CASE PlaceHold(s)
    BY <2>6 DEF PlaceHold, Fund
  <2>7. CASE PlaceHoldFails(s)
    BY <2>7 DEF PlaceHoldFails, Fund
  <2>8. CASE ReleaseHold(s)
    BY <2>8, CasStatusEffect DEF ReleaseHold
  <2>9. CASE RecordHold(s)
    BY <2>9 DEF RecordHold, WriteAccepted
  <2>10. CASE RecordHoldFails(s)
    BY <2>10, SMTT(30) DEF RecordHoldFails, WriteAccepted
  <2>11. CASE ScheduleCompletion(s)
    <3>1. Enqueue(completeJob, cur[s]) \in [RequestIds -> JobStates]
      BY <2>11, EnqueueEffect DEF ScheduleCompletion
    <3> QED
      BY <2>11, <3>1 DEF ScheduleCompletion
  <2>12. CASE Decline(s)
    BY <2>12, CasStatusEffect DEF Decline
  <2> QED
    BY <1>2, <2>1, <2>2, <2>3, <2>4, <2>5, <2>6, <2>7, <2>8, <2>9, <2>10,
       <2>11, <2>12 DEF SessionStep
<1>3. ASSUME NEW w \in Workers, WorkerStep(w)
      PROVE  Typed'
  <2>1. ASSUME NEW r \in RequestIds, StartExpire(w, r)
        PROVE  Typed'
    BY <2>1 DEF StartExpire, JobStates
  <2>2. ASSUME NEW r \in RequestIds, StartComplete(w, r)
        PROVE  Typed'
    BY <2>2 DEF StartComplete, JobStates
  <2>3. CASE ExpireIfPending(w)
    BY <2>3, CasStatusEffect, EndJobEffect DEF ExpireIfPending
  <2>4. CASE ExpireFails(w)
    <3>1. expireJob' \in [RequestIds -> JobStates]
      BY <2>4, EndJobEffect DEF ExpireFails
    <3>2. status' \in [RequestIds -> Statuses]
      BY <2>4, CasStatusEffect DEF ExpireFails
    <3> QED
      BY <2>4, <3>1, <3>2 DEF ExpireFails
  <2>5. CASE BeginClaim(w)
    <3>1. EndJob(completeJob, w, "none") \in [RequestIds -> JobStates]
      BY EndJobEffect
    <3>2. status' \in [RequestIds -> Statuses]
      BY <2>5, CasStatusEffect DEF BeginClaim
    <3> QED
      BY <2>5, <3>1, <3>2, SMTT(30) DEF BeginClaim
  <2>6. CASE BeginClaimFails(w)
    <3>1. completeJob' \in [RequestIds -> JobStates]
      BY <2>6, EndJobEffect DEF BeginClaimFails
    <3>2. status' \in [RequestIds -> Statuses]
      BY <2>6, CasStatusEffect DEF BeginClaimFails
    <3> QED
      BY <2>6, <3>1, <3>2 DEF BeginClaimFails
  <2>7. CASE LoadWallet(w)
    <3>1. EndJob(completeJob, w, "failed") \in [RequestIds -> JobStates]
      BY EndJobEffect
    <3>2. completeJob' \in [RequestIds -> JobStates]
      BY <2>7, <3>1 DEF LoadWallet
    <3> QED
      BY <2>7, <3>2 DEF LoadWallet
  <2>8. CASE Claim(w)
    BY <2>8 DEF Claim
  <2>9. CASE ClaimFails(w)
    BY <2>9 DEF ClaimFails
  <2>10. CASE Settle(w)
    BY <2>10, EndJobEffect DEF Settle
  <2>11. CASE SettleFails(w)
    <3>1. completeJob' \in [RequestIds -> JobStates]
      BY <2>11, EndJobEffect DEF SettleFails
    <3> QED
      BY <2>11, <3>1 DEF SettleFails
  <2>12. CASE RevertToAccepted(w)
    BY <2>12, CasStatusEffect, EndJobEffect DEF RevertToAccepted
  <2> QED
    BY <1>3, <2>1, <2>2, <2>3, <2>4, <2>5, <2>6, <2>7, <2>8, <2>9, <2>10,
       <2>11, <2>12 DEF WorkerStep
<1>4. CASE Environment
  <2>1. ASSUME NEW r \in RequestIds, ReachExpiry(r)
        PROVE  Typed'
    BY <2>1 DEF ReachExpiry
  <2>2. ASSUME NEW b \in BalanceIds, CloseReclaimWindow(b) \/ Reclaim(b)
        PROVE  Typed'
    BY <2>2 DEF CloseReclaimWindow, Reclaim
  <2>3. ASSUME NEW w \in Workers, Stall(w) \/ CrashWorker(w)
        PROVE  Typed'
    BY <2>3 DEF Stall, CrashWorker, Requeue, JobStates
  <2>4. ASSUME NEW s \in Sessions, CrashSession(s)
        PROVE  Typed'
    BY <2>4 DEF CrashSession
  <2> QED
    BY <1>4, <2>1, <2>2, <2>3, <2>4 DEF Environment
<1>5. CASE UNCHANGED vars
  BY <1>5
<1> QED
  BY <1>1, <1>2, <1>3, <1>4, <1>5 DEF Next

\* Every variable keeps its type, whatever faults are allowed.
THEOREM TypeCorrect == Spec => []TypeOK
<1>1. Init => Typed
  BY ConstantsAssumption, ProcessesAssumption
     DEF Init, Typed, TypeOK, FramesOK, Procs, Statuses, SessionPcs, WorkerPcs,
         Claimable, JobStates, CompletingPcs, ClaimingPcs
<1>2. Typed => TypeOK
  BY DEF Typed
<1>3. QED
  BY <1>1, <1>2, TypedStep, PTL DEF Spec

-----------------------------------------------------------------------------
(* Every step keeps the ownership invariant, whatever faults are allowed *)

OwnershipKept ==
    /\ SessionsOwn'
    /\ WorkersOwn'
    /\ Recorded'
    /\ BalancesOwned'

\* A request stays with the one session or worker that moved it, and its
\* balance stays with it.
LEMMA OwnershipKeptStep == Ownership /\ [Next]_vars => OwnershipKept
<1> SUFFICES ASSUME Ownership, [Next]_vars
             PROVE  OwnershipKept
  OBVIOUS
<1> USE ConstantsAssumption, ProcessesAssumption
        DEF TypeOK, FramesOK, rows, jobs, escrow, vars, Procs, SessionPcs, WorkerPcs,
            Statuses, JobStates, Claimable, Goto, Return, HoldingPcs, ClaimingPcs,
            AcceptingPcs, CompletingPcs, Funded, Accepting, Completing, Claiming,
            Ownership, SessionsOwn, WorkersOwn, Recorded, BalancesOwned,
            OwnershipKept
<1>1. ASSUME NEW s \in Sessions, Command(s)
      PROVE  OwnershipKept
  <2>1. ASSUME NEW u \in Users, CountPending(s, u)
        PROVE  OwnershipKept
    BY <2>1 DEF CountPending
  <2>2. ASSUME NEW r \in RequestIds, NEW u \in Users, BeginAccept(s, r, u)
        PROVE  OwnershipKept
    BY <2>2 DEF BeginAccept, Answerable
  <2>3. ASSUME NEW r \in RequestIds, NEW u \in Users, BeginDecline(s, r, u)
        PROVE  OwnershipKept
    BY <2>3 DEF BeginDecline, Answerable
  <2> QED
    BY <1>1, <2>1, <2>2, <2>3 DEF Command
<1>2. ASSUME NEW s \in Sessions, SessionStep(s)
      PROVE  OwnershipKept
  <2>1. CASE CreateRow(s)
    BY <2>1 DEF CreateRow, NewRow
  <2>2. CASE CreateRowFails(s)
    <3> HIDE DEF BalancesOwned, OwnershipKept
    <3>1. SessionsOwn'
      BY <2>2, SMTT(60) DEF CreateRowFails, NewRow
    <3>2. WorkersOwn'
      BY <2>2, SMTT(60) DEF CreateRowFails, NewRow
    <3>3. Recorded'
      BY <2>2, SMTT(30) DEF CreateRowFails, NewRow
    <3>4. BalancesOwned'
      BY <2>2, SMTT(30) DEF CreateRowFails, NewRow, BalancesOwned
    <3> QED
      BY <3>1, <3>2, <3>3, <3>4 DEF OwnershipKept
  <2>3. CASE ScheduleExpiry(s)
    BY <2>3 DEF ScheduleExpiry, Enqueue
  <2>4. CASE TakeHold(s)
    <3> HIDE DEF BalancesOwned, OwnershipKept
    <3>1. SessionsOwn'
      BY <2>4, SMTT(60) DEF TakeHold, CasStatus
    <3>2. WorkersOwn'
      BY <2>4, SMTT(60) DEF TakeHold, CasStatus
    <3>3. Recorded'
      BY <2>4, SMTT(30) DEF TakeHold, CasStatus
    <3>4. BalancesOwned'
      BY <2>4, SMTT(30) DEF TakeHold, CasStatus, BalancesOwned
    <3> QED
      BY <3>1, <3>2, <3>3, <3>4 DEF OwnershipKept
  <2>5. CASE TakeHoldFails(s)
    <3> HIDE DEF BalancesOwned, OwnershipKept
    <3>1. SessionsOwn'
      BY <2>5, SMTT(60) DEF TakeHoldFails, CasStatus
    <3>2. WorkersOwn'
      BY <2>5, SMTT(60) DEF TakeHoldFails, CasStatus
    <3>3. Recorded'
      BY <2>5, SMTT(30) DEF TakeHoldFails, CasStatus
    <3>4. BalancesOwned'
      BY <2>5, SMTT(30) DEF TakeHoldFails, CasStatus, BalancesOwned
    <3> QED
      BY <3>1, <3>2, <3>3, <3>4 DEF OwnershipKept
  <2>6. CASE PlaceHold(s)
    BY <2>6 DEF PlaceHold, Fund
  <2>7. CASE PlaceHoldFails(s)
    <3> HIDE DEF BalancesOwned, OwnershipKept
    <3>1. SessionsOwn'
      BY <2>7, SMTT(60) DEF PlaceHoldFails, Fund
    <3>2. WorkersOwn'
      BY <2>7, SMTT(60) DEF PlaceHoldFails, Fund
    <3>3. Recorded'
      BY <2>7, SMTT(30) DEF PlaceHoldFails, Fund
    <3>4. BalancesOwned'
      BY <2>7, SMTT(30) DEF PlaceHoldFails, Fund, BalancesOwned
    <3> QED
      BY <3>1, <3>2, <3>3, <3>4 DEF OwnershipKept
  <2>8. CASE ReleaseHold(s)
    <3> HIDE DEF BalancesOwned, OwnershipKept
    <3>1. SessionsOwn'
      BY <2>8, SMTT(60) DEF ReleaseHold, CasStatus
    <3>2. WorkersOwn'
      BY <2>8, SMTT(60) DEF ReleaseHold, CasStatus
    <3>3. Recorded'
      BY <2>8, SMTT(30) DEF ReleaseHold, CasStatus
    <3>4. BalancesOwned'
      BY <2>8, SMTT(30) DEF ReleaseHold, CasStatus, BalancesOwned
    <3> QED
      BY <3>1, <3>2, <3>3, <3>4 DEF OwnershipKept
  <2>9. CASE RecordHold(s)
    <3> HIDE DEF BalancesOwned, OwnershipKept
    <3>1. SessionsOwn'
      BY <2>9, SMTT(60) DEF RecordHold, WriteAccepted
    <3>2. WorkersOwn'
      BY <2>9, SMTT(60) DEF RecordHold, WriteAccepted
    <3>3. Recorded'
      BY <2>9, SMTT(30) DEF RecordHold, WriteAccepted
    <3>4. BalancesOwned'
      BY <2>9, SMTT(30) DEF RecordHold, WriteAccepted, BalancesOwned
    <3> QED
      BY <3>1, <3>2, <3>3, <3>4 DEF OwnershipKept
  <2>10. CASE RecordHoldFails(s)
    <3> HIDE DEF BalancesOwned, OwnershipKept
    <3>1. SessionsOwn'
      BY <2>10, SMTT(60) DEF RecordHoldFails, WriteAccepted
    <3>2. WorkersOwn'
      BY <2>10, SMTT(60) DEF RecordHoldFails, WriteAccepted
    <3>3. Recorded'
      BY <2>10, SMTT(30) DEF RecordHoldFails, WriteAccepted
    <3>4. BalancesOwned'
      BY <2>10, SMTT(30) DEF RecordHoldFails, WriteAccepted, BalancesOwned
    <3> QED
      BY <3>1, <3>2, <3>3, <3>4 DEF OwnershipKept
  <2>11. CASE ScheduleCompletion(s)
    BY <2>11 DEF ScheduleCompletion, Enqueue
  <2>12. CASE Decline(s)
    BY <2>12, SMTT(60) DEF Decline, CasStatus
  <2> QED
    BY <1>2, <2>1, <2>2, <2>3, <2>4, <2>5, <2>6, <2>7, <2>8, <2>9,
       <2>10, <2>11, <2>12 DEF SessionStep
<1>3. ASSUME NEW w \in Workers, WorkerStep(w)
      PROVE  OwnershipKept
  <2>1. ASSUME NEW r \in RequestIds, StartExpire(w, r)
        PROVE  OwnershipKept
    BY <2>1 DEF StartExpire
  <2>2. ASSUME NEW r \in RequestIds, StartComplete(w, r)
        PROVE  OwnershipKept
    BY <2>2, SMTT(60) DEF StartComplete
  <2>3. CASE ExpireIfPending(w)
    <3> HIDE DEF BalancesOwned, OwnershipKept
    <3>1. SessionsOwn'
      BY <2>3, SMTT(60) DEF ExpireIfPending, CasStatus, EndJob
    <3>2. WorkersOwn'
      BY <2>3, SMTT(60) DEF ExpireIfPending, CasStatus, EndJob
    <3>3. Recorded'
      BY <2>3, SMTT(30) DEF ExpireIfPending, CasStatus, EndJob
    <3>4. BalancesOwned'
      BY <2>3, SMTT(30) DEF ExpireIfPending, CasStatus, EndJob, BalancesOwned
    <3> QED
      BY <3>1, <3>2, <3>3, <3>4 DEF OwnershipKept
  <2>4. CASE ExpireFails(w)
    <3> HIDE DEF BalancesOwned, OwnershipKept
    <3>1. SessionsOwn'
      BY <2>4, SMTT(60) DEF ExpireFails, CasStatus, EndJob
    <3>2. WorkersOwn'
      BY <2>4, SMTT(60) DEF ExpireFails, CasStatus, EndJob
    <3>3. Recorded'
      BY <2>4, SMTT(30) DEF ExpireFails, CasStatus, EndJob
    <3>4. BalancesOwned'
      BY <2>4, SMTT(30) DEF ExpireFails, CasStatus, EndJob, BalancesOwned
    <3> QED
      BY <3>1, <3>2, <3>3, <3>4 DEF OwnershipKept
  <2>5. CASE BeginClaim(w)
    <3> HIDE DEF BalancesOwned, OwnershipKept
    <3>1. SessionsOwn'
      BY <2>5, SMTT(60) DEF BeginClaim, CasStatus, EndJob
    <3>2. WorkersOwn'
      BY <2>5, SMTT(60) DEF BeginClaim, CasStatus, EndJob
    <3>3. Recorded'
      BY <2>5, SMTT(30) DEF BeginClaim, CasStatus, EndJob
    <3>4. BalancesOwned'
      BY <2>5, SMTT(30) DEF BeginClaim, CasStatus, EndJob, BalancesOwned
    <3> QED
      BY <3>1, <3>2, <3>3, <3>4 DEF OwnershipKept
  <2>6. CASE BeginClaimFails(w)
    <3> HIDE DEF BalancesOwned, OwnershipKept
    <3>1. SessionsOwn'
      BY <2>6, SMTT(60) DEF BeginClaimFails, CasStatus, EndJob
    <3>2. WorkersOwn'
      BY <2>6, SMTT(60) DEF BeginClaimFails, CasStatus, EndJob
    <3>3. Recorded'
      BY <2>6, SMTT(30) DEF BeginClaimFails, CasStatus, EndJob
    <3>4. BalancesOwned'
      BY <2>6, SMTT(30) DEF BeginClaimFails, CasStatus, EndJob, BalancesOwned
    <3> QED
      BY <3>1, <3>2, <3>3, <3>4 DEF OwnershipKept
  <2>7. CASE LoadWallet(w)
    BY <2>7 DEF LoadWallet, EndJob
  <2>8. CASE Claim(w)
    BY <2>8 DEF Claim
  <2>9. CASE ClaimFails(w)
    BY <2>9 DEF ClaimFails
  <2>10. CASE Settle(w)
    BY <2>10 DEF Settle, EndJob
  <2>11. CASE SettleFails(w)
    BY <2>11 DEF SettleFails, EndJob
  <2>12. CASE RevertToAccepted(w)
    BY <2>12 DEF RevertToAccepted, CasStatus, EndJob
  <2> QED
    BY <1>3, <2>1, <2>2, <2>3, <2>4, <2>5, <2>6, <2>7, <2>8, <2>9,
       <2>10, <2>11, <2>12 DEF WorkerStep
<1>4. CASE Environment
  <2>1. ASSUME NEW r \in RequestIds, ReachExpiry(r)
        PROVE  OwnershipKept
    BY <2>1 DEF ReachExpiry
  <2>2. ASSUME NEW b \in BalanceIds, CloseReclaimWindow(b) \/ Reclaim(b)
        PROVE  OwnershipKept
    BY <2>2 DEF CloseReclaimWindow, Reclaim
  <2>3. ASSUME NEW w \in Workers, Stall(w) \/ CrashWorker(w)
        PROVE  OwnershipKept
    BY <2>3, SMTT(60) DEF Stall, CrashWorker, Requeue
  <2>4. ASSUME NEW s \in Sessions, CrashSession(s)
        PROVE  OwnershipKept
    BY <2>4 DEF CrashSession
  <2> QED
    BY <1>4, <2>1, <2>2, <2>3, <2>4 DEF Environment
<1>5. CASE UNCHANGED vars
  BY <1>5
<1> QED
  BY <1>1, <1>2, <1>3, <1>4, <1>5 DEF Next

\* The ownership invariant is inductive.
LEMMA OwnershipStep == Ownership /\ [Next]_vars => Ownership'
  BY TypedStep, OwnershipKeptStep DEF Ownership, OwnershipKept, Typed

\* It holds before the first request.
LEMMA OwnershipInit == Init => Ownership
<1> SUFFICES ASSUME Init
             PROVE  Ownership
  OBVIOUS
<1> USE ConstantsAssumption, ProcessesAssumption
        DEF Init, Procs
<1>1. TypeOK /\ FramesOK
  BY DEF TypeOK, FramesOK, Statuses, SessionPcs, WorkerPcs, Claimable,
         JobStates, CompletingPcs, ClaimingPcs
<1>2. SessionsOwn /\ WorkersOwn
  BY DEF SessionsOwn, WorkersOwn, Accepting, Completing, Claiming,
         AcceptingPcs, CompletingPcs, HoldingPcs, ClaimingPcs
<1>3. Recorded /\ BalancesOwned
  BY DEF Recorded, BalancesOwned, Funded
<1> QED
  BY <1>1, <1>2, <1>3 DEF Ownership

\* The inductive invariant that holds under every fault.
THEOREM OwnershipInvariant == Spec => []Ownership
<1>1. QED
  BY OwnershipInit, OwnershipStep, PTL DEF Spec

\* The conditional updates exclude each other: one session between taking and
\* settling a hold, one worker between COMPLETING and its end.
THEOREM OneOwnerCorrect == Spec => []OneOwner
<1>1. Ownership => OneOwner
  BY ProcessesAssumption
     DEF Ownership, FramesOK, SessionsOwn, WorkersOwn, OneOwner, Accepting,
         Claiming, AcceptingPcs, HoldingPcs, ClaimingPcs
<1>2. QED
  BY <1>1, OwnershipInvariant, PTL

\* A requester is paid at most once for a request, also when Stellar replies
\* are lost and a second hold was placed.
THEOREM PaidAtMostOnceCorrect == Spec => []PaidAtMostOnce
<1>1. Ownership => PaidAtMostOnce
  BY DEF Ownership, BalancesOwned, PaidAtMostOnce
<1>2. QED
  BY <1>1, OwnershipInvariant, PTL

FinalKept ==
    \A r \in RequestIds :
        /\ status[r] \in Final => status'[r] = status[r]
        /\ balanceId[r] # None => balanceId'[r] = balanceId[r]

\* A final status and a recorded balance id are never overwritten: the two
\* updates by id run only under HOLDING and COMPLETING.
LEMMA FinalKeptStep == Ownership /\ [Next]_vars => FinalKept
<1> SUFFICES ASSUME Ownership, [Next]_vars
             PROVE  FinalKept
  OBVIOUS
<1> USE ConstantsAssumption, ProcessesAssumption
        DEF TypeOK, FramesOK, rows, jobs, escrow, vars, Procs, SessionPcs, WorkerPcs,
            Statuses, JobStates, Claimable, Goto, Return, HoldingPcs, ClaimingPcs,
            AcceptingPcs, CompletingPcs, Funded, Accepting, Completing, Claiming,
            Ownership, SessionsOwn, WorkersOwn, Recorded, BalancesOwned,
            Final, FinalKept
<1>1. ASSUME NEW s \in Sessions, Command(s)
      PROVE  FinalKept
  BY <1>1 DEF Command, CountPending, BeginAccept, BeginDecline, Answerable
<1>2. ASSUME NEW s \in Sessions, SessionStep(s)
      PROVE  FinalKept
  <2>1. CASE CreateRow(s)
    BY <2>1 DEF CreateRow, NewRow
  <2>2. CASE CreateRowFails(s)
    BY <2>2 DEF CreateRowFails, NewRow
  <2>3. CASE ScheduleExpiry(s)
    BY <2>3 DEF ScheduleExpiry, Enqueue
  <2>4. CASE TakeHold(s)
    BY <2>4 DEF TakeHold, CasStatus
  <2>5. CASE TakeHoldFails(s)
    BY <2>5 DEF TakeHoldFails, CasStatus
  <2>6. CASE PlaceHold(s)
    BY <2>6 DEF PlaceHold, Fund
  <2>7. CASE PlaceHoldFails(s)
    BY <2>7 DEF PlaceHoldFails, Fund
  <2>8. CASE ReleaseHold(s)
    BY <2>8 DEF ReleaseHold, CasStatus
  <2>9. CASE RecordHold(s)
    BY <2>9 DEF RecordHold, WriteAccepted
  <2>10. CASE RecordHoldFails(s)
    BY <2>10 DEF RecordHoldFails, WriteAccepted
  <2>11. CASE ScheduleCompletion(s)
    BY <2>11 DEF ScheduleCompletion, Enqueue
  <2>12. CASE Decline(s)
    BY <2>12, SMTT(30) DEF Decline, CasStatus
  <2> QED
    BY <1>2, <2>1, <2>2, <2>3, <2>4, <2>5, <2>6, <2>7, <2>8, <2>9,
       <2>10, <2>11, <2>12 DEF SessionStep
<1>3. ASSUME NEW w \in Workers, WorkerStep(w)
      PROVE  FinalKept
  <2>1. ASSUME NEW r \in RequestIds, StartExpire(w, r)
        PROVE  FinalKept
    BY <2>1 DEF StartExpire
  <2>2. ASSUME NEW r \in RequestIds, StartComplete(w, r)
        PROVE  FinalKept
    BY <2>2, SMTT(30) DEF StartComplete
  <2>3. CASE ExpireIfPending(w)
    BY <2>3 DEF ExpireIfPending, CasStatus, EndJob
  <2>4. CASE ExpireFails(w)
    BY <2>4 DEF ExpireFails, CasStatus, EndJob
  <2>5. CASE BeginClaim(w)
    BY <2>5 DEF BeginClaim, CasStatus, EndJob
  <2>6. CASE BeginClaimFails(w)
    BY <2>6 DEF BeginClaimFails, CasStatus, EndJob
  <2>7. CASE LoadWallet(w)
    BY <2>7 DEF LoadWallet, EndJob
  <2>8. CASE Claim(w)
    BY <2>8 DEF Claim
  <2>9. CASE ClaimFails(w)
    BY <2>9 DEF ClaimFails
  <2>10. CASE Settle(w)
    BY <2>10 DEF Settle, EndJob
  <2>11. CASE SettleFails(w)
    BY <2>11 DEF SettleFails, EndJob
  <2>12. CASE RevertToAccepted(w)
    BY <2>12 DEF RevertToAccepted, CasStatus, EndJob
  <2> QED
    BY <1>3, <2>1, <2>2, <2>3, <2>4, <2>5, <2>6, <2>7, <2>8, <2>9,
       <2>10, <2>11, <2>12 DEF WorkerStep
<1>4. CASE Environment
  <2>1. ASSUME NEW r \in RequestIds, ReachExpiry(r)
        PROVE  FinalKept
    BY <2>1 DEF ReachExpiry
  <2>2. ASSUME NEW b \in BalanceIds, CloseReclaimWindow(b) \/ Reclaim(b)
        PROVE  FinalKept
    BY <2>2 DEF CloseReclaimWindow, Reclaim
  <2>3. ASSUME NEW w \in Workers, Stall(w) \/ CrashWorker(w)
        PROVE  FinalKept
    BY <2>3 DEF Stall, CrashWorker, Requeue
  <2>4. ASSUME NEW s \in Sessions, CrashSession(s)
        PROVE  FinalKept
    BY <2>4 DEF CrashSession
  <2> QED
    BY <1>4, <2>1, <2>2, <2>3, <2>4 DEF Environment
<1>5. CASE UNCHANGED vars
  BY <1>5
<1> QED
  BY <1>1, <1>2, <1>3, <1>4, <1>5 DEF Next

\* DECLINED, EXPIRED and COMPLETED are final under every fault.
THEOREM FinalForeverCorrect == Spec => FinalForever
<1>1. Ownership /\ [Next]_vars => [FinalKept]_vars
  BY FinalKeptStep
<1>2. [FinalKept]_vars => [\A r \in RequestIds : status[r] \in Final => status'[r] = status[r]]_vars
  BY DEF FinalKept
<1>3. QED
  BY <1>1, <1>2, OwnershipInvariant, PTL DEF Spec, FinalForever

\* A recorded balance id is never exchanged for another one.
THEOREM BalanceIdStableCorrect == Spec => BalanceIdStable
<1>1. Ownership /\ [Next]_vars => [FinalKept]_vars
  BY FinalKeptStep
<1>2. [FinalKept]_vars =>
         [\A r \in RequestIds : balanceId[r] # None => balanceId'[r] = balanceId[r]]_vars
  BY DEF FinalKept
<1>3. QED
  BY <1>1, <1>2, OwnershipInvariant, PTL DEF Spec, BalanceIdStable

-----------------------------------------------------------------------------
(* Without lost replies of Stellar, the ledger and the status agree *)

EscrowKept ==
    /\ UnansweredUnfunded'
    /\ NoDoubleHold'
    /\ EscrowAgrees'
    /\ NothingFundedYet'
    /\ ClaimsAreSeen'

\* A hold is placed only for an unfunded request, HOLDING is given back only
\* unfunded, and a worker knows whether its claim took effect.
LEMMA EscrowKeptStep ==
    ASSUME "ledgerReplyLost" \notin Faults, Escrow, [Next]_vars
    PROVE  EscrowKept
<1> USE ConstantsAssumption, ProcessesAssumption
        DEF TypeOK, FramesOK, rows, jobs, escrow, vars, Procs, SessionPcs, WorkerPcs,
            Statuses, JobStates, Claimable, Goto, Return, HoldingPcs, ClaimingPcs,
            AcceptingPcs, CompletingPcs, Funded, Accepting, Completing, Claiming,
            Ownership, SessionsOwn, WorkersOwn, Recorded, BalancesOwned,
            Escrow, EscrowKept, UnansweredUnfunded, FundedFor, NoDoubleHold,
            EscrowAgrees, NothingFundedYet, ClaimsAreSeen
<1>1. ASSUME NEW s \in Sessions, Command(s)
      PROVE  EscrowKept
  BY <1>1 DEF Command, CountPending, BeginAccept, BeginDecline, Answerable
<1>2. ASSUME NEW s \in Sessions, SessionStep(s)
      PROVE  EscrowKept
  <2>1. CASE CreateRow(s)
    BY <2>1 DEF CreateRow, NewRow
  <2>2. CASE CreateRowFails(s)
    BY <2>2 DEF CreateRowFails, NewRow
  <2>3. CASE ScheduleExpiry(s)
    BY <2>3 DEF ScheduleExpiry, Enqueue
  <2>4. CASE TakeHold(s)
    BY <2>4, SMTT(30) DEF TakeHold, CasStatus
  <2>5. CASE TakeHoldFails(s)
    BY <2>5 DEF TakeHoldFails, CasStatus
  <2>6. CASE PlaceHold(s)
    BY <2>6 DEF PlaceHold, Fund
  <2>7. CASE PlaceHoldFails(s)
    BY <2>7 DEF PlaceHoldFails, Fund
  <2>8. CASE ReleaseHold(s)
    BY <2>8 DEF ReleaseHold, CasStatus
  <2>9. CASE RecordHold(s)
    BY <2>9 DEF RecordHold, WriteAccepted
  <2>10. CASE RecordHoldFails(s)
    BY <2>10, SMTT(30) DEF RecordHoldFails, WriteAccepted
  <2>11. CASE ScheduleCompletion(s)
    BY <2>11 DEF ScheduleCompletion, Enqueue
  <2>12. CASE Decline(s)
    BY <2>12 DEF Decline, CasStatus
  <2> QED
    BY <1>2, <2>1, <2>2, <2>3, <2>4, <2>5, <2>6, <2>7, <2>8, <2>9,
       <2>10, <2>11, <2>12 DEF SessionStep
<1>3. ASSUME NEW w \in Workers, WorkerStep(w)
      PROVE  EscrowKept
  <2>1. ASSUME NEW r \in RequestIds, StartExpire(w, r)
        PROVE  EscrowKept
    BY <2>1 DEF StartExpire
  <2>2. ASSUME NEW r \in RequestIds, StartComplete(w, r)
        PROVE  EscrowKept
    BY <2>2, SMTT(60) DEF StartComplete
  <2>3. CASE ExpireIfPending(w)
    BY <2>3 DEF ExpireIfPending, CasStatus, EndJob
  <2>4. CASE ExpireFails(w)
    BY <2>4 DEF ExpireFails, CasStatus, EndJob
  <2>5. CASE BeginClaim(w)
    BY <2>5 DEF BeginClaim, CasStatus, EndJob
  <2>6. CASE BeginClaimFails(w)
    BY <2>6 DEF BeginClaimFails, CasStatus, EndJob
  <2>7. CASE LoadWallet(w)
    BY <2>7 DEF LoadWallet, EndJob
  <2>8. CASE Claim(w)
    <3> HIDE DEF EscrowKept, NoDoubleHold, UnansweredUnfunded, EscrowAgrees
    <3>1. UnansweredUnfunded'
      BY <2>8, SMTT(30) DEF Claim, UnansweredUnfunded
    <3>2. NoDoubleHold'
      BY <2>8, SMTT(30) DEF Claim, NoDoubleHold
    <3>3. EscrowAgrees'
      BY <2>8, SMTT(30) DEF Claim, EscrowAgrees
    <3>4. NothingFundedYet'
      BY <2>8, SMTT(30) DEF Claim
    <3>5. ClaimsAreSeen'
      BY <2>8, SMTT(30) DEF Claim
    <3> QED
      BY <3>1, <3>2, <3>3, <3>4, <3>5 DEF EscrowKept
  <2>9. CASE ClaimFails(w)
    BY <2>9 DEF ClaimFails
  <2>10. CASE Settle(w)
    BY <2>10 DEF Settle, EndJob
  <2>11. CASE SettleFails(w)
    BY <2>11 DEF SettleFails, EndJob
  <2>12. CASE RevertToAccepted(w)
    BY <2>12 DEF RevertToAccepted, CasStatus, EndJob
  <2> QED
    BY <1>3, <2>1, <2>2, <2>3, <2>4, <2>5, <2>6, <2>7, <2>8, <2>9,
       <2>10, <2>11, <2>12 DEF WorkerStep
<1>4. CASE Environment
  <2>1. ASSUME NEW r \in RequestIds, ReachExpiry(r)
        PROVE  EscrowKept
    BY <2>1 DEF ReachExpiry
  <2>2. ASSUME NEW b \in BalanceIds, CloseReclaimWindow(b) \/ Reclaim(b)
        PROVE  EscrowKept
    BY <2>2 DEF CloseReclaimWindow, Reclaim
  <2>3. ASSUME NEW w \in Workers, Stall(w) \/ CrashWorker(w)
        PROVE  EscrowKept
    BY <2>3, SMTT(30) DEF Stall, CrashWorker, Requeue
  <2>4. ASSUME NEW s \in Sessions, CrashSession(s)
        PROVE  EscrowKept
    BY <2>4 DEF CrashSession
  <2> QED
    BY <1>4, <2>1, <2>2, <2>3, <2>4 DEF Environment
<1>5. CASE UNCHANGED vars
  BY <1>5
<1> QED
  BY <1>1, <1>2, <1>3, <1>4, <1>5 DEF Next

\* The escrow invariant is inductive while no reply is lost.
LEMMA EscrowStep ==
    ASSUME "ledgerReplyLost" \notin Faults
    PROVE  Escrow /\ [Next]_vars => Escrow'
  BY OwnershipStep, EscrowKeptStep DEF Escrow, EscrowKept

\* It holds before the first request.
LEMMA EscrowInit == Init => Escrow
<1> SUFFICES ASSUME Init
             PROVE  Escrow
  OBVIOUS
<1>1. Ownership
  BY OwnershipInit
<1>2. UnansweredUnfunded /\ NoDoubleHold /\ EscrowAgrees /\ NothingFundedYet /\ ClaimsAreSeen
  BY ConstantsAssumption, ProcessesAssumption
     DEF Init, UnansweredUnfunded, FundedFor, NoDoubleHold, EscrowAgrees,
         NothingFundedYet, ClaimsAreSeen, ClaimingPcs, Procs
<1> QED
  BY <1>1, <1>2 DEF Escrow

\* The inductive invariant behind the next three theorems.
THEOREM EscrowInvariant ==
    ASSUME "ledgerReplyLost" \notin Faults
    PROVE  Spec => []Escrow
<1>1. Escrow /\ [Next]_vars => Escrow'
  BY EscrowStep
<1>2. QED
  BY <1>1, EscrowInit, PTL DEF Spec

\* No request funds two claimable balances.
THEOREM NoDoubleHoldCorrect ==
    ASSUME "ledgerReplyLost" \notin Faults
    PROVE  Spec => []NoDoubleHold
<1>1. Escrow => NoDoubleHold
  BY DEF Escrow
<1>2. Spec => []Escrow
  BY EscrowInvariant
<1>3. QED
  BY <1>1, <1>2, PTL

\* A request that is open or refused has no money of the respondent locked.
THEOREM UnansweredUnfundedCorrect ==
    ASSUME "ledgerReplyLost" \notin Faults
    PROVE  Spec => []UnansweredUnfunded
<1>1. Escrow => UnansweredUnfunded
  BY DEF Escrow
<1>2. Spec => []Escrow
  BY EscrowInvariant
<1>3. QED
  BY <1>1, <1>2, PTL

\* The status tells the truth about the balance.
THEOREM EscrowAgreesCorrect ==
    ASSUME "ledgerReplyLost" \notin Faults
    PROVE  Spec => []EscrowAgrees
<1>1. Escrow => EscrowAgrees
  BY DEF Escrow
<1>2. Spec => []Escrow
  BY EscrowInvariant
<1>3. QED
  BY <1>1, <1>2, PTL

-----------------------------------------------------------------------------
(* The refinement of EscrowPromise *)

\* Each step moves one status or one balance.
LEMMA OneThingAtATimeStep ==
    ASSUME "ledgerReplyLost" \notin Faults, Escrow, [Next]_vars
    PROVE  OneThingAtATime
<1> USE ConstantsAssumption, ProcessesAssumption
        DEF TypeOK, FramesOK, rows, jobs, escrow, vars, Procs, SessionPcs, WorkerPcs,
            Statuses, JobStates, Claimable, Goto, Return, HoldingPcs, ClaimingPcs,
            AcceptingPcs, CompletingPcs, Funded, Accepting, Completing, Claiming,
            Ownership, SessionsOwn, WorkersOwn, Recorded, BalancesOwned,
            Escrow, NothingFundedYet, OneThingAtATime, Lifecycle
<1>1. ASSUME NEW s \in Sessions, Command(s)
      PROVE  OneThingAtATime
  BY <1>1 DEF Command, CountPending, BeginAccept, BeginDecline, Answerable
<1>2. ASSUME NEW s \in Sessions, SessionStep(s)
      PROVE  OneThingAtATime
  <2>1. CASE CreateRow(s)
    BY <2>1 DEF CreateRow, NewRow, StatusMoves
  <2>2. CASE CreateRowFails(s)
    BY <2>2 DEF CreateRowFails, NewRow, StatusMoves
  <2>3. CASE ScheduleExpiry(s)
    BY <2>3 DEF ScheduleExpiry, Enqueue
  <2>4. CASE TakeHold(s)
    BY <2>4 DEF TakeHold, CasStatus, StatusMoves
  <2>5. CASE TakeHoldFails(s)
    BY <2>5 DEF TakeHoldFails, CasStatus, StatusMoves
  <2>6. CASE PlaceHold(s)
    <3>1. status[cur[s]] = "HOLDING"
      BY <2>6, SMTT(30) DEF PlaceHold
    <3>2. \A c \in BalanceIds : escrowOf[c] # cur[s]
      BY <2>6, SMTT(30) DEF PlaceHold
    <3> QED
      BY <2>6, <3>1, <3>2, SMTT(30) DEF PlaceHold, BalanceFunded
  <2>7. CASE PlaceHoldFails(s)
    BY <2>7 DEF PlaceHoldFails, Fund
  <2>8. CASE ReleaseHold(s)
    BY <2>8 DEF ReleaseHold, CasStatus, StatusMoves
  <2>9. CASE RecordHold(s)
    <3>1. CASE status[cur[s]] = "HOLDING"
      BY <2>9, <3>1 DEF RecordHold, WriteAccepted, StatusMoves
    <3>2. CASE status[cur[s]] = "ACCEPTED"
      BY <2>9, <3>2 DEF RecordHold, WriteAccepted
    <3> QED
      BY <2>9, <3>1, <3>2 DEF RecordHold
  <2>10. CASE RecordHoldFails(s)
    BY <2>10 DEF RecordHoldFails, WriteAccepted, StatusMoves
  <2>11. CASE ScheduleCompletion(s)
    BY <2>11 DEF ScheduleCompletion, Enqueue
  <2>12. CASE Decline(s)
    BY <2>12 DEF Decline, CasStatus, StatusMoves
  <2> QED
    BY <1>2, <2>1, <2>2, <2>3, <2>4, <2>5, <2>6, <2>7, <2>8, <2>9,
       <2>10, <2>11, <2>12 DEF SessionStep
<1>3. ASSUME NEW w \in Workers, WorkerStep(w)
      PROVE  OneThingAtATime
  <2>1. ASSUME NEW r \in RequestIds, StartExpire(w, r)
        PROVE  OneThingAtATime
    BY <2>1 DEF StartExpire
  <2>2. ASSUME NEW r \in RequestIds, StartComplete(w, r)
        PROVE  OneThingAtATime
    BY <2>2 DEF StartComplete
  <2>3. CASE ExpireIfPending(w)
    BY <2>3 DEF ExpireIfPending, CasStatus, StatusMoves, EndJob
  <2>4. CASE ExpireFails(w)
    BY <2>4 DEF ExpireFails, CasStatus, StatusMoves, EndJob
  <2>5. CASE BeginClaim(w)
    BY <2>5 DEF BeginClaim, CasStatus, StatusMoves, EndJob
  <2>6. CASE BeginClaimFails(w)
    BY <2>6 DEF BeginClaimFails, CasStatus, StatusMoves, EndJob
  <2>7. CASE LoadWallet(w)
    BY <2>7 DEF LoadWallet, EndJob
  <2>8. CASE Claim(w)
    <3>1. status[escrowOf[got[w]]] = "COMPLETING" /\ got[w] \in BalanceIds
      BY <2>8 DEF Claim
    <3> QED
      BY <2>8, <3>1 DEF Claim, BalanceClaimed
  <2>9. CASE ClaimFails(w)
    BY <2>9 DEF ClaimFails
  <2>10. CASE Settle(w)
    BY <2>10 DEF Settle, EndJob, StatusMoves
  <2>11. CASE SettleFails(w)
    BY <2>11 DEF SettleFails, EndJob, StatusMoves
  <2>12. CASE RevertToAccepted(w)
    BY <2>12 DEF RevertToAccepted, CasStatus, StatusMoves, EndJob
  <2> QED
    BY <1>3, <2>1, <2>2, <2>3, <2>4, <2>5, <2>6, <2>7, <2>8, <2>9,
       <2>10, <2>11, <2>12 DEF WorkerStep
<1>4. CASE Environment
  <2>1. ASSUME NEW r \in RequestIds, ReachExpiry(r)
        PROVE  OneThingAtATime
    BY <2>1 DEF ReachExpiry
  <2>2. ASSUME NEW b \in BalanceIds, CloseReclaimWindow(b) \/ Reclaim(b)
        PROVE  OneThingAtATime
    BY <2>2 DEF CloseReclaimWindow, Reclaim, BalanceAges
  <2>3. ASSUME NEW w \in Workers, Stall(w) \/ CrashWorker(w)
        PROVE  OneThingAtATime
    BY <2>3 DEF Stall, CrashWorker, Requeue
  <2>4. ASSUME NEW s \in Sessions, CrashSession(s)
        PROVE  OneThingAtATime
    BY <2>4 DEF CrashSession
  <2> QED
    BY <1>4, <2>1, <2>2, <2>3, <2>4 DEF Environment
<1>5. CASE UNCHANGED vars
  BY <1>5
<1> QED
  BY <1>1, <1>2, <1>3, <1>4, <1>5 DEF Next

\* Where the money of each request is, read off its balance.
MoneyFollowsBalances ==
    \A b \in BalanceIds : escrowOf[b] # None =>
        /\ ledger[b] \in Claimable => MoneyOf(escrowOf[b]) = "locked"
        /\ ledger[b] = "claimed" => MoneyOf(escrowOf[b]) = "paid"
        /\ ledger[b] = "reclaimed" => MoneyOf(escrowOf[b]) = "returned"

\* Where the money of a request is, when it has one balance or none.
LEMMA MoneyOfOne == TypeOK /\ NoDoubleHold => MoneyFollowsBalances
<1> SUFFICES ASSUME TypeOK, NoDoubleHold, NEW b \in BalanceIds, escrowOf[b] # None
             PROVE  /\ ledger[b] \in Claimable => MoneyOf(escrowOf[b]) = "locked"
                    /\ ledger[b] = "claimed" => MoneyOf(escrowOf[b]) = "paid"
                    /\ ledger[b] = "reclaimed" => MoneyOf(escrowOf[b]) = "returned"
  BY DEF MoneyFollowsBalances
<1>1. FundedFor(escrowOf[b]) = {b}
  BY DEF FundedFor, NoDoubleHold
<1> QED
  BY <1>1 DEF MoneyOf, Claimable

\* The invariant is enough for that.
LEMMA EscrowShowsMoney == Escrow => MoneyFollowsBalances
  BY MoneyOfOne DEF Escrow, Ownership

\* An unfunded request leaves the money untouched.
LEMMA MoneyOfNone ==
    \A r \in RequestIds :
        (\A b \in BalanceIds : escrowOf[b] # r) => MoneyOf(r) = "untouched"
  BY DEF MoneyOf, FundedFor

\* The promise to one request reads only the balances funded for it.
LEMMA MoneyOfOthers ==
    ASSUME NEW b \in BalanceIds, NEW q \in RequestIds, TypeOK, TypeOK',
           escrowOf[b] # q, escrowOf'[b] # q,
           \A c \in BalanceIds : c # b => ledger'[c] = ledger[c] /\ escrowOf'[c] = escrowOf[c]
    PROVE  MoneyOf(q)' = MoneyOf(q)
<1>1. FundedFor(q)' = FundedFor(q)
  BY DEF FundedFor
<1>2. \A c \in FundedFor(q) : ledger'[c] = ledger[c]
  BY DEF FundedFor
<1> QED
  BY <1>1, <1>2 DEF MoneyOf

\* A step of the lifecycle is a step of the promise or invisible.
LEMMA StatusMoveKeepsPromise ==
    ASSUME Escrow, Escrow', NEW r \in RequestIds, StatusMoves(r)
    PROVE  [Promise!PromiseNext]_(Promise!promise)
<1> USE DEF Promise!Moves
<1>1. shownMoney' = shownMoney
  BY DEF StatusMoves, escrow, shownMoney, MoneyOf, FundedFor
<1>2. shownAnswer' = [shownAnswer EXCEPT ![r] = AnswerOf(r)']
  BY DEF StatusMoves, shownAnswer, AnswerOf, Escrow, Ownership, TypeOK
<1>3. PICK edge \in Lifecycle :
          status[r] = edge[1] /\ status' = [status EXCEPT ![r] = edge[2]]
  BY DEF StatusMoves
<1>4. CASE edge = <<"ABSENT", "PENDING">>
  <2>1. shownAnswer[r] = "absent" /\ AnswerOf(r)' = "asked"
    BY <1>3, <1>4 DEF shownAnswer, AnswerOf, Escrow, Ownership, TypeOK
  <2>2. Promise!Ask(r)
    BY <1>1, <1>2, <2>1 DEF Promise!Ask, shownAnswer, shownMoney
  <2> QED
    BY <2>2 DEF Promise!PromiseNext
<1>5. CASE edge \in {<<"PENDING", "DECLINED">>, <<"PENDING", "EXPIRED">>}
  <2>1. shownAnswer[r] = "asked" /\ AnswerOf(r)' = "refused"
    BY <1>3, <1>5 DEF shownAnswer, AnswerOf, Escrow, Ownership, TypeOK
  <2>2. shownMoney[r] = "untouched"
    BY <1>3, <1>5, MoneyOfNone DEF Escrow, UnansweredUnfunded, FundedFor, shownMoney
  <2>3. Promise!Refuse(r)
    BY <1>1, <1>2, <2>1, <2>2 DEF Promise!Refuse, shownAnswer, shownMoney
  <2> QED
    BY <2>3 DEF Promise!PromiseNext
<1>6. CASE edge = <<"HOLDING", "ACCEPTED">>
  <2>1. shownAnswer[r] = "asked" /\ AnswerOf(r)' = "agreed"
    BY <1>3, <1>6 DEF shownAnswer, AnswerOf, Escrow, Ownership, TypeOK
  <2>2. status'[r] = "ACCEPTED"
    BY <1>3, <1>6 DEF Escrow, Ownership, TypeOK
  <2>3. PICK b \in BalanceIds : escrowOf'[b] = r /\ ledger'[b] # "claimed"
    BY <2>2 DEF Escrow, EscrowAgrees, FundedFor
  <2>4. escrowOf[b] = r /\ ledger[b] \notin {"claimed", "none"}
    BY <2>3, ConstantsAssumption
       DEF StatusMoves, escrow, Escrow, Ownership, BalancesOwned
  <2>5. shownMoney[r] \in {"locked", "returned"}
    BY <2>4, EscrowShowsMoney, ConstantsAssumption
       DEF MoneyFollowsBalances, shownMoney, Escrow, Ownership, TypeOK, Claimable
  <2>6. Promise!Agree(r)
    BY <1>1, <1>2, <2>1, <2>5 DEF Promise!Agree, shownAnswer, shownMoney
  <2> QED
    BY <2>6 DEF Promise!PromiseNext
<1>7. CASE edge = <<"COMPLETING", "COMPLETED">>
  <2>1. shownAnswer[r] = "agreed" /\ AnswerOf(r)' = "done"
    BY <1>3, <1>7 DEF shownAnswer, AnswerOf, Escrow, Ownership, TypeOK
  <2>2. status'[r] = "COMPLETED"
    BY <1>3, <1>7 DEF Escrow, Ownership, TypeOK
  <2>3. PICK b \in BalanceIds : escrowOf'[b] = r /\ ledger'[b] = "claimed"
    BY <2>2 DEF Escrow, EscrowAgrees, FundedFor
  <2>4. escrowOf[b] = r /\ ledger[b] = "claimed"
    BY <2>3 DEF StatusMoves, escrow
  <2>5. shownMoney[r] = "paid"
    BY <2>4, EscrowShowsMoney, ConstantsAssumption DEF MoneyFollowsBalances, shownMoney
  <2>6. Promise!Conclude(r)
    BY <1>1, <1>2, <2>1, <2>5 DEF Promise!Conclude, shownAnswer, shownMoney
  <2> QED
    BY <2>6 DEF Promise!PromiseNext
<1>8. CASE edge \in {<<"PENDING", "HOLDING">>, <<"HOLDING", "PENDING">>,
                     <<"ACCEPTED", "COMPLETING">>, <<"COMPLETING", "ACCEPTED">>}
  <2>1. AnswerOf(r)' = shownAnswer[r]
    BY <1>3, <1>8 DEF shownAnswer, AnswerOf, Escrow, Ownership, TypeOK
  <2>2. shownAnswer' = shownAnswer
    BY <1>2, <2>1 DEF shownAnswer
  <2> QED
    BY <1>1, <2>2 DEF Promise!promise, shownAnswer, shownMoney
<1> QED
  BY <1>3, <1>4, <1>5, <1>6, <1>7, <1>8 DEF Lifecycle

\* Placing a hold locks the money.
LEMMA FundingKeepsPromise ==
    ASSUME Escrow, Escrow', UNCHANGED status,
           NEW b \in BalanceIds, NEW r \in RequestIds, BalanceFunded(b, r)
    PROVE  [Promise!PromiseNext]_(Promise!promise)
<1>1. UNCHANGED shownAnswer
  BY DEF shownAnswer, AnswerOf
<1>2. shownAnswer[r] = "asked"
  BY DEF shownAnswer, AnswerOf, BalanceFunded
<1>3. shownMoney[r] = "untouched"
  BY MoneyOfNone DEF shownMoney, BalanceFunded
<1>4. escrowOf[b] = None /\ escrowOf'[b] = r /\ ledger'[b] = "open"
  BY DEF BalanceFunded, Fund, Escrow, Ownership, BalancesOwned, TypeOK
<1>5. MoneyOf(r)' = "locked"
  <2>1. MoneyFollowsBalances'
    BY EscrowShowsMoney, PTL
  <2> QED
    BY <2>1, <1>4, ConstantsAssumption DEF MoneyFollowsBalances, Claimable
<1>6. \A q \in RequestIds : q # r => MoneyOf(q)' = MoneyOf(q)
  BY <1>4, MoneyOfOthers, ConstantsAssumption
     DEF BalanceFunded, Fund, Escrow, Ownership, TypeOK
<1>7. shownMoney' = [shownMoney EXCEPT ![r] = "locked"]
  BY <1>5, <1>6 DEF shownMoney
<1>8. Promise!Lock(r)
  BY <1>1, <1>2, <1>3, <1>7 DEF Promise!Lock, Promise!Moves
<1> QED
  BY <1>8 DEF Promise!PromiseNext

\* Claiming the balance pays the requester.
LEMMA ClaimKeepsPromise ==
    ASSUME Escrow, Escrow', UNCHANGED status, NEW b \in BalanceIds, BalanceClaimed(b)
    PROVE  [Promise!PromiseNext]_(Promise!promise)
<1>1. PICK r \in RequestIds :
          /\ r = escrowOf[b] /\ r # None
          /\ escrowOf' = escrowOf
          /\ ledger'[b] = "claimed"
          /\ \A c \in BalanceIds : c # b => ledger'[c] = ledger[c]
  BY ConstantsAssumption
     DEF BalanceClaimed, Claimable, Escrow, Ownership, BalancesOwned, TypeOK
<1>2. UNCHANGED shownAnswer
  BY DEF shownAnswer, AnswerOf
<1>3. shownAnswer[r] = "agreed"
  BY <1>1 DEF shownAnswer, AnswerOf, BalanceClaimed
<1>4. MoneyFollowsBalances /\ MoneyFollowsBalances'
  BY EscrowShowsMoney, PTL
<1>5. shownMoney[r] = "locked"
  BY <1>1, <1>4 DEF MoneyFollowsBalances, shownMoney, BalanceClaimed
<1>6. MoneyOf(r)' = "paid"
  BY <1>1, <1>4 DEF MoneyFollowsBalances
<1>7. \A q \in RequestIds : q # r => MoneyOf(q)' = MoneyOf(q)
  BY <1>1, MoneyOfOthers DEF Escrow, Ownership
<1>8. shownMoney' = [shownMoney EXCEPT ![r] = "paid"]
  BY <1>6, <1>7 DEF shownMoney
<1>9. Promise!Pay(r)
  BY <1>2, <1>3, <1>5, <1>8 DEF Promise!Pay, Promise!Moves
<1> QED
  BY <1>1, <1>9 DEF Promise!PromiseNext

\* The reclaim window ends unseen; reclaiming returns the money.
LEMMA AgingKeepsPromise ==
    ASSUME Escrow, Escrow', UNCHANGED status, NEW b \in BalanceIds, BalanceAges(b)
    PROVE  [Promise!PromiseNext]_(Promise!promise)
<1>1. PICK r \in RequestIds :
          /\ r = escrowOf[b] /\ r # None
          /\ escrowOf' = escrowOf
          /\ ledger'[b] \in {"closed", "reclaimed"}
          /\ \A c \in BalanceIds : c # b => ledger'[c] = ledger[c]
  BY ConstantsAssumption
     DEF BalanceAges, Escrow, Ownership, BalancesOwned, TypeOK
<1>2. UNCHANGED shownAnswer
  BY DEF shownAnswer, AnswerOf
<1>3. MoneyFollowsBalances /\ MoneyFollowsBalances'
  BY EscrowShowsMoney, PTL
<1>4. shownMoney[r] = "locked"
  BY <1>1, <1>3 DEF MoneyFollowsBalances, shownMoney, BalanceAges, Claimable
<1>5. \A q \in RequestIds : q # r => MoneyOf(q)' = MoneyOf(q)
  BY <1>1, MoneyOfOthers DEF Escrow, Ownership
<1>6. shownMoney' = [shownMoney EXCEPT ![r] = MoneyOf(r)']
  BY <1>5 DEF shownMoney
<1>7. CASE ledger'[b] = "closed"
  <2>1. MoneyOf(r)' = "locked"
    BY <1>1, <1>3, <1>7 DEF MoneyFollowsBalances, Claimable
  <2>2. UNCHANGED shownMoney
    BY <1>4, <1>6, <2>1 DEF shownMoney
  <2> QED
    BY <1>2, <2>2 DEF Promise!promise
<1>8. CASE ledger'[b] = "reclaimed"
  <2>1. MoneyOf(r)' = "returned"
    BY <1>1, <1>3, <1>8 DEF MoneyFollowsBalances
  <2>2. Promise!TakeBack(r)
    BY <1>2, <1>4, <1>6, <2>1 DEF Promise!TakeBack, Promise!Moves
  <2> QED
    BY <1>1, <2>2 DEF Promise!PromiseNext
<1> QED
  BY <1>1, <1>7, <1>8

\* A step of the escrow is a step of the promise or a stutter.
LEMMA StepKeepsPromise ==
    ASSUME "ledgerReplyLost" \notin Faults, Escrow, Escrow', [Next]_vars
    PROVE  [Promise!PromiseNext]_(Promise!promise)
<1>1. OneThingAtATime
  BY OneThingAtATimeStep
<1>2. CASE UNCHANGED <<status, escrow>>
  BY <1>2 DEF Promise!promise, shownAnswer, shownMoney, AnswerOf, MoneyOf,
              FundedFor, escrow
<1> QED
  BY <1>1, <1>2, StatusMoveKeepsPromise, FundingKeepsPromise, ClaimKeepsPromise,
     AgingKeepsPromise DEF OneThingAtATime

\* Payment requests implement what they promise the requester and the
\* respondent.
THEOREM PromiseKept ==
    ASSUME "ledgerReplyLost" \notin Faults
    PROVE  Spec => KeepsPromise
<1>1. Init => Promise!PromiseInit
  <2> SUFFICES ASSUME Init
               PROVE  Promise!PromiseInit
    OBVIOUS
  <2>1. \A r \in RequestIds : AnswerOf(r) = "absent"
    BY DEF Init, AnswerOf
  <2>2. \A r \in RequestIds : MoneyOf(r) = "untouched"
    BY ConstantsAssumption, MoneyOfNone DEF Init
  <2> QED
    BY <2>1, <2>2 DEF Promise!PromiseInit, shownAnswer, shownMoney
<1>2. Escrow /\ Escrow' /\ [Next]_vars => [Promise!PromiseNext]_(Promise!promise)
  BY StepKeepsPromise
<1>3. Spec => []Escrow
  BY EscrowInvariant
<1>4. QED
  BY <1>1, <1>2, <1>3, PTL DEF Spec, KeepsPromise, Promise!PromiseSpec

\* Money and status move one at a time, along the edges of the lifecycle.
THEOREM StepByStepCorrect ==
    ASSUME "ledgerReplyLost" \notin Faults
    PROVE  Spec => StepByStep
<1>1. Escrow /\ [Next]_vars => [OneThingAtATime]_vars
  BY OneThingAtATimeStep
<1>2. Spec => []Escrow
  BY EscrowInvariant
<1>3. QED
  BY <1>1, <1>2, PTL DEF Spec, StepByStep
-----------------------------------------------------------------------------
(* HOLDING and COMPLETING pass *)

LEMMA OwnerStep ==
    ASSUME Typed, TransientHasOwner, [Next]_vars, "db" \notin Faults, "crash" \notin Faults
    PROVE  TransientHasOwner'
<1> USE ProcessesAssumption
        DEF Typed, TypeOK, FramesOK, TransientHasOwner, rows, jobs, escrow, vars, Procs, Goto,
            Return, HoldingPcs, ClaimingPcs, CompletingPcs
<1>1. ASSUME NEW s \in Sessions, Command(s)
      PROVE  TransientHasOwner'
  BY <1>1 DEF Command, CountPending, BeginAccept, BeginDecline
<1>2. ASSUME NEW s \in Sessions, SessionStep(s)
      PROVE  TransientHasOwner'
  <2>1. CASE CreateRow(s)
    BY <2>1 DEF CreateRow, NewRow
  <2>2. CASE TakeHold(s)
    BY <2>2, SMTT(30) DEF TakeHold, CasStatus
  <2>3. CASE PlaceHold(s) \/ PlaceHoldFails(s) \/ ScheduleExpiry(s) \/ ScheduleCompletion(s)
    BY <2>3, SMTT(30) DEF PlaceHold, PlaceHoldFails, ScheduleExpiry, ScheduleCompletion
  <2>4. CASE ReleaseHold(s)
    BY <2>4, SMTT(30) DEF ReleaseHold, CasStatus
  <2>5. CASE RecordHold(s)
    BY <2>5, SMTT(30) DEF RecordHold, WriteAccepted
  <2>6. CASE Decline(s)
    BY <2>6, SMTT(30) DEF Decline, CasStatus
  <2> QED
    BY <1>2, <2>1, <2>2, <2>3, <2>4, <2>5, <2>6
       DEF SessionStep, CreateRowFails, TakeHoldFails, RecordHoldFails
<1>3. ASSUME NEW w \in Workers, WorkerStep(w)
      PROVE  TransientHasOwner'
  <2>1. ASSUME NEW r \in RequestIds, StartExpire(w, r) \/ StartComplete(w, r)
        PROVE  TransientHasOwner'
    BY <2>1, SMTT(30) DEF StartExpire, StartComplete
  <2>2. CASE ExpireIfPending(w)
    BY <2>2, SMTT(30) DEF ExpireIfPending, CasStatus
  <2>3. CASE BeginClaim(w)
    BY <2>3, SMTT(30) DEF BeginClaim, CasStatus
  <2>4. CASE LoadWallet(w) \/ Claim(w) \/ ClaimFails(w)
    BY <2>4, SMTT(30) DEF LoadWallet, Claim, ClaimFails
  <2>5. CASE Settle(w)
    BY <2>5, SMTT(30) DEF Settle
  <2>6. CASE RevertToAccepted(w)
    BY <2>6, SMTT(30) DEF RevertToAccepted, CasStatus
  <2> QED
    BY <1>3, <2>1, <2>2, <2>3, <2>4, <2>5, <2>6
       DEF WorkerStep, ExpireFails, BeginClaimFails, SettleFails
<1>4. CASE Environment
  BY <1>4 DEF Environment, ReachExpiry, CloseReclaimWindow, Reclaim, Stall, CrashWorker,
     CrashSession
<1>5. CASE UNCHANGED vars
  BY <1>5
<1> QED
  BY <1>1, <1>2, <1>3, <1>4, <1>5 DEF Next

\* As long as writes are answered and no process dies, a request is in HOLDING or
\* COMPLETING only while a handler works on it, whatever Stellar and the queue do:
\* every way out of acceptRequest and completeRequest gives the status back.
THEOREM TransientHasOwnerCorrect ==
    ASSUME "db" \notin Faults, "crash" \notin Faults
    PROVE  Spec => []TransientHasOwner
<1>1. Init => Ownership /\ TransientHasOwner
  BY OwnershipInit DEF Init, TransientHasOwner
<1>2. Ownership /\ TransientHasOwner /\ [Next]_vars => Ownership' /\ TransientHasOwner'
  BY OwnershipStep, OwnerStep DEF Ownership, Typed
<1> QED
  BY <1>1, <1>2, PTL DEF Spec

-----------------------------------------------------------------------------
(* How far the limit on pending requests can be passed *)

\* Rows and commands that count against u's limit only become fewer ...
NoneMore(u) == PendingOf(u)' \subseteq PendingOf(u) /\ MayAddPending(u)' \subseteq MayAddPending(u)
\* ... or a command has counted fewer rows than the limit ...
OneCounted(u) == PendingOf(u)' = PendingOf(u) /\ Cardinality(PendingOf(u)) < MaxPending
\* ... or turns into the one row it may add ...
OneAdded(u) ==
    \E s \in MayAddPending(u), r \in RequestIds :
        /\ PendingOf(u)' \subseteq PendingOf(u) \cup {r}
        /\ MayAddPending(u)' \subseteq MayAddPending(u) \ {s}
\* ... or has taken a row out, which it may give back.
OneHeld(u) ==
    \E s \in Sessions, r \in PendingOf(u) :
        /\ PendingOf(u)' = PendingOf(u) \ {r}
        /\ MayAddPending(u)' \subseteq MayAddPending(u) \cup {s}

LEMMA PendingMoves ==
    ASSUME Ownership, [Next]_vars, NEW u \in Users
    PROVE  NoneMore(u) \/ OneCounted(u) \/ OneAdded(u) \/ OneHeld(u)
<1> USE ConstantsAssumption, ProcessesAssumption
        DEF Ownership, TypeOK, FramesOK, rows, jobs, escrow, vars, Procs, Goto, Return,
            PendingOf, MayAddPending, HoldingPcs
<1>1. ASSUME UNCHANGED <<status, requester>>,
             \A t \in Sessions : \/ UNCHANGED <<pc[t], cur[t], who[t]>>
                                 \/ pc'[t] \notin HoldingPcs \cup {"create"}
                                 \/ pc[t] \in HoldingPcs /\ UNCHANGED cur[t] /\ pc'[t] # "create"
      PROVE  NoneMore(u)
  BY <1>1 DEF NoneMore
<1>2. ASSUME NEW s \in Sessions, Command(s)
      PROVE  NoneMore(u) \/ OneCounted(u)
  <2>1. ASSUME NEW v \in Users, CountPending(s, v)
        PROVE  NoneMore(u) \/ OneCounted(u)
    <3>1. CASE v = u
      BY <2>1, <3>1 DEF CountPending, OneCounted
    <3>2. CASE v # u
      BY <2>1, <3>2 DEF CountPending, NoneMore
    <3> QED
      BY <3>1, <3>2
  <2>2. ASSUME NEW r \in RequestIds, NEW v \in Users, BeginAccept(s, r, v) \/ BeginDecline(s, r, v)
        PROVE  NoneMore(u)
    BY <1>1, <2>2 DEF BeginAccept, BeginDecline
  <2> QED
    BY <1>2, <2>1, <2>2 DEF Command
<1>3. ASSUME NEW s \in Sessions, SessionStep(s)
      PROVE  NoneMore(u) \/ OneAdded(u) \/ OneHeld(u)
  \* The rows of sessions that hold one are not new.
  <2>1. ASSUME NEW r \in RequestIds, NEW v \in Users, pc[s] = "create",
               NewRow(r, who[s], v), pc'[s] \notin HoldingPcs \cup {"create"},
               \A t \in Sessions \ {s} : UNCHANGED <<pc[t], cur[t], who[t]>>
        PROVE  NoneMore(u) \/ OneAdded(u)
    <3>1. \A t \in Sessions : pc[t] \in HoldingPcs => cur[t] # r
      BY <2>1 DEF NewRow, SessionsOwn, Accepting, AcceptingPcs
    <3>2. MayAddPending(u)' \subseteq MayAddPending(u) \ {s}
      BY <2>1, <3>1 DEF NewRow
    <3>3. CASE who[s] = u
      <4>1. s \in MayAddPending(u)
        BY <2>1, <3>3
      <4>2. PendingOf(u)' \subseteq PendingOf(u) \cup {r}
        BY <2>1 DEF NewRow
      <4> QED
        BY <3>2, <4>1, <4>2 DEF OneAdded
    <3>4. CASE who[s] # u
      <4>1. PendingOf(u)' \subseteq PendingOf(u)
        BY <2>1, <3>4 DEF NewRow
      <4> QED
        BY <3>2, <4>1 DEF NoneMore
    <3> QED
      BY <3>3, <3>4
  <2>2. CASE CreateRow(s)
    <3>1. PICK r \in RequestIds, v \in Users : NewRow(r, who[s], v) /\ cur' = [cur EXCEPT ![s] = r]
      BY <2>2 DEF CreateRow
    <3> QED
      BY <2>1, <2>2, <3>1 DEF CreateRow
  <2>3. CASE CreateRowFails(s)
    <3>1. CASE UNCHANGED <<status, requester, responder>>
      BY <1>1, <2>3, <3>1 DEF CreateRowFails
    <3>2. CASE ~ UNCHANGED <<status, requester, responder>>
      <4>1. PICK r \in RequestIds, v \in Users : NewRow(r, who[s], v)
        BY <2>3, <3>2 DEF CreateRowFails
      <4> QED
        BY <2>1, <2>3, <4>1 DEF CreateRowFails
    <3> QED
      BY <3>1, <3>2
  <2>4. CASE TakeHold(s)
    <3>1. CASE status[cur[s]] = "PENDING" /\ requester[cur[s]] = u
      <4>1. cur[s] \in PendingOf(u)
        BY <2>4, <3>1 DEF TakeHold
      <4>2. PendingOf(u)' = PendingOf(u) \ {cur[s]}
        BY <2>4, <3>1 DEF TakeHold, CasStatus
      <4>3. MayAddPending(u)' \subseteq MayAddPending(u) \cup {s}
        BY <2>4 DEF TakeHold
      <4> QED
        BY <4>1, <4>2, <4>3 DEF OneHeld
    <3>2. CASE status[cur[s]] = "PENDING" /\ requester[cur[s]] # u
      <4>1. PendingOf(u)' = PendingOf(u)
        BY <2>4, <3>2 DEF TakeHold, CasStatus
      <4>2. MayAddPending(u)' \subseteq MayAddPending(u)
        BY <2>4, <3>2 DEF TakeHold
      <4> QED
        BY <4>1, <4>2 DEF NoneMore
    <3>3. CASE status[cur[s]] # "PENDING"
      BY <1>1, <2>4, <3>3 DEF TakeHold, CasStatus
    <3> QED
      BY <3>1, <3>2, <3>3
  <2>5. CASE TakeHoldFails(s) \/ Decline(s)
    <3>1. PendingOf(u)' \subseteq PendingOf(u)
      BY <2>5 DEF TakeHoldFails, Decline, CasStatus
    <3>2. MayAddPending(u)' \subseteq MayAddPending(u)
      BY <2>5 DEF TakeHoldFails, Decline
    <3> QED
      BY <3>1, <3>2 DEF NoneMore
  <2>6. CASE PlaceHold(s) \/ PlaceHoldFails(s)
    BY <1>1, <2>6 DEF PlaceHold, PlaceHoldFails
  <2>7. CASE ScheduleExpiry(s) \/ ScheduleCompletion(s)
    BY <1>1, <2>7 DEF ScheduleExpiry, ScheduleCompletion
  <2>8. CASE ReleaseHold(s)
    <3>1. MayAddPending(u)' \subseteq MayAddPending(u) \ {s}
      BY <2>8 DEF ReleaseHold
    <3>2. PendingOf(u)' \subseteq PendingOf(u) \cup {cur[s]} /\ cur[s] \in RequestIds
      BY <2>8 DEF ReleaseHold, CasStatus
    <3>3. CASE requester[cur[s]] = u
      <4>1. s \in MayAddPending(u)
        BY <2>8, <3>3 DEF ReleaseHold
      <4> QED
        BY <3>1, <3>2, <4>1 DEF OneAdded
    <3>4. CASE requester[cur[s]] # u
      <4>1. PendingOf(u)' \subseteq PendingOf(u)
        BY <2>8, <3>4 DEF ReleaseHold, CasStatus
      <4> QED
        BY <3>1, <4>1 DEF NoneMore
    <3> QED
      BY <3>3, <3>4
  <2>9. CASE RecordHold(s) \/ RecordHoldFails(s)
    <3>1. PendingOf(u)' \subseteq PendingOf(u)
      BY <2>9 DEF RecordHold, RecordHoldFails, WriteAccepted
    <3>2. MayAddPending(u)' \subseteq MayAddPending(u)
      BY <2>9 DEF RecordHold, RecordHoldFails
    <3> QED
      BY <3>1, <3>2 DEF NoneMore
  <2> QED
    BY <1>3, <2>2, <2>3, <2>4, <2>5, <2>6, <2>7, <2>8, <2>9 DEF SessionStep
<1>4. ASSUME NEW w \in Workers, WorkerStep(w)
      PROVE  NoneMore(u)
  <2>1. \A t \in Sessions : UNCHANGED <<pc[t], cur[t], who[t]>>
    BY <1>4 DEF WorkerStep, StartExpire, StartComplete, ExpireIfPending, ExpireFails, BeginClaim,
       BeginClaimFails, LoadWallet, Claim, ClaimFails, Settle, SettleFails, RevertToAccepted
  <2>2. UNCHANGED requester
    BY <1>4 DEF WorkerStep, StartExpire, StartComplete, ExpireIfPending, ExpireFails, BeginClaim,
       BeginClaimFails, LoadWallet, Claim, ClaimFails, Settle, SettleFails, RevertToAccepted
  <2>3. \A r \in RequestIds : status'[r] = "PENDING" => status[r] = "PENDING"
    BY <1>4 DEF WorkerStep, StartExpire, StartComplete, ExpireIfPending, ExpireFails, BeginClaim,
       BeginClaimFails, LoadWallet, Claim, ClaimFails, Settle, SettleFails, RevertToAccepted,
       CasStatus
  <2> QED
    BY <2>1, <2>2, <2>3 DEF NoneMore
<1>5. CASE Environment
  <2>1. ASSUME NEW s \in Sessions, CrashSession(s)
        PROVE  NoneMore(u)
    BY <1>1, <2>1 DEF CrashSession
  <2>2. ASSUME NEW w \in Workers, Stall(w) \/ CrashWorker(w)
        PROVE  NoneMore(u)
    BY <1>1, <2>2 DEF Stall, CrashWorker
  <2> QED
    BY <1>1, <1>5, <2>1, <2>2 DEF Environment, ReachExpiry, CloseReclaimWindow, Reclaim
<1>6. CASE UNCHANGED vars
  BY <1>1, <1>6
<1> QED
  BY <1>2, <1>3, <1>4, <1>5, <1>6 DEF Next

\* The bound, and what makes it a number.
Bounded(u) ==
    /\ IsFiniteSet(PendingOf(u))
    /\ Cardinality(PendingOf(u)) + Cardinality(MayAddPending(u)) < MaxPending + Cardinality(Sessions)

\* What inserting an element does to a cardinality.
LEMMA AtMostOneMore ==
    ASSUME NEW S, IsFiniteSet(S), NEW x
    PROVE  /\ IsFiniteSet(S \cup {x})
           /\ Cardinality(S \cup {x}) \in Nat
           /\ Cardinality(S \cup {x}) <= Cardinality(S) + 1
<1>1. Cardinality(S) \in Nat
  BY FS_CardinalityType
<1>2. CASE x \in S
  <2>1. S \cup {x} = S
    BY <1>2
  <2>2. Cardinality(S \cup {x}) = Cardinality(S)
    BY <2>1
  <2>3. IsFiniteSet(S \cup {x})
    BY <2>1
  <2> QED
    BY <1>1, <2>2, <2>3
<1>3. CASE x \notin S
  <2>1. IsFiniteSet(S \cup {x}) /\ Cardinality(S \cup {x}) = Cardinality(S) + 1
    BY <1>3, FS_AddElement
  <2> QED
    BY <1>1, <2>1
<1> QED
  BY <1>2, <1>3

LEMMA BoundedStep ==
    ASSUME Ownership, [Next]_vars, IsFiniteSet(Sessions), NEW u \in Users, Bounded(u)
    PROVE  Bounded(u)'
<1> DEFINE P == PendingOf(u)
           A == MayAddPending(u)
<1>1. A \subseteq Sessions /\ A' \subseteq Sessions
  BY DEF MayAddPending
<1>2. /\ IsFiniteSet(A) /\ IsFiniteSet(A')
      /\ Cardinality(A) \in Nat /\ Cardinality(A') \in Nat /\ Cardinality(Sessions) \in Nat
      /\ Cardinality(A') <= Cardinality(Sessions)
  BY <1>1, FS_Subset, FS_CardinalityType
<1>3. IsFiniteSet(P) /\ Cardinality(P) \in Nat /\ MaxPending \in Nat
      /\ Cardinality(P) + Cardinality(A) < MaxPending + Cardinality(Sessions)
  BY FS_CardinalityType, ConstantsAssumption DEF Bounded
<1>4. SUFFICES /\ IsFiniteSet(P')
               /\ Cardinality(P') + Cardinality(A') < MaxPending + Cardinality(Sessions)
  BY DEF Bounded
<1> HIDE DEF P, A
<1>5. CASE P' \subseteq P /\ A' \subseteq A
  <2>1. /\ IsFiniteSet(P') /\ Cardinality(P') \in Nat
        /\ Cardinality(P') <= Cardinality(P) /\ Cardinality(A') <= Cardinality(A)
    BY <1>2, <1>3, <1>5, FS_Subset, FS_CardinalityType
  <2> QED
    BY <1>2, <1>3, <2>1
<1>6. CASE P' = P /\ Cardinality(P) < MaxPending
  BY <1>2, <1>3, <1>6
<1>7. CASE \E s \in A, r \in RequestIds : P' \subseteq P \cup {r} /\ A' \subseteq A \ {s}
  <2>1. PICK s \in A, r \in RequestIds : P' \subseteq P \cup {r} /\ A' \subseteq A \ {s}
    BY <1>7
  <2>2. IsFiniteSet(P \cup {r}) /\ Cardinality(P \cup {r}) <= Cardinality(P) + 1
        /\ Cardinality(P \cup {r}) \in Nat
    BY <1>3, AtMostOneMore
  <2>3. IsFiniteSet(A \ {s}) /\ Cardinality(A \ {s}) = Cardinality(A) - 1
    BY <1>2, FS_RemoveElement
  <2>4. /\ IsFiniteSet(P') /\ Cardinality(P') \in Nat
        /\ Cardinality(P') <= Cardinality(P) + 1 /\ Cardinality(A') <= Cardinality(A) - 1
    <3>1. Cardinality(P') <= Cardinality(P \cup {r}) /\ IsFiniteSet(P') /\ Cardinality(P') \in Nat
      BY <2>1, <2>2, FS_Subset, FS_CardinalityType
    <3>2. Cardinality(A') <= Cardinality(A \ {s})
      BY <2>1, <2>3, FS_Subset
    <3> QED
      BY <1>3, <2>2, <2>3, <3>1, <3>2
  <2> QED
    BY <1>2, <1>3, <2>4
<1>8. CASE \E s \in Sessions, r \in P : P' = P \ {r} /\ A' \subseteq A \cup {s}
  <2>1. PICK s \in Sessions, r \in P : P' = P \ {r} /\ A' \subseteq A \cup {s}
    BY <1>8
  <2>2. IsFiniteSet(P') /\ Cardinality(P') = Cardinality(P) - 1
    BY <1>3, <2>1, FS_RemoveElement
  <2>3. IsFiniteSet(A \cup {s}) /\ Cardinality(A \cup {s}) <= Cardinality(A) + 1
        /\ Cardinality(A \cup {s}) \in Nat
    BY <1>2, AtMostOneMore
  <2>4. Cardinality(A') <= Cardinality(A \cup {s})
    BY <2>1, <2>3, FS_Subset
  <2> QED
    BY <1>2, <1>3, <2>2, <2>3, <2>4
<1> QED
  BY <1>5, <1>6, <1>7, <1>8, PendingMoves
     DEF NoneMore, OneCounted, OneAdded, OneHeld, P, A

\* Counting and inserting are two statements, so a user can pass the limit on
\* pending requests, but by no more than one for each other command in progress,
\* under every set of faults (createRequest, MAX_PENDING_REQUESTS_PER_USER).
THEOREM PendingOvershootCorrect ==
    ASSUME IsFiniteSet(Sessions)
    PROVE  Spec => []PendingOvershoot
<1> DEFINE AllBounded == \A u \in Users : Bounded(u)
<1>1. Init => Ownership /\ AllBounded
  <2> SUFFICES ASSUME Init, NEW u \in Users PROVE Bounded(u)
    BY OwnershipInit
  <2>1. PendingOf(u) = {} /\ MayAddPending(u) = {}
    BY DEF Init, PendingOf, MayAddPending, Procs, HoldingPcs
  <2>2. Cardinality(Sessions) \in Nat
    BY FS_CardinalityType
  <2> QED
    BY <2>1, <2>2, FS_EmptySet, ConstantsAssumption DEF Bounded
<1>2. Ownership /\ AllBounded /\ [Next]_vars => Ownership' /\ AllBounded'
  BY OwnershipStep, BoundedStep
<1>3. AllBounded => PendingOvershoot
  BY DEF Bounded, PendingOvershoot
<1> HIDE DEF AllBounded
<1> QED
  BY <1>1, <1>2, <1>3, PTL DEF Spec
=============================================================================
