--------------------------- MODULE PaymentRequest ---------------------------
(***************************************************************************)
(* Peer-to-peer payment requests settled through a Stellar claimable       *)
(* balance (src/src/services/payment-request.service.ts, with the queue,   *)
(* the worker and the REQUEST / ACCEPT / DECLINE handlers around it).      *)
(*                                                                         *)
(*    REQUEST  -> PENDING -> HOLDING -> ACCEPTED -> COMPLETING -> COMPLETED *)
(*                   |  ^--------'         ^------------'                  *)
(*                   '-> DECLINED | EXPIRED                                *)
(*                                                                         *)
(* A process runs one command or one job at a time and gives up the        *)
(* thread at every await, so each await is a step of its own and any       *)
(* step of any other process may fall between two of them.  Early returns  *)
(* that change nothing are stuttering steps and are not written down.      *)
(***************************************************************************)
EXTENDS Naturals, FiniteSets

CONSTANTS
    Users,          \* people who ask for money and answer requests
    RequestIds,     \* primary keys PaymentRequest rows may get
    BalanceIds,     \* ids the ledger may give to claimable balances
    Sessions,       \* slots of the message worker (commands in progress)
    Workers,        \* slots of the payment-request worker (jobs in progress)
    None,           \* null
    MaxPending,     \* MAX_PENDING_REQUESTS_PER_USER
    RecordRetries,  \* RECORD_RETRIES
    Faults          \* what may go wrong, see FaultKinds

FaultKinds == { "ledgerDown",       \* a Stellar call is rejected, no effect
                "ledgerReplyLost",  \* it took effect and still throws
                "db",               \* a write is rejected or its reply lost
                "queue",            \* Queue.add rejects (Redis is away)
                "noWallet",         \* the requester's wallet cannot be read
                "stall",            \* BullMQ hands a running job out again
                "crash" }           \* a process dies between two awaits

ASSUME ConstantsAssumption ==
    /\ None \notin Users \cup RequestIds \cup BalanceIds
    /\ MaxPending \in Nat \ {0}
    /\ RecordRetries \in Nat \ {0}
    /\ Faults \subseteq FaultKinds

ASSUME ProcessesAssumption ==
    /\ Sessions \cap Workers = {}
    /\ {"none", "waiting", "failed"} \cap Workers = {}

VARIABLES
    status,      \* PaymentRequest.status, "ABSENT" before the row exists
    requester,   \* PaymentRequest.requesterId
    responder,   \* PaymentRequest.responderId
    balanceId,   \* PaymentRequest.balanceId
    due,         \* whether the clock has reached PaymentRequest.expiresAt
    ledger,      \* state of each claimable balance on Stellar
    escrowOf,    \* the request each claimable balance was created for
    completeJob, \* BullMQ job complete:<id>; a worker while it is active
    expireJob,   \* BullMQ job expire:<id>; likewise
    pc,          \* what each process awaits
    cur,         \* the request it works on
    got,         \* the balance id it was given or has read
    who,         \* the requester of a REQUEST that has been counted
    tries        \* attempts at recording ACCEPTED that failed

rows == <<requester, responder, due>>
jobs == <<completeJob, expireJob>>
escrow == <<ledger, escrowOf>>
vars == <<status, balanceId, rows, escrow, jobs, pc, cur, got, who, tries>>

Procs == Sessions \cup Workers

Statuses == {"ABSENT", "PENDING", "HOLDING", "ACCEPTED", "COMPLETING",
             "DECLINED", "EXPIRED", "COMPLETED"}
Final == {"DECLINED", "EXPIRED", "COMPLETED"}

SessionPcs == {"idle", "create", "scheduleExpiry", "accept", "hold", "release",
               "record", "scheduleCompletion", "decline"}
WorkerPcs == {"idle", "expire", "begin", "wallet", "claim", "settle",
              "revert", "revertQuietly"}

\* An open balance can be claimed by both parties, a closed one is past
\* reclaimSeconds and only the requester can claim it.
Claimable == {"open", "closed"}
JobStates == {"none", "waiting", "failed"} \cup Workers

TypeOK ==
    /\ status \in [RequestIds -> Statuses]
    /\ requester \in [RequestIds -> Users \cup {None}]
    /\ responder \in [RequestIds -> Users \cup {None}]
    /\ balanceId \in [RequestIds -> BalanceIds \cup {None}]
    /\ due \in [RequestIds -> BOOLEAN]
    /\ ledger \in [BalanceIds -> {"none", "claimed", "reclaimed"} \cup Claimable]
    /\ escrowOf \in [BalanceIds -> RequestIds \cup {None}]
    /\ completeJob \in [RequestIds -> JobStates]
    /\ expireJob \in [RequestIds -> JobStates]
    /\ pc \in [Procs -> SessionPcs \cup WorkerPcs]
    /\ \A s \in Sessions : pc[s] \in SessionPcs
    /\ \A w \in Workers : pc[w] \in WorkerPcs
    /\ cur \in [Procs -> RequestIds \cup {None}]
    /\ got \in [Procs -> BalanceIds \cup {None}]
    /\ who \in [Sessions -> Users \cup {None}]
    /\ tries \in [Sessions -> 0 .. RecordRetries - 1]

Init ==
    /\ status = [r \in RequestIds |-> "ABSENT"]
    /\ requester = [r \in RequestIds |-> None]
    /\ responder = [r \in RequestIds |-> None]
    /\ balanceId = [r \in RequestIds |-> None]
    /\ due = [r \in RequestIds |-> FALSE]
    /\ ledger = [b \in BalanceIds |-> "none"]
    /\ escrowOf = [b \in BalanceIds |-> None]
    /\ completeJob = [r \in RequestIds |-> "none"]
    /\ expireJob = [r \in RequestIds |-> "none"]
    /\ pc = [p \in Procs |-> "idle"]
    /\ cur = [p \in Procs |-> None]
    /\ got = [p \in Procs |-> None]
    /\ who = [s \in Sessions |-> None]
    /\ tries = [s \in Sessions |-> 0]

-----------------------------------------------------------------------------
(* Helpers *)

Goto(p, label) == pc' = [pc EXCEPT ![p] = label]

\* The command or job ends; nothing it kept in its frame survives.
Return(p) ==
    /\ pc' = [pc EXCEPT ![p] = "idle"]
    /\ cur' = [cur EXCEPT ![p] = None]
    /\ got' = [got EXCEPT ![p] = None]

\* updateMany({ where: { id, status: from }, data: { status: to } })
CasStatus(r, from, to) ==
    status' = IF status[r] = from THEN [status EXCEPT ![r] = to] ELSE status

PendingOf(u) == {r \in RequestIds : requester[r] = u /\ status[r] = "PENDING"}

\* Queue.add with a jobId: an existing job of that id, failed or not, wins.
Enqueue(job, r) == IF job[r] = "none" THEN [job EXCEPT ![r] = "waiting"] ELSE job

\* The queue forgets a completed job (removeOnComplete) and keeps a failed
\* one (no attempts are configured); a worker that lost its lock says nothing.
EndJob(job, w, outcome) ==
    IF job[cur[w]] = w THEN [job EXCEPT ![cur[w]] = outcome] ELSE job

-----------------------------------------------------------------------------
(* REQUEST <amount> <user>: createRequest, then scheduleRequestExpiry *)

\* Mutant of CountPending: the limit is compared with <= instead of <.
CountPendingOffByOne(s, u) ==
    /\ pc[s] = "idle"
    /\ Cardinality(PendingOf(u)) <= MaxPending
    /\ who' = [who EXCEPT ![s] = u]
    /\ Goto(s, "create")
    /\ UNCHANGED <<status, balanceId, rows, escrow, jobs, cur, got, tries>>

\* createRequest counts the PENDING rows of the requester ...
CountPending(s, u) ==
    /\ pc[s] = "idle"
    /\ Cardinality(PendingOf(u)) < MaxPending
    /\ who' = [who EXCEPT ![s] = u]
    /\ Goto(s, "create")
    /\ UNCHANGED <<status, balanceId, rows, escrow, jobs, cur, got, tries>>

NewRow(r, u, v) ==
    /\ status[r] = "ABSENT"
    /\ status' = [status EXCEPT ![r] = "PENDING"]
    /\ requester' = [requester EXCEPT ![r] = u]
    /\ responder' = [responder EXCEPT ![r] = v]

\* ... and inserts the new one, without a constraint that ties the two.
CreateRow(s) ==
    /\ pc[s] = "create"
    /\ \E r \in RequestIds, v \in Users \ {who[s]} :
          /\ NewRow(r, who[s], v)
          /\ cur' = [cur EXCEPT ![s] = r]
    /\ who' = [who EXCEPT ![s] = None]
    /\ Goto(s, "scheduleExpiry")
    /\ UNCHANGED <<balanceId, due, escrow, jobs, got, tries>>

CreateRowFails(s) ==
    /\ "db" \in Faults
    /\ pc[s] = "create"
    /\ \/ UNCHANGED <<status, requester, responder>>
       \/ \E r \in RequestIds, v \in Users \ {who[s]} : NewRow(r, who[s], v)
    /\ who' = [who EXCEPT ![s] = None]
    /\ Return(s)
    /\ UNCHANGED <<balanceId, due, escrow, jobs, tries>>

ScheduleExpiry(s) ==
    /\ pc[s] = "scheduleExpiry"
    /\ \/ expireJob' = Enqueue(expireJob, cur[s])
       \/ "queue" \in Faults /\ UNCHANGED expireJob
    /\ Return(s)
    /\ UNCHANGED <<status, balanceId, rows, escrow, completeJob, who, tries>>

-----------------------------------------------------------------------------
(* ACCEPT <id>: acceptRequest, then scheduleRequestCompletion *)

\* loadForResponder: only the responder, only while unexpired and PENDING.
Answerable(r) == status[r] = "PENDING" /\ ~due[r]

\* The row is loaded and the responder's balance covers the amount.
BeginAccept(s, r, from) ==
    /\ pc[s] = "idle"
    /\ Answerable(r)
    /\ responder[r] = from
    /\ cur' = [cur EXCEPT ![s] = r]
    /\ Goto(s, "accept")
    /\ UNCHANGED <<status, balanceId, rows, escrow, jobs, got, who, tries>>

\* Mutant of TakeHold: the count updateMany returns is not looked at.
TakeHoldBlindly(s) ==
    /\ pc[s] = "accept"
    /\ CasStatus(cur[s], "PENDING", "HOLDING")
    /\ Goto(s, "hold")
    /\ UNCHANGED <<balanceId, rows, escrow, jobs, cur, got, who, tries>>

\* The conditional update PENDING -> HOLDING; count 0 is not_pending.
TakeHold(s) ==
    /\ pc[s] = "accept"
    /\ CasStatus(cur[s], "PENDING", "HOLDING")
    /\ IF status[cur[s]] = "PENDING"
       THEN Goto(s, "hold") /\ UNCHANGED <<cur, got>>
       ELSE Return(s)
    /\ UNCHANGED <<balanceId, rows, escrow, jobs, who, tries>>

TakeHoldFails(s) ==
    /\ "db" \in Faults
    /\ pc[s] = "accept"
    /\ CasStatus(cur[s], "PENDING", "HOLDING") \/ UNCHANGED status
    /\ Return(s)
    /\ UNCHANGED <<balanceId, rows, escrow, jobs, who, tries>>

\* The ledger funds a new claimable balance from the responder's account.
Fund(b, r) ==
    /\ ledger[b] = "none"
    /\ ledger' = [ledger EXCEPT ![b] = "open"]
    /\ escrowOf' = [escrowOf EXCEPT ![b] = r]

PlaceHold(s) ==
    /\ pc[s] = "hold"
    /\ \E b \in BalanceIds :
          /\ Fund(b, cur[s])
          /\ got' = [got EXCEPT ![s] = b]
    /\ Goto(s, "record")
    /\ UNCHANGED <<status, balanceId, rows, jobs, cur, who, tries>>

\* createClaimableBalanceWithHold throws.  It also throws after the fact:
\* when submitTransaction times out, or the response names no balance id.
PlaceHoldFails(s) ==
    /\ pc[s] = "hold"
    /\ \/ "ledgerDown" \in Faults /\ UNCHANGED escrow
       \/ "ledgerReplyLost" \in Faults /\ \E b \in BalanceIds : Fund(b, cur[s])
    /\ Goto(s, "release")
    /\ UNCHANGED <<status, balanceId, rows, jobs, cur, got, who, tries>>

\* The catch block; a failure of this write is swallowed.
ReleaseHold(s) ==
    /\ pc[s] = "release"
    /\ \/ CasStatus(cur[s], "HOLDING", "PENDING")
       \/ "db" \in Faults /\ UNCHANGED status
    /\ Return(s)
    /\ UNCHANGED <<balanceId, rows, escrow, jobs, who, tries>>

\* An unconditional update by id, not a conditional one.
WriteAccepted(s) ==
    /\ status' = [status EXCEPT ![cur[s]] = "ACCEPTED"]
    /\ balanceId' = [balanceId EXCEPT ![cur[s]] = got[s]]

RecordHold(s) ==
    /\ pc[s] = "record"
    /\ WriteAccepted(s)
    /\ got' = [got EXCEPT ![s] = None]
    /\ tries' = [tries EXCEPT ![s] = 0]
    /\ Goto(s, "scheduleCompletion")
    /\ UNCHANGED <<rows, escrow, jobs, cur, who>>

\* Mutant of RecordHoldFails: one retry too many.
RecordHoldOnceMore(s) ==
    /\ "db" \in Faults
    /\ pc[s] = "record"
    /\ WriteAccepted(s) \/ UNCHANGED <<status, balanceId>>
    /\ IF tries[s] + 1 <= RecordRetries
       THEN /\ tries' = [tries EXCEPT ![s] = @ + 1]
            /\ UNCHANGED <<pc, cur, got>>
       ELSE /\ tries' = [tries EXCEPT ![s] = 0]
            /\ Return(s)
    /\ UNCHANGED <<rows, escrow, jobs, who>>

\* Mutant of RecordHoldFails: giving up releases the hold, as a failure to
\* place it does.
RecordHoldReleases(s) ==
    /\ "db" \in Faults
    /\ pc[s] = "record"
    /\ WriteAccepted(s) \/ UNCHANGED <<status, balanceId>>
    /\ IF tries[s] + 1 < RecordRetries
       THEN /\ tries' = [tries EXCEPT ![s] = @ + 1]
            /\ UNCHANGED <<pc, cur, got>>
       ELSE /\ tries' = [tries EXCEPT ![s] = 0]
            /\ Goto(s, "release")
            /\ UNCHANGED <<cur, got>>
    /\ UNCHANGED <<rows, escrow, jobs, who>>

\* One attempt of the retry loop throws; after the last one the handler
\* gives up and the request stays as it is.
RecordHoldFails(s) ==
    /\ "db" \in Faults
    /\ pc[s] = "record"
    /\ WriteAccepted(s) \/ UNCHANGED <<status, balanceId>>
    /\ IF tries[s] + 1 < RecordRetries
       THEN /\ tries' = [tries EXCEPT ![s] = @ + 1]
            /\ UNCHANGED <<pc, cur, got>>
       ELSE /\ tries' = [tries EXCEPT ![s] = 0]
            /\ Return(s)
    /\ UNCHANGED <<rows, escrow, jobs, who>>

\* Mutant of ScheduleCompletion: the job is never added.
CompletionForgotten(s) ==
    /\ pc[s] = "scheduleCompletion"
    /\ Return(s)
    /\ UNCHANGED <<status, balanceId, rows, escrow, jobs, who, tries>>

ScheduleCompletion(s) ==
    /\ pc[s] = "scheduleCompletion"
    /\ \/ completeJob' = Enqueue(completeJob, cur[s])
       \/ "queue" \in Faults /\ UNCHANGED completeJob
    /\ Return(s)
    /\ UNCHANGED <<status, balanceId, rows, escrow, expireJob, who, tries>>

-----------------------------------------------------------------------------
(* DECLINE <id>: declineRequest *)

BeginDecline(s, r, from) ==
    /\ pc[s] = "idle"
    /\ Answerable(r)
    /\ responder[r] = from
    /\ cur' = [cur EXCEPT ![s] = r]
    /\ Goto(s, "decline")
    /\ UNCHANGED <<status, balanceId, rows, escrow, jobs, got, who, tries>>

Decline(s) ==
    /\ pc[s] = "decline"
    /\ \/ CasStatus(cur[s], "PENDING", "DECLINED")
       \/ "db" \in Faults /\ UNCHANGED status
    /\ Return(s)
    /\ UNCHANGED <<balanceId, rows, escrow, jobs, who, tries>>

-----------------------------------------------------------------------------
(* The payment-request worker: expire jobs *)

\* The job's delay ends when the clock reaches expiresAt.
StartExpire(w, r) ==
    /\ pc[w] = "idle"
    /\ expireJob[r] = "waiting"
    /\ due[r]
    /\ expireJob' = [expireJob EXCEPT ![r] = w]
    /\ cur' = [cur EXCEPT ![w] = r]
    /\ Goto(w, "expire")
    /\ UNCHANGED <<status, balanceId, rows, escrow, completeJob, got, who, tries>>

\* Mutant of ExpireIfPending: the update is by id alone.
ExpireById(w) ==
    /\ pc[w] = "expire"
    /\ status' = [status EXCEPT ![cur[w]] = "EXPIRED"]
    /\ expireJob' = EndJob(expireJob, w, "none")
    /\ Return(w)
    /\ UNCHANGED <<balanceId, rows, escrow, completeJob, who, tries>>

\* expireIfPending: the conditional update PENDING -> EXPIRED.
ExpireIfPending(w) ==
    /\ pc[w] = "expire"
    /\ CasStatus(cur[w], "PENDING", "EXPIRED")
    /\ expireJob' = EndJob(expireJob, w, "none")
    /\ Return(w)
    /\ UNCHANGED <<balanceId, rows, escrow, completeJob, who, tries>>

ExpireFails(w) ==
    /\ "db" \in Faults
    /\ pc[w] = "expire"
    /\ CasStatus(cur[w], "PENDING", "EXPIRED") \/ UNCHANGED status
    /\ expireJob' = EndJob(expireJob, w, "failed")
    /\ Return(w)
    /\ UNCHANGED <<balanceId, rows, escrow, completeJob, who, tries>>

-----------------------------------------------------------------------------
(* The payment-request worker: complete jobs (completeRequest) *)

\* The row is read; without a balance id there is nothing to claim.
StartComplete(w, r) ==
    /\ pc[w] = "idle"
    /\ completeJob[r] = "waiting"
    /\ IF balanceId[r] = None
       THEN /\ completeJob' = [completeJob EXCEPT ![r] = "none"]
            /\ UNCHANGED <<pc, cur, got>>
       ELSE /\ completeJob' = [completeJob EXCEPT ![r] = w]
            /\ cur' = [cur EXCEPT ![w] = r]
            /\ got' = [got EXCEPT ![w] = balanceId[r]]
            /\ Goto(w, "begin")
    /\ UNCHANGED <<status, balanceId, rows, escrow, expireJob, who, tries>>

\* The conditional update ACCEPTED -> COMPLETING; count 0 returns null.
BeginClaim(w) ==
    /\ pc[w] = "begin"
    /\ CasStatus(cur[w], "ACCEPTED", "COMPLETING")
    /\ IF status[cur[w]] = "ACCEPTED"
       THEN Goto(w, "wallet") /\ UNCHANGED <<completeJob, cur, got>>
       ELSE completeJob' = EndJob(completeJob, w, "none") /\ Return(w)
    /\ UNCHANGED <<balanceId, rows, escrow, expireJob, who, tries>>

BeginClaimFails(w) ==
    /\ "db" \in Faults
    /\ pc[w] = "begin"
    /\ CasStatus(cur[w], "ACCEPTED", "COMPLETING") \/ UNCHANGED status
    /\ completeJob' = EndJob(completeJob, w, "failed")
    /\ Return(w)
    /\ UNCHANGED <<balanceId, rows, escrow, expireJob, who, tries>>

\* Loading the requester's wallet is outside the try block.
LoadWallet(w) ==
    /\ pc[w] = "wallet"
    /\ \/ Goto(w, "claim") /\ UNCHANGED <<completeJob, cur, got>>
       \/ /\ "noWallet" \in Faults
          /\ Goto(w, "revertQuietly")
          /\ UNCHANGED <<completeJob, cur, got>>
       \/ /\ "db" \in Faults
          /\ completeJob' = EndJob(completeJob, w, "failed")
          /\ Return(w)
    /\ UNCHANGED <<status, balanceId, rows, escrow, expireJob, who, tries>>

Claim(w) ==
    /\ pc[w] = "claim"
    /\ ledger[got[w]] \in Claimable
    /\ ledger' = [ledger EXCEPT ![got[w]] = "claimed"]
    /\ \/ Goto(w, "settle")
       \/ "ledgerReplyLost" \in Faults /\ Goto(w, "revert")
    /\ UNCHANGED <<status, balanceId, rows, escrowOf, jobs, cur, got, who, tries>>

\* Mutant of ClaimFails: a failed claim ends the job without a revert.
ClaimFailsUnreverted(w) ==
    /\ pc[w] = "claim"
    /\ "ledgerDown" \in Faults \/ ledger[got[w]] \notin Claimable
    /\ completeJob' = EndJob(completeJob, w, "failed")
    /\ Return(w)
    /\ UNCHANGED <<status, balanceId, rows, escrow, expireJob, who, tries>>

ClaimFails(w) ==
    /\ pc[w] = "claim"
    /\ "ledgerDown" \in Faults \/ ledger[got[w]] \notin Claimable
    /\ Goto(w, "revert")
    /\ UNCHANGED <<status, balanceId, rows, escrow, jobs, cur, got, who, tries>>

\* An unconditional update by id.
Settle(w) ==
    /\ pc[w] = "settle"
    /\ status' = [status EXCEPT ![cur[w]] = "COMPLETED"]
    /\ completeJob' = EndJob(completeJob, w, "none")
    /\ Return(w)
    /\ UNCHANGED <<balanceId, rows, escrow, expireJob, who, tries>>

\* Mutant of SettleFails: the update is awaited, so the catch block sees it.
SettleFailsIntoCatch(w) ==
    /\ "db" \in Faults
    /\ pc[w] = "settle"
    /\ Goto(w, "revert")
    /\ UNCHANGED <<status, balanceId, rows, escrow, jobs, cur, got, who, tries>>

\* The update is returned, not awaited, from inside the try block: its
\* rejection fails the job without passing through the catch block.
SettleFails(w) ==
    /\ "db" \in Faults
    /\ pc[w] = "settle"
    /\ \/ status' = [status EXCEPT ![cur[w]] = "COMPLETED"]
       \/ UNCHANGED status
    /\ completeJob' = EndJob(completeJob, w, "failed")
    /\ Return(w)
    /\ UNCHANGED <<balanceId, rows, escrow, expireJob, who, tries>>

\* revertToAccepted, whose own failure is swallowed; the claim error is
\* rethrown and fails the job, a missing wallet returns null and ends it.
RevertToAccepted(w) ==
    /\ pc[w] \in {"revert", "revertQuietly"}
    /\ \/ CasStatus(cur[w], "COMPLETING", "ACCEPTED")
       \/ "db" \in Faults /\ UNCHANGED status
    /\ completeJob' =
          EndJob(completeJob, w, IF pc[w] = "revert" THEN "failed" ELSE "none")
    /\ Return(w)
    /\ UNCHANGED <<balanceId, rows, escrow, expireJob, who, tries>>

-----------------------------------------------------------------------------
(* Time, the respondent's wallet, the queue's lock and process failure *)

ReachExpiry(r) ==
    /\ status[r] # "ABSENT"
    /\ ~due[r]
    /\ due' = [due EXCEPT ![r] = TRUE]
    /\ UNCHANGED <<status, balanceId, requester, responder, escrow, jobs, pc,
                   cur, got, who, tries>>

\* reclaimSeconds pass: predicateBeforeRelativeTime no longer holds.
CloseReclaimWindow(b) ==
    /\ ledger[b] = "open"
    /\ ledger' = [ledger EXCEPT ![b] = "closed"]
    /\ UNCHANGED <<status, balanceId, rows, escrowOf, jobs, pc, cur, got, who, tries>>

\* The respondent takes the balance back under the predicate it was given.
Reclaim(b) ==
    /\ ledger[b] = "open"
    /\ ledger' = [ledger EXCEPT ![b] = "reclaimed"]
    /\ UNCHANGED <<status, balanceId, rows, escrowOf, jobs, pc, cur, got, who, tries>>

\* The lock of an active job is lost: BullMQ makes the job wait again while
\* the worker that has it goes on.
Requeue(w) ==
    /\ completeJob' = [r \in RequestIds |->
                          IF completeJob[r] = w THEN "waiting" ELSE completeJob[r]]
    /\ expireJob' = [r \in RequestIds |->
                        IF expireJob[r] = w THEN "waiting" ELSE expireJob[r]]

Stall(w) ==
    /\ "stall" \in Faults
    /\ \E r \in RequestIds : w \in {completeJob[r], expireJob[r]}
    /\ Requeue(w)
    /\ UNCHANGED <<status, balanceId, rows, escrow, pc, cur, got, who, tries>>

CrashSession(s) ==
    /\ "crash" \in Faults
    /\ pc[s] # "idle"
    /\ Return(s)
    /\ who' = [who EXCEPT ![s] = None]
    /\ tries' = [tries EXCEPT ![s] = 0]
    /\ UNCHANGED <<status, balanceId, rows, escrow, jobs>>

\* The job of a dead worker is found stalled and waits again.
CrashWorker(w) ==
    /\ "crash" \in Faults
    /\ pc[w] # "idle"
    /\ Return(w)
    /\ Requeue(w)
    /\ UNCHANGED <<status, balanceId, rows, escrow, who, tries>>

-----------------------------------------------------------------------------

Command(s) ==
    \/ \E u \in Users : CountPending(s, u)
    \/ \E r \in RequestIds, u \in Users : BeginAccept(s, r, u)
    \/ \E r \in RequestIds, u \in Users : BeginDecline(s, r, u)

SessionStep(s) ==
    \/ CreateRow(s) \/ CreateRowFails(s) \/ ScheduleExpiry(s)
    \/ TakeHold(s) \/ TakeHoldFails(s)
    \/ PlaceHold(s) \/ PlaceHoldFails(s) \/ ReleaseHold(s)
    \/ RecordHold(s) \/ RecordHoldFails(s) \/ ScheduleCompletion(s)
    \/ Decline(s)

WorkerStep(w) ==
    \/ \E r \in RequestIds : StartExpire(w, r) \/ StartComplete(w, r)
    \/ ExpireIfPending(w) \/ ExpireFails(w)
    \/ BeginClaim(w) \/ BeginClaimFails(w) \/ LoadWallet(w)
    \/ Claim(w) \/ ClaimFails(w)
    \/ Settle(w) \/ SettleFails(w) \/ RevertToAccepted(w)

Environment ==
    \/ \E r \in RequestIds : ReachExpiry(r)
    \/ \E b \in BalanceIds : CloseReclaimWindow(b) \/ Reclaim(b)
    \/ \E w \in Workers : Stall(w) \/ CrashWorker(w)
    \/ \E s \in Sessions : CrashSession(s)

Next ==
    \/ \E s \in Sessions : Command(s) \/ SessionStep(s)
    \/ \E w \in Workers : WorkerStep(w)
    \/ Environment

Spec == Init /\ [][Next]_vars

\* A handler that was entered runs on, the worker takes the jobs whose delay
\* is over, and the clock reaches every expiresAt.
Fairness ==
    /\ \A s \in Sessions : WF_vars(SessionStep(s))
    /\ \A w \in Workers : WF_vars(WorkerStep(w))
    /\ \A r \in RequestIds : WF_vars(ReachExpiry(r))

FairSpec == Spec /\ Fairness
-----------------------------------------------------------------------------
(* Properties *)

FundedFor(r) == {b \in BalanceIds : escrowOf[b] = r}

\* A request that is still open or was refused locks nothing: a hold is taken
\* under HOLDING only, and HOLDING is given back only when no hold exists
\* (acceptRequest's catch block, "no funds are locked").
UnansweredUnfunded ==
    \A r \in RequestIds :
        status[r] \in {"ABSENT", "PENDING", "DECLINED", "EXPIRED"} => FundedFor(r) = {}

\* However many ACCEPTs, retries and crashes a request sees, the respondent's
\* account funds one claimable balance for it (acceptRequest, "never
\* double-place").
NoDoubleHold ==
    \A b, c \in BalanceIds : escrowOf[b] = escrowOf[c] /\ escrowOf[b] # None => b = c

\* Status and ledger agree from ACCEPTED on: the recorded balance is the one
\* that was funded for this request, it is claimed only through COMPLETING,
\* and COMPLETED is reported only of a balance the requester has.
EscrowAgrees ==
    \A r \in RequestIds :
        /\ status[r] \in {"ACCEPTED", "COMPLETING", "COMPLETED"} =>
               balanceId[r] \in FundedFor(r)
        /\ status[r] = "ACCEPTED" => ledger[balanceId[r]] # "claimed"
        /\ status[r] = "COMPLETED" => ledger[balanceId[r]] = "claimed"
        /\ status[r] = "HOLDING" => \A b \in FundedFor(r) : ledger[b] # "claimed"

\* A request pays its requester at most once, whatever is lost or repeated
\* (completeRequest, "never double-claim an escrow").
PaidAtMostOnce ==
    \A b, c \in BalanceIds :
        ledger[b] = "claimed" /\ ledger[c] = "claimed" /\ escrowOf[b] = escrowOf[c] => b = c

HoldingPcs == {"hold", "release", "record"}
ClaimingPcs == {"wallet", "claim", "settle", "revert", "revertQuietly"}

\* The conditional updates are locks: one ACCEPT at a time between taking and
\* recording or releasing a hold, one completion job at a time between
\* COMPLETING and its end, also when BullMQ hands the job out twice.
OneOwner ==
    /\ \A s, t \in Sessions :
           pc[s] \in HoldingPcs /\ pc[t] \in HoldingPcs /\ cur[s] = cur[t] => s = t
    /\ \A w, x \in Workers :
           pc[w] \in ClaimingPcs /\ pc[x] \in ClaimingPcs /\ cur[w] = cur[x] => w = x

\* While every write is answered and no process dies, HOLDING and COMPLETING
\* are passing states: some handler is still at work on the request.
TransientHasOwner ==
    \A r \in RequestIds :
        /\ status[r] = "HOLDING" =>
               \E s \in Sessions : pc[s] \in HoldingPcs /\ cur[s] = r
        /\ status[r] = "COMPLETING" =>
               \E w \in Workers : pc[w] \in ClaimingPcs /\ cur[w] = r

\* DECLINED, EXPIRED and COMPLETED are final, although ACCEPTED and COMPLETED
\* are written by id, without looking at the status they replace.
FinalForever ==
    [][\A r \in RequestIds : status[r] \in Final => status'[r] = status[r]]_vars

\* The recorded balance id is never exchanged for another one.
BalanceIdStable ==
    [][\A r \in RequestIds : balanceId[r] # None => balanceId'[r] = balanceId[r]]_vars

\* How far count-then-insert can overshoot MAX_PENDING_REQUESTS_PER_USER: every
\* other command in progress may add one, by inserting a row it has counted
\* for or by giving HOLDING back.
MayAddPending(u) ==
    {s \in Sessions : \/ pc[s] = "create" /\ who[s] = u
                      \/ pc[s] \in HoldingPcs /\ requester[cur[s]] = u}
PendingOvershoot ==
    \A u \in Users :
        Cardinality(PendingOf(u)) + Cardinality(MayAddPending(u))
            < MaxPending + Cardinality(Sessions)

\* Every request ends: answered, expired, paid to the requester or taken back
\* by the respondent.  A rejected Stellar call leaves two exceptions and no
\* others: a claim that failed has used up its job, and a hold that failed
\* while the expiry job looked leaves a row that nothing expires.
Resolved(r) ==
    \/ status[r] \in Final
    \/ balanceId[r] # None /\ ledger[balanceId[r]] = "reclaimed"
Stranded(r) ==
    \/ status[r] = "ACCEPTED" /\ completeJob[r] = "failed"
    \/ status[r] = "PENDING" /\ due[r] /\ expireJob[r] = "none"
EveryRequestResolved ==
    \A r \in RequestIds : status[r] = "PENDING" ~> Resolved(r) \/ Stranded(r)

-----------------------------------------------------------------------------
(* The promise to the two parties, and how this module keeps it *)

\* HOLDING is not visible to the parties, COMPLETING still counts as agreed.
AnswerOf(r) ==
    CASE status[r] = "ABSENT" -> "absent"
      [] status[r] \in {"PENDING", "HOLDING"} -> "asked"
      [] status[r] \in {"DECLINED", "EXPIRED"} -> "refused"
      [] status[r] \in {"ACCEPTED", "COMPLETING"} -> "agreed"
      [] OTHER -> "done"

\* A second balance for the same request has no counterpart in the promise.
MoneyOf(r) ==
    CASE FundedFor(r) = {} -> "untouched"
      [] \E b, c \in FundedFor(r) : b # c -> "taken twice"
      [] \E b \in FundedFor(r) : ledger[b] \in Claimable -> "locked"
      [] \E b \in FundedFor(r) : ledger[b] = "claimed" -> "paid"
      [] OTHER -> "returned"

shownAnswer == [r \in RequestIds |-> AnswerOf(r)]
shownMoney == [r \in RequestIds |-> MoneyOf(r)]

Promise == INSTANCE EscrowPromise WITH
    Requests <- RequestIds, answer <- shownAnswer, money <- shownMoney

\* Every step of the escrow is a step of the promise or changes nothing the
\* parties can see, as long as a rejected Stellar call had no effect.
KeepsPromise == Promise!PromiseSpec
=============================================================================
