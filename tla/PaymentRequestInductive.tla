----------------------- MODULE PaymentRequestInductive -----------------------
(***************************************************************************)
(* Inductive invariants of PaymentRequest.  Ownership is kept by every     *)
(* step under every fault; Escrow adds what also needs a rejected Stellar  *)
(* call to have had no effect.                                             *)
(***************************************************************************)
EXTENDS PaymentRequest

\* Between taking a hold and handing the request to the completion job.
AcceptingPcs == HoldingPcs \cup {"scheduleCompletion"}
\* Between reading the balance id and the end of the completion job.
CompletingPcs == ClaimingPcs \cup {"begin"}
Funded == {"ACCEPTED", "COMPLETING", "COMPLETED"}

Accepting(s, r) == pc[s] \in AcceptingPcs /\ cur[s] = r
Completing(w, r) == pc[w] \in CompletingPcs /\ cur[w] = r
Claiming(w, r) == pc[w] \in ClaimingPcs /\ cur[w] = r

\* A process that is at an await has what it needs to go on.
FramesOK ==
    /\ \A s \in Sessions :
          /\ pc[s] \notin {"idle", "create"} => cur[s] \in RequestIds
          /\ pc[s] = "create" => who[s] \in Users
          /\ pc[s] = "record" => got[s] \in BalanceIds
    /\ \A w \in Workers :
          /\ pc[w] # "idle" => cur[w] \in RequestIds
          /\ pc[w] \in CompletingPcs => got[w] \in BalanceIds

\* The session that took a hold is alone with the request until the
\* completion job exists: no other session, no worker, no job.
SessionsOwn ==
    \A s \in Sessions, r \in RequestIds : Accepting(s, r) =>
        /\ \A t \in Sessions : Accepting(t, r) => t = s
        /\ \A w \in Workers : ~Completing(w, r)
        /\ completeJob[r] = "none"
        /\ pc[s] \in {"hold", "release"} => status[r] = "HOLDING"
        /\ pc[s] = "record" => status[r] \in {"HOLDING", "ACCEPTED"}
        /\ pc[s] = "record" /\ status[r] = "ACCEPTED" => balanceId[r] = got[s]
        /\ pc[s] = "scheduleCompletion" => status[r] = "ACCEPTED"

\* A completion job exists only for a funded request, and the worker that
\* moved it to COMPLETING is alone until it ends.
WorkersOwn ==
    /\ \A r \in RequestIds : completeJob[r] # "none" => status[r] \in Funded
    /\ \A w \in Workers, r \in RequestIds :
          /\ Completing(w, r) => status[r] \in Funded /\ got[w] = balanceId[r]
          /\ Claiming(w, r) => status[r] = "COMPLETING"
          /\ \A x \in Workers : Claiming(w, r) /\ Claiming(x, r) => x = w

\* The balance id is recorded together with the status.
Recorded ==
    \A r \in RequestIds : balanceId[r] # None <=> status[r] \in Funded

\* Balances belong to requests, and only a recorded balance is ever claimed.
BalancesOwned ==
    /\ \A b \in BalanceIds : escrowOf[b] = None <=> ledger[b] = "none"
    /\ \A r \in RequestIds : balanceId[r] # None => escrowOf[balanceId[r]] = r
    /\ \A s \in Sessions : pc[s] = "record" => escrowOf[got[s]] = cur[s]
    /\ \A b \in BalanceIds : ledger[b] = "claimed" => balanceId[escrowOf[b]] = b

Ownership ==
    /\ TypeOK
    /\ FramesOK
    /\ SessionsOwn
    /\ WorkersOwn
    /\ Recorded
    /\ BalancesOwned

\* Nothing is funded before a hold was placed ...
NothingFundedYet ==
    \A b \in BalanceIds, s \in Sessions :
        pc[s] \in {"hold", "release"} => escrowOf[b] # cur[s]

\* ... and the claim of the worker that owns a request has the effect the
\* worker believes it has.
ClaimsAreSeen ==
    \A w \in Workers :
        /\ pc[w] \in ClaimingPcs \ {"settle"} => ledger[got[w]] # "claimed"
        /\ pc[w] = "settle" => ledger[got[w]] = "claimed"

Escrow ==
    /\ Ownership
    /\ UnansweredUnfunded
    /\ NoDoubleHold
    /\ EscrowAgrees
    /\ NothingFundedYet
    /\ ClaimsAreSeen
-----------------------------------------------------------------------------
(* What one step may do to what the parties see *)

Lifecycle ==
    { <<"ABSENT", "PENDING">>,
      <<"PENDING", "HOLDING">>, <<"PENDING", "DECLINED">>, <<"PENDING", "EXPIRED">>,
      <<"HOLDING", "PENDING">>, <<"HOLDING", "ACCEPTED">>,
      <<"ACCEPTED", "COMPLETING">>,
      <<"COMPLETING", "ACCEPTED">>, <<"COMPLETING", "COMPLETED">> }

StatusMoves(r) ==
    /\ \E edge \in Lifecycle :
          status[r] = edge[1] /\ status' = [status EXCEPT ![r] = edge[2]]
    /\ UNCHANGED escrow

BalanceFunded(b, r) ==
    /\ status[r] = "HOLDING"
    /\ \A c \in BalanceIds : escrowOf[c] # r
    /\ Fund(b, r)

BalanceClaimed(b) ==
    /\ ledger[b] \in Claimable
    /\ status[escrowOf[b]] = "COMPLETING"
    /\ ledger' = [ledger EXCEPT ![b] = "claimed"]
    /\ UNCHANGED escrowOf

BalanceAges(b) ==
    /\ ledger[b] = "open"
    /\ \E to \in {"closed", "reclaimed"} : ledger' = [ledger EXCEPT ![b] = to]
    /\ UNCHANGED escrowOf

\* Money and status move one at a time, along the edges of the lifecycle, and
\* a balance changes hands only while its request is in the transient status
\* that was taken for it.
OneThingAtATime ==
    \/ UNCHANGED <<status, escrow>>
    \/ \E r \in RequestIds : StatusMoves(r)
    \/ /\ UNCHANGED status
       /\ \E b \in BalanceIds :
             \/ \E r \in RequestIds : BalanceFunded(b, r)
             \/ BalanceClaimed(b)
             \/ BalanceAges(b)

StepByStep == [][OneThingAtATime]_vars
=============================================================================
