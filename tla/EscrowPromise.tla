---------------------------- MODULE EscrowPromise ----------------------------
(***************************************************************************)
(* What a payment request promises its two parties, without sessions,      *)
(* jobs or claimable balances: the respondent's money leaves the account   *)
(* once and only for a request that was not refused, the request counts as *)
(* agreed only once the money is locked, and as done only once the         *)
(* requester has it.                                                       *)
(***************************************************************************)
CONSTANT Requests

VARIABLES
    answer, \* what the parties have been told about each request
    money   \* where the respondent's money for it is

promise == <<answer, money>>

Answers == {"absent", "asked", "refused", "agreed", "done"}
Places == {"untouched", "locked", "paid", "returned"}

PromiseTypeOK ==
    /\ answer \in [Requests -> Answers]
    /\ money \in [Requests -> Places]

PromiseInit ==
    /\ answer = [r \in Requests |-> "absent"]
    /\ money = [r \in Requests |-> "untouched"]

Moves(f, r, from, to) == f[r] = from /\ f' = [f EXCEPT ![r] = to]

Ask(r) == Moves(answer, r, "absent", "asked") /\ UNCHANGED money

Refuse(r) ==
    /\ money[r] = "untouched"
    /\ Moves(answer, r, "asked", "refused")
    /\ UNCHANGED money

Lock(r) ==
    /\ answer[r] = "asked"
    /\ Moves(money, r, "untouched", "locked")
    /\ UNCHANGED answer

\* The balance may have been taken back before the answer is recorded.
Agree(r) ==
    /\ money[r] \in {"locked", "returned"}
    /\ Moves(answer, r, "asked", "agreed")
    /\ UNCHANGED money

Pay(r) ==
    /\ answer[r] = "agreed"
    /\ Moves(money, r, "locked", "paid")
    /\ UNCHANGED answer

TakeBack(r) == Moves(money, r, "locked", "returned") /\ UNCHANGED answer

Conclude(r) ==
    /\ money[r] = "paid"
    /\ Moves(answer, r, "agreed", "done")
    /\ UNCHANGED money

PromiseNext ==
    \E r \in Requests :
        \/ Ask(r) \/ Refuse(r) \/ Lock(r) \/ Agree(r)
        \/ Pay(r) \/ TakeBack(r) \/ Conclude(r)

PromiseSpec == PromiseInit /\ [][PromiseNext]_promise
=============================================================================
