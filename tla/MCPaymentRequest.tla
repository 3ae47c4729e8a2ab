-------------------------- MODULE MCPaymentRequest --------------------------
(***************************************************************************)
(* Instances of PaymentRequest for TLC.  Users, requests, balances,        *)
(* sessions and workers are model values and interchangeable.              *)
(***************************************************************************)
EXTENDS PaymentRequestInductive, TLC

\* Processes and ids are used symmetrically; safety runs only.
Symmetry == Permutations(Users) \cup Permutations(RequestIds)
              \cup Permutations(BalanceIds) \cup Permutations(Sessions)
              \cup Permutations(Workers)
=============================================================================
