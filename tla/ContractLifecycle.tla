------------------------- MODULE ContractLifecycle -------------------------
(***************************************************************************)
(* One group's contract: deployed, contributed to and reconciled while     *)
(* calls time out, writes fail, jobs stall and processes die.              *)
(***************************************************************************)
EXTENDS Reconciliation

vars == <<deployment, contributions, window, reconciliation, faults>>

Init == DeploymentInit /\ ReconciliationInit

Deploy ==
    \/ CreateGroup \/ EnqueueDeployment
    \/ \E w \in Slots : DeployStep(w) \/ CrashDeploy(w)
    \/ Land \/ TakeBack

Contribute ==
    \E m \in Members :
        BeginContribute(m) \/ ContributeStep(m) \/ Settle(m) \/ CrashContribute(m)

Next ==
    \/ Deploy /\ UNCHANGED <<contributions, window, reconciliation>>
    \/ Contribute /\ UNCHANGED <<deployment, window, reconciliation>>
    \/ StartCycle /\ UNCHANGED <<deployment, reconciliation>>
    \/ (RecStep \/ CrashRec) /\ UNCHANGED <<deployment, contributions, window>>

Spec == Init /\ [][Next]_vars

\* The cron starts runs for ever and the worker carries them out.
Fairness == WF_vars(RecStep /\ UNCHANGED <<deployment, contributions, window>>)

FairSpec == Spec /\ Fairness
-----------------------------------------------------------------------------
(* Properties *)

TypeOK ==
    /\ group \in [status : Statuses, contract : Contracts \cup {None}]
    /\ wasm \in {"no", "sent", "yes"}
    /\ chain \in [Contracts -> ChainStates]
    /\ job \in [state : JobStates, made : 0 .. Attempts, stalls : 0 .. MaxStalled]
    /\ slot \in [Slots -> [pc : SlotPcs, contract : Contracts \cup {None}, owns : BOOLEAN]]
    /\ unsure \in BOOLEAN
    /\ money \in [Contracts -> [Members -> Nat]]
    /\ recorded \in [Members -> [Windows -> Nat]]
    /\ window \in Windows
    /\ giving \in [Members -> [pc : {"idle", "invoke", "row"}, contract : Contracts \cup {None}]]
    /\ given \in [Members -> 0 .. MaxContributions]
    /\ unsettled \in [Contracts -> [Members -> Nat]]
    /\ rec.pc \in {"idle", "query", "rows"} /\ rec.todo \subseteq Members
    /\ faults \in 0 .. MaxFaults /\ reported \subseteq Members

\* A contract id in the row is that of a contract on the ledger, although a
\* transaction that was never confirmed counts as done: the simulation of
\* initialize() fails unless the creation has landed (deployGroupContract).
DeployedContractExists ==
    group.contract # None => chain[group.contract] \in {"exists", "initializing", "ready"}

\* A group keeps its contract, and the money in it: an attempt that succeeded is
\* not repeated, however many failed before.  Only a job that BullMQ hands out
\* again, or whose last write is reported to have failed, replaces it
\* (prisma/schema.prisma, "Soroban contract ID once deployed").
ContractKept ==
    [][group.contract # None /\ group'.contract # group.contract
          => unsure \/ job.stalls > 0]_vars

\* Nobody deploys any more, and the run scans the group.
Settled ==
    /\ group.status = "DEPLOYED"
    /\ job.state = "done"
    /\ \A w \in Slots : slot[w] = Idle

\* Rows of the cycle that runs which claim more than the contract has of a member.
Lacks(m) == group.contract # None /\ recorded[m][window] > money[group.contract][m]

\* Money that rows of this cycle claim and the contract does not have, because
\* it is in a contract that was replaced or the contract has begun its total
\* again, is reported by a later run, although runs crash, skip members and fail,
\* and the cycle may begin or end between its reads (contract-sync.worker.ts,
\* "Flags any divergence").
MissingMoneyIsReported ==
    \A m \in Members : Settled /\ Lacks(m) ~> m \in reported \/ ~Lacks(m)

\* Money of a member that the contract has and no row accounts for.
RowsSum(m) ==
    LET sum[k \in 0 .. MaxWindows] == recorded[m][k] + IF k = 0 THEN 0 ELSE sum[k - 1]
    IN  sum[MaxWindows]
Exceeds(m) == group.contract # None /\ money[group.contract][m] > RowsSum(m)
Unrecorded(m) == Exceeds(m) /\ giving[m].pc = "idle"

\* A contribution that is on the ledger and will have no row is reported by a
\* later run, once the deployment is over and unless the contract begins its
\* total again first (handleContribute, "the reconciliation worker will detect
\* any divergence that slips through a crash between confirmation and the DB
\* write").  This is the weakest reading: the contract of now has more of the
\* member than all rows together, whatever contract or cycle they are from.
\* The code does not do this: it never learns what the contract has.
LossIsReported ==
    \A m \in Members : Settled /\ Unrecorded(m) ~> m \in reported \/ ~Exceeds(m)
=============================================================================
