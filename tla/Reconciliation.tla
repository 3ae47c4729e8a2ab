--------------------------- MODULE Reconciliation ---------------------------
(***************************************************************************)
(* Contributions to the deployed contract and the reconciliation run that  *)
(* compares it with the database (workers/contract-sync.worker.ts): every  *)
(* five minutes, member by member, first the contract, then the rows.      *)
(***************************************************************************)
EXTENDS ContractDeployment

CONSTANTS
    Members,          \* members of the group
    MaxContributions, \* bound on the contributions a member makes
    MaxWindows        \* bound on the cycles that start

ASSUME ReconciliationAssumption ==
    /\ None \notin Members /\ Members # {}
    /\ MaxContributions \in Nat /\ MaxWindows \in Nat

VARIABLES
    money,    \* what each contract has of each member
    recorded, \* COMPLETED rows of each member, by the window they fall into
    window,   \* how many cycles have started; 0: currentCycleStart is null
    giving,   \* what a member's CONTRIBUTE awaits, and for which contract
    given,    \* contributions each member has begun
    unsettled,\* contributions sent but not confirmed, by contract and member
    rec,      \* the reconciliation run
    reported  \* members with a ReconciliationMismatch row; repetitions count once

contributions == <<money, recorded, giving, given, unsettled>>
reconciliation == <<rec, reported>>

Windows == 0 .. MaxWindows
NoRec == [pc |-> "idle", contract |-> None, window |-> 0, early |-> [m \in Members |-> 0],
          todo |-> {}, onChain |-> 0]

ReconciliationInit ==
    /\ money = [c \in Contracts |-> [m \in Members |-> 0]]
    /\ recorded = [m \in Members |-> [k \in Windows |-> 0]]
    /\ window = 0
    /\ giving = [m \in Members |-> [pc |-> "idle", contract |-> None]]
    /\ given = [m \in Members |-> 0]
    /\ unsettled = [c \in Contracts |-> [m \in Members |-> 0]]
    /\ rec = NoRec
    /\ reported = {}

-----------------------------------------------------------------------------
(* CONTRIBUTE *)

NotGiving == [pc |-> "idle", contract |-> None]

\* The group needs a contract id; its deploymentStatus is not looked at.
BeginContribute(m) ==
    /\ giving[m].pc = "idle"
    /\ given[m] < MaxContributions
    /\ group.contract # None
    /\ giving' = [giving EXCEPT ![m] = [pc |-> "invoke", contract |-> group.contract]]
    /\ given' = [given EXCEPT ![m] = @ + 1]
    /\ UNCHANGED <<money, recorded, unsettled>> /\ NoFault

\* Confirmed, and the row comes next; or sent and not confirmed, which leaves a
\* PENDING row that is never looked at again; or it throws, and may land still.
InvokeContribute(m) ==
    /\ giving[m].pc = "invoke"
    /\ LET c == giving[m].contract IN
        \/ /\ money' = [money EXCEPT ![c][m] = @ + 1]
           /\ giving' = [giving EXCEPT ![m].pc = "row"]
           /\ UNCHANGED unsettled /\ NoFault
        \/ /\ unsettled' = [unsettled EXCEPT ![c][m] = @ + 1]
           /\ giving' = [giving EXCEPT ![m] = NotGiving]
           /\ UNCHANGED money /\ Fault("slow")
        \/ /\ unsettled' \in {unsettled, [unsettled EXCEPT ![c][m] = @ + 1]}
           /\ giving' = [giving EXCEPT ![m] = NotGiving]
           /\ UNCHANGED money /\ Fault("rpc")
    /\ UNCHANGED <<recorded, given>>

\* An unconfirmed contribution lands, or never does.
Settle(m) ==
    /\ \E c \in Contracts :
          /\ unsettled[c][m] > 0
          /\ unsettled' = [unsettled EXCEPT ![c][m] = @ - 1]
          /\ money' \in {money, [money EXCEPT ![c][m] = @ + 1]}
    /\ UNCHANGED <<recorded, giving, given>> /\ NoFault

\* addContribution; the row that fails is not written later.
RecordContribution(m) ==
    /\ giving[m].pc = "row"
    /\ \/ recorded' = [recorded EXCEPT ![m][window] = @ + 1] /\ NoFault
       \/ UNCHANGED recorded /\ Fault("db")
    /\ giving' = [giving EXCEPT ![m] = NotGiving]
    /\ UNCHANGED <<money, given, unsettled>>

CrashContribute(m) ==
    /\ Fault("crash")
    /\ giving[m].pc # "idle"
    /\ giving' = [giving EXCEPT ![m] = NotGiving]
    /\ UNCHANGED <<money, recorded, given, unsettled>>

ContributeStep(m) == InvokeContribute(m) \/ RecordContribution(m)

\* The cycle-start job moves the window.  Nothing in src/ tells the contract,
\* whose total is said to be that of "this cycle": it may begin again or not.
StartCycle ==
    /\ window < MaxWindows
    /\ window' = window + 1
    /\ money' \in {money, [c \in Contracts |-> [m \in Members |-> 0]]}
    /\ UNCHANGED <<recorded, giving, given, unsettled>> /\ NoFault

-----------------------------------------------------------------------------
(* A run *)

\* The group is read with its window: rows from currentCycleStart on, or from
\* the beginning until now.
StartRec ==
    /\ rec = NoRec
    /\ group.status = "DEPLOYED" /\ group.contract # None
    /\ rec' = [NoRec EXCEPT !.pc = "query", !.contract = group.contract, !.window = window,
                            !.early = [m \in Members |-> recorded[m][0]],
                            !.todo = Members]
    /\ UNCHANGED reported /\ NoFault

\* After a member comes the next one, or the end.
Done(m) ==
    IF rec.todo = {m} THEN NoRec
    ELSE [rec EXCEPT !.pc = "query", !.todo = @ \ {m}, !.onChain = 0]

\* The member whose turn it is; findMany returns them in some order.
Turn == CHOOSE m \in rec.todo : TRUE

\* queryContribution answers 0 when the simulation fails.  When it succeeds the
\* amount is looked for in the field results of the raw response, which the
\* SDK's parsed response does not have (its field is result), and the answer is
\* 0 as well.
QueryContribution == 0

\* It throws when there is no response; the member is then skipped.
QueryMember ==
    /\ rec.pc = "query"
    /\ \/ rec' = [rec EXCEPT !.pc = "rows", !.onChain = QueryContribution] /\ NoFault
       \/ rec' = Done(Turn) /\ Fault("rpc")
    /\ UNCHANGED reported

\* COMPLETED rows of the window that was read with the group.
RowsOf(m) == IF rec.window = 0 THEN rec.early[m] ELSE recorded[m][rec.window]

\* Mutant of CompareMember: only money that has no row is reported.
CompareAtMost ==
    /\ rec.pc = "rows"
    /\ reported' = IF rec.onChain <= RowsOf(Turn) THEN reported
                   ELSE reported \cup {Turn}
    /\ rec' = Done(Turn) /\ NoFault

\* The rows are read and compared, and a mismatch is recorded, also one that
\* an earlier run recorded.  A failing statement ends the attempt.
CompareMember ==
    /\ rec.pc = "rows"
    /\ \/ /\ reported' = IF rec.onChain = RowsOf(Turn) THEN reported
                         ELSE reported \cup {Turn}
          /\ rec' = Done(Turn) /\ NoFault
       \/ /\ rec' = NoRec
          /\ UNCHANGED reported /\ Fault("db")

CrashRec ==
    /\ Fault("crash")
    /\ rec # NoRec
    /\ rec' = NoRec
    /\ UNCHANGED reported

RecStep == StartRec \/ QueryMember \/ CompareMember
=============================================================================
