---------------------- MODULE ContractLifecycleProofs ----------------------
(***************************************************************************)
(* Proofs about ContractLifecycle for any number of contracts, slots,      *)
(* attempts, stalls, members and faults.                                   *)
(***************************************************************************)
EXTENDS ContractLifecycle, TLAPS

USE DEF SlotPcs, Statuses, JobStates, ChainStates

-----------------------------------------------------------------------------
(* Types *)

DeploymentTyped ==
    /\ group \in [status : Statuses, contract : Contracts \cup {None}]
    /\ wasm \in {"no", "sent", "yes"}
    /\ chain \in [Contracts -> ChainStates]
    /\ job \in [state : JobStates, made : 0 .. Attempts, stalls : 0 .. MaxStalled]
    /\ slot \in [Slots -> [pc : SlotPcs, contract : Contracts \cup {None}, owns : BOOLEAN]]
    /\ unsure \in BOOLEAN
    /\ faults \in 0 .. MaxFaults

\* A slot that has the job runs it, no two have it, and a job that is not over
\* has an attempt left.
JobHasOneOwner ==
    /\ \A w \in Slots : slot[w].owns => job.state = "active" /\ slot[w].pc # "idle"
    /\ \A v, w \in Slots : slot[v].owns /\ slot[w].owns => v = w
    /\ job.state \in {"none", "lost", "waiting", "active"} => job.made < Attempts

Contributing == [pc : {"idle", "invoke", "row"}, contract : Contracts \cup {None}]
Reconciling ==
    [pc : {"idle", "query", "rows"}, contract : Contracts \cup {None}, window : Windows,
     early : [Members -> Nat], todo : SUBSET Members, onChain : Nat]

ReconciliationTyped ==
    /\ money \in [Contracts -> [Members -> Nat]]
    /\ recorded \in [Members -> [Windows -> Nat]]
    /\ window \in Windows
    /\ giving \in [Members -> Contributing]
    /\ given \in [Members -> 0 .. MaxContributions]
    /\ unsettled \in [Contracts -> [Members -> Nat]]
    /\ rec \in Reconciling
    /\ reported \subseteq Members

\* What a contribution and a run carry while they are on their way.
CarriersOK ==
    /\ \A m \in Members : giving[m].pc # "idle" => giving[m].contract \in Contracts
    /\ rec.pc # "idle" => rec.contract \in Contracts /\ rec.todo # {}

Typed == DeploymentTyped /\ JobHasOneOwner /\ ReconciliationTyped /\ CarriersOK

\* A fault that is counted stays within the bound.
LEMMA FaultCounted ==
    ASSUME faults \in 0 .. MaxFaults, NEW kind, Fault(kind) \/ NoFault
    PROVE  faults' \in 0 .. MaxFaults
  BY DeploymentAssumption DEF Fault, NoFault

\* EndAttempt leaves the job with an attempt, or failed, and the slot without it.
LEMMA EndAttemptEffect ==
    ASSUME DeploymentTyped, JobHasOneOwner, NEW w \in Slots, slot[w] # Idle, EndAttempt(w)
    PROVE  /\ job' \in [state : JobStates, made : 0 .. Attempts, stalls : 0 .. MaxStalled]
           /\ job'.stalls = job.stalls
           /\ ~slot[w].owns => job' = job
           /\ slot[w].owns => job'.state \in {"waiting", "failed"}
           /\ job'.state = "waiting" => job'.made < Attempts
           /\ slot' = [slot EXCEPT ![w] = Idle]
           /\ slot' \in [Slots -> [pc : SlotPcs, contract : Contracts \cup {None}, owns : BOOLEAN]]
<1> USE DeploymentAssumption DEF DeploymentTyped, JobHasOneOwner, EndAttempt
<1>1. slot' = [slot EXCEPT ![w] = Idle]
  OBVIOUS
<1>2. slot' \in [Slots -> [pc : SlotPcs, contract : Contracts \cup {None}, owns : BOOLEAN]]
  BY DEF Idle
<1>3. CASE ~slot[w].owns
  BY <1>1, <1>2, <1>3
<1>4. CASE slot[w].owns
  <2>1. job.state = "active" /\ job.made \in 0 .. Attempts - 1
    BY <1>4
  <2>2. CASE job.made + 1 < Attempts
    <3>1. job' = [state |-> "waiting", made |-> job.made + 1, stalls |-> job.stalls]
      BY <1>4, <2>2
    <3> QED
      BY <1>1, <1>2, <1>4, <2>1, <2>2, <3>1
  <2>3. CASE ~(job.made + 1 < Attempts)
    <3>1. job' = [state |-> "failed", made |-> job.made + 1, stalls |-> job.stalls]
      BY <1>4, <2>3
    <3> QED
      BY <1>1, <1>2, <1>4, <2>1, <2>3, <3>1
  <2> QED
    BY <2>2, <2>3
<1> QED
  BY <1>3, <1>4

LEMMA DeploymentTypedStep ==
    ASSUME DeploymentTyped, JobHasOneOwner, Deploy
    PROVE  DeploymentTyped' /\ JobHasOneOwner'
<1> USE DeploymentAssumption
        DEF DeploymentTyped, JobHasOneOwner, Fault, NoFault, Goto, Idle, Abandon, Dropped
<1>1. CASE CreateGroup
  BY <1>1 DEF CreateGroup
<1>2. CASE EnqueueDeployment
  <2>1. job.state = "none"
    BY <1>2 DEF EnqueueDeployment
  <2>2. \A w \in Slots : ~slot[w].owns
    BY <2>1
  <2>3. /\ job' \in {[job EXCEPT !.state = "waiting"], [job EXCEPT !.state = "lost"]}
        /\ UNCHANGED <<group, wasm, chain, slot, unsure>>
    BY <1>2 DEF EnqueueDeployment
  <2>4. faults' \in 0 .. MaxFaults
    BY <1>2, FaultCounted DEF EnqueueDeployment
  <2> QED
    BY <2>1, <2>2, <2>3, <2>4
<1>3. ASSUME NEW w \in Slots, StartDeploy(w)
      PROVE  DeploymentTyped' /\ JobHasOneOwner'
  BY <1>3 DEF StartDeploy
<1>4. ASSUME NEW w \in Slots, StartDeployFails(w)
      PROVE  DeploymentTyped' /\ JobHasOneOwner'
  <2>1. job.state = "waiting" /\ job.made \in 0 .. Attempts - 1
    BY <1>4 DEF StartDeployFails
  <2>2. PICK state \in {"waiting", "failed"} :
            /\ job' = [state |-> state, made |-> job.made + 1, stalls |-> job.stalls]
            /\ state = "waiting" => job.made + 1 < Attempts
    <3>1. CASE job.made + 1 < Attempts
      BY <1>4, <2>1, <3>1 DEF StartDeployFails
    <3>2. CASE ~(job.made + 1 < Attempts)
      BY <1>4, <2>1, <3>2 DEF StartDeployFails
    <3> QED
      BY <3>1, <3>2
  <2>3. \A v \in Slots : ~slot[v].owns
    BY <2>1
  <2>4. faults' \in 0 .. MaxFaults
    BY <1>4, FaultCounted DEF StartDeployFails
  <2>5. job' \in [state : JobStates, made : 0 .. Attempts, stalls : 0 .. MaxStalled]
    BY <2>1, <2>2
  <2> QED
    BY <1>4, <2>2, <2>3, <2>4, <2>5 DEF StartDeployFails
<1>5. ASSUME NEW w \in Slots, UploadWasm(w)
      PROVE  DeploymentTyped' /\ JobHasOneOwner'
  BY <1>5 DEF UploadWasm
<1>6. ASSUME NEW w \in Slots, CreateContract(w)
      PROVE  DeploymentTyped' /\ JobHasOneOwner'
  BY <1>6 DEF CreateContract
<1>7. ASSUME NEW w \in Slots, InitContract(w)
      PROVE  DeploymentTyped' /\ JobHasOneOwner'
  <2>1. PICK label \in {"record", "fail"}, c \in {slot[w].contract, None} :
            slot' = [slot EXCEPT ![w].pc = label, ![w].contract = c]
    BY <1>7 DEF InitContract
  <2>2. chain' \in [Contracts -> ChainStates]
    BY <1>7 DEF InitContract
  <2>3. faults' \in 0 .. MaxFaults
    BY <1>7, FaultCounted DEF InitContract
  <2> QED
    BY <1>7, <2>1, <2>2, <2>3 DEF InitContract
<1>8. ASSUME NEW w \in Slots, RecordContract(w)
      PROVE  DeploymentTyped' /\ JobHasOneOwner'
  BY <1>8 DEF RecordContract
<1>9. ASSUME NEW w \in Slots, RecordContractFails(w)
      PROVE  DeploymentTyped' /\ JobHasOneOwner'
  <2>1. slot' = [slot EXCEPT ![w].pc = "fail", ![w].contract = None]
    BY <1>9 DEF RecordContractFails
  <2>2. group' \in {group, [status |-> "DEPLOYED", contract |-> slot[w].contract]}
    BY <1>9 DEF RecordContractFails
  <2>3. chain' \in [Contracts -> ChainStates] /\ unsure' \in BOOLEAN
    <3>1. chain' \in [Contracts -> ChainStates]
      BY <1>9 DEF RecordContractFails
    <3>2. unsure' = unsure \/ unsure' = TRUE
      BY <1>9, Zenon DEF RecordContractFails
    <3> QED
      BY <3>1, <3>2
  <2>4. slot[w].contract \in Contracts \cup {None}
    OBVIOUS
  <2>5. group' \in [status : Statuses, contract : Contracts \cup {None}]
    BY <2>2, <2>4
  <2>6. faults' \in 0 .. MaxFaults
    BY <1>9, FaultCounted DEF RecordContractFails
  <2>7. UNCHANGED <<wasm, job>>
    BY <1>9 DEF RecordContractFails
  <2>8. slot' \in [Slots -> [pc : SlotPcs, contract : Contracts \cup {None}, owns : BOOLEAN]]
    BY <2>1
  <2>9. DeploymentTyped'
    BY <2>3, <2>5, <2>6, <2>7, <2>8
  <2> QED
    BY <2>1, <2>7, <2>9
<1>10. ASSUME NEW w \in Slots, FinishDeploy(w)
       PROVE  DeploymentTyped' /\ JobHasOneOwner'
  <2>1. slot' = [slot EXCEPT ![w] = Idle]
    BY <1>10 DEF FinishDeploy
  <2>2. CASE slot[w].owns
    <3>1. job' = [job EXCEPT !.state = "done"]
      BY <1>10, <2>2 DEF FinishDeploy
    <3>2. \A v \in Slots : ~slot'[v].owns
      BY <2>1, <2>2
    <3> QED
      BY <1>10, <2>1, <2>2, <3>1, <3>2 DEF FinishDeploy
  <2>3. CASE ~slot[w].owns
    BY <1>10, <2>1, <2>3 DEF FinishDeploy
  <2> QED
    BY <2>2, <2>3
<1>11. ASSUME NEW w \in Slots, RecordFailure(w)
       PROVE  DeploymentTyped' /\ JobHasOneOwner'
  BY <1>11, EndAttemptEffect DEF RecordFailure
<1>12. CASE Land
  BY <1>12 DEF Land
<1>13. CASE TakeBack
  <2>1. slot' = [w \in Slots |-> [slot[w] EXCEPT !.owns = FALSE]]
    BY <1>13 DEF TakeBack
  <2>2. \A w \in Slots : slot'[w] \in [pc : SlotPcs, contract : Contracts \cup {None}, owns : {FALSE}]
    BY <2>1
  <2>3. /\ job' \in [state : JobStates, made : 0 .. Attempts, stalls : 0 .. MaxStalled]
        /\ job'.made = job.made
    <3>1. CASE job.stalls < MaxStalled
      <4>1. job' = [state |-> "waiting", made |-> job.made, stalls |-> job.stalls + 1]
        BY <1>13, <3>1 DEF TakeBack
      <4> QED
        BY <3>1, <4>1
    <3>2. CASE ~(job.stalls < MaxStalled)
      <4>1. job' = [state |-> "failed", made |-> job.made, stalls |-> job.stalls]
        BY <1>13, <3>2 DEF TakeBack
      <4> QED
        BY <4>1
    <3> QED
      BY <3>1, <3>2
  <2>4. faults' \in 0 .. MaxFaults
    BY <1>13, FaultCounted DEF TakeBack
  <2> QED
    BY <1>13, <2>1, <2>2, <2>3, <2>4 DEF TakeBack
<1>14. ASSUME NEW w \in Slots, CrashDeploy(w)
       PROVE  DeploymentTyped' /\ JobHasOneOwner'
  BY <1>14 DEF CrashDeploy
<1> QED
  BY <1>1, <1>2, <1>3, <1>4, <1>5, <1>6, <1>7, <1>8, <1>9, <1>10, <1>11, <1>12,
     <1>13, <1>14 DEF Deploy, DeployStep

\* One contribution more or less is a number again.
LEMMA Counted ==
    ASSUME NEW f \in [Contracts -> [Members -> Nat]], NEW c \in Contracts, NEW m \in Members,
           NEW k \in Nat
    PROVE  [f EXCEPT ![c][m] = k] \in [Contracts -> [Members -> Nat]]
<1>1. [f EXCEPT ![c][m] = k] = [f EXCEPT ![c] = [f[c] EXCEPT ![m] = k]]
  OBVIOUS
<1>2. [f[c] EXCEPT ![m] = k] \in [Members -> Nat]
  OBVIOUS
<1> QED
  BY <1>1, <1>2

LEMMA ContributionTypedStep ==
    ASSUME DeploymentTyped, ReconciliationTyped, CarriersOK,
           NEW m \in Members,
           \/ BeginContribute(m) \/ ContributeStep(m) \/ Settle(m) \/ CrashContribute(m),
           UNCHANGED <<deployment, window, reconciliation>>
    PROVE  /\ ReconciliationTyped' /\ CarriersOK'
           /\ faults' \in 0 .. MaxFaults
<1> USE DeploymentAssumption, ReconciliationAssumption
        DEF DeploymentTyped, ReconciliationTyped, CarriersOK, Contributing, NotGiving,
            deployment, reconciliation
<1>1. CASE BeginContribute(m)
  BY <1>1, FaultCounted DEF BeginContribute
<1>2. CASE InvokeContribute(m)
  <2> DEFINE c == giving[m].contract
             more(f) == [f EXCEPT ![c][m] = @ + 1]
  <2>1. c \in Contracts /\ money[c][m] \in Nat /\ unsettled[c][m] \in Nat
    <3>1. c \in Contracts
      BY <1>2 DEF InvokeContribute
    <3> QED
      BY <3>1
  <2>2. giving' \in {[giving EXCEPT ![m].pc = "row"], [giving EXCEPT ![m] = NotGiving]}
    BY <1>2 DEF InvokeContribute
  <2>3. /\ giving' \in [Members -> Contributing]
        /\ \A n \in Members : giving'[n].pc # "idle" => giving'[n].contract \in Contracts
    <3>1. CASE giving' = [giving EXCEPT ![m].pc = "row"]
      BY <2>1, <3>1
    <3>2. CASE giving' = [giving EXCEPT ![m] = NotGiving]
      BY <3>2
    <3> QED
      BY <2>2, <3>1, <3>2
  <2>4. money' \in {money, more(money)} /\ unsettled' \in {unsettled, more(unsettled)}
    BY <1>2 DEF InvokeContribute
  <2>5. money' \in [Contracts -> [Members -> Nat]] /\ unsettled' \in [Contracts -> [Members -> Nat]]
    <3>1. money[c][m] + 1 \in Nat /\ unsettled[c][m] + 1 \in Nat
      BY <2>1
    <3>2. more(money) \in [Contracts -> [Members -> Nat]]
      BY <2>1, <3>1, Counted
    <3>3. more(unsettled) \in [Contracts -> [Members -> Nat]]
      BY <2>1, <3>1, Counted
    <3> QED
      BY <2>4, <3>2, <3>3
  <2>6. faults' \in 0 .. MaxFaults
    BY <1>2, FaultCounted DEF InvokeContribute
  <2>7. UNCHANGED <<recorded, given>>
    BY <1>2 DEF InvokeContribute
  <2> QED
    BY <2>3, <2>5, <2>6, <2>7
<1>3. CASE RecordContribution(m)
  <2>1. recorded[m][window] \in Nat
    OBVIOUS
  <2>2. [recorded[m] EXCEPT ![window] = @ + 1] \in [Windows -> Nat]
    BY <2>1
  <2>3. recorded' \in {recorded, [recorded EXCEPT ![m] = [recorded[m] EXCEPT ![window] = @ + 1]]}
    BY <1>3 DEF RecordContribution
  <2>4. recorded' \in [Members -> [Windows -> Nat]]
    BY <2>2, <2>3
  <2> QED
    BY <1>3, <2>4, FaultCounted DEF RecordContribution
<1>4. CASE Settle(m)
  <2>1. PICK c \in Contracts :
            /\ unsettled[c][m] > 0
            /\ unsettled' = [unsettled EXCEPT ![c][m] = @ - 1]
            /\ money' \in {money, [money EXCEPT ![c][m] = @ + 1]}
    BY <1>4 DEF Settle
  <2>2. unsettled[c][m] - 1 \in Nat /\ money[c][m] + 1 \in Nat
    <3>1. unsettled[c][m] \in Nat /\ money[c][m] \in Nat
      OBVIOUS
    <3> QED
      BY <2>1, <3>1
  <2>3. unsettled' \in [Contracts -> [Members -> Nat]] /\ money' \in [Contracts -> [Members -> Nat]]
    BY <2>1, <2>2, Counted
  <2> QED
    BY <1>4, <2>3, FaultCounted DEF Settle
<1>5. CASE CrashContribute(m)
  BY <1>5, FaultCounted DEF CrashContribute
<1> QED
  BY <1>1, <1>2, <1>3, <1>4, <1>5 DEF ContributeStep

LEMMA CycleTypedStep ==
    ASSUME DeploymentTyped, ReconciliationTyped, CarriersOK, StartCycle,
           UNCHANGED <<deployment, reconciliation>>
    PROVE  /\ ReconciliationTyped' /\ CarriersOK'
           /\ faults' \in 0 .. MaxFaults
<1> USE DeploymentAssumption, ReconciliationAssumption
        DEF DeploymentTyped, ReconciliationTyped, CarriersOK, deployment, reconciliation
<1>1. money' \in [Contracts -> [Members -> Nat]]
  BY DEF StartCycle
<1>2. window' \in Windows
  BY DEF StartCycle, Windows
<1> QED
  BY <1>1, <1>2, FaultCounted DEF StartCycle

LEMMA NoRecType == NoRec \in Reconciling /\ NoRec.pc = "idle"
  BY ReconciliationAssumption DEF NoRec, Reconciling, Windows

\* What follows a member's turn is the next turn of the same run, or its end.
LEMMA DoneType ==
    ASSUME rec \in Reconciling, rec.contract \in Contracts, NEW m \in rec.todo
    PROVE  /\ Done(m) \in Reconciling
           /\ Done(m).pc # "idle" => Done(m).contract \in Contracts /\ Done(m).todo # {}
<1> USE ReconciliationAssumption DEF Reconciling, Done
<1>1. CASE rec.todo = {m}
  BY <1>1, NoRecType
<1>2. CASE rec.todo # {m}
  <2>1. Done(m) = [pc |-> "query", contract |-> rec.contract, window |-> rec.window,
                   early |-> rec.early, todo |-> rec.todo \ {m}, onChain |-> 0]
    BY <1>2
  <2> QED
    BY <1>2, <2>1
<1> QED
  BY <1>1, <1>2

LEMMA RunTypedStep ==
    ASSUME DeploymentTyped, ReconciliationTyped, CarriersOK, RecStep \/ CrashRec,
           UNCHANGED <<deployment, contributions, window>>
    PROVE  /\ ReconciliationTyped' /\ CarriersOK'
           /\ faults' \in 0 .. MaxFaults
<1> USE DeploymentAssumption, ReconciliationAssumption
        DEF DeploymentTyped, ReconciliationTyped, CarriersOK, deployment, contributions
<1>1. CASE StartRec
  <2>1. rec' = [pc |-> "query", contract |-> group.contract, window |-> window,
                early |-> [m \in Members |-> recorded[m][0]], todo |-> Members, onChain |-> 0]
    BY <1>1 DEF StartRec, NoRec
  <2>2. 0 \in Windows
    BY DEF Windows
  <2>3. group.contract \in Contracts
    BY <1>1 DEF StartRec
  <2>4. [m \in Members |-> recorded[m][0]] \in [Members -> Nat]
    BY <2>2
  <2>5. rec' \in Reconciling /\ rec'.contract \in Contracts /\ rec'.todo # {}
    BY <2>1, <2>3, <2>4 DEF Reconciling
  <2> QED
    BY <1>1, <2>5, FaultCounted DEF StartRec
<1>2. CASE QueryMember
  <2>1. rec.contract \in Contracts /\ Turn \in rec.todo
    BY <1>2 DEF QueryMember, Turn
  <2>3. rec' \in Reconciling /\ (rec'.pc # "idle" => rec'.contract \in Contracts /\ rec'.todo # {})
    <3>1. CASE rec' = [rec EXCEPT !.pc = "rows", !.onChain = 0]
      <4>1. rec' = [pc |-> "rows", contract |-> rec.contract, window |-> rec.window,
                    early |-> rec.early, todo |-> rec.todo, onChain |-> 0]
        BY <3>1 DEF Reconciling
      <4> QED
        BY <2>1, <4>1 DEF Reconciling
    <3>3. CASE rec' = Done(Turn)
      BY <2>1, <3>3, DoneType
    <3> QED
      BY <1>2, <3>1, <3>3 DEF QueryMember, QueryContribution
  <2> QED
    BY <1>2, <2>3, FaultCounted DEF QueryMember
<1>3. CASE CompareMember
  <2>1. rec.contract \in Contracts /\ Turn \in rec.todo /\ Turn \in Members
    BY <1>3 DEF CompareMember, Turn, Reconciling
  <2>2. reported' \subseteq Members
    BY <1>3, <2>1 DEF CompareMember
  <2>4. rec' \in Reconciling /\ (rec'.pc # "idle" => rec'.contract \in Contracts /\ rec'.todo # {})
    <3>1. CASE rec' = Done(Turn)
      BY ONLY <2>1, <3>1, DoneType, ReconciliationTyped, ReconciliationAssumption
         DEF ReconciliationTyped
    <3>2. CASE rec' = NoRec
      BY ONLY <3>2, NoRecType
    <3> QED
      BY ONLY <1>3, <3>1, <3>2 DEF CompareMember
  <2> QED
    BY <1>3, <2>2, <2>4, FaultCounted DEF CompareMember
<1>4. CASE CrashRec
  BY <1>4, FaultCounted, NoRecType DEF CrashRec
<1> QED
  BY <1>1, <1>2, <1>3, <1>4 DEF RecStep

LEMMA TypedInit == Init => Typed
<1> SUFFICES ASSUME Init PROVE Typed
  OBVIOUS
<1> USE DeploymentAssumption, ReconciliationAssumption
<1>1. DeploymentTyped /\ JobHasOneOwner
  <2>1. job = [state |-> "none", made |-> 0, stalls |-> 0]
    BY DEF Init, DeploymentInit
  <2>2. slot = [w \in Slots |-> [pc |-> "idle", contract |-> None, owns |-> FALSE]]
    BY DEF Init, DeploymentInit, Idle
  <2>3. group = [status |-> "ABSENT", contract |-> None]
    BY DEF Init, DeploymentInit
  <2>4. job \in [state : JobStates, made : 0 .. Attempts, stalls : 0 .. MaxStalled]
    BY <2>1
  <2>5. slot \in [Slots -> [pc : SlotPcs, contract : Contracts \cup {None}, owns : BOOLEAN]]
    BY <2>2
  <2>6. group \in [status : Statuses, contract : Contracts \cup {None}]
    BY <2>3
  <2>7. JobHasOneOwner
    BY <2>1, <2>2 DEF JobHasOneOwner
  <2>8. wasm = "no" /\ unsure = FALSE /\ faults = 0 /\ chain \in [Contracts -> {"free"}]
    BY DEF Init, DeploymentInit
  <2>9. unsure \in BOOLEAN
    BY <2>8
  <2> QED
    BY <2>4, <2>5, <2>6, <2>7, <2>8, <2>9 DEF DeploymentTyped
<1>2. ReconciliationTyped /\ CarriersOK
  BY DEF Init, ReconciliationInit, ReconciliationTyped, CarriersOK, Contributing,
         Reconciling, NoRec, Windows
<1> QED
  BY <1>1, <1>2 DEF Typed

LEMMA TypedStep == Typed /\ [Next]_vars => Typed'
<1> SUFFICES ASSUME Typed, [Next]_vars
             PROVE  Typed'
  OBVIOUS
<1> USE DEF Typed
<1>1. CASE Deploy /\ UNCHANGED <<contributions, window, reconciliation>>
  <2>1. DeploymentTyped' /\ JobHasOneOwner'
    BY <1>1, DeploymentTypedStep
  <2> QED
    BY <1>1, <2>1 DEF ReconciliationTyped, CarriersOK, contributions, reconciliation
<1>2. CASE Contribute /\ UNCHANGED <<deployment, window, reconciliation>>
  <2>1. ReconciliationTyped' /\ CarriersOK' /\ faults' \in 0 .. MaxFaults
    BY <1>2, ContributionTypedStep DEF Contribute
  <2> QED
    BY <1>2, <2>1 DEF DeploymentTyped, JobHasOneOwner, deployment
<1>3. CASE StartCycle /\ UNCHANGED <<deployment, reconciliation>>
  <2>1. ReconciliationTyped' /\ CarriersOK' /\ faults' \in 0 .. MaxFaults
    BY <1>3, CycleTypedStep
  <2> QED
    BY <1>3, <2>1 DEF DeploymentTyped, JobHasOneOwner, deployment
<1>4. CASE (RecStep \/ CrashRec) /\ UNCHANGED <<deployment, contributions, window>>
  <2>1. ReconciliationTyped' /\ CarriersOK' /\ faults' \in 0 .. MaxFaults
    BY <1>4, RunTypedStep
  <2> QED
    BY <1>4, <2>1 DEF DeploymentTyped, JobHasOneOwner, deployment
<1>5. CASE UNCHANGED vars
  BY <1>5 DEF vars, DeploymentTyped, JobHasOneOwner, ReconciliationTyped, CarriersOK,
              deployment, contributions, reconciliation
<1> QED
  BY <1>1, <1>2, <1>3, <1>4, <1>5 DEF Next

LEMMA TypedInvariant == Spec => []Typed
  BY TypedInit, TypedStep, PTL DEF Spec

\* Every variable keeps its type, whatever goes wrong how often.
THEOREM TypeCorrect == Spec => []TypeOK
<1>1. Typed => TypeOK
  BY DEF Typed, DeploymentTyped, ReconciliationTyped, Contributing, Reconciling, TypeOK
<1> QED
  BY <1>1, TypedInvariant, PTL

-----------------------------------------------------------------------------
(* The contract of the row *)

OnLedger == {"exists", "initializing", "ready"}

\* A slot carries a contract id from its creation until it is written or
\* dropped.  Nobody else carries it, the row does not have it, and the
\* simulation that let the attempt go on has seen it on the ledger.
SlotsCarry ==
    /\ \A w \in Slots : slot[w].contract # None <=> slot[w].pc \in {"init", "record"}
    /\ \A w \in Slots : slot[w].pc = "init" => chain[slot[w].contract] \in {"creating", "exists"}
    /\ \A w \in Slots : slot[w].pc = "record" => chain[slot[w].contract] \in OnLedger
    /\ \A v, w \in Slots : slot[v].contract # None /\ slot[v].contract = slot[w].contract => v = w
    /\ \A w \in Slots : slot[w].contract # None => slot[w].contract # group.contract

RowOnLedger == group.contract # None => chain[group.contract] \in OnLedger

\* As long as BullMQ took the job back from nobody, one slot at most works, and
\* none while the job waits or is done.
OneRun ==
    job.stalls = 0 =>
        /\ \A v, w \in Slots : slot[v].pc # "idle" /\ slot[w].pc # "idle" => v = w
        /\ job.state \in {"none", "lost", "waiting", "done"} =>
              \A w \in Slots : slot[w].pc = "idle"

\* Once an id is written and no failure was reported, all that is left of the
\* only run is to complete the job.
WrittenOnce ==
    job.stalls = 0 /\ ~unsure /\ group.contract # None =>
        /\ job.state \in {"active", "done", "failed"}
        /\ \A w \in Slots : slot[w].pc \in {"idle", "finish"}

Carried == SlotsCarry /\ RowOnLedger
Kept == OneRun /\ WrittenOnce

LEMMA CarriedStep ==
    ASSUME DeploymentTyped, Carried, Deploy
    PROVE  Carried'
<1> USE DeploymentAssumption DEF DeploymentTyped, Carried, SlotsCarry, RowOnLedger, OnLedger
<1>1. CASE CreateGroup
  BY <1>1 DEF CreateGroup
<1>2. CASE EnqueueDeployment
  BY <1>2 DEF EnqueueDeployment
<1>3. ASSUME NEW w \in Slots, StartDeploy(w)
      PROVE  Carried'
  BY <1>3 DEF StartDeploy, Idle
<1>4. ASSUME NEW w \in Slots, StartDeployFails(w)
      PROVE  Carried'
  BY <1>4 DEF StartDeployFails
<1>5. ASSUME NEW w \in Slots, UploadWasm(w)
      PROVE  Carried'
  <2>1. group' = group /\ chain' = chain
    BY <1>5 DEF UploadWasm
  <2>2. slot[w].pc = "upload" /\ slot'[w].pc \in {"create", "fail"}
    BY <1>5 DEF UploadWasm, Goto
  <2>3. \A v \in Slots : slot'[v].contract = slot[v].contract
    BY <1>5 DEF UploadWasm, Goto
  <2>4. \A v \in Slots : v # w => slot'[v].pc = slot[v].pc
    BY <1>5 DEF UploadWasm, Goto
  <2> QED
    BY <2>1, <2>2, <2>3, <2>4
<1>6. ASSUME NEW w \in Slots, CreateContract(w)
      PROVE  Carried'
  <2>1. CASE Abandon(w)
    <3>1. slot[w].pc = "create" /\ group' = group
      BY <1>6 DEF CreateContract
    <3>2. slot[w].contract = None
      BY <3>1
    <3>3. \A c \in Contracts : chain'[c] = chain[c]
      BY <2>1, <3>2 DEF Abandon, Dropped
    <3>4. slot'[w].pc = "fail" /\ slot'[w].contract = None
      BY <2>1 DEF Abandon
    <3>5. \A v \in Slots : v # w => slot'[v] = slot[v]
      BY <2>1 DEF Abandon
    <3> QED
      BY <3>1, <3>2, <3>3, <3>4, <3>5
  <2>2. ASSUME NEW c \in Contracts, chain[c] = "free",
               slot' = [slot EXCEPT ![w].pc = "init", ![w].contract = c],
               NEW s \in {"exists", "creating"}, chain' = [chain EXCEPT ![c] = s]
        PROVE  Carried'
    <3>1. group' = group
      BY <1>6 DEF CreateContract
    <3>2. slot'[w].pc = "init" /\ slot'[w].contract = c
      BY <2>2
    <3>3. \A v \in Slots : v # w => slot'[v] = slot[v]
      BY <2>2
    <3>4. \A v \in Slots : slot[v].contract # c
      BY <2>2
    <3>5. group.contract # c
      BY <2>2
    <3> QED
      BY <2>2, <3>1, <3>2, <3>3, <3>4, <3>5
  <2> QED
    BY <1>6, <2>1, <2>2 DEF CreateContract
<1>7. ASSUME NEW w \in Slots, InitContract(w)
      PROVE  Carried'
  <2> DEFINE c == slot[w].contract
  <2>1. slot[w].pc = "init" /\ c \in Contracts
    BY <1>7 DEF InitContract
  <2>2. CASE Abandon(w)
    BY <1>7, <2>1, <2>2 DEF InitContract, Abandon, Dropped
  <2>3. ASSUME Goto(w, "record"), NEW s \in {"ready", "initializing"},
               chain' = [chain EXCEPT ![c] = s]
        PROVE  Carried'
    <3>1. group' = group
      BY <1>7 DEF InitContract
    <3>2. slot'[w].pc = "record" /\ slot'[w].contract = c
      BY <2>3 DEF Goto
    <3>3. \A v \in Slots : v # w => slot'[v] = slot[v]
      BY <2>3 DEF Goto
    <3>4. \A v \in Slots : v # w => slot[v].contract # c
      BY <2>1
    <3>5. group.contract # c
      BY <2>1
    <3> QED
      BY <2>1, <2>3, <3>1, <3>2, <3>3, <3>4, <3>5
  <2> QED
    BY <1>7, <2>2, <2>3 DEF InitContract
<1>8. ASSUME NEW w \in Slots, RecordContract(w)
      PROVE  Carried'
  BY <1>8 DEF RecordContract
<1>9. ASSUME NEW w \in Slots, RecordContractFails(w)
      PROVE  Carried'
  <2>1. CASE Abandon(w) /\ UNCHANGED group
    BY <1>9, <2>1 DEF RecordContractFails, Abandon, Dropped
  <2>2. CASE ~(Abandon(w) /\ UNCHANGED group)
    BY <1>9, <2>2 DEF RecordContractFails
  <2> QED
    BY <2>1, <2>2
<1>10. ASSUME NEW w \in Slots, FinishDeploy(w)
       PROVE  Carried'
  BY <1>10 DEF FinishDeploy, Idle
<1>11. ASSUME NEW w \in Slots, RecordFailure(w)
       PROVE  Carried'
  BY <1>11 DEF RecordFailure, EndAttempt, Idle
<1>12. CASE Land
  BY <1>12 DEF Land
<1>13. CASE TakeBack
  BY <1>13 DEF TakeBack
<1>14. ASSUME NEW w \in Slots, CrashDeploy(w)
       PROVE  Carried'
  BY <1>14 DEF CrashDeploy, Idle, Dropped
<1> QED
  BY <1>1, <1>2, <1>3, <1>4, <1>5, <1>6, <1>7, <1>8, <1>9, <1>10, <1>11, <1>12,
     <1>13, <1>14 DEF Deploy, DeployStep

LEMMA CarriedInvariant == Spec => []Carried
<1>1. Init => Carried
  BY DeploymentAssumption
     DEF Init, DeploymentInit, Carried, SlotsCarry, RowOnLedger, Idle
<1>2. Typed /\ Carried /\ [Next]_vars => Carried'
  <2> SUFFICES ASSUME Typed, Carried, [Next]_vars PROVE Carried'
    OBVIOUS
  <2>1. CASE Deploy
    BY <2>1, CarriedStep DEF Typed
  <2>2. CASE UNCHANGED deployment
    BY <2>2 DEF deployment, Carried, SlotsCarry, RowOnLedger
  <2> QED
    BY <2>1, <2>2 DEF Next, vars
<1> QED
  BY <1>1, <1>2, TypedInvariant, PTL DEF Spec

\* The contract id of a group is that of a contract on the ledger, although
\* unconfirmed transactions count as done (deployGroupContract).
THEOREM DeployedContractExistsCorrect == Spec => []DeployedContractExists
<1>1. Carried => DeployedContractExists
  BY DEF Carried, RowOnLedger, OnLedger, DeployedContractExists
<1> QED
  BY <1>1, CarriedInvariant, PTL

LEMMA KeptStep ==
    ASSUME DeploymentTyped, JobHasOneOwner, Kept, Deploy
    PROVE  Kept'
<1> USE DeploymentAssumption DEF DeploymentTyped, Kept, OneRun, WrittenOnce
<1>1. CASE CreateGroup
  BY <1>1 DEF CreateGroup
<1>2. CASE EnqueueDeployment
  BY <1>2 DEF EnqueueDeployment
<1>3. ASSUME NEW w \in Slots, StartDeploy(w)
      PROVE  Kept'
  BY <1>3 DEF StartDeploy, Idle
<1>4. ASSUME NEW w \in Slots, StartDeployFails(w)
      PROVE  Kept'
  BY <1>4 DEF StartDeployFails
<1>5. ASSUME NEW w \in Slots, UploadWasm(w)
      PROVE  Kept'
  BY <1>5 DEF UploadWasm, Goto
<1>6. ASSUME NEW w \in Slots, CreateContract(w)
      PROVE  Kept'
  BY <1>6 DEF CreateContract, Abandon
<1>7. ASSUME NEW w \in Slots, InitContract(w)
      PROVE  Kept'
  BY <1>7 DEF InitContract, Goto, Abandon
<1>8. ASSUME NEW w \in Slots, RecordContract(w)
      PROVE  Kept'
  BY <1>8 DEF RecordContract
<1>9. ASSUME NEW w \in Slots, RecordContractFails(w)
      PROVE  Kept'
  BY <1>9 DEF RecordContractFails, Abandon
<1>10. ASSUME NEW w \in Slots, FinishDeploy(w)
       PROVE  Kept'
  BY <1>10 DEF FinishDeploy, Idle, JobHasOneOwner
<1>11. ASSUME NEW w \in Slots, RecordFailure(w)
       PROVE  Kept'
  BY <1>11, EndAttemptEffect DEF RecordFailure, Idle
<1>12. CASE Land
  BY <1>12 DEF Land
<1>13. CASE TakeBack
  BY <1>13 DEF TakeBack
<1>14. ASSUME NEW w \in Slots, CrashDeploy(w)
       PROVE  Kept'
  BY <1>14 DEF CrashDeploy, Idle
<1> QED
  BY <1>1, <1>2, <1>3, <1>4, <1>5, <1>6, <1>7, <1>8, <1>9, <1>10, <1>11, <1>12,
     <1>13, <1>14 DEF Deploy, DeployStep

LEMMA KeptInvariant == Spec => []Kept
<1>1. Init => Kept
  BY DeploymentAssumption
     DEF Init, DeploymentInit, Kept, OneRun, WrittenOnce, Idle
<1>2. Typed /\ Kept /\ [Next]_vars => Kept'
  <2> SUFFICES ASSUME Typed, Kept, [Next]_vars PROVE Kept'
    OBVIOUS
  <2>1. CASE Deploy
    BY <2>1, KeptStep DEF Typed
  <2>2. CASE UNCHANGED deployment
    BY <2>2 DEF deployment, Kept, OneRun, WrittenOnce
  <2> QED
    BY <2>1, <2>2 DEF Next, vars
<1> QED
  BY <1>1, <1>2, TypedInvariant, PTL DEF Spec

\* Only an attempt that is about to write its id changes the row's.
LEMMA RowChanges ==
    ASSUME Deploy, group'.contract # group.contract, DeploymentTyped
    PROVE  \E w \in Slots : slot[w].pc = "record"
  BY DEF Deploy, DeployStep, CreateGroup, EnqueueDeployment, StartDeploy, StartDeployFails,
         UploadWasm, CreateContract, InitContract, RecordContract, RecordContractFails,
         FinishDeploy, RecordFailure, Land, TakeBack, CrashDeploy, DeploymentTyped

\* A group keeps its contract unless its job was handed out again or was told
\* that the write which named the contract had failed, for any number of
\* attempts and slots (deployGroupContract, the schema's stellarContractId).
THEOREM ContractKeptCorrect == Spec => ContractKept
<1> DEFINE Replaced ==
        group.contract # None /\ group'.contract # group.contract => unsure \/ job.stalls > 0
<1>1. Typed /\ Kept /\ [Next]_vars => Replaced
  <2> SUFFICES ASSUME Typed, Kept, [Next]_vars, group.contract # None,
                      group'.contract # group.contract
               PROVE  unsure \/ job.stalls > 0
    OBVIOUS
  <2>1. Deploy
    BY DEF Next, vars, deployment
  <2>2. \E w \in Slots : slot[w].pc = "record"
    BY <2>1, RowChanges DEF Typed
  <2>3. unsure \/ job.stalls # 0
    BY <2>2 DEF Kept, WrittenOnce
  <2>4. job.stalls \in 0 .. MaxStalled
    BY DEF Typed, DeploymentTyped
  <2> QED
    BY <2>3, <2>4, DeploymentAssumption
<1>2. Typed /\ Kept /\ [Next]_vars => [Replaced]_vars
  BY <1>1
<1> QED
  BY <1>2, TypedInvariant, KeptInvariant, PTL DEF Spec, ContractKept
=============================================================================
