------------------------- MODULE ContractDeployment -------------------------
(***************************************************************************)
(* From CREATE GROUP to a deployed Soroban contract: the group row, the    *)
(* deployment job (queue/soroban-deployment.queue.ts), the two slots of    *)
(* its worker and the transactions they submit.                            *)
(*                                                                         *)
(* Every attempt creates a contract of its own, from a random salt.  A     *)
(* transaction that is not confirmed within the polls counts as done, and  *)
(* lands later or never.                                                   *)
(***************************************************************************)
EXTENDS Naturals, FiniteSets

CONSTANTS
    Contracts,  \* contract ids
    Slots,      \* the worker's slots, two in the code
    None,       \* null
    Attempts,   \* attempts of a deployment job, three in the code
    MaxStalled, \* maxStalledCount, after which BullMQ fails a job
    Faults,     \* what may go wrong, see FaultKinds
    MaxFaults   \* bound on how often something goes wrong

FaultKinds == { "rpc",      \* a Soroban call throws, whatever the ledger made of it
                "slow",     \* a transaction is not confirmed within the polls
                "db",       \* a statement is rejected or its reply lost
                "queue",    \* Redis is away
                "stall",    \* BullMQ hands a running job out again
                "crash" }   \* a process dies between two awaits

ASSUME DeploymentAssumption ==
    /\ None \notin Contracts
    /\ Attempts \in Nat \ {0}
    /\ MaxStalled \in Nat
    /\ Faults \subseteq FaultKinds
    /\ MaxFaults \in Nat

VARIABLES
    group,  \* SavingsGroup: deploymentStatus and stellarContractId
    wasm,   \* whether the contract code is on the ledger
    chain,  \* state of each contract on the ledger
    job,    \* BullMQ job deploy-contract:<id>
    slot,   \* what each slot awaits, for which contract, and if it has the job
    unsure, \* an id was written and the worker told it was not (observed only)
    faults  \* how often something went wrong (bounds the model)

deployment == <<group, wasm, chain, job, slot, unsure>>

Statuses == {"ABSENT", "PENDING", "DEPLOYING", "DEPLOYED", "FAILED"}
JobStates == {"none", "lost", "waiting", "active", "done", "failed"}
SlotPcs == {"idle", "upload", "create", "init", "record", "finish", "fail"}

\* "creating" and "initializing": sent, not confirmed.
ChainStates == {"free", "creating", "exists", "initializing", "ready"}

Idle == [pc |-> "idle", contract |-> None, owns |-> FALSE]

DeploymentInit ==
    /\ group = [status |-> "ABSENT", contract |-> None]
    /\ wasm = "no"
    /\ chain = [c \in Contracts |-> "free"]
    /\ job = [state |-> "none", made |-> 0, stalls |-> 0]
    /\ slot = [w \in Slots |-> Idle]
    /\ unsure = FALSE
    /\ faults = 0

\* What goes wrong, while the bound allows, and what does not.
Fault(kind) == kind \in Faults /\ faults < MaxFaults /\ faults' = faults + 1
NoFault == UNCHANGED faults

-----------------------------------------------------------------------------
(* createGroup *)

CreateGroup ==
    /\ group.status = "ABSENT"
    /\ group' = [group EXCEPT !.status = "PENDING"]
    /\ UNCHANGED <<wasm, chain, job, slot, unsure>> /\ NoFault

\* The job is added after the row and the schedule; when Redis is away there
\* is no job, and nothing adds it later.
EnqueueDeployment ==
    /\ group.status = "PENDING" /\ job.state = "none"
    /\ \/ job' = [job EXCEPT !.state = "waiting"] /\ NoFault
       \/ job' = [job EXCEPT !.state = "lost"] /\ Fault("queue")
    /\ UNCHANGED <<group, wasm, chain, slot, unsure>>

-----------------------------------------------------------------------------
(* The worker *)

Goto(w, label) == slot' = [slot EXCEPT ![w].pc = label]

\* A job that failed runs again while it has attempts; a run whose job was
\* given away has no say in it.
EndAttempt(w) ==
    /\ job' = IF ~slot[w].owns THEN job
              ELSE IF job.made + 1 < Attempts
                   THEN [job EXCEPT !.state = "waiting", !.made = @ + 1]
                   ELSE [job EXCEPT !.state = "failed", !.made = @ + 1]
    /\ slot' = [slot EXCEPT ![w] = Idle]

\* DEPLOYING is written whatever the status was.
StartDeploy(w) ==
    /\ slot[w] = Idle
    /\ job.state = "waiting"
    /\ job' = [job EXCEPT !.state = "active"]
    /\ slot' = [slot EXCEPT ![w] = [Idle EXCEPT !.pc = "upload", !.owns = TRUE]]
    /\ group' = [group EXCEPT !.status = "DEPLOYING"]
    /\ UNCHANGED <<wasm, chain, unsure>> /\ NoFault

\* ... outside the try block, after a read of the row, which is never deleted.
\* The update may throw although it took effect.
StartDeployFails(w) ==
    /\ Fault("db")
    /\ slot[w] = Idle
    /\ job.state = "waiting"
    /\ job' = IF job.made + 1 < Attempts THEN [job EXCEPT !.made = @ + 1]
              ELSE [job EXCEPT !.state = "failed", !.made = @ + 1]
    /\ group' \in {group, [group EXCEPT !.status = "DEPLOYING"]}
    /\ UNCHANGED <<wasm, chain, slot, unsure>>

\* An id that an attempt made up and dropped is nobody's: it is free again.
Dropped(w) == [c \in Contracts |-> IF c = slot[w].contract THEN "free" ELSE chain[c]]

Abandon(w) ==
    /\ slot' = [slot EXCEPT ![w].pc = "fail", ![w].contract = None]
    /\ chain' = Dropped(w)

\* submitTransaction: confirmed within the polls, or not, which is no error.
UploadWasm(w) ==
    /\ slot[w].pc = "upload"
    /\ \/ wasm' = "yes" /\ Goto(w, "create") /\ NoFault
       \/ wasm # "yes" /\ wasm' = "sent" /\ Goto(w, "create") /\ Fault("slow")
       \/ wasm' \in {wasm, "yes"} /\ Goto(w, "fail") /\ Fault("rpc")
    /\ UNCHANGED <<group, chain, job, unsure>>

\* The simulation throws unless the code is on the ledger.
CreateContract(w) ==
    /\ slot[w].pc = "create"
    /\ \/ /\ wasm = "yes"
          /\ \E c \in Contracts :
                /\ chain[c] = "free"
                /\ slot' = [slot EXCEPT ![w].pc = "init", ![w].contract = c]
                /\ \/ chain' = [chain EXCEPT ![c] = "exists"] /\ NoFault
                   \/ chain' = [chain EXCEPT ![c] = "creating"] /\ Fault("slow")
       \/ wasm # "yes" /\ Abandon(w) /\ NoFault
       \/ Abandon(w) /\ Fault("rpc")
    /\ UNCHANGED <<group, wasm, job, unsure>>

\* Mutant of InitContract: a contract that is not there yet is no error.
InitBlindly(w) ==
    /\ slot[w].pc = "init"
    /\ Goto(w, "record")
    /\ chain' = [chain EXCEPT ![slot[w].contract] = IF @ = "exists" THEN "ready" ELSE @]
    /\ UNCHANGED <<group, wasm, job, unsure>> /\ NoFault

\* The simulation throws unless the contract is on the ledger.
InitContract(w) ==
    /\ slot[w].pc = "init"
    /\ LET c == slot[w].contract IN
        \/ /\ chain[c] = "exists"
           /\ Goto(w, "record")
           /\ \/ chain' = [chain EXCEPT ![c] = "ready"] /\ NoFault
              \/ chain' = [chain EXCEPT ![c] = "initializing"] /\ Fault("slow")
        \/ chain[c] # "exists" /\ Abandon(w) /\ NoFault
        \/ Abandon(w) /\ Fault("rpc")
    /\ UNCHANGED <<group, wasm, job, unsure>>

\* The update is by id: it replaces whatever contract the row named.
RecordContract(w) ==
    /\ slot[w].pc = "record"
    /\ group' = [status |-> "DEPLOYED", contract |-> slot[w].contract]
    /\ slot' = [slot EXCEPT ![w].pc = "finish", ![w].contract = None]
    /\ UNCHANGED <<wasm, chain, job, unsure>> /\ NoFault

\* A failed update goes to the same catch block, also if it took effect.
RecordContractFails(w) ==
    /\ Fault("db")
    /\ slot[w].pc = "record"
    /\ \/ Abandon(w) /\ UNCHANGED <<group, unsure>>
       \/ /\ group' = [status |-> "DEPLOYED", contract |-> slot[w].contract]
          /\ slot' = [slot EXCEPT ![w].pc = "fail", ![w].contract = None]
          /\ unsure' = TRUE
          /\ UNCHANGED chain
    /\ UNCHANGED <<wasm, job>>

\* Mutant of FinishDeploy: a run that succeeded is counted as a failed one.
FinishAsFailed(w) ==
    /\ slot[w].pc = "finish"
    /\ EndAttempt(w)
    /\ UNCHANGED <<group, wasm, chain, unsure>> /\ NoFault

\* The job is completed after the row was written.
FinishDeploy(w) ==
    /\ slot[w].pc = "finish"
    /\ job' = IF slot[w].owns THEN [job EXCEPT !.state = "done"] ELSE job
    /\ slot' = [slot EXCEPT ![w] = Idle]
    /\ UNCHANGED <<group, wasm, chain, unsure>> /\ NoFault

\* The catch block.  Its update may fail as well; the job fails either way.
RecordFailure(w) ==
    /\ slot[w].pc = "fail"
    /\ \/ group' = [group EXCEPT !.status = "FAILED"] /\ NoFault
       \/ UNCHANGED group /\ Fault("db")
    /\ EndAttempt(w)
    /\ UNCHANGED <<wasm, chain, unsure>>

DeployStep(w) ==
    StartDeploy(w) \/ StartDeployFails(w) \/ UploadWasm(w) \/ CreateContract(w)
        \/ InitContract(w) \/ RecordContract(w) \/ RecordContractFails(w) \/ FinishDeploy(w)
        \/ RecordFailure(w)

-----------------------------------------------------------------------------
(* The ledger, stalled jobs and crashes *)

\* A transaction lands, or its time bounds pass first.
Land ==
    /\ \/ wasm = "sent" /\ wasm' \in {"yes", "no"} /\ UNCHANGED chain
       \/ /\ \E c \in Contracts :
                \/ chain[c] = "creating" /\ chain' = [chain EXCEPT ![c] = "exists"]
                \/ /\ chain[c] = "initializing"
                   /\ \E s \in {"ready", "exists"} : chain' = [chain EXCEPT ![c] = s]
          /\ UNCHANGED wasm
    /\ UNCHANGED <<group, job, slot, unsure>> /\ NoFault

Deserted == job.state = "active" /\ \A w \in Slots : ~slot[w].owns

\* Mutant of TakeBack: a job is handed out again however often it stalled.
TakeBackAlways ==
    /\ job.state = "active"
    /\ (Deserted /\ NoFault) \/ (~Deserted /\ Fault("stall"))
    /\ job' = [job EXCEPT !.state = "waiting", !.stalls = @ + 1]
    /\ slot' = [w \in Slots |-> [slot[w] EXCEPT !.owns = FALSE]]
    /\ UNCHANGED <<group, wasm, chain, unsure>>

\* BullMQ takes a job back whose lock ran out: its slot is gone, or late.
TakeBack ==
    /\ job.state = "active"
    /\ (Deserted /\ NoFault) \/ (~Deserted /\ Fault("stall"))
    /\ job' = IF job.stalls < MaxStalled
              THEN [job EXCEPT !.state = "waiting", !.stalls = @ + 1]
              ELSE [job EXCEPT !.state = "failed"]
    /\ slot' = [w \in Slots |-> [slot[w] EXCEPT !.owns = FALSE]]
    /\ UNCHANGED <<group, wasm, chain, unsure>>

CrashDeploy(w) ==
    /\ Fault("crash")
    /\ slot[w] # Idle
    /\ slot' = [slot EXCEPT ![w] = Idle]
    /\ chain' = Dropped(w)
    /\ UNCHANGED <<group, wasm, job, unsure>>
=============================================================================
