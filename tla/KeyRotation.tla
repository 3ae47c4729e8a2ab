---------------------------- MODULE KeyRotation ----------------------------
(***************************************************************************)
(* The rotation job (workers/key-rotation.worker.ts, with its queue and    *)
(* the admin route that starts it): until a query finds no more rows of an *)
(* older version, decrypt each wallet under its row's version and write it *)
(* back, with its version, under the server's.                             *)
(*                                                                         *)
(* Every server runs a worker with one slot.  A job whose server died or   *)
(* is taken for dead is handed to another one, so two runs may overlap,    *)
(* also two with different versions.                                       *)
(***************************************************************************)
EXTENDS RecordMigrations

CONSTANTS
    Jobs,       \* rotation jobs that may be started
    MaxStalled  \* maxStalledCount, after which BullMQ fails a job

ASSUME RotationAssumption ==
    /\ None \notin Jobs
    /\ MaxStalled \in Nat

VARIABLES
    job,    \* state of each job
    stalls, \* how often each was found stalled
    run     \* the run of each server: its job, what it read and could not do

rotation == <<job, stalls, run>>

JobStates == {"absent", "asked", "waiting", "active", "done", "failed"}

\* owns is lost when BullMQ gives the job to somebody else.  batch holds rows
\* as they were when they were read, rejected those whose update was refused.
NoRun == [job |-> None, owns |-> FALSE, batch |-> {}, failed |-> {}, rejected |-> {}]

RotationInit ==
    /\ job = [j \in Jobs |-> "absent"]
    /\ stalls = [j \in Jobs |-> 0]
    /\ run = [p \in Servers |-> NoRun]

-----------------------------------------------------------------------------
(* POST /admin/key-rotation/start *)

\* Neither an active nor a waiting job is counted ...
CheckQueue(j) ==
    /\ "rotation" \in using
    /\ job[j] = "absent"
    /\ \A k \in Jobs : job[k] \notin {"active", "waiting"}
    /\ job' = [job EXCEPT ![j] = "asked"]
    /\ UNCHANGED <<stalls, run>>

\* ... and the job is added, an await later.
AddJob(j) ==
    /\ job[j] = "asked"
    /\ job' = [job EXCEPT ![j] = "waiting"]
    /\ UNCHANGED <<stalls, run>>

-----------------------------------------------------------------------------
(* The job *)

StartRun(p, j) ==
    /\ run[p] = NoRun
    /\ job[j] = "waiting"
    /\ job' = [job EXCEPT ![j] = "active"]
    /\ run' = [run EXCEPT ![p] = [NoRun EXCEPT !.job = j, !.owns = TRUE]]
    /\ UNCHANGED <<users, stalls>>

\* A run that lost its job ends without a word to the queue.
EndRun(p, state) ==
    /\ job' = IF run[p].owns THEN [job EXCEPT ![run[p].job] = state] ELSE job
    /\ run' = [run EXCEPT ![p] = NoRun]

\* Rows the query returns: an older version, and not failed in this run.
Outdated(p) ==
    {r \in Existing : rows[r].version < env[p] /\ r \notin run[p].failed}

\* The next page, or the end of the job; the query may fail and the job, which
\* has one attempt, with it.
ReadRows(p) ==
    /\ run[p].job # None /\ run[p].batch = {}
    /\ \/ Outdated(p) = {} /\ EndRun(p, "done")
       \/ /\ Outdated(p) # {}
          /\ run' = [run EXCEPT ![p].batch =
                         {[id |-> r, row |-> rows[r]] : r \in FirstOf(Outdated(p))}]
          /\ UNCHANGED job
       \/ "db" \in Faults /\ EndRun(p, "failed")
    /\ UNCHANGED <<users, stalls>>

NextRow(p) == CHOOSE e \in run[p].batch : \A f \in run[p].batch : e.id <= f.id

Rewrapped(p, row) ==
    [row.wallet EXCEPT !.key = env[p], !.tag = env[p]]

\* Mutant of RotateRow: a failed row is not remembered.
RotateRowAgain(p) ==
    /\ run[p].batch # {}
    /\ LET e == NextRow(p) IN
        /\ run' = [run EXCEPT ![p].batch = @ \ {e}]
        /\ rows' = IF RotationOpens(e.row)
                   THEN [rows EXCEPT ![e.id].wallet = Rewrapped(p, e.row),
                                     ![e.id].version = env[p]]
                   ELSE rows
    /\ UNCHANGED <<born, job, stalls>>

\* Mutant of RotateRow: the row's version is written without the wallet.
RotateVersionOnly(p) ==
    /\ run[p].batch # {}
    /\ LET e == NextRow(p) IN
        /\ rows' = IF RotationOpens(e.row)
                   THEN [rows EXCEPT ![e.id].version = env[p]]
                   ELSE rows
        /\ run' = [run EXCEPT ![p].batch = @ \ {e},
                              ![p].failed = IF RotationOpens(e.row) THEN @ ELSE @ \cup {e.id}]
    /\ UNCHANGED <<born, job, stalls>>

\* Mutant of RotateRow: what was read is decrypted under the server's version.
RotateUnderCurrent(p) ==
    /\ run[p].batch # {}
    /\ LET e == NextRow(p) IN
        /\ rows' = IF e.row.wallet.key = env[p]
                   THEN [rows EXCEPT ![e.id].wallet = Rewrapped(p, e.row),
                                     ![e.id].version = env[p]]
                   ELSE rows
        /\ run' = [run EXCEPT ![p].batch = @ \ {e},
                              ![p].failed = IF rows' = rows THEN @ \cup {e.id} ELSE @]
    /\ UNCHANGED <<born, job, stalls>>

\* One row of the page: decrypt what was read, and write wallet and version
\* back by id in one transaction.
RotateRow(p) ==
    /\ run[p].batch # {}
    /\ LET e == NextRow(p)
           goOn == [run[p] EXCEPT !.batch = @ \ {e}]
           giveUp == [goOn EXCEPT !.failed = @ \cup {e.id}]
       IN \/ /\ RotationOpens(e.row)
             /\ rows' = [rows EXCEPT ![e.id].wallet = Rewrapped(p, e.row),
                                     ![e.id].version = env[p]]
             /\ run' = [run EXCEPT ![p] = goOn]
          \/ /\ ~RotationOpens(e.row)
             /\ run' = [run EXCEPT ![p] = giveUp]
             /\ UNCHANGED rows
          \/ /\ "db" \in Faults /\ RotationOpens(e.row)
             /\ run' = [run EXCEPT ![p] = [giveUp EXCEPT !.rejected = @ \cup {e.id}]]
             /\ UNCHANGED rows
    /\ UNCHANGED <<born, job, stalls>>

-----------------------------------------------------------------------------
(* Stalled jobs, crashes and deployments *)

Deserted(j) == job[j] = "active" /\ \A p \in Servers : ~(run[p].owns /\ run[p].job = j)

\* Mutant of TakeBack: a job may stall as often as it likes.
TakeBackAgain(j) ==
    /\ job[j] = "active"
    /\ Deserted(j) \/ "stall" \in Faults
    /\ job' = [job EXCEPT ![j] = "waiting"]
    /\ stalls' = [stalls EXCEPT ![j] = @ + 1]
    /\ run' = [p \in Servers |->
                  IF run[p].job = j THEN [run[p] EXCEPT !.owns = FALSE] ELSE run[p]]

\* The stalled-jobs check takes a job from a server that is dead or only busy.
TakeBack(j) ==
    /\ job[j] = "active"
    /\ Deserted(j) \/ "stall" \in Faults
    /\ IF stalls[j] < MaxStalled
       THEN /\ job' = [job EXCEPT ![j] = "waiting"]
            /\ stalls' = [stalls EXCEPT ![j] = @ + 1]
       ELSE job' = [job EXCEPT ![j] = "failed"] /\ UNCHANGED stalls
    /\ run' = [p \in Servers |->
                  IF run[p].job = j THEN [run[p] EXCEPT !.owns = FALSE] ELSE run[p]]

\* A server starts again, with the version that is configured by then.
Restart(p) ==
    /\ \E v \in env[p] .. MaxVersion :
          /\ v # env[p] \/ "crash" \in Faults
          /\ env' = [env EXCEPT ![p] = v]
    /\ pc' = [pc EXCEPT ![p] = "idle"]
    /\ cur' = [cur EXCEPT ![p] = None]
    /\ run' = [run EXCEPT ![p] = NoRun]
    /\ UNCHANGED <<users, job, stalls>>

RunStep(p) ==
    ReadRows(p) \/ RotateRow(p) \/ \E j \in Jobs : StartRun(p, j)
=============================================================================
