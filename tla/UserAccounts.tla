---------------------------- MODULE UserAccounts ----------------------------
(***************************************************************************)
(* User rows under first contacts, the two migration scripts, rotation     *)
(* jobs and servers that are restarted with a higher key version.          *)
(***************************************************************************)
EXTENDS KeyRotation

vars == <<users, env, commands, programs, rotation>>

Init == RecordsInit /\ MigrationsInit /\ RotationInit

Next ==
    \/ /\ \E p \in Servers : CreateUser(p) \/ \E n \in Callers : FindUser(p, n)
       /\ UNCHANGED <<programs, rotation>>
    \/ MigrationStep /\ UNCHANGED <<using, rotation>>
    \/ /\ \/ \E j \in Jobs : CheckQueue(j) \/ AddJob(j) \/ TakeBack(j)
       /\ UNCHANGED <<users, env, commands, programs>>
    \/ /\ \E p \in Servers : RunStep(p)
       /\ UNCHANGED <<env, commands, programs>>
    \/ /\ \E p \in Servers : Restart(p)
       /\ UNCHANGED programs

Spec == Init /\ [][Next]_vars

\* A worker takes a waiting job and goes on with it, and a deserted job is
\* found by the stalled-jobs check.
Fairness ==
    /\ \A p \in Servers :
          WF_vars(RunStep(p) /\ UNCHANGED <<env, commands, programs>>)
    /\ \A j \in Jobs :
          WF_vars(Deserted(j) /\ TakeBack(j) /\ UNCHANGED <<users, env, commands, programs>>)

FairSpec == Spec /\ Fairness
-----------------------------------------------------------------------------
(* Properties *)

RunsOK ==
    \A p \in Servers :
        /\ run[p].job \in Jobs \cup {None}
        /\ run[p].owns \in BOOLEAN
        /\ run[p].batch \subseteq [id : RowIds, row : Rows]
        /\ run[p].failed \subseteq RowIds
        /\ run[p].rejected \subseteq run[p].failed

TypeOK ==
    /\ rows \in [RowIds -> Rows \cup {NoRow}]
    /\ born \in [RowIds -> 0 .. MaxVersion]
    /\ env \in [Servers -> Versions]
    /\ pc \in [Servers -> {"idle", "create"}]
    /\ cur \in [Servers -> Numbers \cup {None}]
    /\ using \in Programs
    /\ sealer.key \in 0 .. MaxVersion /\ sealer.todo \subseteq RowIds
    /\ fill.cursor \in Nat /\ fill.batch \subseteq RowIds /\ fill.rejected \subseteq RowIds
    /\ job \in [Jobs -> JobStates]
    /\ stalls \in [Jobs -> 0 .. MaxStalled]
    /\ RunsOK

\* A wallet that was first sealed as a raw seed while version 1 was current
\* stays one that SEND and CONTRIBUTE can use, whatever was rotated, retried,
\* taken back, rotated twice at once or sealed by the script meanwhile
\* (key-rotation.worker.ts, "Atomic update").  It says nothing of the wallets
\* the script seals as text, which neither command can ever use, nor of those
\* sealed under a later version, which their rows do not name.
WalletsStayReadable ==
    \A r \in Existing : born[r] = 1 => Opens(rows[r])

\* A rotation job that reports success has brought every wallet it could read
\* to its version, except where the update was refused.
RotationIsThorough ==
    [][\A p \in Servers :
          LET j == run[p].job IN
          j # None /\ run'[p] = NoRun /\ job[j] = "active" /\ job'[j] = "done" =>
              \A r \in Existing :
                  rows[r].wallet.form = "seed" /\ RotationOpens(rows[r])
                      => rows[r].version >= env[p] \/ r \in run[p].rejected]_vars

\* Every rotation job ends, although rows it cannot read stay in its query.
RotationEnds ==
    \A j \in Jobs : job[j] = "waiting" ~> job[j] \in {"done", "failed"}

\* After a backfill every number that ever had a row is found by its hash, by
\* that row or by one that a first contact made meanwhile, unless a statement
\* was refused.
BackfillFindsEveryone ==
    fill.finished =>
        \A r \in Existing : FoundBy(rows[r].number) # {} \/ r \in fill.rejected
=============================================================================
