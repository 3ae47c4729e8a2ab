-------------------------- MODULE RecordMigrations --------------------------
(***************************************************************************)
(* The two scripts an operator runs over the User rows while servers are   *)
(* up: scripts/encrypt-wallets.ts and scripts/backfill-phone-encryption.ts.*)
(***************************************************************************)
EXTENDS UserRecords

CONSTANTS
    Batch,   \* BATCH_SIZE, and take in the rotation's query
    Programs \* sets of maintenance programs an operator may use together

ASSUME MigrationsAssumption ==
    /\ Batch \in Nat \ {0}
    /\ Programs \subseteq SUBSET {"encrypt", "backfill", "rotation"}

VARIABLES
    using,  \* the programs that are used in this behaviour
    sealer, \* the wallet script: its key version and the rows left to seal
    fill    \* the backfill: cursor, fetched rows, rows a statement failed for

programs == <<using, sealer, fill>>

\* The first Batch rows of a query, ordered by id.
FirstOf(S) == {r \in S : Cardinality({q \in S : q < r}) < Batch}
Least(S) == CHOOSE r \in S : \A q \in S : r <= q

NoSealer == [key |-> 0, todo |-> {}]
NoFill == [running |-> FALSE, finished |-> FALSE, cursor |-> 0, batch |-> {}, rejected |-> {}]

MigrationsInit == using \in Programs /\ sealer = NoSealer /\ fill = NoFill

-----------------------------------------------------------------------------
(* encrypt-wallets.ts: one query, then an update by id for each plain wallet *)

StartSealing ==
    /\ "encrypt" \in using
    /\ sealer = NoSealer
    /\ \E p \in Servers :
          sealer' = [key |-> env[p],
                     todo |-> {r \in Existing : rows[r].wallet.form = "plain"}]
    /\ sealer'.todo # {}
    /\ UNCHANGED <<users, env, commands, fill>>

SealerGoesOn(r) ==
    sealer' = IF sealer.todo = {r} THEN NoSealer
              ELSE [sealer EXCEPT !.todo = @ \ {r}]

\* The strkey itself is sealed.  The version is recorded nowhere.
SealWallet(r) ==
    /\ r \in sealer.todo
    /\ \/ rows' = [rows EXCEPT ![r].wallet =
                       [form |-> "text", key |-> sealer.key, tag |-> 0]]
       \/ "db" \in Faults /\ UNCHANGED rows
    /\ SealerGoesOn(r)
    /\ UNCHANGED <<born, env, commands, fill>>

-----------------------------------------------------------------------------
(* backfill-phone-encryption.ts: pages of rows behind a cursor *)

StartFill ==
    /\ "backfill" \in using
    /\ ~fill.running
    /\ fill' = [NoFill EXCEPT !.running = TRUE]
    /\ UNCHANGED <<users, env, commands, sealer>>

\* Mutant of ReadPage: skip: 1 also where there is no cursor yet.
ReadPageSkipping ==
    /\ fill.running /\ fill.batch = {}
    /\ LET page == FirstOf({r \in Existing : r > fill.cursor /\ \E q \in Existing : q < r})
       IN fill' = IF page = {} THEN [fill EXCEPT !.running = FALSE, !.finished = TRUE]
                  ELSE [fill EXCEPT !.batch = page]
    /\ UNCHANGED <<users, env, commands, sealer>>

ReadPage ==
    /\ fill.running /\ fill.batch = {}
    /\ LET page == FirstOf({r \in Existing : r > fill.cursor})
       IN fill' = IF page = {} THEN [fill EXCEPT !.running = FALSE, !.finished = TRUE]
                  ELSE [fill EXCEPT !.batch = page]
    /\ UNCHANGED <<users, env, commands, sealer>>

\* The update writes ciphertext and hash if the stored number is still the one
\* that was read, which no other program changes.  It violates the unique
\* hash if the number has got another row meanwhile, and goes on.
FillRow ==
    /\ fill.batch # {}
    /\ LET r == Least(fill.batch)
           goOn == [fill EXCEPT !.cursor = r, !.batch = @ \ {r}]
       IN \/ /\ rows' = IF FoundBy(rows[r].number) = {}
                        THEN [rows EXCEPT ![r].hashed = TRUE] ELSE rows
             /\ fill' = goOn
          \/ /\ "db" \in Faults /\ UNCHANGED rows
             /\ fill' = [goOn EXCEPT !.rejected = @ \cup {r}]
    /\ UNCHANGED <<born, env, commands, sealer>>

\* A script is killed; it can be run again.
ScriptDies ==
    /\ "crash" \in Faults
    /\ \/ sealer # NoSealer /\ sealer' = NoSealer /\ UNCHANGED fill
       \/ fill.running /\ fill' = NoFill /\ UNCHANGED sealer
    /\ UNCHANGED <<users, env, commands>>

MigrationStep ==
    \/ StartSealing \/ \E r \in RowIds : SealWallet(r)
    \/ StartFill \/ ReadPage \/ FillRow
    \/ ScriptDies
=============================================================================
