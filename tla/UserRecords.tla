---------------------------- MODULE UserRecords ----------------------------
(***************************************************************************)
(* The User rows: who is found by a phone number, under which key version  *)
(* the wallet is sealed and which version each reader tries.  A server     *)
(* takes its CURRENT_ENCRYPTION_KEY_VERSION from the environment it was    *)
(* started with; the versions of two servers differ while a new one is     *)
(* being deployed.                                                         *)
(***************************************************************************)
EXTENDS Naturals, FiniteSets

CONSTANTS
    Numbers,    \* phone numbers
    Callers,    \* those of them that write while servers run
    RowIds,     \* ids User rows may get, in their order
    Servers,    \* server processes
    None,       \* null
    MaxVersion, \* the highest version in ENCRYPTION_KEYS
    Faults      \* what may go wrong, see FaultKinds

FaultKinds == { "db",      \* a statement is rejected or its reply lost
                "stall",   \* BullMQ hands a running job out again
                "crash" }  \* a script or a server dies between two awaits

Versions == 1 .. MaxVersion

ASSUME RecordsAssumption ==
    /\ RowIds \subseteq Nat \ {0} /\ IsFiniteSet(RowIds)
    /\ None \notin Numbers /\ Callers \subseteq Numbers
    /\ MaxVersion \in Nat \ {0}
    /\ Faults \subseteq FaultKinds

VARIABLES
    rows, \* the User rows
    born, \* the version each wallet was first sealed under as a raw seed, 0 if
          \* it never was (observed only)
    env,  \* CURRENT_ENCRYPTION_KEY_VERSION of each server
    pc,   \* what each server's first-contact command awaits
    cur   \* the number it is from

users == <<rows, born>>
commands == <<pc, cur>>

\* The column stellarWallet: "publicKey:secretKey" as it was before secrets
\* were encrypted, a sealed strkey ("text", what the migration script makes of
\* it) or a sealed raw seed.  tag is the field keyVersion of the JSON, 0
\* where it is missing.
PlainWallet == [form |-> "plain", key |-> 0, tag |-> 0]
Wallets == {PlainWallet} \cup [form : {"text", "seed"}, key : Versions, tag : 0 .. MaxVersion]

\* phoneNumber is ciphertext exactly if phoneNumberHash is set: every writer
\* sets both in one statement.
NoRow == [number |-> None]
Rows == [number : Numbers, hashed : BOOLEAN, wallet : Wallets, version : Versions]

Existing == {r \in RowIds : rows[r] # NoRow}

\* A lookup by phone number is rewritten to the hash, which is unique.
FoundBy(n) == {r \in Existing : rows[r].number = n /\ rows[r].hashed}

\* Rows written by the release before phone numbers and key versions: not
\* hashed, a plain wallet or one sealed under the only key there was.
LegacyRows ==
    [number : Numbers, hashed : {FALSE}, version : {1},
     wallet : {PlainWallet, [form |-> "seed", key |-> 1, tag |-> 0]}]

RecordsInit ==
    /\ rows \in [RowIds -> LegacyRows \cup {NoRow}]
    /\ \A q, r \in Existing : rows[q].number = rows[r].number => q = r
    /\ born = [r \in RowIds |-> IF rows[r] = NoRow THEN 0 ELSE rows[r].wallet.key]
    /\ env = [p \in Servers |-> 1]
    /\ pc = [p \in Servers |-> "idle"]
    /\ cur = [p \in Servers |-> None]

-----------------------------------------------------------------------------
(* Reading a wallet *)

\* SEND and CONTRIBUTE try the version the wallet names, else the row's, and
\* build the key pair from what they get: text is no 32-byte seed.
TriedVersion(row) == IF row.wallet.tag # 0 THEN row.wallet.tag ELSE row.version
Opens(row) ==
    row.wallet.form = "seed" /\ row.wallet.key = TriedVersion(row)

\* Rotation tries the row's version.
RotationOpens(row) ==
    row.wallet.form # "plain" /\ row.wallet.key = row.version

-----------------------------------------------------------------------------
(* First contact of a number *)

\* getOrCreateUser finds nobody and generates a wallet.
FindUser(p, n) ==
    /\ pc[p] = "idle"
    /\ FoundBy(n) = {}
    /\ pc' = [pc EXCEPT ![p] = "create"]
    /\ cur' = [cur EXCEPT ![p] = n]
    /\ UNCHANGED <<users, env>>

\* The wallet is sealed under the server's version; neither the JSON nor the
\* row says so, and encryptionKeyVersion takes its default.
NewUser(p, n) ==
    [number |-> n, hashed |-> TRUE, version |-> 1,
     wallet |-> [form |-> "seed", key |-> env[p], tag |-> 0]]

\* The insert, which the unique hash refuses if the number has a row by now.
CreateUser(p) ==
    /\ pc[p] = "create"
    /\ \/ /\ FoundBy(cur[p]) = {}
          /\ \E r \in RowIds \ Existing :
                /\ rows' = [rows EXCEPT ![r] = NewUser(p, cur[p])]
                /\ born' = [born EXCEPT ![r] = env[p]]
       \/ /\ FoundBy(cur[p]) # {} \/ "db" \in Faults
          /\ UNCHANGED users
    /\ pc' = [pc EXCEPT ![p] = "idle"]
    /\ cur' = [cur EXCEPT ![p] = None]
    /\ UNCHANGED env
=============================================================================
