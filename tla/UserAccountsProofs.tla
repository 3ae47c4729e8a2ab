------------------------- MODULE UserAccountsProofs -------------------------
(***************************************************************************)
(* Proofs about UserAccounts for any number of rows, servers, key versions *)
(* and jobs, and pages of any size.                                        *)
(***************************************************************************)
EXTENDS UserAccounts, FiniteSetTheorems, WellFoundedInduction, TLAPS

-----------------------------------------------------------------------------
(* Types *)

CommandsTyped ==
    /\ env \in [Servers -> Versions]
    /\ pc \in [Servers -> {"idle", "create"}]
    /\ cur \in [Servers -> Numbers \cup {None}]
    /\ \A p \in Servers : pc[p] = "create" => cur[p] \in Numbers

RecordsTyped ==
    /\ rows \in [RowIds -> Rows \cup {NoRow}]
    /\ born \in [RowIds -> 0 .. MaxVersion]
    /\ CommandsTyped

Sealers == [key : 0 .. MaxVersion, todo : SUBSET RowIds]
Fills ==
    [running : BOOLEAN, finished : BOOLEAN, cursor : Nat, batch : SUBSET RowIds,
     rejected : SUBSET RowIds]

\* What the scripts have yet to write exists.
ProgramsTyped ==
    /\ using \in Programs
    /\ sealer \in Sealers /\ sealer.todo \subseteq Existing
    /\ sealer.todo # {} => sealer.key # 0
    /\ fill \in Fills /\ fill.batch \subseteq Existing

Copies == [id : RowIds, row : Rows]
Runs ==
    [job : Jobs \cup {None}, owns : BOOLEAN, batch : SUBSET Copies, failed : SUBSET RowIds,
     rejected : SUBSET RowIds]

\* So does what a run has read; only a refused update is counted as rejected.
RotationTyped ==
    /\ job \in [Jobs -> JobStates]
    /\ stalls \in [Jobs -> 0 .. MaxStalled]
    /\ run \in [Servers -> Runs]
    /\ \A p \in Servers :
          /\ \A e \in run[p].batch : e.id \in Existing
          /\ run[p].failed \subseteq Existing
          /\ run[p].rejected \subseteq run[p].failed

Typed == RecordsTyped /\ ProgramsTyped /\ RotationTyped

USE RecordsAssumption, MigrationsAssumption, RotationAssumption DEF Versions

\* NoRow is no row.
LEMMA RowOrNone ==
    ASSUME RecordsTyped, NEW r \in RowIds
    PROVE  /\ r \in Existing <=> rows[r] # NoRow
           /\ r \in Existing <=> rows[r] \in Rows
           /\ r \in Existing => rows[r].wallet \in Wallets
<1>1. NoRow \notin Rows
  BY DEF NoRow, Rows
<1>2. r \in Existing <=> rows[r] # NoRow
  BY DEF Existing
<1>3. rows[r] \in Rows \cup {NoRow}
  BY DEF RecordsTyped
<1> QED
  BY <1>1, <1>2, <1>3 DEF Rows

\* Re-encrypting changes the key and says so; the secret keeps its form.
LEMMA RewrappedIs ==
    ASSUME RecordsTyped, NEW p \in Servers, NEW row \in Rows, RotationOpens(row)
    PROVE  /\ Rewrapped(p, row) = [form |-> row.wallet.form, key |-> env[p], tag |-> env[p]]
           /\ Rewrapped(p, row) \in Wallets
           /\ row.wallet.form \in {"text", "seed"}
<1>1. row.wallet \in Wallets /\ row.wallet.form # "plain"
  BY DEF Rows, RotationOpens
<1>2. row.wallet \in [form : {"text", "seed"}, key : Versions, tag : 0 .. MaxVersion]
  BY <1>1 DEF Wallets, PlainWallet
<1>3. env[p] \in Versions
  BY DEF RecordsTyped, CommandsTyped
<1>4. ASSUME NEW w, w = Rewrapped(p, row)
      PROVE  w = [form |-> row.wallet.form, key |-> env[p], tag |-> env[p]]
  BY <1>2, <1>4 DEF Rewrapped
<1> QED
  BY <1>2, <1>3, <1>4 DEF Wallets

\* A set of numbers has a least one.
LEMMA LeastExists ==
    ASSUME NEW S \in SUBSET Nat, S # {}
    PROVE  \E x \in S : \A y \in S : x <= y
<1>1. IsWellFoundedOn(OpToRel(<, Nat), Nat)
  BY NatLessThanWellFounded
<1>2. PICK x \in S : \A y \in S : <<y, x>> \notin OpToRel(<, Nat)
  BY <1>1, WFMin
<1>3. ASSUME NEW y \in S
      PROVE  x <= y
  <2>1. <<y, x>> \notin {ss \in Nat \X Nat : ss[1] < ss[2]}
    BY <1>2 DEF OpToRel
  <2>2. <<y, x>> \in Nat \X Nat
    OBVIOUS
  <2> QED
    BY <2>1, <2>2
<1> QED
  BY <1>3

\* The row the backfill writes next and the copy a rotation treats next.
LEMMA NextExists ==
    /\ \A S \in SUBSET RowIds : S # {} => Least(S) \in S /\ \A q \in S : Least(S) <= q
    /\ \A p \in Servers : RotationTyped /\ run[p].batch # {} => NextRow(p) \in run[p].batch
<1>1. ASSUME NEW S \in SUBSET RowIds, S # {}
      PROVE  Least(S) \in S /\ \A q \in S : Least(S) <= q
  <2>1. \E r \in S : \A q \in S : r <= q
    BY <1>1, LeastExists
  <2> QED
    BY <2>1 DEF Least
<1>2. ASSUME NEW p \in Servers, RotationTyped, run[p].batch # {}
      PROVE  NextRow(p) \in run[p].batch
  <2>1. \A e \in run[p].batch : e.id \in Nat
    BY <1>2 DEF RotationTyped, Existing
  <2> DEFINE ids == {e.id : e \in run[p].batch}
  <2>2. ids \subseteq Nat /\ ids # {}
    BY <1>2, <2>1
  <2>3. \E r \in ids : \A q \in ids : r <= q
    BY <2>2, LeastExists
  <2>4. \E e \in run[p].batch : \A f \in run[p].batch : e.id <= f.id
    BY <2>3
  <2> QED
    BY <2>4 DEF NextRow
<1> QED
  BY <1>1, <1>2

-----------------------------------------------------------------------------
(* What a step may do to a row *)

RowKept(r) == rows'[r] = rows[r] /\ born'[r] = born[r]

Created(r) ==
    /\ rows[r] = NoRow
    /\ \E p \in Servers : pc[p] = "create" /\ rows'[r] = NewUser(p, cur[p]) /\ born'[r] = env[p]

\* The others keep the number, and hide it for good.
Rewritten(r, w, v) ==
    /\ r \in Existing /\ rows'[r] \in Rows
    /\ rows'[r].number = rows[r].number
    /\ rows[r].hashed => rows'[r].hashed
    /\ rows'[r].wallet = w /\ rows'[r].version = v

Sealed(r) ==
    /\ SealWallet(r) /\ r \in sealer.todo
    /\ Rewritten(r, [form |-> "text", key |-> sealer.key, tag |-> 0], rows[r].version)
    /\ born'[r] = born[r]

Filled(r) == Rewritten(r, rows[r].wallet, rows[r].version) /\ born'[r] = born[r]

Rotated(r) ==
    /\ \E p \in Servers : \E e \in run[p].batch :
          /\ e.id = r /\ RotationOpens(e.row)
          /\ Rewritten(r, Rewrapped(p, e.row), env[p])
    /\ born'[r] = born[r]

LEMMA RowSteps ==
    ASSUME Typed, [Next]_vars, NEW r \in RowIds
    PROVE  RowKept(r) \/ Created(r) \/ Sealed(r) \/ Filled(r) \/ Rotated(r)
<1> USE DEF Typed
<1>1. CASE UNCHANGED users
  BY <1>1 DEF users, RowKept
<1>2. ASSUME NEW p \in Servers, CreateUser(p)
      PROVE  RowKept(r) \/ Created(r)
  <2>1. CASE UNCHANGED users
    BY <1>1, <2>1 DEF users, RowKept
  <2>2. ASSUME NEW q \in RowIds \ Existing, rows' = [rows EXCEPT ![q] = NewUser(p, cur[p])],
               born' = [born EXCEPT ![q] = env[p]]
        PROVE  RowKept(r) \/ Created(r)
    BY <1>2, <2>2, RowOrNone DEF CreateUser, RowKept, Created, RecordsTyped
  <2> QED
    BY <1>2, <2>1, <2>2 DEF CreateUser
<1>3. ASSUME NEW q \in RowIds, SealWallet(q)
      PROVE  RowKept(r) \/ Sealed(r)
  <2> DEFINE w == [form |-> "text", key |-> sealer.key, tag |-> 0]
  <2>1. q \in sealer.todo /\ q \in Existing
    BY <1>3 DEF SealWallet, ProgramsTyped
  <2>2. w \in Wallets
    BY <2>1 DEF ProgramsTyped, Sealers, Wallets
  <2>0. born' = born
    BY <1>3 DEF SealWallet
  <2>3. CASE UNCHANGED rows
    BY <2>0, <2>3 DEF RowKept
  <2>4. CASE rows' = [rows EXCEPT ![q].wallet = w]
    <3>1. CASE r # q
      BY <2>0, <2>4, <3>1 DEF RowKept
    <3>2. CASE r = q
      <4>1. rows[r] \in Rows /\ rows'[r] = [rows[r] EXCEPT !.wallet = w]
        BY <2>1, <2>4, <3>2, RowOrNone DEF RecordsTyped
      <4>2. rows'[r] = [number |-> rows[r].number, hashed |-> rows[r].hashed, wallet |-> w,
                        version |-> rows[r].version]
        BY <4>1 DEF Rows
      <4> HIDE DEF w
      <4>4. Rewritten(r, w, rows[r].version)
        BY <2>1, <2>2, <3>2, <4>1, <4>2 DEF Rewritten, Rows
      <4> QED
        BY <1>3, <2>0, <2>1, <3>2, <4>4 DEF Sealed, w
    <3> QED
      BY <3>1, <3>2
  <2> QED
    BY <1>3, <2>3, <2>4 DEF SealWallet
<1>4. CASE FillRow
  <2> DEFINE q == Least(fill.batch)
  <2>1. q \in Existing /\ q \in RowIds
    BY <1>4, NextExists DEF FillRow, ProgramsTyped, Fills
  <2>2. born' = born
    BY <1>4 DEF FillRow
  <2>3. CASE rows' = rows
    BY <2>2, <2>3 DEF RowKept
  <2>4. CASE rows' = [rows EXCEPT ![q].hashed = TRUE]
    <3>1. CASE r # q
      BY <2>2, <2>4, <3>1 DEF RowKept
    <3>2. CASE r = q
      <4>1. rows[r] \in Rows /\ rows'[r] = [rows[r] EXCEPT !.hashed = TRUE]
        BY <2>1, <2>4, <3>2, RowOrNone DEF RecordsTyped
      <4>2. rows'[r] = [number |-> rows[r].number, hashed |-> TRUE, wallet |-> rows[r].wallet,
                        version |-> rows[r].version]
        BY <4>1 DEF Rows
      <4> QED
        BY <2>1, <2>2, <3>2, <4>1, <4>2 DEF Rewritten, Filled, Rows
    <3> QED
      BY <3>1, <3>2
  <2> QED
    BY <1>4, <2>3, <2>4 DEF FillRow
<1>5. ASSUME NEW p \in Servers, RotateRow(p)
      PROVE  RowKept(r) \/ Rotated(r)
  <2> DEFINE e == NextRow(p)
  <2>1. e \in run[p].batch /\ e.id \in Existing /\ e.id \in RowIds /\ e.row \in Rows
    BY <1>5, NextExists DEF RotateRow, RotationTyped, Runs, Copies
  <2>2. born' = born
    BY <1>5 DEF RotateRow
  <2>3. CASE rows' = rows
    BY <2>2, <2>3 DEF RowKept
  <2>4. CASE /\ RotationOpens(e.row)
             /\ rows' = [rows EXCEPT ![e.id].wallet = Rewrapped(p, e.row),
                                     ![e.id].version = env[p]]
    <3>1. CASE r # e.id
      <4>1. rows'[r] = rows[r]
        BY <2>1, <2>4, <3>1 DEF RecordsTyped
      <4> QED
        BY <2>2, <4>1 DEF RowKept
    <3>2. CASE r = e.id
      <4> DEFINE w == Rewrapped(p, e.row)
      <4>1. rows[r] \in Rows /\ w \in Wallets /\ env[p] \in Versions
        BY <2>1, <2>4, <3>2, RowOrNone, RewrappedIs DEF RecordsTyped, CommandsTyped
      <4>2. rows'[r] = [rows[r] EXCEPT !.wallet = w, !.version = env[p]]
        BY <2>1, <2>4, <3>2 DEF RecordsTyped
      <4> HIDE DEF w
      <4>3. rows'[r] = [number |-> rows[r].number, hashed |-> rows[r].hashed, wallet |-> w,
                        version |-> env[p]]
        BY <4>1, <4>2 DEF Rows
      <4>4. Rewritten(r, w, env[p])
        BY <2>1, <3>2, <4>1, <4>3 DEF Rewritten, Rows
      <4> QED
        BY <2>1, <2>2, <2>4, <3>2, <4>4 DEF Rotated, w
    <3> QED
      BY <3>1, <3>2
  <2> QED
    BY <1>5, <2>3, <2>4 DEF RotateRow
<1> QED
  BY <1>1, <1>2, <1>3, <1>4, <1>5
     DEF Next, vars, users, MigrationStep, RunStep, FindUser, StartSealing, StartFill, ReadPage,
         ScriptDies, ReadRows, StartRun, Restart

\* The table stays a table.
LEMMA StillTable ==
    ASSUME Typed, [Next]_vars
    PROVE  rows' = [r \in RowIds |-> rows'[r]] /\ born' = [r \in RowIds |-> born'[r]]
<1> USE DEF Typed, RecordsTyped
<1>1. CASE UNCHANGED users
  BY <1>1 DEF users
<1>2. ASSUME NEW p \in Servers, CreateUser(p)
      PROVE  rows' = [r \in RowIds |-> rows'[r]] /\ born' = [r \in RowIds |-> born'[r]]
  BY <1>2 DEF CreateUser, users
<1>3. ASSUME NEW q \in RowIds, SealWallet(q)
      PROVE  rows' = [r \in RowIds |-> rows'[r]] /\ born' = [r \in RowIds |-> born'[r]]
  BY <1>3 DEF SealWallet, users
<1>4. CASE FillRow
  BY <1>4 DEF FillRow
<1>5. ASSUME NEW p \in Servers, RotateRow(p)
      PROVE  rows' = [r \in RowIds |-> rows'[r]] /\ born' = [r \in RowIds |-> born'[r]]
  BY <1>5 DEF RotateRow
<1> QED
  BY <1>1, <1>2, <1>3, <1>4, <1>5
     DEF Next, vars, users, MigrationStep, RunStep, FindUser, StartSealing, StartFill, ReadPage,
         ScriptDies, ReadRows, StartRun, Restart

\* A row that is there stays there.
LEMMA ExistingGrows ==
    ASSUME Typed, [Next]_vars
    PROVE  Existing \subseteq Existing'
<1> SUFFICES ASSUME NEW r \in Existing
             PROVE  r \in Existing'
  OBVIOUS
<1>1. r \in RowIds /\ rows[r] # NoRow
  BY DEF Existing
<1>2. rows'[r] # NoRow
  <2>1. NoRow \notin Rows
    BY DEF NoRow, Rows
  <2> QED
    BY <1>1, <2>1, RowSteps DEF RowKept, Created, Sealed, Filled, Rotated, Rewritten
<1> QED
  BY <1>1, <1>2 DEF Existing

\* A wallet of a first contact names no version, its row names the first.
LEMMA NewUserTyped ==
    ASSUME RecordsTyped, NEW p \in Servers, pc[p] = "create"
    PROVE  /\ NewUser(p, cur[p]) \in Rows
           /\ NewUser(p, cur[p]).wallet = [form |-> "seed", key |-> env[p], tag |-> 0]
           /\ NewUser(p, cur[p]).version = 1 /\ NewUser(p, cur[p]).hashed
           /\ NewUser(p, cur[p]).number = cur[p]
<1>1. cur[p] \in Numbers /\ env[p] \in Versions
  BY DEF RecordsTyped, CommandsTyped
<1>2. [form |-> "seed", key |-> env[p], tag |-> 0] \in Wallets
  BY <1>1 DEF Wallets
<1> QED
  BY <1>1, <1>2 DEF NewUser, Rows

LEMMA RecordsTypedStep ==
    ASSUME Typed, [Next]_vars
    PROVE  RecordsTyped'
<1> USE DEF Typed
<1>1. ASSUME NEW r \in RowIds
      PROVE  rows'[r] \in Rows \cup {NoRow} /\ born'[r] \in 0 .. MaxVersion
  <2>1. CASE RowKept(r)
    BY <2>1 DEF RowKept, RecordsTyped
  <2>2. CASE Created(r)
    <3>1. PICK p \in Servers :
              pc[p] = "create" /\ rows'[r] = NewUser(p, cur[p]) /\ born'[r] = env[p]
      BY <2>2 DEF Created
    <3>2. env[p] \in Versions
      BY DEF RecordsTyped, CommandsTyped
    <3>3. NewUser(p, cur[p]) \in Rows
      BY <3>1, NewUserTyped
    <3> QED
      BY <3>1, <3>2, <3>3
  <2>3. CASE Sealed(r)
    BY <2>3 DEF Sealed, Rewritten, RecordsTyped
  <2>4. CASE Filled(r) \/ Rotated(r)
    BY <2>4 DEF Filled, Rotated, Rewritten, RecordsTyped
  <2> QED
    BY <2>1, <2>2, <2>3, <2>4, RowSteps
<1>2. rows' \in [RowIds -> Rows \cup {NoRow}] /\ born' \in [RowIds -> 0 .. MaxVersion]
  BY <1>1, StillTable
<1>3. CommandsTyped'
  <2> USE DEF RecordsTyped, CommandsTyped
  <2>1. CASE UNCHANGED <<env, commands>>
    BY <2>1 DEF commands
  <2>2. ASSUME NEW p \in Servers, NEW n \in Callers, FindUser(p, n)
        PROVE  CommandsTyped'
    BY <2>2 DEF FindUser
  <2>3. ASSUME NEW p \in Servers, CreateUser(p)
        PROVE  CommandsTyped'
    BY <2>3 DEF CreateUser
  <2>4. ASSUME NEW p \in Servers, Restart(p)
        PROVE  CommandsTyped'
    BY <2>4 DEF Restart
  <2> QED
    BY <2>1, <2>2, <2>3, <2>4
       DEF Next, vars, commands, MigrationStep, RunStep, StartSealing, StartFill, ReadPage,
           ScriptDies, SealWallet, FillRow
<1> QED
  BY <1>2, <1>3 DEF RecordsTyped

LEMMA ProgramsTypedStep ==
    ASSUME Typed, [Next]_vars
    PROVE  ProgramsTyped'
<1> USE DEF Typed, ProgramsTyped
<1>0. Existing \subseteq Existing' /\ Existing \subseteq RowIds
  BY ExistingGrows DEF Existing
<1>1. CASE UNCHANGED programs
  BY <1>0, <1>1 DEF programs
<1>2. CASE StartSealing /\ using' = using
  <2> DEFINE plain == {r \in Existing : rows[r].wallet.form = "plain"}
  <2>1. PICK p \in Servers : sealer' = [key |-> env[p], todo |-> plain]
    BY <1>2 DEF StartSealing
  <2>2. env[p] \in Versions /\ plain \subseteq Existing
    BY DEF RecordsTyped, CommandsTyped
  <2> HIDE DEF plain
  <2>3. sealer' \in Sealers /\ sealer'.todo \subseteq Existing' /\ sealer'.key # 0
    BY <1>0, <2>1, <2>2 DEF Sealers
  <2> QED
    BY <1>0, <1>2, <2>3 DEF StartSealing
<1>3. ASSUME NEW r \in RowIds, SealWallet(r), using' = using
      PROVE  ProgramsTyped'
  <2>1. /\ sealer' \in Sealers /\ sealer'.todo \subseteq Existing'
        /\ sealer'.todo # {} => sealer'.key # 0
    <3>1. CASE sealer.todo = {r}
      BY <1>3, <3>1 DEF SealWallet, SealerGoesOn, NoSealer, Sealers
    <3>2. CASE sealer.todo # {r}
      <4>1. sealer' = [sealer EXCEPT !.todo = @ \ {r}]
        BY <1>3, <3>2 DEF SealWallet, SealerGoesOn
      <4>2. sealer' = [key |-> sealer.key, todo |-> sealer.todo \ {r}]
        BY <4>1 DEF Sealers
      <4> QED
        BY <1>0, <1>3, <4>2 DEF SealWallet, Sealers
    <3> QED
      BY <3>1, <3>2
  <2> QED
    BY <1>0, <1>3, <2>1 DEF SealWallet
<1>4. CASE StartFill /\ using' = using
  <2>1. fill' = [running |-> TRUE, finished |-> FALSE, cursor |-> 0, batch |-> {},
                 rejected |-> {}]
    BY <1>4 DEF StartFill, NoFill
  <2>2. fill' \in Fills /\ fill'.batch \subseteq Existing'
    BY <2>1 DEF Fills
  <2> QED
    BY <1>0, <1>4, <2>2 DEF StartFill
<1>5. CASE ReadPage /\ using' = using
  <2> DEFINE page == FirstOf({r \in Existing : r > fill.cursor})
  <2>1. page \subseteq Existing
    BY DEF FirstOf
  <2>2. fill' \in Fills /\ fill'.batch \subseteq Existing'
    <3>1. CASE page = {}
      <4>1. fill' = [fill EXCEPT !.running = FALSE, !.finished = TRUE]
        BY <1>5, <3>1 DEF ReadPage
      <4>2. fill' = [running |-> FALSE, finished |-> TRUE, cursor |-> fill.cursor,
                     batch |-> fill.batch, rejected |-> fill.rejected]
        BY <4>1 DEF Fills
      <4> QED
        BY <1>0, <4>2 DEF Fills
    <3>2. CASE page # {}
      <4>1. fill' = [fill EXCEPT !.batch = page]
        BY <1>5, <3>2 DEF ReadPage
      <4> HIDE DEF page
      <4>2. fill' = [running |-> fill.running, finished |-> fill.finished,
                     cursor |-> fill.cursor, batch |-> page, rejected |-> fill.rejected]
        BY <4>1 DEF Fills
      <4> QED
        BY <1>0, <2>1, <4>2 DEF Fills
    <3> QED
      BY <3>1, <3>2
  <2> QED
    BY <1>0, <1>5, <2>2 DEF ReadPage
<1>6. CASE FillRow /\ using' = using
  <2> DEFINE r == Least(fill.batch)
             goOn == [fill EXCEPT !.cursor = r, !.batch = @ \ {r}]
  <2>1. r \in RowIds
    BY <1>6, NextExists DEF FillRow, Fills
  <2>2. fill' = goOn \/ fill' = [goOn EXCEPT !.rejected = @ \cup {r}]
    BY <1>6 DEF FillRow
  <2> HIDE DEF r
  <2>3. ASSUME NEW g, g = goOn
        PROVE  g = [running |-> fill.running, finished |-> fill.finished, cursor |-> r,
                    batch |-> fill.batch \ {r}, rejected |-> fill.rejected]
    BY <2>3 DEF Fills
  <2>4. /\ goOn \in Fills
        /\ goOn.batch \subseteq Existing
    BY <1>0, <2>1, <2>3 DEF Fills
  <2> HIDE DEF goOn
  <2>5. ASSUME fill' = [goOn EXCEPT !.rejected = @ \cup {r}]
        PROVE  fill' = [running |-> goOn.running, finished |-> goOn.finished,
                        cursor |-> goOn.cursor, batch |-> goOn.batch,
                        rejected |-> goOn.rejected \cup {r}]
    BY <2>4, <2>5 DEF Fills
  <2>6. fill' \in Fills /\ fill'.batch \subseteq Existing'
    BY <1>0, <2>1, <2>2, <2>4, <2>5 DEF Fills
  <2> QED
    BY <1>0, <1>6, <2>6 DEF FillRow
<1>7. CASE ScriptDies /\ using' = using
  <2>1. NoSealer \in Sealers /\ NoSealer.todo = {}
    BY DEF NoSealer, Sealers
  <2>2. NoFill \in Fills /\ NoFill.batch = {}
    BY DEF NoFill, Fills
  <2> QED
    BY <1>0, <1>7, <2>1, <2>2 DEF ScriptDies
<1> QED
  BY <1>1, <1>2, <1>3, <1>4, <1>5, <1>6, <1>7 DEF Next, vars, MigrationStep

\* What RotateRow makes of its run.
LEMMA RunAfterRow ==
    ASSUME Typed, NEW p \in Servers, RotateRow(p)
    PROVE  LET x == run[p]
               e == NextRow(p)
           IN /\ e \in x.batch
              /\ \A q \in Servers : q # p => run'[q] = run[q]
              /\ run'[p].job = x.job /\ run'[p].owns = x.owns
              /\ run'[p].batch = x.batch \ {e}
              /\ \/ /\ RotationOpens(e.row)
                    /\ run'[p].failed = x.failed /\ run'[p].rejected = x.rejected
                 \/ /\ ~RotationOpens(e.row)
                    /\ run'[p].failed = x.failed \cup {e.id} /\ run'[p].rejected = x.rejected
                 \/ /\ run'[p].failed = x.failed \cup {e.id}
                    /\ run'[p].rejected = x.rejected \cup {e.id}
              /\ run' \in [Servers -> Runs]
<1> DEFINE x == run[p]
           e == NextRow(p)
           goOn == [x EXCEPT !.batch = @ \ {e}]
           giveUp == [goOn EXCEPT !.failed = @ \cup {e.id}]
           turnDown == [giveUp EXCEPT !.rejected = @ \cup {e.id}]
<1>1. e \in x.batch /\ x \in Runs /\ e.id \in RowIds
  BY NextExists DEF RotateRow, Typed, RotationTyped, Runs, Existing
<1>2. ASSUME NEW y, y = goOn
      PROVE  y = [job |-> x.job, owns |-> x.owns, batch |-> x.batch \ {e}, failed |-> x.failed,
                  rejected |-> x.rejected]
  BY <1>1, <1>2 DEF Runs
<1>3. goOn \in Runs
  BY <1>1, <1>2 DEF Runs
<1>4. \/ RotationOpens(e.row) /\ run' = [run EXCEPT ![p] = goOn]
      \/ ~RotationOpens(e.row) /\ run' = [run EXCEPT ![p] = giveUp]
      \/ run' = [run EXCEPT ![p] = turnDown]
  BY DEF RotateRow
<1> HIDE DEF goOn
<1>5. ASSUME NEW y, y = giveUp
      PROVE  y = [job |-> goOn.job, owns |-> goOn.owns, batch |-> goOn.batch,
                  failed |-> goOn.failed \cup {e.id}, rejected |-> goOn.rejected]
  BY <1>1, <1>3, <1>5 DEF Runs
<1>6. giveUp \in Runs
  BY <1>1, <1>3, <1>5 DEF Runs
<1> HIDE DEF giveUp
<1>7. ASSUME NEW y, y = turnDown
      PROVE  y = [job |-> giveUp.job, owns |-> giveUp.owns, batch |-> giveUp.batch,
                  failed |-> giveUp.failed, rejected |-> giveUp.rejected \cup {e.id}]
  BY <1>1, <1>6, <1>7 DEF Runs
<1>8. turnDown \in Runs
  BY <1>1, <1>6, <1>7 DEF Runs
<1> HIDE DEF turnDown, e
<1>9. run \in [Servers -> Runs]
  BY DEF Typed, RotationTyped
<1>10. \E y \in {goOn, giveUp, turnDown} : run' = [run EXCEPT ![p] = y]
  BY <1>4
<1>11. run' \in [Servers -> Runs] /\ \A q \in Servers : q # p => run'[q] = run[q]
  BY <1>3, <1>6, <1>8, <1>9, <1>10
<1>12. \/ RotationOpens(e.row) /\ run'[p] = goOn
       \/ ~RotationOpens(e.row) /\ run'[p] = giveUp
       \/ run'[p] = turnDown
  BY <1>4, <1>9
<1> QED
  BY <1>1, <1>2, <1>5, <1>7, <1>11, <1>12 DEF e

\* A run that reads rows, begins, ends or loses its job.
LEMMA RunAfterRead ==
    ASSUME Typed, NEW p \in Servers, ReadRows(p)
    PROVE  \/ /\ run' = [run EXCEPT ![p] = NoRun]
              /\ \/ Outdated(p) = {} /\ EndRun(p, "done")
                 \/ EndRun(p, "failed")
           \/ /\ job' = job
              /\ \A q \in Servers : q # p => run'[q] = run[q]
              /\ run'[p] = [job |-> run[p].job, owns |-> run[p].owns,
                            batch |-> {[id |-> r, row |-> rows[r]] : r \in FirstOf(Outdated(p))},
                            failed |-> run[p].failed, rejected |-> run[p].rejected]
              /\ run' \in [Servers -> Runs]
<1> DEFINE page == {[id |-> r, row |-> rows[r]] : r \in FirstOf(Outdated(p))}
<1>1. CASE EndRun(p, "done") /\ Outdated(p) = {}
  BY <1>1 DEF EndRun
<1>2. CASE EndRun(p, "failed")
  BY <1>2 DEF EndRun
<1>3. CASE run' = [run EXCEPT ![p].batch = page] /\ job' = job
  <2>1. run[p] \in Runs
    BY DEF Typed, RotationTyped
  <2>2. page \subseteq Copies
    <3>1. ASSUME NEW r \in FirstOf(Outdated(p))
          PROVE  [id |-> r, row |-> rows[r]] \in Copies
      <4>1. r \in Existing /\ r \in RowIds
        BY DEF FirstOf, Outdated, Existing
      <4> QED
        BY <4>1, RowOrNone DEF Typed, Copies
    <3> QED
      BY <3>1
  <2> HIDE DEF page
  <2>3. run' = [run EXCEPT ![p] = [run[p] EXCEPT !.batch = page]]
    BY <1>3 DEF Typed, RotationTyped
  <2>4. ASSUME NEW y, y = [run[p] EXCEPT !.batch = page]
        PROVE  y = [job |-> run[p].job, owns |-> run[p].owns, batch |-> page,
                    failed |-> run[p].failed, rejected |-> run[p].rejected]
    BY <2>1, <2>4 DEF Runs
  <2>5. [job |-> run[p].job, owns |-> run[p].owns, batch |-> page,
         failed |-> run[p].failed, rejected |-> run[p].rejected] \in Runs
    BY <2>1, <2>2 DEF Runs
  <2>6. /\ \A q \in Servers : q # p => run'[q] = run[q]
        /\ run' \in [Servers -> Runs]
        /\ run'[p] = [job |-> run[p].job, owns |-> run[p].owns, batch |-> page,
                      failed |-> run[p].failed, rejected |-> run[p].rejected]
    BY <2>3, <2>4, <2>5 DEF Typed, RotationTyped
  <2> QED
    BY <1>3, <2>6 DEF page
<1> QED
  BY <1>1, <1>2, <1>3 DEF ReadRows

LEMMA NoRunTyped == NoRun \in Runs /\ NoRun.batch = {} /\ NoRun.failed = {} /\ NoRun.rejected = {}
                    /\ NoRun.job = None
  BY DEF NoRun, Runs

\* What a step leaves of each run: nothing, what it was except for its job, or
\* what ReadRows or RotateRow makes of it.
RunsFollow ==
    /\ run' \in [Servers -> Runs]
    /\ \A p \in Servers :
          \/ run'[p].batch = {} /\ run'[p].failed = {} /\ run'[p].rejected = {}
          \/ /\ run'[p].batch = run[p].batch /\ run'[p].failed = run[p].failed
             /\ run'[p].rejected = run[p].rejected
          \/ ReadRows(p) \/ RotateRow(p)

LEMMA RunSteps ==
    ASSUME Typed, [Next]_vars
    PROVE  RunsFollow
<1> USE DEF Typed, RotationTyped, RunsFollow
<1>1. CASE UNCHANGED run
  BY <1>1
<1>2. ASSUME NEW p \in Servers, NEW j \in Jobs, StartRun(p, j)
      PROVE  RunsFollow
  <2> DEFINE new == [NoRun EXCEPT !.job = j, !.owns = TRUE]
  <2>1. run' = [run EXCEPT ![p] = new]
    BY <1>2 DEF StartRun
  <2>2. ASSUME NEW y, y = new
        PROVE  y = [job |-> j, owns |-> TRUE, batch |-> {}, failed |-> {}, rejected |-> {}]
    BY <2>2 DEF NoRun
  <2> HIDE DEF new
  <2>3. new = [job |-> j, owns |-> TRUE, batch |-> {}, failed |-> {}, rejected |-> {}]
    BY <2>2
  <2>4. new \in Runs /\ new.batch = {} /\ new.failed = {} /\ new.rejected = {}
    BY <2>3 DEF Runs
  <2> QED
    BY <2>1, <2>4
<1>3. ASSUME NEW p \in Servers, ReadRows(p)
      PROVE  RunsFollow
  <2>1. CASE run' = [run EXCEPT ![p] = NoRun]
    BY <2>1, NoRunTyped
  <2>2. CASE run' \in [Servers -> Runs] /\ \A q \in Servers : q # p => run'[q] = run[q]
    BY <1>3, <2>2
  <2> QED
    BY <1>3, <2>1, <2>2, RunAfterRead
<1>4. ASSUME NEW p \in Servers, RotateRow(p)
      PROVE  RunsFollow
  BY <1>4, RunAfterRow
<1>5. ASSUME NEW j \in Jobs, TakeBack(j)
      PROVE  RunsFollow
  <2>1. run' = [p \in Servers |->
                   IF run[p].job = j THEN [run[p] EXCEPT !.owns = FALSE] ELSE run[p]]
    BY <1>5 DEF TakeBack
  <2>2. ASSUME NEW p \in Servers
        PROVE  /\ run'[p] \in Runs
               /\ run'[p].batch = run[p].batch /\ run'[p].failed = run[p].failed
               /\ run'[p].rejected = run[p].rejected
    <3>1. run[p] \in Runs
      OBVIOUS
    <3>2. ASSUME NEW y, y = [run[p] EXCEPT !.owns = FALSE]
          PROVE  y = [job |-> run[p].job, owns |-> FALSE, batch |-> run[p].batch,
                      failed |-> run[p].failed, rejected |-> run[p].rejected]
      BY <3>1, <3>2 DEF Runs
    <3>3. CASE run[p].job # j
      BY <2>1, <3>1, <3>3
    <3>4. CASE run[p].job = j
      <4>1. run'[p] = [run[p] EXCEPT !.owns = FALSE]
        BY <2>1, <3>4
      <4>2. run'[p] = [job |-> run[p].job, owns |-> FALSE, batch |-> run[p].batch,
                       failed |-> run[p].failed, rejected |-> run[p].rejected]
        BY <3>2, <4>1
      <4> QED
        BY <3>1, <4>2 DEF Runs
    <3> QED
      BY <3>3, <3>4
  <2> QED
    BY <2>1, <2>2
<1>6. ASSUME NEW p \in Servers, Restart(p)
      PROVE  RunsFollow
  BY <1>6, NoRunTyped DEF Restart
<1> QED
  BY <1>1, <1>2, <1>3, <1>4, <1>5, <1>6
     DEF Next, vars, rotation, RunStep, CheckQueue, AddJob

\* Where a job goes, and that BullMQ takes it back MaxStalled times at most.
LEMMA JobSteps ==
    ASSUME Typed, [Next]_vars
    PROVE  job' \in [Jobs -> JobStates] /\ stalls' \in [Jobs -> 0 .. MaxStalled]
<1> USE DEF Typed, RotationTyped, JobStates
<1>1. CASE UNCHANGED <<job, stalls>>
  BY <1>1
<1>2. ASSUME NEW j \in Jobs, TakeBack(j)
      PROVE  job' \in [Jobs -> JobStates] /\ stalls' \in [Jobs -> 0 .. MaxStalled]
  <2>1. CASE stalls[j] < MaxStalled
    BY <1>2, <2>1 DEF TakeBack
  <2>2. CASE ~(stalls[j] < MaxStalled)
    BY <1>2, <2>2 DEF TakeBack
  <2> QED
    BY <2>1, <2>2
<1>3. ASSUME NEW p \in Servers, ReadRows(p)
      PROVE  job' \in [Jobs -> JobStates] /\ stalls' = stalls
  BY <1>3 DEF ReadRows, EndRun
<1>4. ASSUME NEW j \in Jobs, CheckQueue(j) \/ AddJob(j)
      PROVE  job' \in [Jobs -> JobStates] /\ stalls' = stalls
  BY <1>4 DEF CheckQueue, AddJob
<1>5. ASSUME NEW p \in Servers, NEW j \in Jobs, StartRun(p, j)
      PROVE  job' \in [Jobs -> JobStates] /\ stalls' = stalls
  BY <1>5 DEF StartRun
<1> QED
  BY <1>1, <1>2, <1>3, <1>4, <1>5 DEF Next, vars, rotation, RunStep, RotateRow, Restart

LEMMA RotationTypedStep ==
    ASSUME Typed, [Next]_vars
    PROVE  RotationTyped'
<1> USE DEF Typed, RotationTyped
<1>1. RunsFollow
  BY RunSteps
<1>2. Existing \subseteq Existing'
  BY ExistingGrows
<1>3. ASSUME NEW p \in Servers
      PROVE  /\ \A e \in run'[p].batch : e.id \in Existing'
             /\ run'[p].failed \subseteq Existing'
             /\ run'[p].rejected \subseteq run'[p].failed
  <2>1. CASE run'[p].batch = {} /\ run'[p].failed = {} /\ run'[p].rejected = {}
    BY <2>1
  <2>2. CASE /\ run'[p].batch = run[p].batch /\ run'[p].failed = run[p].failed
             /\ run'[p].rejected = run[p].rejected
    BY <1>2, <2>2
  <2>3. CASE ReadRows(p)
    <3>1. CASE run' = [run EXCEPT ![p] = NoRun]
      BY <3>1, NoRunTyped
    <3>2. CASE run'[p] = [job |-> run[p].job, owns |-> run[p].owns,
                          batch |-> {[id |-> r, row |-> rows[r]] : r \in FirstOf(Outdated(p))},
                          failed |-> run[p].failed, rejected |-> run[p].rejected]
      <4>1. FirstOf(Outdated(p)) \subseteq Existing
        BY DEF FirstOf, Outdated
      <4> QED
        BY <1>2, <3>2, <4>1
    <3> QED
      BY <2>3, <3>1, <3>2, RunAfterRead
  <2>4. CASE RotateRow(p)
    BY <1>2, <2>4, RunAfterRow
  <2> QED
    BY <1>1, <2>1, <2>2, <2>3, <2>4 DEF RunsFollow
<1>4. run' \in [Servers -> Runs]
  BY <1>1 DEF RunsFollow
<1> QED
  BY <1>3, <1>4, JobSteps

LEMMA TypedInit == Init => Typed
<1> SUFFICES ASSUME Init PROVE Typed
  OBVIOUS
<1>1. LegacyRows \subseteq Rows
  <2>1. {PlainWallet, [form |-> "seed", key |-> 1, tag |-> 0]} \subseteq Wallets
    BY DEF Wallets, PlainWallet
  <2>2. LegacyRows \subseteq [number : Numbers, hashed : BOOLEAN, wallet : Wallets, version : {1}]
    BY <2>1 DEF LegacyRows
  <2> QED
    BY <2>2 DEF Rows
<1>2. \A row \in LegacyRows : row.wallet.key \in 0 .. 1
  BY DEF LegacyRows, PlainWallet
<1>3. rows \in [RowIds -> Rows \cup {NoRow}]
  BY <1>1 DEF Init, RecordsInit
<1>4. born \in [RowIds -> 0 .. MaxVersion]
  <2>1. ASSUME NEW r \in RowIds
        PROVE  (IF rows[r] = NoRow THEN 0 ELSE rows[r].wallet.key) \in 0 .. MaxVersion
    <3>1. rows[r] \in LegacyRows \cup {NoRow}
      BY DEF Init, RecordsInit
    <3> QED
      BY <1>2, <3>1
  <2> QED
    BY <2>1 DEF Init, RecordsInit
<1>5. RecordsTyped
  BY <1>3, <1>4 DEF Init, RecordsInit, RecordsTyped, CommandsTyped
<1>6. ProgramsTyped
  <2>1. NoSealer \in Sealers /\ NoSealer.todo = {}
    BY DEF NoSealer, Sealers
  <2>2. NoFill \in Fills /\ NoFill.batch = {}
    BY DEF NoFill, Fills
  <2> QED
    BY <2>1, <2>2 DEF Init, MigrationsInit, ProgramsTyped
<1>7. RotationTyped
  BY NoRunTyped DEF Init, RotationInit, RotationTyped, JobStates
<1> QED
  BY <1>5, <1>6, <1>7 DEF Typed

LEMMA TypedInvariant == Spec => []Typed
<1>1. Typed /\ [Next]_vars => Typed'
  BY RecordsTypedStep, ProgramsTypedStep, RotationTypedStep DEF Typed
<1> QED
  BY <1>1, TypedInit, PTL DEF Spec

\* Every variable keeps its type: no program writes a row that is not there, and
\* BullMQ takes a rotation job back MaxStalled times at most.
THEOREM TypeCorrect == Spec => []TypeOK
<1>1. Typed => TypeOK
  <2> SUFFICES ASSUME Typed PROVE TypeOK
    OBVIOUS
  <2>1. RunsOK
    BY DEF Typed, RotationTyped, Runs, Copies, RunsOK
  <2> QED
    BY <2>1 DEF Typed, RecordsTyped, CommandsTyped, ProgramsTyped, RotationTyped, Sealers, Fills,
                TypeOK
<1> QED
  BY <1>1, TypedInvariant, PTL

\* A copy that a run did not have before is of the row as it is.
LEMMA NewCopies ==
    ASSUME Typed, [Next]_vars, NEW p \in Servers, NEW e \in run'[p].batch, e \notin run[p].batch
    PROVE  ReadRows(p) /\ e.id \in Existing /\ e.row = rows[e.id]
<1>1. RunsFollow
  BY RunSteps
<1>2. ~RotateRow(p)
  BY RunAfterRow
<1>3. ReadRows(p)
  BY <1>1, <1>2 DEF RunsFollow
<1>4. CASE run' = [run EXCEPT ![p] = NoRun]
  BY <1>4, NoRunTyped DEF Typed, RotationTyped
<1>5. CASE run'[p] = [job |-> run[p].job, owns |-> run[p].owns,
                      batch |-> {[id |-> r, row |-> rows[r]] : r \in FirstOf(Outdated(p))},
                      failed |-> run[p].failed, rejected |-> run[p].rejected]
  <2>1. PICK r \in FirstOf(Outdated(p)) : e = [id |-> r, row |-> rows[r]]
    BY <1>5
  <2>2. r \in Existing
    BY DEF FirstOf, Outdated
  <2> QED
    BY <1>3, <2>1, <2>2
<1> QED
  BY <1>3, <1>4, <1>5, RunAfterRead

-----------------------------------------------------------------------------
(* Wallets stay readable *)

\* A plain wallet is in a row that no rotation has treated, and what the script
\* has yet to seal is plain.  A copy that shows a sealed wallet is of a row whose
\* wallet is sealed in the same form.
PlainIsFirst ==
    /\ \A r \in Existing : rows[r].wallet.form = "plain" => rows[r].version = 1
    /\ \A r \in sealer.todo : rows[r].wallet.form = "plain"
    /\ \A p \in Servers : \A e \in run[p].batch :
          e.row.wallet.form # "plain" => rows[e.id].wallet.form = e.row.wallet.form

Readable == PlainIsFirst /\ WalletsStayReadable

\* The forms of the rows never turn back to plain, and only sealing changes them.
LEMMA FormsKept ==
    ASSUME Typed, PlainIsFirst, [Next]_vars, NEW r \in Existing
    PROVE  /\ rows[r].wallet.form # "plain" => rows'[r].wallet.form = rows[r].wallet.form
           /\ rows[r].wallet.form = "plain" =>
                 \/ rows'[r].wallet = rows[r].wallet /\ rows'[r].version = rows[r].version
                 \/ r \in sealer.todo /\ rows'[r].wallet.form = "text" /\ Sealed(r)
<1>1. r \in RowIds /\ rows[r] # NoRow /\ rows[r] \in Rows
  BY RowOrNone DEF Existing, Typed
<1>2. CASE RowKept(r) \/ Filled(r)
  BY <1>2 DEF RowKept, Filled, Rewritten
<1>3. CASE Created(r)
  BY <1>1, <1>3 DEF Created
<1>4. CASE Sealed(r)
  BY <1>4 DEF Sealed, Rewritten, PlainIsFirst
<1>5. CASE Rotated(r)
  <2>0. PICK p \in Servers : \E e \in run[p].batch :
            e.id = r /\ RotationOpens(e.row) /\ Rewritten(r, Rewrapped(p, e.row), env[p])
    BY <1>5 DEF Rotated
  <2>1. PICK e \in run[p].batch :
            e.id = r /\ RotationOpens(e.row) /\ Rewritten(r, Rewrapped(p, e.row), env[p])
    BY <2>0
  <2>2. e.row \in Rows
    BY DEF Typed, RotationTyped, Runs, Copies
  <2>3. rows[r].wallet.form # "plain" /\ rows[r].wallet.form = e.row.wallet.form
    BY <2>1 DEF RotationOpens, PlainIsFirst
  <2>4. rows'[r].wallet.form = e.row.wallet.form
    BY <2>1, <2>2, RewrappedIs DEF Rewritten, Typed
  <2> QED
    BY <2>3, <2>4
<1> QED
  BY <1>1, <1>2, <1>3, <1>4, <1>5, RowSteps

\* A script's list and a run's copies are of rows as they were.
LEMMA PlainIsFirstStep ==
    ASSUME Typed, PlainIsFirst, [Next]_vars
    PROVE  PlainIsFirst'
<1>1. ASSUME NEW r \in Existing', rows'[r].wallet.form = "plain"
      PROVE  rows'[r].version = 1
  <2>1. r \in RowIds /\ rows'[r] # NoRow
    BY DEF Existing
  <2>2. CASE r \in Existing
    BY <1>1, <2>2, FormsKept DEF PlainIsFirst
  <2>3. CASE r \notin Existing
    <3>1. rows[r] = NoRow
      BY <2>1, <2>3 DEF Existing
    <3>2. Created(r)
      BY <2>1, <2>3, <3>1, RowSteps
         DEF RowKept, Sealed, Filled, Rotated, Rewritten, Typed, ProgramsTyped
    <3> QED
      BY <1>1, <3>2, NewUserTyped DEF Created, Typed
  <2> QED
    BY <2>2, <2>3
<1>2. ASSUME NEW r \in sealer'.todo
      PROVE  rows'[r].wallet.form = "plain"
  <2>1. CASE StartSealing
    <3>1. r \in Existing /\ rows[r].wallet.form = "plain"
      BY <1>2, <2>1 DEF StartSealing
    <3> QED
      BY <2>1, <3>1 DEF StartSealing, users
  <2>2. ASSUME NEW q \in RowIds, SealWallet(q)
        PROVE  rows'[r].wallet.form = "plain"
    <3>1. r \in sealer.todo /\ r # q
      <4>1. sealer.todo # {q}
        BY <1>2, <2>2 DEF SealWallet, SealerGoesOn, NoSealer
      <4>2. sealer'.todo = sealer.todo \ {q}
        BY <2>2, <4>1 DEF SealWallet, SealerGoesOn, Typed, ProgramsTyped, Sealers
      <4> QED
        BY <1>2, <4>2
    <3>2. rows'[r] = rows[r]
      <4>1. r \in RowIds
        BY <3>1 DEF Typed, ProgramsTyped, Sealers
      <4> QED
        BY <2>2, <3>1, <4>1 DEF SealWallet, users, Typed, RecordsTyped
    <3> QED
      BY <3>1, <3>2 DEF PlainIsFirst
  <2>3. CASE sealer'.todo \subseteq sealer.todo /\ ~\E q \in RowIds : SealWallet(q)
    <3>1. r \in sealer.todo /\ r \in Existing /\ rows[r].wallet.form = "plain"
      BY <1>2, <2>3 DEF Typed, ProgramsTyped, PlainIsFirst
    <3>2. sealer' = sealer \/ rows' = rows
      BY <2>3 DEF Next, vars, programs, MigrationStep, StartFill, ReadPage, FillRow, ScriptDies,
                  StartSealing, users
    <3>3. CASE rows' = rows
      BY <3>1, <3>3
    <3>4. CASE rows' # rows
      <4>1. ~Sealed(r) /\ r \in RowIds
        BY <2>3, <3>1 DEF Sealed, Typed, ProgramsTyped, Sealers
      <4> QED
        BY <3>1, <4>1, FormsKept
    <3> QED
      BY <3>3, <3>4
  <2> QED
    BY <1>2, <2>1, <2>2, <2>3
       DEF Next, vars, programs, MigrationStep, StartFill, ReadPage, FillRow, ScriptDies, NoSealer
<1>3. ASSUME NEW p \in Servers, NEW e \in run'[p].batch, e.row.wallet.form # "plain"
      PROVE  rows'[e.id].wallet.form = e.row.wallet.form
  <2>1. CASE e \in run[p].batch
    <3>1. /\ e.id \in Existing /\ rows[e.id].wallet.form # "plain"
          /\ rows[e.id].wallet.form = e.row.wallet.form
      BY <1>3, <2>1 DEF Typed, RotationTyped, PlainIsFirst
    <3> QED
      BY <3>1, FormsKept
  <2>2. CASE e \notin run[p].batch
    <3>1. ReadRows(p) /\ e.row = rows[e.id]
      BY <1>3, <2>2, NewCopies
    <3>2. rows' = rows
      BY <3>1 DEF ReadRows, users
    <3> QED
      BY <1>3, <3>1, <3>2
  <2> QED
    BY <2>1, <2>2
<1> QED
  BY <1>1, <1>2, <1>3 DEF PlainIsFirst

\* The script seals only what was plain, which was never readable; a rotation
\* says in the wallet itself which version it sealed it under.
LEMMA ReadableStep ==
    ASSUME Typed, Readable, [Next]_vars
    PROVE  WalletsStayReadable'
<1> USE DEF Typed, Readable, Opens, TriedVersion
<1> SUFFICES ASSUME NEW r \in Existing', born'[r] = 1
             PROVE  Opens(rows'[r])
  BY DEF WalletsStayReadable
<1>1. r \in RowIds /\ rows'[r] # NoRow
  BY DEF Existing
<1>2. CASE RowKept(r)
  BY <1>1, <1>2 DEF RowKept, Existing, WalletsStayReadable
<1>3. CASE Created(r)
  <2>1. PICK p \in Servers :
            pc[p] = "create" /\ rows'[r] = NewUser(p, cur[p]) /\ born'[r] = env[p]
    BY <1>3 DEF Created
  <2>2. /\ rows'[r].wallet = [form |-> "seed", key |-> env[p], tag |-> 0]
        /\ rows'[r].version = 1
    BY <2>1, NewUserTyped
  <2>3. env[p] = 1
    BY <2>1
  <2> QED
    BY <2>2, <2>3
<1>4. CASE Sealed(r)
  <2>1. r \in Existing /\ rows[r].wallet.form = "plain" /\ born[r] = 1
    BY <1>4 DEF Sealed, Rewritten, PlainIsFirst
  <2> QED
    BY <2>1 DEF WalletsStayReadable
<1>5. CASE Filled(r)
  BY <1>5 DEF Filled, Rewritten, WalletsStayReadable
<1>6. CASE Rotated(r)
  <2>1. PICK p \in Servers : \E e \in run[p].batch :
            e.id = r /\ RotationOpens(e.row) /\ Rewritten(r, Rewrapped(p, e.row), env[p])
    BY <1>6 DEF Rotated
  <2>2. PICK e \in run[p].batch :
            e.id = r /\ RotationOpens(e.row) /\ Rewritten(r, Rewrapped(p, e.row), env[p])
    BY <2>1
  <2>3. e.row \in Rows /\ env[p] \in Versions
    BY DEF RotationTyped, Runs, Copies, RecordsTyped, CommandsTyped
  <2>4. r \in Existing /\ born[r] = 1
    BY <1>6, <2>2 DEF Rotated, Rewritten
  <2>5. e.row.wallet.form = "seed"
    BY <2>2, <2>4 DEF WalletsStayReadable, RotationOpens, PlainIsFirst
  <2> QED
    BY <2>2, <2>3, <2>5, RewrappedIs DEF Rewritten
<1> QED
  BY <1>1, <1>2, <1>3, <1>4, <1>5, <1>6, RowSteps

LEMMA ReadableInit == Init => Readable
<1> SUFFICES ASSUME Init PROVE Readable
  OBVIOUS
<1> USE DEF Init, RecordsInit, MigrationsInit, RotationInit
<1>1. ASSUME NEW r \in Existing
      PROVE  /\ rows[r].version = 1 /\ rows[r].wallet.key = born[r]
             /\ \/ rows[r].wallet = PlainWallet
                \/ rows[r].wallet = [form |-> "seed", key |-> 1, tag |-> 0]
  BY DEF Existing, LegacyRows
<1>2. sealer.todo = {} /\ \A p \in Servers : run[p].batch = {}
  BY DEF NoSealer, NoRun
<1>3. PlainIsFirst
  BY <1>1, <1>2 DEF PlainIsFirst
<1> HIDE DEF Init, RecordsInit, MigrationsInit, RotationInit
<1>4. WalletsStayReadable
  <2> SUFFICES ASSUME NEW r \in Existing, born[r] = 1
               PROVE  Opens(rows[r])
    BY DEF WalletsStayReadable
  <2>1. rows[r].wallet = [form |-> "seed", key |-> 1, tag |-> 0]
    BY <1>1 DEF PlainWallet
  <2> QED
    BY <1>1, <2>1 DEF Opens, TriedVersion
<1> QED
  BY <1>3, <1>4 DEF Readable

LEMMA ReadableInvariant == Spec => []Readable
<1>1. Typed /\ Readable /\ [Next]_vars => Readable'
  BY PlainIsFirstStep, ReadableStep DEF Readable
<1> QED
  BY <1>1, ReadableInit, TypedInvariant, PTL DEF Spec

\* A wallet first sealed under version 1 opens for SEND and CONTRIBUTE in every
\* state, with any number of rotations to any versions, overlapping, restarted
\* or taken back, and with the wallet script and the backfill between them.
THEOREM WalletsStayReadableCorrect == Spec => []WalletsStayReadable
  BY ReadableInvariant, PTL DEF Readable

-----------------------------------------------------------------------------
(* A job that reports success has rotated what it could *)

Rewritable(row) == row.wallet.form = "seed" /\ RotationOpens(row)

\* However old a copy is, it tells what its row is good for; a row that was
\* given up is not good for a rotation, unless its update was refused.
Faithful ==
    \A p \in Servers :
        /\ \A e \in run[p].batch :
              /\ e.row.wallet.form # "plain" => e.row.wallet.form = rows[e.id].wallet.form
              /\ Rewritable(e.row) <=> Rewritable(rows[e.id])
        /\ \A r \in run[p].failed \ run[p].rejected : ~Rewritable(rows[r])

\* Nothing makes a row good for a rotation or stops it from being so: a rotation
\* leaves the row under the version it writes, and sealing makes no seed.
LEMMA WorthKept ==
    ASSUME Typed, PlainIsFirst, Faithful, [Next]_vars, NEW r \in Existing
    PROVE  /\ Rewritable(rows'[r]) <=> Rewritable(rows[r])
           /\ rows[r].wallet.form # "plain" => rows'[r].wallet.form = rows[r].wallet.form
<1>1. r \in RowIds /\ rows[r] # NoRow
  BY DEF Existing
<1>2. CASE RowKept(r)
  BY <1>2 DEF RowKept
<1>3. CASE Created(r)
  BY <1>1, <1>3 DEF Created
<1>4. CASE Filled(r)
  BY <1>4 DEF Filled, Rewritten, Rewritable, RotationOpens
<1>5. CASE Sealed(r)
  <2>1. rows[r].wallet.form = "plain" /\ rows'[r].wallet.form = "text"
    BY <1>5 DEF Sealed, Rewritten, PlainIsFirst
  <2> QED
    BY <2>1 DEF Rewritable
<1>6. CASE Rotated(r)
  <2>1. PICK p \in Servers : \E e \in run[p].batch :
            e.id = r /\ RotationOpens(e.row) /\ Rewritten(r, Rewrapped(p, e.row), env[p])
    BY <1>6 DEF Rotated
  <2>2. PICK e \in run[p].batch :
            e.id = r /\ RotationOpens(e.row) /\ Rewritten(r, Rewrapped(p, e.row), env[p])
    BY <2>1
  <2>3. e.row \in Rows
    BY DEF Typed, RotationTyped, Runs, Copies
  <2>4. /\ rows'[r].wallet = [form |-> e.row.wallet.form, key |-> env[p], tag |-> env[p]]
        /\ rows'[r].version = env[p] /\ e.row.wallet.form \in {"text", "seed"}
    BY <2>2, <2>3, RewrappedIs DEF Rewritten, Typed
  <2>5. rows'[r].wallet.form = rows[r].wallet.form
    BY <2>2, <2>4 DEF Faithful
  <2>6. Rewritable(rows'[r]) <=> e.row.wallet.form = "seed"
    BY <2>4 DEF Rewritable, RotationOpens
  <2>7. Rewritable(rows[r]) <=> e.row.wallet.form = "seed"
    <3>1. Rewritable(e.row) <=> e.row.wallet.form = "seed"
      BY <2>2 DEF Rewritable
    <3> QED
      BY <2>2, <3>1 DEF Faithful
  <2> QED
    BY <2>5, <2>6, <2>7
<1> QED
  BY <1>1, <1>2, <1>3, <1>4, <1>5, <1>6, RowSteps

LEMMA FaithfulStep ==
    ASSUME Typed, PlainIsFirst, Faithful, [Next]_vars
    PROVE  Faithful'
<1>1. ASSUME NEW p \in Servers, NEW e \in run'[p].batch
      PROVE  /\ e.row.wallet.form # "plain" => e.row.wallet.form = rows'[e.id].wallet.form
             /\ Rewritable(e.row) <=> Rewritable(rows'[e.id])
  <2>1. CASE e \in run[p].batch
    <3>1. e.id \in Existing
      BY <2>1 DEF Typed, RotationTyped
    <3>2. rows[e.id].wallet.form # "plain" => rows'[e.id].wallet.form = rows[e.id].wallet.form
      BY <3>1, WorthKept
    <3>3. Rewritable(rows'[e.id]) <=> Rewritable(rows[e.id])
      BY <3>1, WorthKept
    <3> QED
      BY <2>1, <3>2, <3>3 DEF Faithful
  <2>2. CASE e \notin run[p].batch
    <3>1. ReadRows(p) /\ e.row = rows[e.id]
      BY <1>1, <2>2, NewCopies
    <3>2. rows' = rows
      BY <3>1 DEF ReadRows, users
    <3> QED
      BY <3>1, <3>2
  <2> QED
    BY <2>1, <2>2
<1>2. ASSUME NEW p \in Servers, NEW r \in run'[p].failed \ run'[p].rejected
      PROVE  ~Rewritable(rows'[r])
  <2>1. r \in Existing /\ ~Rewritable(rows[r])
    <3>1. CASE r \in run[p].failed \ run[p].rejected
      BY <3>1 DEF Typed, RotationTyped, Faithful
    <3>2. CASE RotateRow(p) /\ r \notin run[p].failed \ run[p].rejected
      <4>1. /\ NextRow(p) \in run[p].batch /\ ~RotationOpens(NextRow(p).row)
            /\ r = NextRow(p).id
        BY <1>2, <3>2, RunAfterRow
      <4> QED
        BY <4>1 DEF Typed, RotationTyped, Faithful, Rewritable
    <3>3. CASE ReadRows(p) /\ r \notin run[p].failed \ run[p].rejected
      <4>1. \/ run'[p].failed = run[p].failed /\ run'[p].rejected = run[p].rejected
            \/ run'[p].failed = {}
        <5>1. CASE run' = [run EXCEPT ![p] = NoRun]
          BY <5>1, NoRunTyped DEF Typed, RotationTyped
        <5>2. CASE run' # [run EXCEPT ![p] = NoRun]
          <6>1. run'[p] = [job |-> run[p].job, owns |-> run[p].owns,
                           batch |-> {[id |-> x, row |-> rows[x]] : x \in FirstOf(Outdated(p))},
                           failed |-> run[p].failed, rejected |-> run[p].rejected]
            BY <3>3, <5>2, RunAfterRead
          <6> QED
            BY <6>1
        <5> QED
          BY <5>1, <5>2
      <4> QED
        BY <1>2, <3>3, <4>1
    <3> QED
      BY <1>2, <3>1, <3>2, <3>3, RunSteps DEF RunsFollow
  <2> QED
    BY <2>1, WorthKept
<1> QED
  BY <1>1, <1>2 DEF Faithful

LEMMA FaithfulInvariant == Spec => []Faithful
<1>1. Init => Faithful
  BY NoRunTyped DEF Init, RotationInit, Faithful
<1>2. Typed /\ Readable /\ Faithful /\ [Next]_vars => Faithful'
  BY FaithfulStep DEF Readable
<1> QED
  BY <1>1, <1>2, TypedInvariant, ReadableInvariant, PTL DEF Spec

RotatedOnEnd ==
    \A p \in Servers :
        LET j == run[p].job IN
        j # None /\ run'[p] = NoRun /\ job[j] = "active" /\ job'[j] = "done" =>
            \A r \in Existing :
                rows[r].wallet.form = "seed" /\ RotationOpens(rows[r])
                    => rows[r].version >= env[p] \/ r \in run[p].rejected

\* A run reports success only when the query finds nothing but what it gave up.
LEMMA RotatedOnEndStep ==
    ASSUME Typed, Faithful, [Next]_vars
    PROVE  RotatedOnEnd
<1> SUFFICES ASSUME NEW p \in Servers, NEW r \in Existing,
                    run[p].job # None, run'[p] = NoRun,
                    job[run[p].job] = "active", job'[run[p].job] = "done",
                    Rewritable(rows[r])
             PROVE  rows[r].version >= env[p] \/ r \in run[p].rejected
  BY DEF RotatedOnEnd, Rewritable
<1> DEFINE j == run[p].job
<1>1. j \in Jobs /\ job \in [Jobs -> JobStates] /\ run[p] # NoRun
  <2>1. run[p] \in Runs
    BY DEF Typed, RotationTyped
  <2> QED
    BY <2>1, NoRunTyped DEF Typed, RotationTyped, Runs
<1>2. PICK q \in Servers : ReadRows(q)
  <2>1. job' # job
    BY <1>1
  <2>2. ASSUME NEW k \in Jobs, CheckQueue(k) \/ AddJob(k) \/ TakeBack(k)
        PROVE  FALSE
    BY <1>1, <2>2 DEF CheckQueue, AddJob, TakeBack
  <2>3. ASSUME NEW q \in Servers, NEW k \in Jobs, StartRun(q, k)
        PROVE  FALSE
    BY <1>1, <2>3 DEF StartRun
  <2> QED
    BY <2>1, <2>2, <2>3 DEF Next, vars, rotation, RunStep, RotateRow, Restart
<1>3. Outdated(q) = {} /\ run' = [run EXCEPT ![q] = NoRun]
  <2>1. job' # job
    BY <1>1
  <2>2. ~EndRun(q, "failed")
    BY <1>1 DEF EndRun
  <2>3. run' = [run EXCEPT ![q] = NoRun]
    BY <1>2, <2>1, RunAfterRead
  <2>4. Outdated(q) = {}
    BY <1>2, <2>1, <2>2, RunAfterRead
  <2> QED
    BY <2>3, <2>4
<1>4. p = q
  BY <1>1, <1>3 DEF Typed, RotationTyped
<1>5. rows[r].version >= env[p] \/ r \in run[p].failed
  <2>1. rows[r].version \in Nat /\ env[p] \in Nat
    <3>1. rows[r] \in Rows
      BY RowOrNone DEF Typed, Existing
    <3>2. rows[r].version \in Versions /\ env[p] \in Versions
      BY <3>1 DEF Typed, RecordsTyped, CommandsTyped, Rows
    <3> QED
      BY <3>2
  <2> QED
    BY <1>3, <1>4, <2>1 DEF Outdated
<1> QED
  BY <1>5 DEF Faithful

\* A rotation job that reports success leaves no readable seed under an older
\* version, except where an update was refused: a copy that went stale in the
\* batch, or a second run on the same rows, never makes it give up a good row.
THEOREM RotationIsThoroughCorrect == Spec => RotationIsThorough
<1>1. Typed /\ Faithful /\ [Next]_vars => [RotatedOnEnd]_vars
  BY RotatedOnEndStep
<1> QED
  BY <1>1, TypedInvariant, FaithfulInvariant, PTL DEF Spec, RotationIsThorough, RotatedOnEnd

-----------------------------------------------------------------------------
(* The backfill passes no row over *)

\* A page of a query holds its first rows, and is empty only if nothing is left.
LEMMA PageIsFirst ==
    ASSUME NEW S \in SUBSET RowIds
    PROVE  /\ FirstOf(S) = {} => S = {}
           /\ \A q \in S \ FirstOf(S) : \A b \in FirstOf(S) : b < q
<1>1. S \subseteq Nat /\ IsFiniteSet(S)
  BY FS_Subset
<1> DEFINE before(r) == {q \in S : q < r}
<1>2. ASSUME NEW r \in S
      PROVE  IsFiniteSet(before(r)) /\ Cardinality(before(r)) \in Nat
  BY <1>1, FS_Subset, FS_CardinalityType
<1>3. ASSUME S # {}
      PROVE  FirstOf(S) # {}
  <2>1. PICK r \in S : \A q \in S : r <= q
    BY <1>1, <1>3, LeastExists
  <2>2. before(r) = {}
    <3>1. ASSUME NEW q \in before(r)
          PROVE  FALSE
      <4>1. r \in Nat /\ q \in Nat /\ r <= q /\ q < r
        BY <1>1, <2>1
      <4> QED
        BY <4>1
    <3> QED
      BY <3>1
  <2>3. Cardinality(before(r)) = 0
    BY <2>2, FS_EmptySet
  <2> QED
    BY <2>3 DEF FirstOf
<1>4. ASSUME NEW q \in S \ FirstOf(S), NEW b \in FirstOf(S)
      PROVE  b < q
  <2>1. b \in S /\ q \in Nat /\ b \in Nat
    BY <1>1 DEF FirstOf
  <2>2. Cardinality(before(b)) < Batch /\ ~(Cardinality(before(q)) < Batch)
    BY DEF FirstOf
  <2>3. CASE q < b
    <3>1. ASSUME NEW z \in before(q)
          PROVE  z \in before(b)
      <4>1. z \in S /\ z \in Nat /\ z < q
        BY <1>1
      <4> QED
        BY <2>1, <2>3, <4>1
    <3>2. Cardinality(before(q)) <= Cardinality(before(b))
      <4>1. before(q) \subseteq before(b)
        BY <3>1
      <4> HIDE DEF before
      <4> QED
        BY <1>2, <2>1, <4>1, FS_Subset
    <3> QED
      BY <1>2, <2>1, <2>2, <3>2
  <2>4. q # b
    OBVIOUS
  <2> QED
    BY <2>1, <2>3, <2>4
<1> QED
  BY <1>3, <1>4

\* A row appears by a first contact.
LEMMA NewRow ==
    ASSUME Typed, [Next]_vars, NEW r \in Existing' \ Existing
    PROVE  Created(r)
<1>1. r \in RowIds /\ rows[r] = NoRow /\ rows'[r] # NoRow
  BY DEF Existing
<1> QED
  BY <1>1, RowSteps DEF RowKept, Sealed, Filled, Rotated, Rewritten

\* A number that is found by its hash stays so.
LEMMA FoundStays ==
    ASSUME Typed, [Next]_vars, NEW r \in Existing, FoundBy(rows[r].number) # {}
    PROVE  FoundBy(rows[r].number)' # {}
<1>1. PICK q \in Existing : rows[q].number = rows[r].number /\ rows[q].hashed
  BY DEF FoundBy
<1>2. ASSUME NEW x \in Existing
      PROVE  /\ x \in Existing' /\ rows'[x].number = rows[x].number
             /\ rows[x].hashed => rows'[x].hashed
  <2>1. x \in RowIds /\ rows[x] # NoRow
    BY DEF Existing
  <2>2. x \in Existing'
    BY ExistingGrows
  <2> QED
    BY <2>1, <2>2, RowSteps DEF RowKept, Created, Sealed, Filled, Rotated, Rewritten
<1> QED
  BY <1>1, <1>2 DEF FoundBy

Found(r) == FoundBy(rows[r].number) # {} \/ r \in fill.rejected

\* What the cursor has yet to come to: the fetched rows and those after them.
Ahead(r) ==
    /\ ~fill.finished /\ r > fill.cursor
    /\ \/ fill.batch = {}
       \/ r \in fill.batch
       \/ \A b \in fill.batch : b < r

Scanned ==
    /\ fill.batch # {} => fill.running
    /\ fill.finished => ~fill.running
    /\ fill.running \/ fill.finished => \A r \in Existing : Found(r) \/ Ahead(r)

LEMMA ScannedStep ==
    ASSUME Typed, Scanned, [Next]_vars
    PROVE  Scanned'
<1>1. ASSUME NEW r \in Existing' \ Existing
      PROVE  Found(r)'
  <2>1. Created(r)
    BY NewRow
  <2>2. rows'[r].hashed
    BY <2>1, NewUserTyped DEF Created, Typed
  <2> QED
    BY <2>2 DEF Found, FoundBy
<1>2. ASSUME NEW r \in Existing
      PROVE  FoundBy(rows[r].number) # {} => FoundBy(rows[r].number)' # {}
  BY FoundStays
<1> USE DEF Typed, ProgramsTyped, Scanned
<1>0. /\ Existing \subseteq RowIds /\ RowIds \subseteq Nat
      /\ fill.cursor \in Nat /\ fill.batch \subseteq Existing
  BY DEF Existing, Fills
<1>3. CASE UNCHANGED fill
  BY <1>1, <1>2, <1>3 DEF Found, Ahead
<1>4. CASE StartFill
  <2>1. fill' = [running |-> TRUE, finished |-> FALSE, cursor |-> 0, batch |-> {},
                 rejected |-> {}]
    BY <1>4 DEF StartFill, NoFill
  <2>2. \A r \in RowIds : r > 0
    OBVIOUS
  <2>3. \A r \in Existing' : Ahead(r)'
    BY <2>1, <2>2 DEF Ahead, Existing
  <2> QED
    BY <2>1, <2>3
<1>5. CASE ReadPage
  <2> DEFINE S == {r \in Existing : r > fill.cursor}
             page == FirstOf(S)
  <2>1. fill.running /\ fill.batch = {} /\ rows' = rows /\ Existing' = Existing
    BY <1>5 DEF ReadPage, users, Existing
  <2>2. S \in SUBSET RowIds
    BY <1>0
  <2>3. CASE page = {}
    <3>1. fill' = [fill EXCEPT !.running = FALSE, !.finished = TRUE]
      BY <1>5, <2>3 DEF ReadPage
    <3>2. fill' = [running |-> FALSE, finished |-> TRUE, cursor |-> fill.cursor,
                   batch |-> {}, rejected |-> fill.rejected]
      BY <2>1, <3>1 DEF Fills
    <3>3. \A r \in Existing : Found(r)
      <4>1. S = {}
        BY <2>2, <2>3, PageIsFirst
      <4> HIDE DEF page
      <4> QED
        BY <2>1, <4>1 DEF Ahead
    <3> QED
      BY <2>1, <3>2, <3>3 DEF Found, FoundBy
  <2>4. CASE page # {}
    <3>1. fill' = [fill EXCEPT !.batch = page]
      BY <1>5, <2>4 DEF ReadPage
    <3>2. ASSUME NEW r \in S
          PROVE  r \in page \/ \A b \in page : b < r
      BY <2>2, PageIsFirst
    <3> HIDE DEF page
    <3>3. fill' = [running |-> fill.running, finished |-> fill.finished,
                   cursor |-> fill.cursor, batch |-> page, rejected |-> fill.rejected]
      BY <3>1 DEF Fills
    <3>4. ASSUME NEW r \in Existing
          PROVE  Found(r)' \/ Ahead(r)'
      <4>1. CASE Found(r)
        BY <2>1, <3>3, <4>1 DEF Found, FoundBy
      <4>2. CASE Ahead(r)
        BY <3>2, <3>3, <4>2 DEF Ahead
      <4> QED
        BY <2>1, <4>1, <4>2
    <3> QED
      BY <2>1, <3>3, <3>4
  <2> QED
    BY <2>3, <2>4
<1>6. CASE FillRow
  <2>0. PICK x : x = Least(fill.batch)
    OBVIOUS
  <2> DEFINE goOn == [fill EXCEPT !.cursor = x, !.batch = @ \ {x}]
             turnDown == [goOn EXCEPT !.rejected = @ \cup {x}]
  <2>1. fill.batch # {} /\ fill.batch \in SUBSET RowIds
    BY <1>0, <1>6 DEF FillRow
  <2>2. x \in fill.batch /\ x \in Existing /\ \A q \in fill.batch : x <= q
    BY <1>0, <2>0, <2>1, NextExists
  <2>3. x \in Nat /\ x \in RowIds
    BY <1>0, <2>2
  <2>4. ASSUME NEW y, y = goOn
        PROVE  y = [running |-> fill.running, finished |-> fill.finished, cursor |-> x,
                    batch |-> fill.batch \ {x}, rejected |-> fill.rejected]
    BY <2>4 DEF Fills
  <2>5. ASSUME NEW y, y = turnDown
        PROVE  y = [running |-> fill.running, finished |-> fill.finished, cursor |-> x,
                    batch |-> fill.batch \ {x}, rejected |-> fill.rejected \cup {x}]
    BY <2>5 DEF Fills
  <2>6. \/ /\ fill' = goOn
           /\ rows' = IF FoundBy(rows[x].number) = {}
                      THEN [rows EXCEPT ![x].hashed = TRUE] ELSE rows
        \/ fill' = turnDown /\ rows' = rows
    BY <1>6, <2>0 DEF FillRow
  <2> HIDE DEF goOn, turnDown
  <2>7. /\ fill'.running = fill.running /\ fill'.finished = fill.finished
        /\ fill'.cursor = x /\ fill'.batch = fill.batch \ {x}
        /\ fill.rejected \subseteq fill'.rejected
    <3>1. CASE fill' = goOn
      BY <2>4, <3>1
    <3>2. CASE fill' = turnDown
      BY <2>5, <3>2
    <3> QED
      BY <2>6, <3>1, <3>2
  <2>8. Found(x)'
    <3>1. CASE fill' = turnDown
      <4>1. x \in fill'.rejected
        BY <2>5, <3>1
      <4> QED
        BY <4>1 DEF Found
    <3>2. CASE FoundBy(rows[x].number) # {}
      BY <1>2, <2>2, <3>2 DEF Found
    <3>3. CASE FoundBy(rows[x].number) = {} /\ rows' = [rows EXCEPT ![x].hashed = TRUE]
      <4>1. rows[x] \in Rows
        BY <2>2, <2>3, RowOrNone
      <4>2. rows'[x] = [rows[x] EXCEPT !.hashed = TRUE]
        BY <2>3, <3>3 DEF RecordsTyped
      <4>3. rows'[x].hashed
        BY <4>1, <4>2 DEF Rows
      <4>4. x \in Existing'
        BY <2>2, ExistingGrows
      <4> QED
        BY <4>3, <4>4 DEF Found, FoundBy
    <3> QED
      BY <2>6, <3>1, <3>2, <3>3
  <2>9. ASSUME NEW r \in Existing
        PROVE  Found(r)' \/ Ahead(r)'
    <3>1. CASE FoundBy(rows[r].number) # {}
      BY <1>2, <3>1 DEF Found
    <3>2. CASE r \in fill.rejected
      BY <2>7, <3>2 DEF Found
    <3>3. CASE r = x
      BY <2>8, <3>3
    <3>4. CASE Ahead(r) /\ r # x
      <4>1. r > x
        <5>1. CASE r \in fill.batch
          BY <1>0, <2>2, <2>3, <3>4, <5>1
        <5>2. CASE \A b \in fill.batch : b < r
          BY <1>0, <2>2, <2>3, <5>2
        <5> QED
          BY <2>1, <3>4, <5>1, <5>2 DEF Ahead
      <4> QED
        BY <2>7, <3>4, <4>1 DEF Ahead
    <3> QED
      BY <2>1, <3>1, <3>2, <3>3, <3>4 DEF Found
  <2> QED
    BY <1>1, <2>1, <2>7, <2>9
<1>7. CASE ScriptDies
  BY <1>3, <1>7 DEF ScriptDies, NoFill
<1> QED
  BY <1>3, <1>4, <1>5, <1>6, <1>7
     DEF Next, vars, programs, MigrationStep, StartSealing, SealWallet, Restart

LEMMA ScannedInvariant == Spec => []Scanned
<1>1. Init => Scanned
  BY DEF Init, MigrationsInit, NoFill, Scanned
<1>2. Typed /\ Scanned /\ [Next]_vars => Scanned'
  BY ScannedStep
<1> QED
  BY <1>1, <1>2, TypedInvariant, PTL DEF Spec

\* A backfill that finishes has passed no row over, whatever the size of its
\* pages, although first contacts insert rows before and behind its cursor.
THEOREM BackfillFindsEveryoneCorrect == Spec => []BackfillFindsEveryone
<1>1. Scanned => BackfillFindsEveryone
  BY DEF Scanned, Found, Ahead, BackfillFindsEveryone
<1> QED
  BY <1>1, ScannedInvariant, PTL
=============================================================================
