------------------------- MODULE SavingsGroupProofs -------------------------
(***************************************************************************)
(* Proofs about a savings group, for any number of users, sessions,        *)
(* scheduler slots and commands: types, the payout order, and what the     *)
(* rows say against what the chain moved.                                  *)
(***************************************************************************)
EXTENDS SavingsGroup, Totals, SequenceTheorems

(***************************************************************************)
(* Sequences of users                                                      *)
(***************************************************************************)

LEMMA LeastIsMin ==
    ASSUME NEW S \in SUBSET Nat, S # {}
    PROVE  Min(S) \in S /\ \A y \in S : Min(S) <= y
  BY LeastNumber DEF Min

LEMMA ToSetOf ==
    ASSUME NEW S, NEW s \in Seq(S)
    PROVE  ToSet(s) = {s[i] : i \in 1 .. Len(s)} /\ ToSet(s) \subseteq S
  BY DEF ToSet

LEMMA InjectiveOf ==
    ASSUME NEW S, NEW s \in Seq(S)
    PROVE  IsInjective(s) <=> \A i, j \in 1 .. Len(s) : s[i] = s[j] => i = j
  BY DEF IsInjective

LEMMA EmptyOrder ==
    <<>> \in Seq(Users) /\ ToSet(<<>>) = {} /\ IsInjective(<<>>)
<1>1. <<>> \in Seq(Users) /\ Len(<<>>) = 0 /\ DOMAIN <<>> = {}
  OBVIOUS
<1> QED
  BY <1>1 DEF ToSet, IsInjective

\* An entry more.
LEMMA AppendIs ==
    ASSUME NEW S, NEW s \in Seq(S), NEW e \in S
    PROVE  /\ Append(s, e) \in Seq(S)
           /\ ToSet(Append(s, e)) = ToSet(s) \cup {e}
           /\ IsInjective(s) /\ e \notin ToSet(s) => IsInjective(Append(s, e))
<1> DEFINE t == Append(s, e)
<1>1. /\ t \in Seq(S) /\ Len(t) = Len(s) + 1
      /\ \A i \in 1 .. Len(s) : t[i] = s[i]
      /\ t[Len(s) + 1] = e
  OBVIOUS
<1> HIDE DEF t
<1>2. ToSet(t) = {t[i] : i \in 1 .. Len(s) + 1} /\ ToSet(s) = {s[i] : i \in 1 .. Len(s)}
  BY <1>1, ToSetOf
<1>3. Len(s) \in Nat
  OBVIOUS
<1>4. ToSet(t) = ToSet(s) \cup {e}
  BY <1>1, <1>2, <1>3
<1>5. ASSUME IsInjective(s), e \notin ToSet(s)
      PROVE  IsInjective(t)
  <2>1. \A i, j \in 1 .. Len(s) : s[i] = s[j] => i = j
    BY <1>5, InjectiveOf
  <2>2. \A i, j \in 1 .. Len(t) : t[i] = t[j] => i = j
    BY <1>1, <1>2, <1>3, <1>5, <2>1
  <2> QED
    BY <1>1, <2>2, InjectiveOf
<1> QED
  BY <1>1, <1>4, <1>5 DEF t

\* The entry at k, the first of its kind, is taken out.
LEMMA WithoutIs ==
    ASSUME NEW S, NEW s \in Seq(S), NEW u, \E i \in 1 .. Len(s) : s[i] = u
    PROVE  \E k \in 1 .. Len(s) :
              /\ s[k] = u
              /\ Without(s, u) = SubSeq(s, 1, k - 1) \o SubSeq(s, k + 1, Len(s))
<1> DEFINE I == {i \in 1 .. Len(s) : s[i] = u}
<1>1. Min(I) \in I
  <2>1. I \in SUBSET Nat /\ I # {}
    OBVIOUS
  <2> HIDE DEF I
  <2> QED
    BY <2>1, LeastIsMin
<1>2. SelectInSeq(s, LAMBDA v : v = u) = Min(I)
  BY DEF SelectInSeq
<1>3. Without(s, u) = SubSeq(s, 1, Min(I) - 1) \o SubSeq(s, Min(I) + 1, Len(s))
  BY <1>2 DEF Without, RemoveFirst, RemoveAt
<1> QED
  BY <1>1, <1>3

\* Without(order, u) is order.filter((id) => id !== u) for an order that names
\* nobody twice.
LEMMA WithoutFilters ==
    ASSUME NEW S, NEW s \in Seq(S), NEW u
    PROVE  /\ Without(s, u) \in Seq(S)
           /\ IsInjective(s) => /\ ToSet(Without(s, u)) = ToSet(s) \ {u}
                                /\ IsInjective(Without(s, u))
<1>1. CASE \A i \in 1 .. Len(s) : s[i] # u
  <2>1. Without(s, u) = s
    BY <1>1 DEF Without, RemoveFirst
  <2>2. u \notin ToSet(s)
    BY <1>1, ToSetOf
  <2> QED
    BY <2>1, <2>2
<1>2. CASE \E i \in 1 .. Len(s) : s[i] = u
  <2>1. PICK k \in 1 .. Len(s) :
              /\ s[k] = u
              /\ Without(s, u) = SubSeq(s, 1, k - 1) \o SubSeq(s, k + 1, Len(s))
    BY <1>2, WithoutIs
  <2> DEFINE a == SubSeq(s, 1, k - 1)
             b == SubSeq(s, k + 1, Len(s))
             t == a \o b
             n == Len(s)
  <2>2. n \in Nat /\ k \in 1 .. n /\ \A i \in 1 .. n : s[i] \in S
    OBVIOUS
  <2>3. a \in Seq(S) /\ Len(a) = k - 1 /\ \A i \in 1 .. k - 1 : a[i] = s[i]
    OBVIOUS
  <2>4. b \in Seq(S) /\ Len(b) = n - k /\ \A i \in 1 .. n - k : b[i] = s[k + i]
    OBVIOUS
  <2>5. /\ t \in Seq(S) /\ Len(t) = n - 1
        /\ \A i \in 1 .. n - 1 : t[i] = IF i < k THEN s[i] ELSE s[i + 1]
    <3> HIDE DEF a, b
    <3>1. /\ t \in Seq(S) /\ Len(t) = Len(a) + Len(b)
          /\ \A i \in 1 .. Len(a) + Len(b) :
                t[i] = IF i <= Len(a) THEN a[i] ELSE b[i - Len(a)]
      BY <2>3, <2>4, ConcatProperties
    <3> HIDE DEF n, t
    <3> QED
      BY <2>2, <2>3, <2>4, <3>1
  <2> HIDE DEF a, b, t
  <2>6. ASSUME IsInjective(s)
        PROVE  ToSet(t) = ToSet(s) \ {u} /\ IsInjective(t)
    <3>1. \A i, j \in 1 .. n : s[i] = s[j] => i = j
      BY <2>6, InjectiveOf
    <3>2. ToSet(t) = {t[i] : i \in 1 .. n - 1} /\ ToSet(s) = {s[i] : i \in 1 .. n}
      BY <2>5, ToSetOf
    <3>3. Len(t) = n - 1 /\ t \in Seq(S)
      BY <2>5
    <3> HIDE DEF n
    <3>4. \A i, j \in 1 .. Len(t) : t[i] = t[j] => i = j
      BY <2>2, <2>5, <3>1, <3>3
    <3>5. IsInjective(t)
      BY <3>3, <3>4, InjectiveOf
    <3>6. ASSUME NEW x \in ToSet(s) \ {u}
          PROVE  x \in ToSet(t)
      <4>1. PICK i \in 1 .. n : x = s[i]
        BY <3>2
      <4>2. CASE i < k
        <5>1. i \in 1 .. n - 1 /\ t[i] = s[i]
          BY <2>2, <2>5, <4>2
        <5> QED
          BY <3>2, <4>1, <5>1
      <4>3. CASE i > k
        <5>1. i - 1 \in 1 .. n - 1 /\ t[i - 1] = s[i]
          BY <2>2, <2>5, <4>3
        <5> QED
          BY <3>2, <4>1, <5>1
      <4>4. i # k
        BY <2>1, <4>1
      <4> QED
        BY <2>2, <4>2, <4>3, <4>4
    <3>7. ASSUME NEW x \in ToSet(t)
          PROVE  x \in ToSet(s) \ {u}
      <4>1. PICK i \in 1 .. n - 1 : x = t[i]
        BY <3>2
      <4>2. x = IF i < k THEN s[i] ELSE s[i + 1]
        BY <2>5, <4>1
      <4>3. PICK j \in 1 .. n : x = s[j] /\ j # k
        BY <2>2, <4>2
      <4> QED
        BY <2>1, <2>2, <3>1, <3>2, <4>3
    <3> QED
      BY <3>5, <3>6, <3>7
  <2> QED
    BY <2>1, <2>5, <2>6 DEF t, a, b
<1> QED
  BY <1>1, <1>2
-----------------------------------------------------------------------------
(* Types, and what a handler knows at each await *)

PayoutLabels == {"load", "lookup", "pay", "savePayout", "advance", "reset", "newCycle"}

\* What process p has read, f, fits the await it is at, l: a cycle-end job is in
\* the hands of a scheduler slot that pays out; a payment has a recipient, an
\* amount and a cycle number; an exit has its member; a deadline is not null.
Fits(p, l, f) ==
    /\ l = "idle" => f = NoFrame
    /\ f.job # None => p \in Workers /\ l \in PayoutLabels
    /\ l \in {"lookup", "pay", "savePayout"} => f.cycle \in Cycles /\ f.amount \in Nat
    /\ l \in {"pay", "savePayout", "invoke", "record", "settle", "refund", "markLeft",
              "logExit", "readOrder"} => f.user \in Users
    /\ l = "refund" => f.amount \in Nat
    /\ l \in {"enqueueEnd", "extend"} => f.deadline > 0

MembersTyped ==
    /\ status \in [Users -> {"NONE", "ACTIVE", "LEFT"}]
    /\ role \in [Users -> {"MEMBER", "CREATOR"}]
    /\ joined \in Seq(Users)

RotationTyped ==
    /\ payoutOrder \in Seq(Users)
    /\ payoutIndex \in Nat /\ totalCycles \in 0 .. MaxCycles /\ extensionsUsed \in Nat
    /\ orderLocked \in BOOLEAN

ClockTyped ==
    /\ isPaused \in BOOLEAN
    /\ window \in {"none", "open", "over"} /\ deadline \in Nat

QueueTyped ==
    /\ cron \in BOOLEAN /\ periods \in 0 .. MaxPeriods
    /\ endFor \in [EndJobs -> Nat] /\ endTries \in [EndJobs -> 0 .. Attempts - 1]

ContributionsTyped ==
    /\ onChain \in [Users -> Nat] /\ recorded \in [Users -> Nat]
    /\ counted \subseteq Users /\ late \subseteq Users

MoneyTyped ==
    /\ payoutRows \subseteq Cycles \X Users
    /\ received \in [Users -> Nat] /\ sent \in [Cycles -> [Users -> Nat]]
    /\ refunded \in [Users -> Nat] /\ exits \in [Users -> Nat]
    /\ pool \in Int

ControlTyped ==
    /\ pc \in [Procs -> Labels]
    /\ frame \in [Procs -> Frames]
    /\ asked \in 0 .. MaxCommands
    /\ \A p \in Procs : Fits(p, pc[p], frame[p])

Typed ==
    /\ MembersTyped /\ RotationTyped /\ ClockTyped /\ QueueTyped
    /\ ContributionsTyped /\ MoneyTyped /\ ControlTyped

LEMMA TypedIsTypeOK == Typed => TypeOK
  BY GroupAssumption
     DEF Typed, TypeOK, MembersTyped, RotationTyped, ClockTyped, QueueTyped,
         ContributionsTyped, MoneyTyped, ControlTyped

\* Constants as the steps use them.
LEMMA Numbers ==
    /\ N \in Nat \ {0} /\ Attempts \in Nat \ {0} /\ MaxExtensions \in Nat
    /\ MaxCommands \in Nat /\ MaxContributions \in Nat /\ MaxPeriods \in Nat
    /\ MaxEnds \in Nat /\ MaxCycles \in Nat
    /\ Founders \in 1 .. N
    /\ None \notin Nat /\ None \notin Users /\ None \notin EndJobs
    /\ Sessions \cap Workers = {}
  BY GroupAssumption DEF Users, EndJobs

LEMMA UsersFinite ==
    /\ IsFiniteSet(Users)
    /\ \A S \in SUBSET Users : IsFiniteSet(S) /\ Cardinality(S) \in Nat
<1>1. IsFiniteSet(Users)
  BY Numbers, FS_Interval DEF Users
<1> QED
  BY <1>1, FS_Subset, FS_CardinalityType

LEMMA NoFrameFits ==
    /\ NoFrame \in Frames
    /\ \A p \in Procs : Fits(p, "idle", NoFrame)
<1>1. NoFrame \in Frames
  BY EmptyOrder DEF NoFrame, Frames
<1> QED
  BY <1>1 DEF Fits, NoFrame

LEMMA FrameFields ==
    ASSUME NEW f \in Frames
    PROVE  /\ f.user \in Users \cup {None} /\ f.job \in EndJobs \cup {None}
           /\ f.order \in Seq(Users) /\ f.index \in Nat /\ f.cycle \in Nat
           /\ f.last \in BOOLEAN /\ f.amount \in Nat \cup {None} /\ f.deadline \in Nat
           /\ f.stay \in SUBSET Users /\ f.lead \in BOOLEAN
  BY DEF Frames

Moves(p, l, f) ==
    /\ pc' = [pc EXCEPT ![p] = l]
    /\ frame' = [frame EXCEPT ![p] = f]

\* A process goes on with a frame that fits.
LEMMA MoveTyped ==
    ASSUME ControlTyped, NEW p \in Procs, NEW l \in Labels, NEW f \in Frames,
           Fits(p, l, f), Moves(p, l, f), asked' \in 0 .. MaxCommands
    PROVE  ControlTyped'
<1>1. pc' \in [Procs -> Labels] /\ frame' \in [Procs -> Frames]
  BY DEF ControlTyped, Moves
<1>2. ASSUME NEW q \in Procs
      PROVE  Fits(q, pc'[q], frame'[q])
  <2>1. CASE q = p
    BY <2>1 DEF ControlTyped, Moves
  <2>2. CASE q # p
    <3>1. pc'[q] = pc[q] /\ frame'[q] = frame[q]
      BY <2>2 DEF ControlTyped, Moves
    <3> QED
      BY <3>1 DEF ControlTyped
  <2> QED
    BY <2>1, <2>2
<1> QED
  BY <1>1, <1>2 DEF ControlTyped

LEMMA EnterTyped ==
    ASSUME ControlTyped, NEW p \in Procs, NEW l \in Labels, NEW f \in Frames,
           Fits(p, l, f), Enter(p, l, f)
    PROVE  ControlTyped'
<1>1. asked' \in 0 .. MaxCommands
  BY Numbers DEF Enter, ControlTyped
<1>2. Moves(p, l, f)
  BY DEF Enter, Moves
<1> QED
  BY <1>1, <1>2, MoveTyped

LEMMA GotoWithTyped ==
    ASSUME ControlTyped, NEW p \in Procs, NEW l \in Labels, NEW f \in Frames,
           Fits(p, l, f), GotoWith(p, l, f)
    PROVE  ControlTyped'
<1>1. asked' \in 0 .. MaxCommands
  BY DEF GotoWith, ControlTyped
<1>2. Moves(p, l, f)
  BY DEF GotoWith, Moves
<1> QED
  BY <1>1, <1>2, MoveTyped

LEMMA GotoTyped ==
    ASSUME ControlTyped, NEW p \in Procs, NEW l \in Labels, Fits(p, l, frame[p]), Goto(p, l)
    PROVE  ControlTyped'
<1>1. frame[p] \in Frames
  BY DEF ControlTyped
<1> QED
  BY <1>1, GotoWithTyped DEF Goto

LEMMA ReturnTyped ==
    ASSUME ControlTyped, NEW p \in Procs, Return(p)
    PROVE  ControlTyped'
<1>1. "idle" \in Labels
  BY DEF Labels
<1> QED
  BY <1>1, NoFrameFits, GotoWithTyped DEF Return

LEMMA DropJobTyped ==
    ASSUME QueueTyped, NEW j \in EndJobs, DropJob(j), UNCHANGED <<cron, periods>>
    PROVE  QueueTyped'
  BY Numbers DEF QueueTyped, DropJob

LEMMA FinishTyped ==
    ASSUME ControlTyped, QueueTyped, NEW p \in Procs, Finish(p)
    PROVE  ControlTyped' /\ QueueTyped'
<1>1. ControlTyped'
  BY ReturnTyped DEF Finish
<1>2. frame[p].job \in EndJobs \cup {None}
  <2>1. frame[p] \in Frames
    BY DEF ControlTyped
  <2> QED
    BY <2>1, FrameFields
<1>3. CASE frame[p].job = None
  <2>1. endFor' = endFor /\ endTries' = endTries /\ cron' = cron /\ periods' = periods
    BY <1>3 DEF Finish
  <2> QED
    BY <1>1, <2>1 DEF QueueTyped
<1>4. CASE frame[p].job # None
  BY <1>1, <1>2, <1>4, DropJobTyped DEF Finish
<1> QED
  BY <1>3, <1>4

LEMMA ThrowTyped ==
    ASSUME ControlTyped, QueueTyped, NEW p \in Procs, Throw(p)
    PROVE  ControlTyped' /\ QueueTyped'
<1>1. ControlTyped'
  BY ReturnTyped DEF Throw
<1>1a. PICK j : j = frame[p].job
  OBVIOUS
<1>2. j \in EndJobs \cup {None}
  <2>1. frame[p] \in Frames
    BY DEF ControlTyped
  <2> QED
    BY <1>1a, <2>1, FrameFields
<1>3. CASE j = None
  <2>1. endFor' = endFor /\ endTries' = endTries /\ cron' = cron /\ periods' = periods
    BY <1>1a, <1>3 DEF Throw
  <2> QED
    BY <1>1, <2>1 DEF QueueTyped
<1>4. CASE j # None /\ endTries[j] + 1 < Attempts
  <2>1. /\ endTries' = [endTries EXCEPT ![j] = @ + 1]
        /\ endFor' = endFor /\ cron' = cron /\ periods' = periods
    BY <1>1a, <1>4 DEF Throw
  <2> QED
    BY <1>1, <1>2, <1>4, <2>1, Numbers DEF QueueTyped
<1>5. CASE j # None /\ ~ (endTries[j] + 1 < Attempts)
  <2>1. DropJob(j) /\ UNCHANGED <<cron, periods>>
    BY <1>1a, <1>5 DEF Throw
  <2> QED
    BY <1>1, <1>2, <1>5, <2>1, DropJobTyped
<1> QED
  BY <1>3, <1>4, <1>5

\* What a step leaves alone keeps its type.
LEMMA Kept ==
    ASSUME Typed
    PROVE  /\ UNCHANGED members => MembersTyped'
           /\ UNCHANGED rotation => RotationTyped'
           /\ UNCHANGED <<isPaused, clock>> => ClockTyped'
           /\ UNCHANGED queue => QueueTyped'
           /\ UNCHANGED contributions => ContributionsTyped'
           /\ UNCHANGED <<payouts, settlements, pool>> => MoneyTyped'
           /\ UNCHANGED control => ControlTyped'
<1>1. UNCHANGED members => MembersTyped'
  BY DEF Typed, members, MembersTyped
<1>2. UNCHANGED rotation => RotationTyped'
  BY DEF Typed, rotation, RotationTyped
<1>3. UNCHANGED <<isPaused, clock>> => ClockTyped'
  BY DEF Typed, clock, ClockTyped
<1>4. UNCHANGED queue => QueueTyped'
  BY DEF Typed, queue, QueueTyped
<1>5. UNCHANGED contributions => ContributionsTyped'
  BY DEF Typed, contributions, ContributionsTyped
<1>6. UNCHANGED <<payouts, settlements, pool>> => MoneyTyped'
  BY DEF Typed, payouts, settlements, MoneyTyped
<1>7. UNCHANGED control => ControlTyped'
  BY DEF Typed, control, ControlTyped
<1> QED
  BY <1>1, <1>2, <1>3, <1>4, <1>5, <1>6, <1>7

LEMMA FrameOf ==
    ASSUME Typed, NEW p \in Procs
    PROVE  frame[p] \in Frames /\ Fits(p, pc[p], frame[p])
  BY DEF Typed, ControlTyped

\* A handler that goes on with the frame it has, or ends.
LEMMA OnwardTyped ==
    ASSUME Typed, NEW p \in Procs, NEW l \in Labels,
           (Goto(p, l) /\ Fits(p, l, frame[p])) \/ Return(p)
    PROVE  ControlTyped'
  BY GotoTyped, ReturnTyped DEF Typed

LEMMA JoinTyped ==
    ASSUME Typed, NEW u \in Users, Join(u)
    PROVE  Typed'
<1>1. joined' \in Seq(Users)
  BY AppendIs DEF Join, Typed, MembersTyped
<1>2. MembersTyped'
  BY <1>1 DEF Join, Typed, MembersTyped
<1> QED
  BY <1>2, Kept DEF Join, Typed

LEMMA ContributionTyped ==
    ASSUME Typed, NEW s \in Sessions, ContributionStep(s)
    PROVE  Typed'
<1>1. s \in Procs
  BY DEF Procs
<1>2. PICK f \in Frames : f = frame[s] /\ Fits(s, pc[s], f)
  BY <1>1, FrameOf
<1>3. CASE InvokeContribute(s)
  <2>1. f.user \in Users /\ "record" \in Labels /\ Fits(s, "record", f)
    BY <1>2, <1>3 DEF InvokeContribute, Fits, Labels, PayoutLabels
  <2>2. ControlTyped'
    BY <1>1, <1>2, <1>3, <2>1, OnwardTyped DEF InvokeContribute
  <2>3. /\ MembersTyped' /\ RotationTyped' /\ ClockTyped' /\ QueueTyped'
    BY <1>3, Kept DEF InvokeContribute
  <2>4. onChain' \in [Users -> Nat] /\ pool' \in Int
    BY <1>3 DEF InvokeContribute, Typed, ContributionsTyped, MoneyTyped
  <2>5. ContributionsTyped' /\ MoneyTyped'
    BY <1>3, <2>4 DEF InvokeContribute, Typed, ContributionsTyped, MoneyTyped, payouts, settlements
  <2> QED
    BY <2>2, <2>3, <2>5 DEF Typed
<1>4. CASE RecordContribution(s)
  <2>1. f.user \in Users /\ "readLock" \in Labels /\ Fits(s, "readLock", f)
    BY <1>2, <1>4 DEF RecordContribution, Fits, Labels, PayoutLabels
  <2>2. ControlTyped'
    BY <1>1, <1>2, <1>4, <2>1, OnwardTyped DEF RecordContribution
  <2>3. ContributionsTyped'
    BY <1>2, <1>4, <2>1 DEF RecordContribution, Typed, ContributionsTyped
  <2> QED
    BY <1>4, <2>2, <2>3, Kept DEF RecordContribution, Typed
<1>5. CASE RecordFails(s)
  BY <1>1, <1>5, Kept, ReturnTyped DEF RecordFails, Typed
<1>6. CASE ReadLock(s)
  <2>1. CASE Return(s)
    BY <1>1, <1>6, <2>1, Kept, ReturnTyped DEF ReadLock, Typed
  <2>2. CASE GotoWith(s, "writeLock", [frame[s] EXCEPT !.order = ResolveOrder])
    <3>1. [f EXCEPT !.order = ResolveOrder] \in Frames
      BY DEF Frames, ResolveOrder, Typed, MembersTyped, RotationTyped
    <3>2. "writeLock" \in Labels /\ Fits(s, "writeLock", [f EXCEPT !.order = ResolveOrder])
      BY <1>2, <1>6 DEF ReadLock, Fits, Labels, Frames, PayoutLabels
    <3>3. ControlTyped'
      BY <1>1, <1>2, <2>2, <3>1, <3>2, GotoWithTyped DEF Typed
    <3> QED
      BY <1>6, <3>3, Kept DEF ReadLock, Typed
  <2> QED
    BY <1>6, <2>1, <2>2 DEF ReadLock
<1>7. CASE WriteLock(s)
  <2>1. ControlTyped'
    BY <1>1, <1>7, ReturnTyped DEF WriteLock, Typed
  <2>2. payoutOrder' \in Seq(Users)
    BY <1>2, <1>7, FrameFields DEF WriteLock, Typed, RotationTyped
  <2>3. orderLocked' \in BOOLEAN
    BY <1>7 DEF WriteLock, Typed, RotationTyped
  <2>4. RotationTyped'
    BY <1>7, <2>2, <2>3 DEF WriteLock, Typed, RotationTyped
  <2> QED
    BY <1>7, <2>1, <2>4, Kept DEF WriteLock, Typed
<1> QED
  BY <1>3, <1>4, <1>5, <1>6, <1>7 DEF ContributionStep

\* The commands begin with what they have read.
LEMMA CommandTyped ==
    ASSUME Typed, NEW s \in Sessions, Command(s)
    PROVE  Typed'
<1>1. s \in Procs
  BY DEF Procs
<1>2. ASSUME NEW l \in Labels, NEW f \in Frames, Enter(s, l, f), Fits(s, l, f),
             UNCHANGED <<members, rotation, isPaused, clock, queue, contributions, payouts,
                         settlements, pool>>
      PROVE  Typed'
  <2>1. ControlTyped'
    BY <1>1, <1>2, EnterTyped DEF Typed
  <2> QED
    BY <1>2, <2>1, Kept DEF Typed
<1>3. ASSUME NEW u \in Users, BeginContribute(s, u)
      PROVE  Typed'
  <2> DEFINE f == [NoFrame EXCEPT !.user = u]
  <2>1. f \in Frames /\ f.user = u /\ f.job = None
    BY NoFrameFits DEF Frames, NoFrame
  <2>2. "invoke" \in Labels /\ Fits(s, "invoke", f)
    BY <2>1 DEF Fits, Labels
  <2> QED
    BY <1>2, <1>3, <2>1, <2>2 DEF BeginContribute
<1>4. ASSUME NEW u \in Users, BeginExit(s, u)
      PROVE  Typed'
  <2>1. PICK stay \in SUBSET Users, lead \in BOOLEAN :
           Enter(s, "settle", [NoFrame EXCEPT !.user = u, !.stay = stay, !.lead = lead])
    <3>1. Active \ {u} \in SUBSET Users /\ (role[u] = "CREATOR") \in BOOLEAN
      BY DEF Active
    <3> QED
      BY <1>4, <3>1 DEF BeginExit
  <2>2. PICK f : f = [NoFrame EXCEPT !.user = u, !.stay = stay, !.lead = lead]
    OBVIOUS
  <2>3. f \in Frames /\ f.user = u /\ f.job = None
    BY <2>2, NoFrameFits DEF Frames, NoFrame
  <2>4. "settle" \in Labels /\ Fits(s, "settle", f)
    BY <2>3 DEF Fits, Labels, PayoutLabels
  <2> QED
    BY <1>2, <1>4, <2>1, <2>2, <2>3, <2>4 DEF BeginExit
<1>5. CASE BeginProceed(s)
  <2> DEFINE f == [NoFrame EXCEPT !.amount = Cardinality(counted)]
  <2>1. Cardinality(counted) \in Nat
    BY UsersFinite DEF Typed, ContributionsTyped
  <2>2. f \in Frames /\ f.job = None
    BY <2>1, NoFrameFits DEF Frames, NoFrame
  <2>3. "load" \in Labels /\ Fits(s, "load", f)
    BY <2>2 DEF Fits, Labels, PayoutLabels
  <2> QED
    BY <1>2, <1>5, <2>2, <2>3 DEF BeginProceed
<1>6. ASSUME NEW order \in Seq(Users), Enter(s, "writeOrder", [NoFrame EXCEPT !.order = order]),
             UNCHANGED <<members, rotation, isPaused, clock, queue, contributions, payouts,
                         settlements, pool>>
      PROVE  Typed'
  <2> DEFINE f == [NoFrame EXCEPT !.order = order]
  <2>1. f \in Frames /\ f.job = None
    BY NoFrameFits DEF Frames, NoFrame
  <2>2. "writeOrder" \in Labels /\ Fits(s, "writeOrder", f)
    BY <2>1 DEF Fits, Labels, PayoutLabels
  <2> QED
    BY <1>2, <1>6, <2>1, <2>2
<1>7. ASSUME NEW named \in SUBSET Users, NEW order \in SetToSeqs(named), BeginOrder(s, order)
      PROVE  Typed'
  <2>1. Cardinality(named) \in Nat
    BY UsersFinite
  <2>2. order \in Seq(Users)
    BY <1>7, <2>1 DEF SetToSeqs
  <2> QED
    BY <1>6, <1>7, <2>2 DEF BeginOrder
<1>8. ASSUME NEW u \in Users, BeginSkip(s, u)
      PROVE  Typed'
  <2>1. ResolveOrder \in Seq(Users)
    BY DEF ResolveOrder, Typed, MembersTyped, RotationTyped
  <2>2. ToBack(ResolveOrder, u) \in Seq(Users)
    BY <2>1, WithoutFilters, AppendIs DEF ToBack
  <2> QED
    BY <1>6, <1>8, <2>2 DEF BeginSkip
<1>9. CASE BeginWait(s)
  <2> DEFINE f == [NoFrame EXCEPT !.deadline = deadline + 1]
  <2>3. deadline + 1 \in Nat /\ deadline + 1 > 0
    BY DEF Typed, ClockTyped
  <2>1. f \in Frames /\ f.job = None /\ f.deadline > 0
    BY <2>3, NoFrameFits DEF Frames, NoFrame
  <2>2. "extend" \in Labels /\ Fits(s, "extend", f)
    BY <2>1 DEF Fits, Labels, PayoutLabels
  <2> QED
    BY <1>2, <1>9, <2>1, <2>2 DEF BeginWait
<1> QED
  BY <1>3, <1>4, <1>5, <1>7, <1>8, <1>9 DEF Command, RotationCommand

LEMMA PayoutTyped ==
    ASSUME Typed, NEW p \in Procs, PayoutStep(p)
    PROVE  Typed'
<1>1. PICK f \in Frames : f = frame[p] /\ Fits(p, pc[p], f)
  BY FrameOf
<1>2. ASSUME Throw(p) \/ Finish(p)
      PROVE  ControlTyped' /\ QueueTyped'
  BY <1>2, ThrowTyped, FinishTyped DEF Typed
<1>3. CASE LoadPayout(p)
  <2>1. ResolveOrder \in Seq(Users)
    BY DEF ResolveOrder, Typed, MembersTyped, RotationTyped
  <2>2. PICK user \in Users \cup {None}, last \in BOOLEAN, amount \in Nat :
           GotoWith(p, "lookup", [f EXCEPT !.user = user, !.index = payoutIndex + 1,
                                           !.last = last, !.cycle = totalCycles + 1,
                                           !.amount = amount])
    <3> DEFINE order == ResolveOrder
               user == IF payoutIndex < Len(order) THEN order[payoutIndex + 1] ELSE None
               last == payoutIndex + 1 >= Len(order)
               amount == IF f.amount = None THEN Len(order) ELSE f.amount
    <3>1. user \in Users \cup {None}
      BY <2>1 DEF Typed, RotationTyped
    <3>2. amount \in Nat
      BY <2>1, FrameFields
    <3>3. last \in BOOLEAN
      OBVIOUS
    <3>4. GotoWith(p, "lookup", [f EXCEPT !.user = user, !.index = payoutIndex + 1,
                                          !.last = last, !.cycle = totalCycles + 1,
                                          !.amount = amount])
      BY <1>1, <1>3 DEF LoadPayout
    <3> QED
      BY <3>1, <3>2, <3>3, <3>4
  <2>3. PICK g : g = [f EXCEPT !.user = user, !.index = payoutIndex + 1, !.last = last,
                               !.cycle = totalCycles + 1, !.amount = amount]
    OBVIOUS
  <2>4. /\ g \in Frames /\ g.job = f.job /\ g.cycle = totalCycles + 1 /\ g.amount = amount
    <3>1. payoutIndex + 1 \in Nat /\ totalCycles + 1 \in Nat
      BY Numbers DEF Typed, RotationTyped
    <3> QED
      BY <2>3, <3>1 DEF Frames
  <2>5. g.cycle \in Cycles
    BY <2>4, Numbers DEF Cycles, Typed, RotationTyped
  <2>6. "lookup" \in Labels /\ Fits(p, "lookup", g)
    BY <1>1, <1>3, <2>4, <2>5 DEF LoadPayout, Fits, Labels, PayoutLabels
  <2>7. ControlTyped'
    BY <2>2, <2>3, <2>4, <2>6, GotoWithTyped DEF Typed
  <2> QED
    BY <1>3, <2>7, Kept DEF LoadPayout, Typed
<1>4. CASE LookupPayout(p)
  <2>1. ControlTyped' /\ QueueTyped'
    <3>1. CASE Throw(p) \/ Finish(p)
      BY <1>2, <3>1
    <3>2. CASE frame[p].user # None /\ Goto(p, "pay") /\ UNCHANGED queue
      <4>1. f.user \in Users
        BY <1>1, <3>2, FrameFields
      <4>2. "pay" \in Labels /\ Fits(p, "pay", f)
        BY <1>1, <1>4, <4>1 DEF LookupPayout, Fits, Labels, PayoutLabels
      <4> QED
        BY <1>1, <3>2, <4>2, OnwardTyped, Kept
    <3> QED
      BY <1>4, <3>1, <3>2 DEF LookupPayout
  <2> QED
    BY <1>4, <2>1, Kept DEF LookupPayout, Typed
<1>5. CASE Pay(p)
  <2>1. f.user \in Users /\ f.cycle \in Cycles /\ f.amount \in Nat
    BY <1>1, <1>5 DEF Pay, Fits
  <2>2. "savePayout" \in Labels /\ Fits(p, "savePayout", f)
    BY <1>1, <1>5, <2>1 DEF Pay, Fits, Labels, PayoutLabels
  <2>3. ControlTyped' /\ QueueTyped'
    BY <1>1, <1>2, <1>5, <2>2, OnwardTyped, Kept DEF Pay
  <2>4. sent' \in [Cycles -> [Users -> Nat]]
    <3>1. sent' = [sent EXCEPT ![f.cycle][f.user] = @ + 1]
      BY <1>1, <1>5 DEF Pay
    <3> QED
      BY <2>1, <3>1 DEF Typed, MoneyTyped
  <2>5. pool' \in Int
    BY <1>1, <1>5, <2>1 DEF Pay, Typed, MoneyTyped
  <2>6. MoneyTyped'
    BY <1>5, <2>4, <2>5 DEF Pay, Typed, MoneyTyped, settlements
  <2> QED
    BY <1>5, <2>3, <2>6, Kept DEF Pay, Typed
<1>6. CASE PayFails(p)
  BY <1>2, <1>6, Kept DEF PayFails, Typed
<1>7. CASE SavePayout(p)
  <2>1. f.user \in Users /\ f.cycle \in Cycles /\ f.amount \in Nat
    BY <1>1, <1>7 DEF SavePayout, Fits
  <2>2. "advance" \in Labels /\ Fits(p, "advance", f)
    BY <1>1, <1>7, <2>1 DEF SavePayout, Fits, Labels, PayoutLabels
  <2>3. ControlTyped' /\ QueueTyped'
    BY <1>1, <1>2, <1>7, <2>2, OnwardTyped, Kept DEF SavePayout
  <2>4. payoutRows' \subseteq Cycles \X Users /\ received' \in [Users -> Nat]
    BY <1>1, <1>7, <2>1 DEF SavePayout, Typed, MoneyTyped
  <2>5. MoneyTyped'
    BY <1>7, <2>4 DEF SavePayout, Typed, MoneyTyped, settlements
  <2> QED
    BY <1>7, <2>3, <2>5, Kept DEF SavePayout, Typed
<1>8. CASE AdvanceIndex(p)
  <2>1. "reset" \in Labels /\ Fits(p, "reset", f)
    BY <1>1, <1>8 DEF AdvanceIndex, Fits, Labels, PayoutLabels
  <2>2. ControlTyped' /\ QueueTyped'
    BY <1>1, <1>2, <1>8, <2>1, OnwardTyped, Kept DEF AdvanceIndex
  <2>3. payoutIndex' \in Nat
    BY <1>1, <1>8, FrameFields DEF AdvanceIndex
  <2>4. RotationTyped'
    BY <1>8, <2>3 DEF AdvanceIndex, Typed, RotationTyped
  <2> QED
    BY <1>8, <2>2, <2>4, Kept DEF AdvanceIndex, Typed
<1>9. CASE ResetCycle(p)
  <2>1. CASE Throw(p)
    BY <1>2, <1>9, <2>1, Kept DEF ResetCycle, Typed
  <2>2. CASE GotoWith(p, "newCycle", [frame[p] EXCEPT !.cycle = totalCycles + 1])
             /\ UNCHANGED queue
    <3> DEFINE g == [f EXCEPT !.cycle = totalCycles + 1]
    <3>0. totalCycles + 1 \in Nat
      BY Numbers DEF Typed, RotationTyped
    <3>1. g \in Frames /\ g.job = f.job
      BY <3>0 DEF Frames
    <3>2. "newCycle" \in Labels /\ Fits(p, "newCycle", g)
      BY <1>1, <1>9, <3>1 DEF ResetCycle, Fits, Labels, PayoutLabels
    <3>3. ControlTyped'
      BY <1>1, <2>2, <3>1, <3>2, GotoWithTyped DEF Typed
    <3> QED
      BY <1>9, <2>2, <3>3, Kept DEF ResetCycle, Typed
  <2> QED
    BY <1>9, <2>1, <2>2 DEF ResetCycle
<1>10. CASE NewCycle(p)
  <2>1. ControlTyped' /\ QueueTyped'
    BY <1>2, <1>10 DEF NewCycle
  <2>2. totalCycles' \in 0 .. MaxCycles
    BY <1>1, <1>10, FrameFields, Numbers DEF NewCycle
  <2>3. RotationTyped'
    BY <1>10, <2>2 DEF NewCycle, Typed, RotationTyped
  <2> QED
    BY <1>10, <2>1, <2>3, Kept DEF NewCycle, Typed
<1>11. CASE PayoutWriteFails(p)
  BY <1>2, <1>11, Kept DEF PayoutWriteFails, Typed
<1> QED
  BY <1>3, <1>4, <1>5, <1>6, <1>7, <1>8, <1>9, <1>10, <1>11 DEF PayoutStep

LEMMA EnqueueEndTyped ==
    ASSUME Typed, NEW p \in Procs, EnqueueEnd(p)
    PROVE  Typed'
<1>1. PICK f \in Frames : f = frame[p]
  BY FrameOf
<1>2. ControlTyped'
  BY ReturnTyped DEF EnqueueEnd, Typed
<1>3. f.deadline \in Nat
  BY FrameFields
<1>4. endFor' \in [EndJobs -> Nat]
  BY <1>1, <1>3 DEF EnqueueEnd, Typed, QueueTyped
<1>5. QueueTyped'
  <2>1. cron' = cron /\ periods' = periods /\ endTries' = endTries
    BY DEF EnqueueEnd
  <2> QED
    BY <1>4, <2>1 DEF Typed, QueueTyped
<1> QED
  BY <1>2, <1>5, Kept DEF EnqueueEnd, Typed

LEMMA RotationStepTyped ==
    ASSUME Typed, NEW s \in Sessions, RotationStep(s)
    PROVE  Typed'
<1>1. s \in Procs
  BY DEF Procs
<1>2. PICK f \in Frames : f = frame[s] /\ Fits(s, pc[s], f)
  BY <1>1, FrameOf
<1>3. CASE PayoutStep(s)
  BY <1>1, <1>3, PayoutTyped
<1>4. CASE WriteOrder(s)
  <2>1. payoutOrder' \in Seq(Users)
    BY <1>2, <1>4, FrameFields DEF WriteOrder, Typed, RotationTyped
  <2>2. RotationTyped'
    BY <1>4, <2>1 DEF WriteOrder, Typed, RotationTyped
  <2>3. ControlTyped'
    BY <1>1, <1>4, ReturnTyped DEF WriteOrder, Typed
  <2> QED
    BY <1>4, <2>2, <2>3, Kept DEF WriteOrder, Typed
<1>5. CASE Extend(s)
  <2>1. "enqueueEnd" \in Labels /\ Fits(s, "enqueueEnd", f)
    BY <1>2, <1>5 DEF Extend, Fits, Labels, PayoutLabels
  <2>2. ControlTyped'
    BY <1>1, <1>2, <1>5, <2>1, OnwardTyped DEF Extend
  <2>3. deadline' \in Nat
    BY <1>2, <1>5, FrameFields DEF Extend
  <2>4. ClockTyped'
    <3>1. isPaused' = isPaused /\ window' \in {"open", "over"}
      BY <1>5 DEF Extend
    <3> QED
      BY <2>3, <3>1 DEF Typed, ClockTyped
  <2>5. RotationTyped'
    <3>1. /\ payoutOrder' = payoutOrder /\ payoutIndex' = payoutIndex
          /\ totalCycles' = totalCycles /\ orderLocked' = orderLocked
          /\ extensionsUsed' = extensionsUsed + 1
      BY <1>5 DEF Extend
    <3> QED
      BY <3>1 DEF Typed, RotationTyped
  <2>6. ContributionsTyped'
    <3>1. counted' \subseteq counted \cup late /\ late' \subseteq late
      BY <1>5 DEF Extend
    <3>2. onChain' = onChain /\ recorded' = recorded
      BY <1>5 DEF Extend
    <3> QED
      BY <3>1, <3>2 DEF Typed, ContributionsTyped
  <2> QED
    BY <1>5, <2>2, <2>4, <2>5, <2>6, Kept DEF Extend, Typed
<1>6. CASE ExtendFails(s)
  BY <1>1, <1>6, ReturnTyped, Kept DEF ExtendFails, Typed
<1>7. CASE EnqueueEnd(s)
  BY <1>1, <1>7, EnqueueEndTyped
<1> QED
  BY <1>3, <1>4, <1>5, <1>6, <1>7 DEF RotationStep

LEMMA GoOnTyped ==
    ASSUME Typed, NEW s \in Sessions, NEW l \in {"idle", "transfer", "pause"}, GoOn(s, l)
    PROVE  ControlTyped'
<1>1. s \in Procs
  BY DEF Procs
<1>2. CASE l = "idle"
  BY <1>1, <1>2, ReturnTyped DEF GoOn, Typed
<1>3. CASE l # "idle"
  <2>1. Goto(s, l) /\ l \in Labels
    BY <1>3 DEF GoOn, Labels
  <2>2. Fits(s, pc[s], frame[s]) /\ s \notin Workers
    BY <1>1, FrameOf, Numbers
  <2>3. Fits(s, l, frame[s])
    BY <1>3, <2>2 DEF Fits
  <2> QED
    BY <1>1, <2>1, <2>3, OnwardTyped
<1> QED
  BY <1>2, <1>3

LEMMA ExitTyped ==
    ASSUME Typed, NEW s \in Sessions, ExitStep(s)
    PROVE  Typed'
<1>1. s \in Procs /\ s \notin Workers
  BY Numbers DEF Procs
<1>2. PICK f \in Frames : f = frame[s] /\ Fits(s, pc[s], f)
  BY <1>1, FrameOf
<1>3. f.job = None
  BY <1>1, <1>2 DEF Fits
<1>4. NextStop(s) \in {"idle", "transfer", "pause"}
  BY DEF NextStop
<1>5. CASE Settle(s)
  <2>1. f.user \in Users
    BY <1>2, <1>5 DEF Settle, Fits
  <2>2. PICK owed : owed = recorded[f.user] - received[f.user]
    OBVIOUS
  <2>3. CASE owed > 0
    <3>1. owed \in Nat
      BY <2>1, <2>2, <2>3 DEF Typed, ContributionsTyped, MoneyTyped
    <3>2. PICK g : g = [f EXCEPT !.amount = owed]
      OBVIOUS
    <3>3. g \in Frames /\ g.user = f.user /\ g.job = f.job /\ g.amount = owed
      BY <3>1, <3>2 DEF Frames
    <3>4. "refund" \in Labels /\ Fits(s, "refund", g)
      BY <1>3, <2>1, <3>1, <3>3 DEF Fits, Labels, PayoutLabels
    <3>5. GotoWith(s, "refund", g)
      BY <1>2, <1>5, <2>2, <2>3, <3>2 DEF Settle
    <3>6. ControlTyped'
      BY <1>1, <3>3, <3>4, <3>5, GotoWithTyped DEF Typed
    <3> QED
      BY <1>5, <3>6, Kept DEF Settle, Typed
  <2>4. CASE ~ (owed > 0)
    <3>1. Goto(s, "markLeft")
      BY <1>2, <1>5, <2>2, <2>4 DEF Settle
    <3>2. "markLeft" \in Labels /\ Fits(s, "markLeft", f)
      BY <1>3, <2>1 DEF Fits, Labels, PayoutLabels
    <3>3. ControlTyped'
      BY <1>1, <1>2, <3>1, <3>2, OnwardTyped
    <3> QED
      BY <1>5, <3>3, Kept DEF Settle, Typed
  <2> QED
    BY <2>3, <2>4
<1>6. CASE Refund(s)
  <2>1. f.user \in Users /\ f.amount \in Nat
    BY <1>2, <1>6 DEF Refund, Fits
  <2>2. "markLeft" \in Labels /\ Fits(s, "markLeft", f)
    BY <1>3, <2>1 DEF Fits, Labels, PayoutLabels
  <2>3. ControlTyped'
    BY <1>1, <1>2, <1>6, <2>2, OnwardTyped DEF Refund
  <2>4. refunded' \in [Users -> Nat] /\ pool' \in Int
    BY <1>2, <1>6, <2>1 DEF Refund, Typed, MoneyTyped
  <2>5. MoneyTyped'
    BY <1>6, <2>4 DEF Refund, Typed, MoneyTyped, payouts
  <2> QED
    BY <1>6, <2>3, <2>5, Kept DEF Refund, Typed
<1>7. CASE MarkLeft(s)
  <2>1. "logExit" \in Labels /\ Fits(s, "logExit", f)
    BY <1>2, <1>3, <1>7 DEF MarkLeft, Fits, Labels, PayoutLabels
  <2>2. ControlTyped'
    BY <1>1, <1>2, <1>7, <2>1, OnwardTyped DEF MarkLeft
  <2>3. MembersTyped'
    BY <1>7 DEF MarkLeft, Typed, MembersTyped
  <2> QED
    BY <1>7, <2>2, <2>3, Kept DEF MarkLeft, Typed
<1>8. CASE LogExit(s)
  <2>1. "readOrder" \in Labels /\ Fits(s, "readOrder", f)
    BY <1>2, <1>3, <1>8 DEF LogExit, Fits, Labels, PayoutLabels
  <2>2. ControlTyped'
    BY <1>1, <1>2, <1>8, <2>1, OnwardTyped DEF LogExit
  <2>3. MoneyTyped'
    <3>1. exits' \in [Users -> Nat]
      <4>1. exits \in [Users -> Nat] /\ f.user \in Users
        BY <1>2, <1>8 DEF LogExit, Fits, Typed, MoneyTyped
      <4>2. exits' = [exits EXCEPT ![f.user] = @ + 1]
        BY <1>2, <1>8 DEF LogExit
      <4> QED
        BY <4>1, <4>2
    <3> QED
      BY <1>8, <3>1 DEF LogExit, Typed, MoneyTyped, payouts
  <2> QED
    BY <1>8, <2>2, <2>3, Kept DEF LogExit, Typed
<1>9. CASE ReadOrder(s)
  <2>1. CASE GoOn(s, NextStop(s))
    BY <1>4, <1>9, <2>1, GoOnTyped, Kept DEF ReadOrder, Typed
  <2>2. CASE ~ GoOn(s, NextStop(s))
    <3>1. PICK rest, index :
             /\ rest = Without(ResolveOrder, f.user)
             /\ index = IF rest = <<>> THEN 0 ELSE Min({payoutIndex, Len(rest) - 1})
      OBVIOUS
    <3>2. GotoWith(s, "dropFromOrder", [f EXCEPT !.order = rest, !.index = index])
      BY <1>2, <1>9, <2>2, <3>1 DEF ReadOrder
    <3>3. ResolveOrder \in Seq(Users)
      BY DEF ResolveOrder, Typed, MembersTyped, RotationTyped
    <3>4. rest \in Seq(Users)
      BY <3>1, <3>3, WithoutFilters
    <3>5. index \in Nat
      <4>1. payoutIndex \in Nat
        BY DEF Typed, RotationTyped
      <4>2. CASE rest # <<>>
        <5>1. Len(rest) - 1 \in Nat
          BY <3>4, <4>2
        <5>2. {payoutIndex, Len(rest) - 1} \in SUBSET Nat
          BY <4>1, <5>1
        <5>3. Min({payoutIndex, Len(rest) - 1}) \in {payoutIndex, Len(rest) - 1}
          BY <5>2, LeastIsMin
        <5> QED
          BY <3>1, <4>2, <5>2, <5>3
      <4> QED
        BY <3>1, <4>2
    <3>6. PICK g : g = [f EXCEPT !.order = rest, !.index = index]
      OBVIOUS
    <3>7. g \in Frames /\ g.job = f.job
      BY <3>4, <3>5, <3>6 DEF Frames
    <3>8. "dropFromOrder" \in Labels /\ Fits(s, "dropFromOrder", g)
      BY <1>3, <3>7 DEF Fits, Labels, PayoutLabels
    <3>9. ControlTyped'
      BY <1>1, <3>2, <3>6, <3>7, <3>8, GotoWithTyped DEF Typed
    <3> QED
      BY <1>9, <3>9, Kept DEF ReadOrder, Typed
  <2> QED
    BY <2>1, <2>2
<1>10. CASE DropFromOrder(s)
  <2>1. ControlTyped'
    BY <1>4, <1>10, GoOnTyped DEF DropFromOrder
  <2>2. payoutOrder' \in Seq(Users) /\ payoutIndex' \in Nat
    BY <1>2, <1>10, FrameFields DEF DropFromOrder, Typed, RotationTyped
  <2>3. RotationTyped'
    BY <1>10, <2>2 DEF DropFromOrder, Typed, RotationTyped
  <2> QED
    BY <1>10, <2>1, <2>3, Kept DEF DropFromOrder, Typed
<1>11. CASE Transfer(s)
  <2>1. ControlTyped'
    BY <1>1, <1>11, GoOnTyped, ReturnTyped DEF Transfer, Typed
  <2>2. MembersTyped'
    BY <1>11 DEF Transfer, Typed, MembersTyped
  <2> QED
    BY <1>11, <2>1, <2>2, Kept DEF Transfer, Typed
<1>12. CASE Pause(s)
  <2>1. "stopCron" \in Labels /\ Fits(s, "stopCron", f)
    BY <1>3 DEF Fits, Labels, PayoutLabels
  <2>2. ControlTyped'
    BY <1>1, <1>2, <1>12, <2>1, OnwardTyped DEF Pause
  <2>3. ClockTyped'
    BY <1>12 DEF Pause, Typed, ClockTyped, clock
  <2> QED
    BY <1>12, <2>2, <2>3, Kept DEF Pause, Typed
<1>13. CASE StopCron(s)
  <2>1. ControlTyped'
    BY <1>1, <1>13, ReturnTyped DEF StopCron, Typed
  <2>2. cron' \in BOOLEAN
    BY <1>13 DEF StopCron, Typed, QueueTyped
  <2>3. QueueTyped'
    BY <1>13, <2>2 DEF StopCron, Typed, QueueTyped
  <2> QED
    BY <1>13, <2>1, <2>3, Kept DEF StopCron, Typed
<1>14. CASE ExitWriteFails(s)
  BY <1>1, <1>14, ReturnTyped, Kept DEF ExitWriteFails, Typed
<1> QED
  BY <1>5, <1>6, <1>7, <1>8, <1>9, <1>10, <1>11, <1>12, <1>13, <1>14 DEF ExitStep

LEMMA SchedulerTyped ==
    ASSUME Typed, NEW w \in Workers, SchedulerStart(w)
    PROVE  Typed'
<1>1. w \in Procs
  BY DEF Procs
<1>2. CASE StartCycle(w)
  <2>1. periods' \in 0 .. MaxPeriods /\ periods' > 0
    BY <1>2, Numbers DEF StartCycle, Typed, QueueTyped
  <2>2. deadline' \in Nat /\ deadline' > 0
    BY <1>2, <2>1, Numbers DEF StartCycle, DaysOfCycle
  <2> DEFINE f == [NoFrame EXCEPT !.deadline = deadline']
  <2>3. f \in Frames /\ f.job = None /\ f.deadline > 0
    BY <2>2, NoFrameFits DEF Frames, NoFrame
  <2>4. "enqueueEnd" \in Labels /\ Fits(w, "enqueueEnd", f)
    BY <2>3 DEF Fits, Labels, PayoutLabels
  <2>5. ControlTyped'
    <3>1. CASE Enter(w, "enqueueEnd", f)
      BY <1>1, <2>3, <2>4, <3>1, EnterTyped DEF Typed
    <3>2. CASE UNCHANGED control
      BY <3>2, Kept
    <3> QED
      BY <1>2, <3>1, <3>2 DEF StartCycle
  <2>6. QueueTyped'
    <3>1. cron' = cron /\ endFor' = endFor /\ endTries' = endTries
      BY <1>2 DEF StartCycle
    <3> QED
      BY <2>1, <3>1 DEF Typed, QueueTyped
  <2>7. ClockTyped'
    <3>1. isPaused' = isPaused /\ window' = "open"
      BY <1>2 DEF StartCycle
    <3> QED
      BY <2>2, <3>1 DEF Typed, ClockTyped
  <2>8. ContributionsTyped'
    BY <1>2 DEF StartCycle, Typed, ContributionsTyped
  <2> QED
    BY <1>2, <2>5, <2>6, <2>7, <2>8, Kept DEF StartCycle, Typed
<1>3. ASSUME NEW j \in EndJobs, StartEnd(w, j)
      PROVE  Typed'
  <2>1. CASE Enter(w, "load", [NoFrame EXCEPT !.job = j]) /\ UNCHANGED <<endFor, endTries>>
    <3> DEFINE f == [NoFrame EXCEPT !.job = j]
    <3>1. f \in Frames
      BY NoFrameFits DEF Frames, NoFrame
    <3>2. "load" \in Labels /\ Fits(w, "load", f)
      BY DEF Fits, Labels, PayoutLabels
    <3>3. ControlTyped'
      BY <1>1, <2>1, <3>1, <3>2, EnterTyped DEF Typed
    <3>4. UNCHANGED queue
      BY <1>3, <2>1 DEF StartEnd, queue
    <3> QED
      BY <1>3, <3>3, <3>4, Kept DEF StartEnd, Typed
  <2>2. CASE DropJob(j) /\ UNCHANGED control
    <3>1. QueueTyped'
      BY <1>3, <2>2, DropJobTyped DEF StartEnd, Typed
    <3> QED
      BY <1>3, <2>2, <3>1, Kept DEF StartEnd, Typed
  <2> QED
    BY <1>3, <2>1, <2>2 DEF StartEnd
<1> QED
  BY <1>2, <1>3 DEF SchedulerStart

LEMMA TypedInductive ==
    ASSUME Typed, [Next]_vars
    PROVE  Typed'
<1>1. ASSUME NEW u \in Users, Join(u) PROVE Typed'
  BY <1>1, JoinTyped
<1>2. ASSUME NEW s \in Sessions, Command(s) \/ SessionStep(s) PROVE Typed'
  BY <1>2, CommandTyped, ContributionTyped, RotationStepTyped, ExitTyped DEF SessionStep
<1>3. ASSUME NEW w \in Workers, WorkerStep(w) PROVE Typed'
  <2>1. w \in Procs
    BY DEF Procs
  <2> QED
    BY <1>3, <2>1, SchedulerTyped, PayoutTyped, EnqueueEndTyped DEF WorkerStep
<1>4. CASE ReachDeadline
  <2>1. ClockTyped'
    BY <1>4 DEF ReachDeadline, Typed, ClockTyped
  <2> QED
    BY <1>4, <2>1, Kept DEF ReachDeadline, Typed
<1>5. ASSUME NEW p \in Procs, Crash(p) PROVE Typed'
  <2>1. ControlTyped' /\ QueueTyped'
    BY <1>5, ThrowTyped DEF Crash, Typed
  <2> QED
    BY <1>5, <2>1, Kept DEF Crash, Typed
<1>6. CASE UNCHANGED vars
  BY <1>6, Kept DEF vars, Typed
<1> QED
  BY <1>1, <1>2, <1>3, <1>4, <1>5, <1>6 DEF Next

LEMMA TypedInitially ==
    ASSUME Init
    PROVE  Typed
<1>1. MembersTyped
  <2>1. [i \in 1 .. Founders |-> i] \in Seq(Users)
    BY Numbers DEF Users
  <2> QED
    BY <2>1 DEF Init, MembersTyped
<1>2. RotationTyped /\ ClockTyped
  <2>1. payoutOrder \in Seq(Users)
    BY EmptyOrder DEF Init
  <2>2. payoutIndex \in Nat /\ totalCycles \in 0 .. MaxCycles /\ extensionsUsed \in Nat
    BY Numbers DEF Init
  <2>3. orderLocked \in BOOLEAN /\ isPaused \in BOOLEAN
    BY DEF Init
  <2>4. window \in {"none", "open", "over"} /\ deadline \in Nat
    BY DEF Init
  <2> QED
    BY <2>1, <2>2, <2>3, <2>4 DEF RotationTyped, ClockTyped
<1>3. QueueTyped
  BY Numbers DEF Init, QueueTyped
<1>4. ContributionsTyped /\ MoneyTyped
  BY DEF Init, ContributionsTyped, MoneyTyped
<1>5. ControlTyped
  <2>1. "idle" \in Labels /\ 0 \in 0 .. MaxCommands
    BY Numbers DEF Labels
  <2> QED
    BY <2>1, NoFrameFits DEF Init, ControlTyped
<1> QED
  BY <1>1, <1>2, <1>3, <1>4, <1>5 DEF Typed

LEMMA TypedInvariant == Spec => []Typed
  BY TypedInitially, TypedInductive, PTL DEF Spec

\* Every variable keeps its type: no handler pays, refunds or records what it has
\* not read, for any number of users, sessions and scheduler slots.
THEOREM TypeCorrect == Spec => []TypeOK
  BY TypedInvariant, TypedIsTypeOK, PTL
-----------------------------------------------------------------------------
(* The payout order *)

ExitLabels == {"settle", "refund", "markLeft"}

\* Names nobody twice and only members, those who left included.
GoodOrder(order) == IsInjective(order) /\ ToSet(order) \subseteq ToSet(joined)

\* joined lists exactly those who have a member row, once; who is settled has
\* one; and the stored order and every copy a handler has read are good: a member
\* row is never deleted, so that a copy stays good however old it is.
OrdersGood ==
    /\ IsInjective(joined) /\ ToSet(joined) = {u \in Users : status[u] # "NONE"}
    /\ \A p \in Procs : pc[p] \in ExitLabels => status[frame[p].user] # "NONE"
    /\ GoodOrder(payoutOrder)
    /\ \A p \in Procs : GoodOrder(frame[p].order)

\* A process goes on to an await outside the settlement, with the order it had or none.
PassesOn(p) == \E l \in Labels \ ExitLabels, f \in Frames :
    Moves(p, l, f) /\ f.order \in {frame[p].order, <<>>}

LEMMA ResolvedIsGood ==
    ASSUME OrdersGood
    PROVE  GoodOrder(ResolveOrder)
  BY DEF OrdersGood, GoodOrder, ResolveOrder

\* A process goes on, the members stay.
LEMMA OrderMove ==
    ASSUME Typed, OrdersGood, NEW p \in Procs, NEW l \in Labels, NEW f \in Frames,
           Moves(p, l, f), UNCHANGED <<status, joined>>,
           GoodOrder(f.order), GoodOrder(payoutOrder'),
           l \in ExitLabels => status[f.user] # "NONE"
    PROVE  OrdersGood'
<1>1. ASSUME NEW q \in Procs
      PROVE  /\ pc'[q] \in ExitLabels => status[frame'[q].user] # "NONE"
             /\ GoodOrder(frame'[q].order)
  <2>1. pc \in [Procs -> Labels] /\ frame \in [Procs -> Frames]
    BY DEF Typed, ControlTyped
  <2>2. CASE q = p
    <3>1. pc'[q] = l /\ frame'[q] = f
      BY <2>1, <2>2 DEF Moves
    <3> QED
      BY <3>1
  <2>3. CASE q # p
    <3>1. pc'[q] = pc[q] /\ frame'[q] = frame[q]
      BY <2>1, <2>3 DEF Moves
    <3> QED
      BY <3>1 DEF OrdersGood
  <2> QED
    BY <2>2, <2>3
<1> QED
  BY <1>1 DEF OrdersGood, GoodOrder

LEMMA OrderPasses ==
    ASSUME Typed, OrdersGood, NEW p \in Procs, PassesOn(p), UNCHANGED <<status, joined>>,
           GoodOrder(payoutOrder')
    PROVE  OrdersGood'
<1>1. PICK l \in Labels \ ExitLabels, f \in Frames :
         Moves(p, l, f) /\ f.order \in {frame[p].order, <<>>}
  BY DEF PassesOn
<1>2. GoodOrder(f.order)
  BY <1>1, EmptyOrder DEF OrdersGood, GoodOrder
<1> QED
  BY <1>1, <1>2, OrderMove

\* Ending, or going on with what was read, is passing on.
LEMMA EndPasses ==
    ASSUME NEW p \in Procs, Return(p) \/ Finish(p) \/ Throw(p)
    PROVE  PassesOn(p)
<1>1. Moves(p, "idle", NoFrame)
  BY DEF Return, Finish, Throw, GotoWith, Moves
<1>2. "idle" \in Labels \ ExitLabels
  BY DEF Labels, ExitLabels
<1>3. NoFrame \in Frames /\ NoFrame.order = <<>>
  BY NoFrameFits DEF NoFrame
<1> QED
  BY <1>1, <1>2, <1>3 DEF PassesOn

LEMMA GotoPasses ==
    ASSUME Typed, NEW p \in Procs, NEW l \in Labels \ ExitLabels, Goto(p, l)
    PROVE  PassesOn(p)
<1>1. Moves(p, l, frame[p])
  BY DEF Goto, GotoWith, Moves
<1> QED
  BY <1>1, FrameOf DEF PassesOn

LEMMA PayoutPasses ==
    ASSUME Typed, NEW p \in Procs, PayoutStep(p)
    PROVE  PassesOn(p) /\ UNCHANGED <<status, joined, payoutOrder>>
<1>1. UNCHANGED <<status, joined, payoutOrder>>
  BY DEF PayoutStep, LoadPayout, LookupPayout, Pay, PayFails, SavePayout, AdvanceIndex,
         ResetCycle, NewCycle, PayoutWriteFails, members, rotation
<1>2. CASE Finish(p) \/ Throw(p)
  BY <1>1, <1>2, EndPasses
<1>3. {"pay", "savePayout", "advance", "reset", "lookup", "newCycle"} \subseteq Labels \ ExitLabels
  BY DEF Labels, ExitLabels
<1>4. CASE Goto(p, "pay") \/ Goto(p, "savePayout") \/ Goto(p, "advance") \/ Goto(p, "reset")
  BY <1>1, <1>3, <1>4, GotoPasses
<1>5. PICK f \in Frames : f = frame[p]
  BY FrameOf
<1>6. CASE LoadPayout(p)
  <2>1. PICK user, last, amount :
           GotoWith(p, "lookup", [f EXCEPT !.user = user, !.index = payoutIndex + 1,
                                           !.last = last, !.cycle = totalCycles + 1,
                                           !.amount = amount])
    BY <1>5, <1>6 DEF LoadPayout
  <2>2. PICK g : g = [f EXCEPT !.user = user, !.index = payoutIndex + 1, !.last = last,
                               !.cycle = totalCycles + 1, !.amount = amount]
    OBVIOUS
  <2>3. g.order = f.order
    BY <2>2 DEF Frames
  <2>4. Moves(p, "lookup", g)
    BY <2>1, <2>2 DEF GotoWith, Moves
  <2>5. g \in Frames
    <3>1. Typed'
      BY PayoutTyped
    <3>2. frame'[p] = g
      BY <2>4 DEF Moves, Typed, ControlTyped
    <3> QED
      BY <3>1, <3>2 DEF Typed, ControlTyped
  <2> QED
    BY <1>1, <1>3, <1>5, <2>3, <2>4, <2>5 DEF PassesOn
<1>7. CASE GotoWith(p, "newCycle", [frame[p] EXCEPT !.cycle = totalCycles + 1])
  <2>1. PICK g : g = [f EXCEPT !.cycle = totalCycles + 1]
    OBVIOUS
  <2>2. g \in Frames /\ g.order = f.order
    <3>1. totalCycles + 1 \in Nat
      BY Numbers DEF Typed, RotationTyped
    <3> QED
      BY <2>1, <3>1 DEF Frames
  <2>3. Moves(p, "newCycle", g)
    BY <1>5, <1>7, <2>1 DEF GotoWith, Moves
  <2> QED
    BY <1>1, <1>3, <1>5, <2>2, <2>3 DEF PassesOn
<1> QED
  BY <1>2, <1>4, <1>6, <1>7
     DEF PayoutStep, LookupPayout, Pay, PayFails, SavePayout, AdvanceIndex,
         ResetCycle, NewCycle, PayoutWriteFails

\* A command enters with an empty order, or with one that is good.
LEMMA CommandOrder ==
    ASSUME Typed, OrdersGood, NEW s \in Sessions, Command(s)
    PROVE  OrdersGood'
<1>1. s \in Procs
  BY DEF Procs
<1>2. ASSUME NEW l \in Labels, NEW f \in Frames, Enter(s, l, f), GoodOrder(f.order),
             l \in ExitLabels => status[f.user] # "NONE",
             UNCHANGED <<members, rotation, isPaused, clock, queue, contributions, payouts,
                         settlements, pool>>
      PROVE  OrdersGood'
  <2>1. Moves(s, l, f)
    BY <1>2 DEF Enter, Moves
  <2>2. UNCHANGED <<status, joined>> /\ GoodOrder(payoutOrder')
    BY <1>2 DEF members, rotation, OrdersGood
  <2> QED
    BY <1>1, <1>2, <2>1, <2>2, OrderMove
<1>3. GoodOrder(<<>>)
  BY EmptyOrder DEF GoodOrder
<1>4. {"invoke", "load", "extend", "writeOrder", "settle"} \subseteq Labels
      /\ {"invoke", "load", "extend", "writeOrder"} \cap ExitLabels = {}
  BY DEF Labels, ExitLabels
<1>5. ASSUME NEW u \in Users, BeginContribute(s, u)
      PROVE  OrdersGood'
  <2> DEFINE f == [NoFrame EXCEPT !.user = u]
  <2>1. f \in Frames /\ f.order = <<>>
    BY NoFrameFits DEF Frames, NoFrame
  <2> QED
    BY <1>2, <1>3, <1>4, <1>5, <2>1 DEF BeginContribute
<1>6. ASSUME NEW u \in Users, BeginExit(s, u)
      PROVE  OrdersGood'
  <2>1. PICK stay \in SUBSET Users, lead \in BOOLEAN :
           Enter(s, "settle", [NoFrame EXCEPT !.user = u, !.stay = stay, !.lead = lead])
    <3>1. Active \ {u} \in SUBSET Users /\ (role[u] = "CREATOR") \in BOOLEAN
      BY DEF Active
    <3> QED
      BY <1>6, <3>1 DEF BeginExit
  <2>2. PICK f : f = [NoFrame EXCEPT !.user = u, !.stay = stay, !.lead = lead]
    OBVIOUS
  <2>3. f \in Frames /\ f.user = u /\ f.order = <<>>
    BY <2>2, NoFrameFits DEF Frames, NoFrame
  <2>4. status[f.user] # "NONE"
    BY <1>6, <2>3 DEF BeginExit
  <2> QED
    BY <1>2, <1>3, <1>4, <1>6, <2>1, <2>2, <2>3, <2>4 DEF BeginExit
<1>7. CASE BeginProceed(s)
  <2> DEFINE f == [NoFrame EXCEPT !.amount = Cardinality(counted)]
  <2>1. Cardinality(counted) \in Nat
    BY UsersFinite DEF Typed, ContributionsTyped
  <2>2. f \in Frames /\ f.order = <<>>
    BY <2>1, NoFrameFits DEF Frames, NoFrame
  <2> QED
    BY <1>2, <1>3, <1>4, <1>7, <2>2 DEF BeginProceed
<1>8. ASSUME NEW order \in Seq(Users), GoodOrder(order),
             Enter(s, "writeOrder", [NoFrame EXCEPT !.order = order]),
             UNCHANGED <<members, rotation, isPaused, clock, queue, contributions, payouts,
                         settlements, pool>>
      PROVE  OrdersGood'
  <2> DEFINE f == [NoFrame EXCEPT !.order = order]
  <2>1. f \in Frames /\ f.order = order
    BY NoFrameFits DEF Frames, NoFrame
  <2> QED
    BY <1>2, <1>4, <1>8, <2>1
<1>9. ASSUME NEW named \in SUBSET Users, NEW order \in SetToSeqs(named), BeginOrder(s, order)
      PROVE  OrdersGood'
  <2>1. Cardinality(named) \in Nat
    BY UsersFinite
  <2>2. order \in Seq(Users) /\ Len(order) = Cardinality(named)
        /\ \A i, j \in 1 .. Len(order) : order[i] = order[j] => i = j
    <3>1. order \in [1 .. Cardinality(named) -> named]
      BY <1>9 DEF SetToSeqs
    <3>2. Len(order) = Cardinality(named) /\ order \in Seq(Users)
      BY <2>1, <3>1
    <3>3. \A i, j \in 1 .. Cardinality(named) : i # j => order[i] # order[j]
      BY <1>9 DEF SetToSeqs
    <3> QED
      BY <3>2, <3>3
  <2>3. GoodOrder(order)
    <3>1. IsInjective(order)
      BY <2>2, InjectiveOf
    <3> QED
      BY <1>9, <3>1 DEF BeginOrder, GoodOrder
  <2> QED
    BY <1>8, <1>9, <2>2, <2>3 DEF BeginOrder
<1>10. ASSUME NEW u \in Users, BeginSkip(s, u)
       PROVE  OrdersGood'
  <2>1. ResolveOrder \in Seq(Users)
    BY DEF ResolveOrder, Typed, MembersTyped, RotationTyped
  <2>2. GoodOrder(ResolveOrder) /\ u \in ToSet(ResolveOrder)
    BY <1>10, ResolvedIsGood DEF BeginSkip
  <2>3. PICK rest : rest = Without(ResolveOrder, u)
    OBVIOUS
  <2>4. /\ rest \in Seq(Users) /\ IsInjective(rest)
        /\ ToSet(rest) = ToSet(ResolveOrder) \ {u}
    BY <2>1, <2>2, <2>3, WithoutFilters DEF GoodOrder
  <2>5. ToBack(ResolveOrder, u) = Append(rest, u)
    BY <2>3 DEF ToBack
  <2>6. ToBack(ResolveOrder, u) \in Seq(Users) /\ GoodOrder(ToBack(ResolveOrder, u))
    BY <2>2, <2>4, <2>5, AppendIs DEF GoodOrder
  <2> QED
    BY <1>8, <1>10, <2>6 DEF BeginSkip
<1>11. CASE BeginWait(s)
  <2> DEFINE f == [NoFrame EXCEPT !.deadline = deadline + 1]
  <2>1. deadline + 1 \in Nat
    BY DEF Typed, ClockTyped
  <2>2. f \in Frames /\ f.order = <<>>
    BY <2>1, NoFrameFits DEF Frames, NoFrame
  <2> QED
    BY <1>2, <1>3, <1>4, <1>11, <2>2 DEF BeginWait
<1> QED
  BY <1>5, <1>6, <1>7, <1>9, <1>10, <1>11 DEF Command, RotationCommand

\* The first contribution copies the order and writes the copy back.
LEMMA ContributionOrder ==
    ASSUME Typed, OrdersGood, NEW s \in Sessions, ContributionStep(s)
    PROVE  OrdersGood'
<1>1. s \in Procs
  BY DEF Procs
<1>2. PICK f \in Frames : f = frame[s] /\ GoodOrder(f.order)
  BY <1>1, FrameOf DEF OrdersGood
<1>3. UNCHANGED <<status, joined>>
  BY DEF ContributionStep, InvokeContribute, RecordContribution, RecordFails, ReadLock,
         WriteLock, members
<1>4. GoodOrder(payoutOrder')
  <2>1. payoutOrder' = payoutOrder \/ payoutOrder' = f.order
    BY <1>2 DEF ContributionStep, InvokeContribute, RecordContribution, RecordFails, ReadLock,
         WriteLock, rotation
  <2> QED
    BY <1>2, <2>1 DEF OrdersGood
<1>5. {"record", "readLock", "writeLock"} \subseteq Labels \ ExitLabels
  BY DEF Labels, ExitLabels
<1>6. CASE Return(s) \/ Goto(s, "record") \/ Goto(s, "readLock")
  BY <1>1, <1>3, <1>4, <1>5, <1>6, EndPasses, GotoPasses, OrderPasses
<1>7. CASE GotoWith(s, "writeLock", [frame[s] EXCEPT !.order = ResolveOrder])
  <2> DEFINE g == [f EXCEPT !.order = ResolveOrder]
  <2>1. g \in Frames /\ g.order = ResolveOrder
    BY DEF Frames, ResolveOrder, Typed, MembersTyped, RotationTyped
  <2>2. Moves(s, "writeLock", g)
    BY <1>2, <1>7 DEF GotoWith, Moves
  <2>3. GoodOrder(g.order)
    BY <2>1, ResolvedIsGood
  <2> HIDE DEF g
  <2> QED
    BY <1>1, <1>3, <1>4, <1>5, <2>1, <2>2, <2>3, OrderMove
<1> QED
  BY <1>6, <1>7 DEF ContributionStep, InvokeContribute, RecordContribution, RecordFails,
     ReadLock, WriteLock

LEMMA RotationOrder ==
    ASSUME Typed, OrdersGood, NEW p \in Procs, RotationStep(p)
    PROVE  OrdersGood'
<1>1. CASE PayoutStep(p)
  BY <1>1, PayoutPasses, OrderPasses DEF OrdersGood
<1>2. CASE WriteOrder(p)
  <2>1. GoodOrder(payoutOrder') /\ UNCHANGED <<status, joined>>
    BY <1>2 DEF WriteOrder, OrdersGood, members
  <2> QED
    BY <1>2, <2>1, EndPasses, OrderPasses DEF WriteOrder
<1>3. CASE Extend(p)
  <2>1. GoodOrder(payoutOrder') /\ UNCHANGED <<status, joined>>
    BY <1>3 DEF Extend, OrdersGood, members
  <2>2. "enqueueEnd" \in Labels \ ExitLabels
    BY DEF Labels, ExitLabels
  <2>3. Goto(p, "enqueueEnd") \/ Return(p)
    BY <1>3 DEF Extend
  <2> QED
    BY <2>1, <2>2, <2>3, GotoPasses, EndPasses, OrderPasses
<1>4. CASE ExtendFails(p) \/ EnqueueEnd(p)
  <2>1. Return(p) /\ GoodOrder(payoutOrder') /\ UNCHANGED <<status, joined>>
    BY <1>4 DEF ExtendFails, EnqueueEnd, OrdersGood, members, rotation
  <2> QED
    BY <2>1, EndPasses, OrderPasses
<1> QED
  BY <1>1, <1>2, <1>3, <1>4 DEF RotationStep

\* Nobody joins in between, but the order that is written back may be old.
LEMMA ExitOrder ==
    ASSUME Typed, OrdersGood, NEW s \in Sessions, ExitStep(s)
    PROVE  OrdersGood'
<1>1. s \in Procs
  BY DEF Procs
<1>2. PICK f \in Frames : f = frame[s] /\ GoodOrder(f.order) /\ Fits(s, pc[s], f)
  BY <1>1, FrameOf DEF OrdersGood
<1>3. UNCHANGED joined
  BY DEF ExitStep, Settle, Refund, MarkLeft, LogExit, ReadOrder, DropFromOrder, Transfer,
         Pause, StopCron, ExitWriteFails, members
<1>4. GoodOrder(payoutOrder')
  <2>1. payoutOrder' = payoutOrder \/ payoutOrder' = f.order
    BY <1>2 DEF ExitStep, Settle, Refund, MarkLeft, LogExit, ReadOrder, DropFromOrder, Transfer,
         Pause, StopCron, ExitWriteFails, rotation
  <2> QED
    BY <1>2, <1>3, <2>1 DEF OrdersGood
<1>5. /\ {"logExit", "readOrder", "dropFromOrder", "transfer", "pause", "stopCron"}
            \subseteq Labels \ ExitLabels
      /\ {"refund", "markLeft"} \subseteq Labels
      /\ {"settle", "refund", "markLeft"} = ExitLabels
  BY DEF Labels, ExitLabels
<1>6. CASE Settle(s) \/ Refund(s)
  <2>1. UNCHANGED <<status, joined>> /\ status[f.user] # "NONE"
    BY <1>1, <1>2, <1>5, <1>6 DEF Settle, Refund, members, OrdersGood
  <2>2. CASE Return(s)
    BY <1>1, <1>4, <2>1, <2>2, EndPasses, OrderPasses
  <2>3. CASE Goto(s, "markLeft")
    <3>1. Moves(s, "markLeft", f)
      BY <1>2, <2>3 DEF Goto, GotoWith, Moves
    <3> QED
      BY <1>1, <1>2, <1>4, <1>5, <2>1, <3>1, OrderMove
  <2>4. CASE Settle(s) /\ recorded[f.user] - received[f.user] > 0
    <3>1. PICK g : g = [f EXCEPT !.amount = recorded[f.user] - received[f.user]]
      OBVIOUS
    <3>2. Moves(s, "refund", g)
      BY <1>2, <2>4, <3>1 DEF Settle, GotoWith, Moves
    <3>3. g \in Frames /\ g.user = f.user /\ g.order = f.order
      <4>1. f.user \in Users
        BY <1>2, <2>4 DEF Settle, Fits
      <4>2. recorded[f.user] - received[f.user] \in Nat
        BY <2>4, <4>1 DEF Typed, ContributionsTyped, MoneyTyped
      <4> QED
        BY <3>1, <4>2 DEF Frames
    <3> QED
      BY <1>1, <1>2, <1>4, <1>5, <2>1, <3>2, <3>3, OrderMove
  <2> QED
    BY <1>2, <1>6, <2>2, <2>3, <2>4 DEF Settle, Refund
<1>7. CASE MarkLeft(s)
  <2>1. f.user \in Users /\ status[f.user] # "NONE" /\ status' = [status EXCEPT ![f.user] = "LEFT"]
    BY <1>1, <1>2, <1>5, <1>7 DEF MarkLeft, Fits, OrdersGood
  <2>2. \A u \in Users : status'[u] = "NONE" <=> status[u] = "NONE"
    BY <2>1 DEF Typed, MembersTyped
  <2>3. PICK l \in Labels \ ExitLabels, g \in Frames : Moves(s, l, g) /\ g.order \in {f.order, <<>>}
    BY <1>1, <1>2, <1>5, <1>7, EndPasses, GotoPasses DEF MarkLeft, PassesOn
  <2>4. GoodOrder(g.order)
    BY <1>2, <2>3, EmptyOrder DEF GoodOrder
  <2>5. pc \in [Procs -> Labels] /\ frame \in [Procs -> Frames]
    BY DEF Typed, ControlTyped
  <2>6. ASSUME NEW q \in Procs
        PROVE  /\ pc'[q] \in ExitLabels => status'[frame'[q].user] # "NONE"
               /\ GoodOrder(frame'[q].order)
    <3>1. CASE q = s
      BY <1>1, <2>3, <2>4, <2>5, <3>1 DEF Moves
    <3>2. CASE q # s
      <4>1. pc'[q] = pc[q] /\ frame'[q] = frame[q]
        BY <2>3, <2>5, <3>2 DEF Moves
      <4>2. pc[q] \in ExitLabels => frame[q].user \in Users /\ status[frame[q].user] # "NONE"
        BY <1>5, FrameOf DEF OrdersGood, Fits
      <4> QED
        BY <2>2, <4>1, <4>2 DEF OrdersGood
    <3> QED
      BY <3>1, <3>2
  <2>7. IsInjective(joined') /\ ToSet(joined') = {u \in Users : status'[u] # "NONE"}
    BY <1>3, <2>2 DEF OrdersGood
  <2> QED
    BY <1>3, <1>4, <2>6, <2>7 DEF OrdersGood, GoodOrder
<1>8. CASE ReadOrder(s) /\ ~ GoOn(s, NextStop(s))
  <2>1. PICK rest, index : rest = Without(ResolveOrder, f.user)
             /\ GotoWith(s, "dropFromOrder", [f EXCEPT !.order = rest, !.index = index])
    BY <1>2, <1>8 DEF ReadOrder
  <2>2. PICK g : g = [f EXCEPT !.order = rest, !.index = index]
    OBVIOUS
  <2>3. Moves(s, "dropFromOrder", g) /\ g.order = rest
    BY <2>1, <2>2 DEF GotoWith, Moves, Frames
  <2>4. g \in Frames
    <3>1. Typed'
      BY <1>8, ExitTyped DEF ExitStep
    <3>2. frame'[s] = g
      BY <1>1, <2>3 DEF Moves, Typed, ControlTyped
    <3> QED
      BY <1>1, <3>1, <3>2 DEF Typed, ControlTyped
  <2>5. GoodOrder(rest)
    <3>1. ResolveOrder \in Seq(Users)
      BY DEF ResolveOrder, Typed, MembersTyped, RotationTyped
    <3>2. IsInjective(rest) /\ ToSet(rest) = ToSet(ResolveOrder) \ {f.user}
      BY <2>1, <3>1, ResolvedIsGood, WithoutFilters DEF GoodOrder
    <3> QED
      BY <3>2, ResolvedIsGood DEF GoodOrder
  <2>6. UNCHANGED <<status, joined>>
    BY <1>8 DEF ReadOrder, members
  <2> QED
    BY <1>1, <1>4, <1>5, <2>3, <2>4, <2>5, <2>6, OrderMove
<1>9. CASE \/ LogExit(s) \/ (ReadOrder(s) /\ GoOn(s, NextStop(s))) \/ DropFromOrder(s)
           \/ Transfer(s) \/ Pause(s) \/ StopCron(s) \/ ExitWriteFails(s)
  <2>1. UNCHANGED <<status, joined>>
    BY <1>9 DEF LogExit, ReadOrder, DropFromOrder, Transfer, Pause, StopCron, ExitWriteFails,
         members
  <2>2. \/ Return(s)
        \/ \E l \in {"readOrder", "transfer", "pause", "stopCron"} : Goto(s, l)
    BY <1>9 DEF LogExit, ReadOrder, DropFromOrder, Transfer, Pause, StopCron, ExitWriteFails,
         GoOn, NextStop
  <2>3. PassesOn(s)
    BY <1>1, <1>5, <2>2, EndPasses, GotoPasses
  <2> QED
    BY <1>1, <1>4, <2>1, <2>3, OrderPasses
<1> QED
  BY <1>6, <1>7, <1>8, <1>9 DEF ExitStep

LEMMA OrdersInductive ==
    ASSUME Typed, OrdersGood, [Next]_vars
    PROVE  OrdersGood'
<1>1. ASSUME NEW u \in Users, Join(u) PROVE OrdersGood'
  <2>1. status[u] = "NONE" /\ status' = [status EXCEPT ![u] = "ACTIVE"]
    BY <1>1 DEF Join
  <2>2. status \in [Users -> {"NONE", "ACTIVE", "LEFT"}] /\ joined \in Seq(Users)
    BY DEF Typed, MembersTyped
  <2>3. joined' = Append(joined, u) /\ u \notin ToSet(joined)
    BY <1>1, <2>1 DEF Join, OrdersGood
  <2>4. /\ ToSet(joined') = ToSet(joined) \cup {u} /\ IsInjective(joined')
    BY <2>2, <2>3, AppendIs DEF OrdersGood
  <2>5. ToSet(joined') = {v \in Users : status'[v] # "NONE"}
    BY <2>1, <2>2, <2>4 DEF OrdersGood
  <2>6. UNCHANGED <<pc, frame, payoutOrder>>
    BY <1>1 DEF Join, control, rotation
  <2>7. \A v \in Users : status[v] # "NONE" => status'[v] # "NONE"
    BY <2>1, <2>2
  <2>8. ASSUME NEW p \in Procs, pc[p] \in ExitLabels
        PROVE  status'[frame[p].user] # "NONE"
    <3>1. frame[p].user \in Users
      BY <2>8, FrameOf DEF Fits, ExitLabels
    <3> QED
      BY <2>7, <2>8, <3>1 DEF OrdersGood
  <2>9. GoodOrder(payoutOrder)' /\ \A p \in Procs : GoodOrder(frame[p].order)'
    BY <2>4, <2>6 DEF OrdersGood, GoodOrder
  <2> QED
    BY <2>4, <2>5, <2>6, <2>8, <2>9 DEF OrdersGood
<1>2. ASSUME NEW s \in Sessions, Command(s) \/ SessionStep(s) PROVE OrdersGood'
  <2>1. s \in Procs
    BY DEF Procs
  <2> QED
    BY <1>2, <2>1, CommandOrder, ContributionOrder, RotationOrder, ExitOrder DEF SessionStep
<1>3. ASSUME NEW w \in Workers, WorkerStep(w) PROVE OrdersGood'
  <2>1. w \in Procs
    BY DEF Procs
  <2>2. CASE PayoutStep(w) \/ EnqueueEnd(w)
    BY <2>1, <2>2, RotationOrder DEF RotationStep
  <2>3. ASSUME NEW l \in {"enqueueEnd", "load"}, NEW f \in Frames, f.order = <<>>, Enter(w, l, f),
               UNCHANGED <<members, rotation>>
        PROVE  OrdersGood'
    <3>1. Moves(w, l, f) /\ UNCHANGED <<status, joined>> /\ GoodOrder(payoutOrder')
      BY <2>3 DEF Enter, Moves, members, rotation, OrdersGood
    <3>2. l \in Labels \ ExitLabels
      BY DEF Labels, ExitLabels
    <3>3. PassesOn(w)
      BY <2>3, <3>1, <3>2 DEF PassesOn
    <3> QED
      BY <2>1, <3>1, <3>3, OrderPasses
  <2>4. CASE StartCycle(w)
    <3> DEFINE f == [NoFrame EXCEPT !.deadline = deadline']
    <3>1. deadline' \in Nat
      BY <2>4, Numbers DEF StartCycle, DaysOfCycle, Typed, QueueTyped
    <3>2. f \in Frames /\ f.order = <<>>
      BY <3>1, NoFrameFits DEF Frames, NoFrame
    <3>3. Enter(w, "enqueueEnd", f) \/ UNCHANGED control
      BY <2>4 DEF StartCycle
    <3>4. UNCHANGED <<members, rotation>>
      BY <2>4 DEF StartCycle
    <3> HIDE DEF f
    <3>5. CASE UNCHANGED control
      BY <3>4, <3>5 DEF control, members, rotation, OrdersGood, GoodOrder
    <3> QED
      BY <2>3, <3>2, <3>3, <3>4, <3>5
  <2>5. ASSUME NEW j \in EndJobs, StartEnd(w, j) PROVE OrdersGood'
    <3>1. CASE Enter(w, "load", [NoFrame EXCEPT !.job = j])
      <4> DEFINE f == [NoFrame EXCEPT !.job = j]
      <4>1. f \in Frames /\ f.order = <<>>
        BY NoFrameFits DEF Frames, NoFrame
      <4>2. UNCHANGED <<members, rotation>>
        BY <2>5 DEF StartEnd
      <4> QED
        BY <2>3, <3>1, <4>1, <4>2
    <3>2. CASE UNCHANGED control
      BY <2>5, <3>2 DEF StartEnd, control, members, rotation, OrdersGood, GoodOrder
    <3> QED
      BY <2>5, <3>1, <3>2 DEF StartEnd
  <2> QED
    BY <1>3, <2>2, <2>4, <2>5 DEF WorkerStep, SchedulerStart
<1>4. CASE ReachDeadline \/ UNCHANGED vars
  BY <1>4 DEF ReachDeadline, vars, control, members, rotation, OrdersGood, GoodOrder
<1>5. ASSUME NEW p \in Procs, Crash(p) PROVE OrdersGood'
  <2>1. UNCHANGED <<status, joined>> /\ GoodOrder(payoutOrder')
    BY <1>5 DEF Crash, members, rotation, OrdersGood
  <2> QED
    BY <1>5, <2>1, EndPasses, OrderPasses DEF Crash
<1> QED
  BY <1>1, <1>2, <1>3, <1>4, <1>5 DEF Next

LEMMA OrdersInitially ==
    ASSUME Init
    PROVE  OrdersGood
<1>1. joined = [i \in 1 .. Founders |-> i] /\ joined \in Seq(Users) /\ Len(joined) = Founders
  <2>1. [i \in 1 .. Founders |-> i] \in Seq(Users)
    BY Numbers DEF Users
  <2> QED
    BY <2>1, Numbers DEF Init
<1>2. IsInjective(joined)
  <2>1. \A i, j \in 1 .. Len(joined) : joined[i] = joined[j] => i = j
    BY <1>1, Numbers
  <2> QED
    BY <1>1, <2>1, InjectiveOf
<1>3. ToSet(joined) = {u \in Users : status[u] # "NONE"}
  <2>1. ToSet(joined) = {joined[i] : i \in 1 .. Founders}
    <3>1. joined \in Seq(Users) /\ Len(joined) = Founders
      BY <1>1
    <3>2. ToSet(joined) = {joined[i] : i \in 1 .. Len(joined)}
      BY <3>1, ToSetOf
    <3> QED
      BY <3>1, <3>2
  <2>2. \A u \in Users : status[u] # "NONE" <=> u \in 1 .. Founders
    BY Numbers DEF Init, Users
  <2>3. 1 .. Founders \subseteq Users /\ \A i \in 1 .. Founders : joined[i] = i
    BY <1>1, Numbers DEF Users
  <2> QED
    BY <2>1, <2>2, <2>3
<1>4. GoodOrder(<<>>)
  BY EmptyOrder DEF GoodOrder
<1>5. payoutOrder = <<>> /\ \A p \in Procs : pc[p] = "idle" /\ frame[p].order = <<>>
  BY DEF Init, NoFrame
<1> QED
  BY <1>2, <1>3, <1>4, <1>5 DEF OrdersGood, ExitLabels

\* However the handlers' reads and writes of the order interleave, whatever fails
\* between them, the stored order names nobody twice and nobody who has no member
\* row (payoutOrder, written by setPayoutOrder, skipDefaultingMember,
\* lockOrderForCycle and removeMemberFromOrder).
THEOREM OrderWellFormedCorrect == Spec => []OrderWellFormed
<1>1. Init => Typed /\ OrdersGood
  BY TypedInitially, OrdersInitially
<1>2. Typed /\ OrdersGood /\ [Next]_vars => Typed' /\ OrdersGood'
  BY TypedInductive, OrdersInductive
<1>3. OrdersGood => OrderWellFormed
  BY DEF OrdersGood, GoodOrder, OrderWellFormed
<1> QED
  BY <1>1, <1>2, <1>3, PTL DEF Spec
-----------------------------------------------------------------------------
(* What the rows say and what the chain moved *)

ledger == <<onChain, recorded, payouts, refunded, pool>>

\* The handlers that hold a confirmation no row records yet, and the transfers.
Recording(u) == {p \in Procs : pc[p] = "record" /\ frame[p].user = u}
Unsaved == [p \in Procs |-> IF pc[p] = "savePayout" THEN frame[p].amount ELSE 0]

Outlay == pool + SumOver(received, Users) + SumOver(refunded, Users) + SumOver(Unsaved, Procs)

Confirmed == \A u \in Users : recorded[u] + Cardinality(Recording(u)) <= onChain[u]

Transferred ==
    /\ \A c \in Cycles, u \in Users : <<c, u>> \in payoutRows => sent[c][u] > 0
    /\ \A p \in Procs : pc[p] = "savePayout" => sent[frame[p].cycle][frame[p].user] > 0

\* An inequality: the reply to a transfer may be lost, and then no row adds it up.
Balanced == Outlay <= SumOver(onChain, Users)

LEMMA ProcsFinite ==
    /\ IsFiniteSet(Procs)
    /\ \A u \in Users : IsFiniteSet(Recording(u)) /\ Cardinality(Recording(u)) \in Nat
<1>1. IsFiniteSet(Procs)
  BY GroupAssumption DEF Procs
<1> QED
  BY <1>1, FS_Subset, FS_CardinalityType DEF Recording

LEMMA UnsavedTyped ==
    ASSUME Typed
    PROVE  Unsaved \in [Procs -> Nat]
<1>1. ASSUME NEW p \in Procs, pc[p] = "savePayout"
      PROVE  frame[p].amount \in Nat
  BY <1>1, FrameOf DEF Fits
<1> QED
  BY <1>1 DEF Unsaved

\* All that a step of p can do to the two.
LEMMA MoveCounts ==
    ASSUME Typed, Typed', NEW p \in Procs, NEW l, NEW f, Moves(p, l, f)
    PROVE  /\ \A u \in Users :
                /\ l = "record" /\ f.user = u =>
                      Cardinality(Recording(u)') <= Cardinality(Recording(u)) + 1
                /\ l # "record" \/ f.user # u => 
                      Cardinality(Recording(u)')
                         = Cardinality(Recording(u)) - (IF p \in Recording(u) THEN 1 ELSE 0)
           /\ SumOver(Unsaved', Procs)
                 = SumOver(Unsaved, Procs) + (Unsaved'[p] - Unsaved[p])
<1>1. pc \in [Procs -> Labels] /\ frame \in [Procs -> Frames]
  BY DEF Typed, ControlTyped
<1>2. pc'[p] = l /\ frame'[p] = f
      /\ \A q \in Procs \ {p} : pc'[q] = pc[q] /\ frame'[q] = frame[q]
  BY <1>1 DEF Moves
<1>3. ASSUME NEW u \in Users
      PROVE  /\ l = "record" /\ f.user = u =>
                   Cardinality(Recording(u)') <= Cardinality(Recording(u)) + 1
             /\ l # "record" \/ f.user # u => 
                   Cardinality(Recording(u)')
                      = Cardinality(Recording(u)) - (IF p \in Recording(u) THEN 1 ELSE 0)
  <2> DEFINE R == Recording(u)
  <2>1. IsFiniteSet(R) /\ Cardinality(R) \in Nat
    BY ProcsFinite
  <2>2. CASE l = "record" /\ f.user = u
    <3>1. Recording(u)' = R \cup {p}
      BY <1>2, <2>2 DEF Recording
    <3> QED
      BY <2>1, <2>2, <3>1, FS_AddElement
  <2>3. CASE l # "record" \/ f.user # u
    <3>1. Recording(u)' = R \ {p}
      BY <1>2, <2>3 DEF Recording
    <3>2. CASE p \in R
      BY <2>1, <2>3, <3>1, <3>2, FS_RemoveElement
    <3>3. CASE p \notin R
      <4>1. Recording(u)' = R
        BY <3>1, <3>3
      <4> QED
        BY <2>1, <2>3, <3>3, <4>1
    <3> QED
      BY <3>2, <3>3
  <2> QED
    BY <2>2, <2>3
<1>4. SumOver(Unsaved', Procs) = SumOver(Unsaved, Procs) + (Unsaved'[p] - Unsaved[p])
  <2>0. ASSUME NEW q \in Procs, pc'[q] = "savePayout"
        PROVE  frame'[q].amount \in Nat
    BY <2>0 DEF Typed, ControlTyped, Fits
  <2>1. Unsaved \in [Procs -> Nat] /\ Unsaved' \in [Procs -> Nat]
    BY <2>0, UnsavedTyped DEF Unsaved
  <2>2. \A q \in Procs \ {p} : Unsaved'[q] = Unsaved[q]
    BY <1>2 DEF Unsaved
  <2>3. Unsaved \in [Procs -> Int] /\ Unsaved' \in [Procs -> Int]
    BY <2>1
  <2>4. PICK a : a = Unsaved
    OBVIOUS
  <2>5. PICK b : b = Unsaved'
    OBVIOUS
  <2>6. /\ a \in [Procs -> Int] /\ b \in [Procs -> Int]
        /\ \A q \in Procs \ {p} : b[q] = a[q]
    BY <2>2, <2>3, <2>4, <2>5
  <2>7. SumOver(b, Procs) = SumOver(a, Procs) + (b[p] - a[p])
    BY <2>6, ProcsFinite, SumChanges
  <2> QED
    BY <2>4, <2>5, <2>7
<1> QED
  BY <1>3, <1>4

\* A user's account goes up by n.
LEMMA AccountGrows ==
    ASSUME NEW a \in [Users -> Nat], NEW u \in Users, NEW n \in Nat
    PROVE  /\ SumOver(a, Users) \in Int
           /\ SumOver([a EXCEPT ![u] = @ + n], Users) = SumOver(a, Users) + n
<1>0. PICK b : b = [a EXCEPT ![u] = @ + n]
  OBVIOUS
<1>1. a \in [Users -> Int] /\ b \in [Users -> Int] /\ b[u] - a[u] = n
      /\ \A v \in Users \ {u} : b[v] = a[v]
  BY <1>0
<1>2. SumOver(b, Users) = SumOver(a, Users) + (b[u] - a[u])
  BY <1>1, UsersFinite, SumChanges
<1>3. SumOver(a, Users) \in Int
  BY <1>1, UsersFinite, SumType
<1> QED
  BY <1>0, <1>1, <1>2, <1>3

Backed == Confirmed /\ Transferred /\ Balanced

Quiet(p) ==
    /\ \E l, f : l \notin {"record", "savePayout"} /\ Moves(p, l, f)
    /\ UNCHANGED ledger

LEMMA BackedNumbers ==
    ASSUME Typed
    PROVE  /\ \A u \in Users : onChain[u] \in Nat /\ recorded[u] \in Nat
           /\ SumOver(received, Users) \in Int /\ SumOver(refunded, Users) \in Int
           /\ SumOver(onChain, Users) \in Int /\ SumOver(Unsaved, Procs) \in Int
           /\ pool \in Int
<1>1. /\ received \in [Users -> Int] /\ refunded \in [Users -> Int]
      /\ onChain \in [Users -> Int] /\ pool \in Int
  BY DEF Typed, MoneyTyped, ContributionsTyped
<1>2. SumOver(received, Users) \in Int /\ SumOver(refunded, Users) \in Int
      /\ SumOver(onChain, Users) \in Int
  BY <1>1, UsersFinite, SumType
<1>3. SumOver(Unsaved, Procs) \in Int
  <2>1. Unsaved \in [Procs -> Int]
    BY UnsavedTyped
  <2> QED
    BY <2>1, ProcsFinite, SumType
<1> QED
  BY <1>1, <1>2, <1>3 DEF Typed, ContributionsTyped

LEMMA QuietKeeps ==
    ASSUME Typed, Typed', Backed, NEW p \in Procs, Quiet(p)
    PROVE  Backed'
<1>1. PICK l, f : l \notin {"record", "savePayout"} /\ Moves(p, l, f)
  BY DEF Quiet
<1>2. /\ onChain' = onChain /\ recorded' = recorded /\ payoutRows' = payoutRows
      /\ received' = received /\ sent' = sent /\ refunded' = refunded /\ pool' = pool
  BY DEF Quiet, ledger, payouts
<1>3. pc'[p] = l /\ \A q \in Procs \ {p} : pc'[q] = pc[q] /\ frame'[q] = frame[q]
  BY <1>1 DEF Moves, Typed, ControlTyped
<1>4. Confirmed'
  <2>1. ASSUME NEW u \in Users
        PROVE  recorded[u] + Cardinality(Recording(u)') <= onChain[u]
    <3>1. Cardinality(Recording(u)')
             = Cardinality(Recording(u)) - (IF p \in Recording(u) THEN 1 ELSE 0)
      BY <1>1, MoveCounts
    <3>2. recorded[u] + Cardinality(Recording(u)) <= onChain[u]
      BY DEF Backed, Confirmed
    <3>3. recorded[u] \in Nat /\ onChain[u] \in Nat /\ Cardinality(Recording(u)) \in Nat
      BY BackedNumbers, ProcsFinite
    <3> QED
      BY <3>1, <3>2, <3>3
  <2> QED
    BY <1>2, <2>1 DEF Confirmed
<1>5. Transferred'
  BY <1>1, <1>2, <1>3 DEF Backed, Transferred
<1>6. Balanced'
  <2>1. SumOver(Unsaved', Procs) = SumOver(Unsaved, Procs) + (Unsaved'[p] - Unsaved[p])
    BY <1>1, MoveCounts
  <2>2. Unsaved'[p] = 0 /\ Unsaved[p] \in Nat
    BY <1>1, <1>3, UnsavedTyped DEF Unsaved
  <2>3. Outlay <= SumOver(onChain, Users)
    BY DEF Backed, Balanced
  <2>4. Outlay' = pool + SumOver(received, Users) + SumOver(refunded, Users)
                    + SumOver(Unsaved', Procs)
    BY <1>2 DEF Outlay
  <2>5. Outlay' <= Outlay
    BY <2>1, <2>2, <2>4, BackedNumbers DEF Outlay
  <2>6. Outlay \in Int /\ Outlay' \in Int
    BY <2>1, <2>2, <2>4, BackedNumbers DEF Outlay
  <2>7. Outlay' <= SumOver(onChain, Users)
    BY <2>3, <2>5, <2>6, BackedNumbers
  <2> QED
    BY <1>2, <2>7 DEF Balanced
<1> QED
  BY <1>4, <1>5, <1>6 DEF Backed

\* Ending, and going on to an await that holds nothing back.
LEMMA EndQuiet ==
    ASSUME NEW p \in Procs, Return(p) \/ Finish(p) \/ Throw(p), UNCHANGED ledger
    PROVE  Quiet(p)
<1>1. Moves(p, "idle", NoFrame)
  BY DEF Return, Finish, Throw, GotoWith, Moves
<1> QED
  BY <1>1 DEF Quiet

LEMMA GotoQuiet ==
    ASSUME NEW p \in Procs, NEW l, l \notin {"record", "savePayout"}, NEW f,
           Goto(p, l) \/ GotoWith(p, l, f) \/ Enter(p, l, f), UNCHANGED ledger
    PROVE  Quiet(p)
<1>1. Moves(p, l, frame[p]) \/ Moves(p, l, f)
  BY DEF Goto, GotoWith, Enter, Moves
<1> QED
  BY <1>1 DEF Quiet

\* The contract takes the money: a handler is about to record it, or nobody is.
LEMMA InvokeBacked ==
    ASSUME Typed, Typed', Backed, NEW s \in Sessions, InvokeContribute(s)
    PROVE  Backed'
<1>1. s \in Procs
  BY DEF Procs
<1>2. CASE UNCHANGED <<onChain, pool>>
  <2>1. UNCHANGED ledger
    BY <1>2 DEF InvokeContribute, payouts, settlements, ledger
  <2>2. Return(s) \/ Goto(s, "record")
    BY DEF InvokeContribute
  <2>3. CASE Return(s)
    BY <1>1, <2>1, <2>3, EndQuiet, QuietKeeps
  <2>4. CASE onChain' = [onChain EXCEPT ![frame[s].user] = @ + 1]
    <3>1. frame[s].user \in Users
      BY <1>1, FrameOf DEF Fits, InvokeContribute
    <3>2. onChain'[frame[s].user] = onChain[frame[s].user] + 1
      BY <2>4, <3>1 DEF Typed, ContributionsTyped
    <3> QED
      BY <1>2, <3>1, <3>2, BackedNumbers
  <2> QED
    BY <2>3, <2>4 DEF InvokeContribute
<1>3. CASE ~ UNCHANGED <<onChain, pool>>
  <2>1. PICK u \in Users : u = frame[s].user
    BY <1>1, FrameOf DEF Fits, InvokeContribute
  <2>2. /\ onChain' = [onChain EXCEPT ![u] = @ + 1] /\ pool' = pool + 1
        /\ Goto(s, "record") \/ Return(s)
    BY <1>3, <2>1 DEF InvokeContribute
  <2>3. /\ recorded' = recorded /\ payoutRows' = payoutRows
        /\ received' = received /\ sent' = sent /\ refunded' = refunded
    BY DEF InvokeContribute, payouts, settlements
  <2>4. PICK l, f : Moves(s, l, f) /\ l # "savePayout" /\ (l = "record" => f.user = u)
    BY <2>1, <2>2 DEF Goto, Return, GotoWith, Moves
  <2>5. /\ pc'[s] = l /\ pc[s] = "invoke"
        /\ \A q \in Procs \ {s} : pc'[q] = pc[q] /\ frame'[q] = frame[q]
    BY <1>1, <2>4 DEF Moves, Typed, ControlTyped, InvokeContribute
  <2>6. onChain \in [Users -> Nat]
    BY DEF Typed, ContributionsTyped
  <2>7. Confirmed'
    <3>1. ASSUME NEW v \in Users
          PROVE  recorded[v] + Cardinality(Recording(v)') <= onChain'[v]
      <4>1. recorded[v] + Cardinality(Recording(v)) <= onChain[v]
        BY DEF Backed, Confirmed
      <4>2. recorded[v] \in Nat /\ onChain[v] \in Nat /\ Cardinality(Recording(v)) \in Nat
        BY BackedNumbers, ProcsFinite
      <4>3. s \notin Recording(v)
        BY <2>5 DEF Recording
      <4>4. \/ l = "record" /\ v = u /\ Cardinality(Recording(v)') <= Cardinality(Recording(v)) + 1
            \/ (l # "record" \/ v # u) /\ Cardinality(Recording(v)') = Cardinality(Recording(v))
        BY <1>1, <2>4, <4>2, <4>3, MoveCounts
      <4>5. onChain'[v] = IF v = u THEN onChain[v] + 1 ELSE onChain[v]
        BY <2>2, <2>6
      <4>6. Cardinality(Recording(v)') \in Nat
        BY ProcsFinite, FS_Subset, FS_CardinalityType DEF Recording
      <4> QED
        BY <4>1, <4>2, <4>4, <4>5, <4>6
    <3> QED
      BY <2>3, <3>1 DEF Confirmed
  <2>8. Transferred'
    BY <2>3, <2>4, <2>5 DEF Backed, Transferred
  <2>9. Balanced'
    <3>1. SumOver(Unsaved', Procs) = SumOver(Unsaved, Procs) + (Unsaved'[s] - Unsaved[s])
      BY <1>1, <2>4, MoveCounts
    <3>2. Unsaved'[s] = 0 /\ Unsaved[s] = 0
      BY <1>1, <2>4, <2>5 DEF Unsaved
    <3>3. SumOver(onChain', Users) = SumOver(onChain, Users) + 1
      BY <2>2, <2>6, AccountGrows
    <3>4. Outlay' = Outlay + 1
      BY <2>2, <2>3, <3>1, <3>2, BackedNumbers DEF Outlay
    <3>5. Outlay <= SumOver(onChain, Users) /\ Outlay \in Int
      BY BackedNumbers DEF Backed, Balanced, Outlay
    <3>6. Outlay' <= SumOver(onChain', Users)
      BY <3>3, <3>4, <3>5, BackedNumbers
    <3> QED
      BY <3>6 DEF Balanced
  <2> QED
    BY <2>7, <2>8, <2>9 DEF Backed
<1> QED
  BY <1>2, <1>3

\* A row is written by the handler that holds the confirmation.
LEMMA RecordBacked ==
    ASSUME Typed, Typed', Backed, NEW s \in Sessions, RecordContribution(s)
    PROVE  Backed'
<1>1. s \in Procs
  BY DEF Procs
<1>2. PICK u \in Users : u = frame[s].user
  BY <1>1, FrameOf DEF Fits, RecordContribution
<1>3. recorded' = [recorded EXCEPT ![u] = @ + 1]
  BY <1>2 DEF RecordContribution
<1>4. /\ onChain' = onChain /\ payoutRows' = payoutRows /\ received' = received
      /\ sent' = sent /\ refunded' = refunded /\ pool' = pool
  BY DEF RecordContribution, payouts, settlements
<1>5. PICK l, f : Moves(s, l, f) /\ l \notin {"record", "savePayout"}
  BY DEF RecordContribution, Goto, Return, GotoWith, Moves
<1>6. /\ pc'[s] = l /\ pc[s] = "record"
      /\ \A q \in Procs \ {s} : pc'[q] = pc[q] /\ frame'[q] = frame[q]
  BY <1>1, <1>5 DEF Moves, Typed, ControlTyped, RecordContribution
<1>7. Confirmed'
  <2>1. ASSUME NEW v \in Users
        PROVE  recorded'[v] + Cardinality(Recording(v)') <= onChain[v]
    <3>1. recorded[v] + Cardinality(Recording(v)) <= onChain[v]
      BY DEF Backed, Confirmed
    <3>2. recorded[v] \in Nat /\ onChain[v] \in Nat /\ Cardinality(Recording(v)) \in Nat
      BY BackedNumbers, ProcsFinite
    <3>3. s \in Recording(v) <=> v = u
      BY <1>1, <1>2, <1>6 DEF Recording
    <3>4. Cardinality(Recording(v)')
             = Cardinality(Recording(v)) - (IF s \in Recording(v) THEN 1 ELSE 0)
      BY <1>1, <1>5, MoveCounts
    <3>5. recorded'[v] = IF v = u THEN recorded[v] + 1 ELSE recorded[v]
      BY <1>3 DEF Typed, ContributionsTyped
    <3> QED
      BY <3>1, <3>2, <3>3, <3>4, <3>5
  <2> QED
    BY <1>4, <2>1 DEF Confirmed
<1>8. Transferred'
  BY <1>4, <1>5, <1>6 DEF Backed, Transferred
<1>9. Balanced'
  <2>1. SumOver(Unsaved', Procs) = SumOver(Unsaved, Procs) + (Unsaved'[s] - Unsaved[s])
    BY <1>1, <1>5, MoveCounts
  <2>2. Unsaved'[s] = 0 /\ Unsaved[s] = 0
    BY <1>1, <1>5, <1>6 DEF Unsaved
  <2>3. Outlay' = Outlay
    BY <1>4, <2>1, <2>2, BackedNumbers DEF Outlay
  <2> QED
    BY <1>4, <2>3 DEF Backed, Balanced
<1> QED
  BY <1>7, <1>8, <1>9 DEF Backed

\* What a handler that does not record, and did not, leaves of the first part.
LEMMA ConfirmedKept ==
    ASSUME Typed, Typed', Backed, NEW p \in Procs, NEW l, NEW f, Moves(p, l, f),
           l # "record", UNCHANGED <<onChain, recorded>>
    PROVE  Confirmed'
<1>1. ASSUME NEW u \in Users
      PROVE  recorded[u] + Cardinality(Recording(u)') <= onChain[u]
  <2>1. Cardinality(Recording(u)')
           = Cardinality(Recording(u)) - (IF p \in Recording(u) THEN 1 ELSE 0)
    BY MoveCounts
  <2>2. recorded[u] + Cardinality(Recording(u)) <= onChain[u]
    BY DEF Backed, Confirmed
  <2>3. recorded[u] \in Nat /\ onChain[u] \in Nat /\ Cardinality(Recording(u)) \in Nat
    BY BackedNumbers, ProcsFinite
  <2> QED
    BY <2>1, <2>2, <2>3
<1> QED
  BY <1>1 DEF Confirmed

\* The transfer takes the pot out of the treasury before any row says so.
LEMMA PayBacked ==
    ASSUME Typed, Typed', Backed, NEW p \in Procs, Pay(p)
    PROVE  Backed'
<1>1. PICK f \in Frames : f = frame[p] /\ Fits(p, pc[p], f)
  BY FrameOf
<1>2. f.user \in Users /\ f.cycle \in Cycles /\ f.amount \in Nat
  BY <1>1 DEF Pay, Fits
<1>3. /\ sent' = [sent EXCEPT ![f.cycle][f.user] = @ + 1] /\ pool' = pool - f.amount
      /\ onChain' = onChain /\ recorded' = recorded /\ payoutRows' = payoutRows
      /\ received' = received /\ refunded' = refunded
  BY <1>1 DEF Pay, contributions, settlements
<1>4. PICK l, g : /\ Moves(p, l, g) /\ l # "record"
                  /\ l = "savePayout" => g = f
  BY <1>1 DEF Pay, Goto, Return, Throw, GotoWith, Moves
<1>5. /\ pc'[p] = l /\ frame'[p] = g /\ pc[p] = "pay"
      /\ \A q \in Procs \ {p} : pc'[q] = pc[q] /\ frame'[q] = frame[q]
  BY <1>4 DEF Moves, Typed, ControlTyped, Pay
<1>6. Confirmed'
  BY <1>3, <1>4, ConfirmedKept
<1>7. Transferred'
  <2>1. sent \in [Cycles -> [Users -> Nat]]
    BY DEF Typed, MoneyTyped
  <2>2. /\ sent'[f.cycle][f.user] > 0
        /\ \A c \in Cycles, u \in Users : sent[c][u] > 0 => sent'[c][u] > 0
    BY <1>2, <1>3, <2>1
  <2>3. ASSUME NEW q \in Procs, pc'[q] = "savePayout"
        PROVE  sent'[frame'[q].cycle][frame'[q].user] > 0
    <3>1. CASE q = p
      BY <1>4, <1>5, <2>2, <2>3, <3>1
    <3>2. CASE q # p
      <4>1. pc[q] = "savePayout" /\ frame'[q] = frame[q]
        BY <1>5, <2>3, <3>2
      <4>2. frame[q].cycle \in Cycles /\ frame[q].user \in Users
        BY <4>1, FrameOf DEF Fits
      <4> QED
        BY <2>2, <4>1, <4>2 DEF Backed, Transferred
    <3> QED
      BY <3>1, <3>2
  <2>4. \A c \in Cycles, u \in Users : <<c, u>> \in payoutRows' => sent'[c][u] > 0
    BY <1>3, <2>2 DEF Backed, Transferred
  <2> QED
    BY <2>3, <2>4 DEF Transferred
<1>8. Balanced'
  <2>1. SumOver(Unsaved', Procs) = SumOver(Unsaved, Procs) + (Unsaved'[p] - Unsaved[p])
    BY <1>4, MoveCounts
  <2>2. Unsaved[p] = 0 /\ Unsaved'[p] \in {0, f.amount}
    BY <1>4, <1>5 DEF Unsaved
  <2>3. Outlay' <= Outlay /\ Outlay' \in Int /\ Outlay \in Int
    BY <1>2, <1>3, <2>1, <2>2, BackedNumbers DEF Outlay
  <2>4. Outlay <= SumOver(onChain, Users)
    BY DEF Backed, Balanced
  <2>5. Outlay' <= SumOver(onChain, Users)
    BY <2>3, <2>4, BackedNumbers
  <2> QED
    BY <1>3, <2>5 DEF Balanced
<1> QED
  BY <1>6, <1>7, <1>8 DEF Backed

\* The row takes over what was held back.
LEMMA SaveBacked ==
    ASSUME Typed, Typed', Backed, NEW p \in Procs, SavePayout(p)
    PROVE  Backed'
<1>1. PICK f \in Frames : f = frame[p] /\ Fits(p, pc[p], f)
  BY FrameOf
<1>2. f.user \in Users /\ f.cycle \in Cycles /\ f.amount \in Nat
  BY <1>1 DEF SavePayout, Fits
<1>3. /\ payoutRows' = payoutRows \cup {<<f.cycle, f.user>>}
      /\ received' = [received EXCEPT ![f.user] = @ + f.amount]
      /\ onChain' = onChain /\ recorded' = recorded /\ sent' = sent
      /\ refunded' = refunded /\ pool' = pool
  BY <1>1 DEF SavePayout, contributions, settlements
<1>4. PICK l, g : Moves(p, l, g) /\ l \notin {"record", "savePayout"}
  BY DEF SavePayout, Goto, Return, Throw, GotoWith, Moves
<1>5. /\ pc'[p] = l /\ pc[p] = "savePayout"
      /\ \A q \in Procs \ {p} : pc'[q] = pc[q] /\ frame'[q] = frame[q]
  BY <1>4 DEF Moves, Typed, ControlTyped, SavePayout
<1>6. Confirmed'
  BY <1>3, <1>4, ConfirmedKept
<1>7. Transferred'
  <2>1. sent[f.cycle][f.user] > 0
    BY <1>1, <1>5 DEF Backed, Transferred
  <2>2. \A c \in Cycles, u \in Users : <<c, u>> \in payoutRows' => sent'[c][u] > 0
    BY <1>3, <2>1 DEF Backed, Transferred
  <2>3. \A q \in Procs : pc'[q] = "savePayout" => sent'[frame'[q].cycle][frame'[q].user] > 0
    BY <1>3, <1>4, <1>5 DEF Backed, Transferred
  <2> QED
    BY <2>2, <2>3 DEF Transferred
<1>8. Balanced'
  <2>1. SumOver(Unsaved', Procs) = SumOver(Unsaved, Procs) + (Unsaved'[p] - Unsaved[p])
    BY <1>4, MoveCounts
  <2>2. Unsaved[p] = f.amount /\ Unsaved'[p] = 0
    BY <1>1, <1>4, <1>5 DEF Unsaved
  <2>3. received \in [Users -> Nat]
    BY DEF Typed, MoneyTyped
  <2>4. SumOver(received', Users) = SumOver(received, Users) + f.amount
    BY <1>2, <1>3, <2>3, AccountGrows
  <2>5. Outlay' = Outlay
    BY <1>2, <1>3, <2>1, <2>2, <2>4, BackedNumbers DEF Outlay
  <2> QED
    BY <1>3, <2>5 DEF Backed, Balanced
<1> QED
  BY <1>6, <1>7, <1>8 DEF Backed

\* A refund is counted in the same step that the treasury pays it.
LEMMA RefundBacked ==
    ASSUME Typed, Typed', Backed, NEW s \in Sessions, Refund(s)
    PROVE  Backed'
<1>1. s \in Procs
  BY DEF Procs
<1>2. PICK f \in Frames : f = frame[s] /\ Fits(s, pc[s], f)
  BY <1>1, FrameOf
<1>3. f.user \in Users /\ f.amount \in Nat
  BY <1>2 DEF Refund, Fits
<1>4. PICK l, g : Moves(s, l, g) /\ l \notin {"record", "savePayout"}
  BY DEF Refund, Goto, Return, GotoWith, Moves
<1>5. /\ onChain' = onChain /\ recorded' = recorded /\ payoutRows' = payoutRows
      /\ received' = received /\ sent' = sent
  BY DEF Refund, contributions, payouts
<1>6. CASE UNCHANGED <<refunded, pool>>
  <2>1. UNCHANGED ledger
    BY <1>5, <1>6 DEF ledger, payouts
  <2> QED
    BY <1>1, <1>4, <2>1, QuietKeeps DEF Quiet
<1>7. CASE refunded' = [refunded EXCEPT ![f.user] = @ + f.amount] /\ pool' = pool - f.amount
  <2>1. /\ pc'[s] = l /\ pc[s] = "refund"
        /\ \A q \in Procs \ {s} : pc'[q] = pc[q] /\ frame'[q] = frame[q]
    BY <1>1, <1>4 DEF Moves, Typed, ControlTyped, Refund
  <2>2. Confirmed'
    BY <1>1, <1>4, <1>5, ConfirmedKept
  <2>3. Transferred'
    BY <1>4, <1>5, <2>1 DEF Backed, Transferred
  <2>4. Balanced'
    <3>1. SumOver(Unsaved', Procs) = SumOver(Unsaved, Procs) + (Unsaved'[s] - Unsaved[s])
      BY <1>1, <1>4, MoveCounts
    <3>2. Unsaved[s] = 0 /\ Unsaved'[s] = 0
      BY <1>1, <1>4, <2>1 DEF Unsaved
    <3>3. refunded \in [Users -> Nat]
      BY DEF Typed, MoneyTyped
    <3>4. SumOver(refunded', Users) = SumOver(refunded, Users) + f.amount
      BY <1>3, <1>7, <3>3, AccountGrows
    <3>5. Outlay' = Outlay
      BY <1>3, <1>5, <1>7, <3>1, <3>2, <3>4, BackedNumbers DEF Outlay
    <3> QED
      BY <1>5, <3>5 DEF Backed, Balanced
  <2> QED
    BY <2>2, <2>3, <2>4 DEF Backed
<1> QED
  BY <1>2, <1>6, <1>7 DEF Refund

LEMMA PayoutBacked ==
    ASSUME Typed, Typed', Backed, NEW p \in Procs, PayoutStep(p)
    PROVE  Backed'
<1>1. CASE Pay(p) \/ SavePayout(p)
  BY <1>1, PayBacked, SaveBacked
<1>2. CASE \/ LoadPayout(p) \/ LookupPayout(p) \/ PayFails(p) \/ AdvanceIndex(p)
           \/ ResetCycle(p) \/ NewCycle(p) \/ PayoutWriteFails(p)
  <2>1. UNCHANGED ledger
    BY <1>2 DEF LoadPayout, LookupPayout, PayFails, AdvanceIndex, ResetCycle, NewCycle,
         PayoutWriteFails, ledger, contributions, payouts, settlements
  <2>2. \/ Finish(p) \/ Throw(p) \/ Goto(p, "pay") \/ Goto(p, "reset")
        \/ \E f : GotoWith(p, "lookup", f) \/ GotoWith(p, "newCycle", f)
    BY <1>2 DEF LoadPayout, LookupPayout, PayFails, AdvanceIndex, ResetCycle, NewCycle,
         PayoutWriteFails
  <2>3. Quiet(p)
    BY <2>1, <2>2, EndQuiet, GotoQuiet
  <2> QED
    BY <2>3, QuietKeeps
<1> QED
  BY <1>1, <1>2 DEF PayoutStep

LEMMA SessionBacked ==
    ASSUME Typed, Typed', Backed, NEW s \in Sessions, Command(s) \/ SessionStep(s)
    PROVE  Backed'
<1>1. s \in Procs
  BY DEF Procs
<1>2. CASE Command(s)
  <2>1. UNCHANGED ledger
    BY <1>2 DEF Command, RotationCommand, BeginContribute, BeginExit, BeginProceed, BeginOrder,
         BeginSkip, BeginWait, ledger, contributions, payouts, settlements
  <2>2. \E l \in {"invoke", "settle", "load", "writeOrder", "extend"} : \E f : Enter(s, l, f)
    BY <1>2 DEF Command, RotationCommand, BeginContribute, BeginExit, BeginProceed, BeginOrder,
         BeginSkip, BeginWait
  <2> QED
    BY <1>1, <2>1, <2>2, GotoQuiet, QuietKeeps
<1>3. CASE ContributionStep(s)
  <2>1. CASE InvokeContribute(s) \/ RecordContribution(s)
    BY <2>1, InvokeBacked, RecordBacked
  <2>2. CASE RecordFails(s) \/ ReadLock(s) \/ WriteLock(s)
    <3>1. UNCHANGED ledger
      BY <2>2 DEF RecordFails, ReadLock, WriteLock, ledger, contributions, payouts, settlements
    <3>2. Return(s) \/ \E f : GotoWith(s, "writeLock", f)
      BY <2>2 DEF RecordFails, ReadLock, WriteLock
    <3> QED
      BY <1>1, <3>1, <3>2, EndQuiet, GotoQuiet, QuietKeeps
  <2> QED
    BY <1>3, <2>1, <2>2 DEF ContributionStep
<1>4. CASE RotationStep(s)
  <2>1. CASE PayoutStep(s)
    BY <1>1, <2>1, PayoutBacked
  <2>2. CASE WriteOrder(s) \/ Extend(s) \/ ExtendFails(s) \/ EnqueueEnd(s)
    <3>1. UNCHANGED ledger
      BY <2>2 DEF WriteOrder, Extend, ExtendFails, EnqueueEnd, ledger, contributions, payouts,
           settlements
    <3>2. Return(s) \/ Goto(s, "enqueueEnd")
      BY <2>2 DEF WriteOrder, Extend, ExtendFails, EnqueueEnd
    <3> QED
      BY <1>1, <3>1, <3>2, EndQuiet, GotoQuiet, QuietKeeps
  <2> QED
    BY <1>4, <2>1, <2>2 DEF RotationStep
<1>5. CASE ExitStep(s)
  <2>1. CASE Refund(s)
    BY <2>1, RefundBacked
  <2>2. CASE \/ Settle(s) \/ MarkLeft(s) \/ LogExit(s) \/ ReadOrder(s) \/ DropFromOrder(s)
             \/ Transfer(s) \/ Pause(s) \/ StopCron(s) \/ ExitWriteFails(s)
    <3>1. UNCHANGED ledger
      BY <2>2 DEF Settle, MarkLeft, LogExit, ReadOrder, DropFromOrder, Transfer, Pause, StopCron,
           ExitWriteFails, ledger, contributions, payouts, settlements
    <3>2. \/ Return(s)
          \/ \E l \in {"markLeft", "logExit", "readOrder", "transfer", "pause", "stopCron"} :
                Goto(s, l)
          \/ \E l \in {"refund", "dropFromOrder"} : \E f : GotoWith(s, l, f)
      BY <2>2 DEF Settle, MarkLeft, LogExit, ReadOrder, DropFromOrder, Transfer, Pause, StopCron,
           ExitWriteFails, GoOn, NextStop
    <3> QED
      BY <1>1, <3>1, <3>2, EndQuiet, GotoQuiet, QuietKeeps
  <2> QED
    BY <1>5, <2>1, <2>2 DEF ExitStep
<1> QED
  BY <1>2, <1>3, <1>4, <1>5 DEF SessionStep

LEMMA BackedInductive ==
    ASSUME Typed, Backed, [Next]_vars
    PROVE  Backed'
<1>1. Typed'
  BY TypedInductive
<1>2. ASSUME UNCHANGED <<ledger, pc, frame>> PROVE Backed'
  BY <1>2 DEF ledger, payouts, Backed, Confirmed, Transferred, Balanced, Outlay, Recording,
     Unsaved
<1>3. ASSUME NEW u \in Users, Join(u) PROVE Backed'
  BY <1>2, <1>3 DEF Join, ledger, contributions, payouts, settlements, control
<1>4. ASSUME NEW s \in Sessions, Command(s) \/ SessionStep(s) PROVE Backed'
  BY <1>1, <1>4, SessionBacked
<1>5. ASSUME NEW w \in Workers, WorkerStep(w) PROVE Backed'
  <2>1. w \in Procs
    BY DEF Procs
  <2>2. CASE PayoutStep(w)
    BY <1>1, <2>1, <2>2, PayoutBacked
  <2>3. CASE EnqueueEnd(w) \/ SchedulerStart(w)
    <3>1. UNCHANGED ledger
      BY <2>3 DEF EnqueueEnd, SchedulerStart, StartCycle, StartEnd, ledger, contributions,
           payouts, settlements
    <3>2. \/ Return(w)
          \/ \E l \in {"enqueueEnd", "load"} : \E f : Enter(w, l, f)
          \/ UNCHANGED control
      BY <2>3 DEF EnqueueEnd, SchedulerStart, StartCycle, StartEnd
    <3>3. CASE UNCHANGED control
      BY <1>2, <3>1, <3>3 DEF control
    <3> QED
      BY <1>1, <2>1, <3>1, <3>2, <3>3, EndQuiet, GotoQuiet, QuietKeeps
  <2> QED
    BY <1>5, <2>2, <2>3 DEF WorkerStep
<1>6. CASE ReachDeadline \/ UNCHANGED vars
  BY <1>2, <1>6 DEF ReachDeadline, vars, ledger, contributions, payouts, settlements, control
<1>7. ASSUME NEW p \in Procs, Crash(p) PROVE Backed'
  <2>1. UNCHANGED ledger
    BY <1>7 DEF Crash, ledger, contributions, payouts, settlements
  <2> QED
    BY <1>1, <1>7, <2>1, EndQuiet, QuietKeeps DEF Crash
<1> QED
  BY <1>3, <1>4, <1>5, <1>6, <1>7 DEF Next

LEMMA BackedInitially ==
    ASSUME Init
    PROVE  Backed
<1>1. Typed
  BY TypedInitially
<1>2. /\ \A p \in Procs : pc[p] = "idle"
      /\ \A u \in Users : onChain[u] = 0 /\ recorded[u] = 0 /\ received[u] = 0 /\ refunded[u] = 0
      /\ payoutRows = {} /\ pool = 0
  BY DEF Init
<1>3. Confirmed
  <2>1. ASSUME NEW u \in Users PROVE Cardinality(Recording(u)) = 0
    <3>1. Recording(u) = {}
      BY <1>2 DEF Recording
    <3> QED
      BY <3>1, FS_EmptySet
  <2> QED
    BY <1>2, <2>1 DEF Confirmed
<1>4. Transferred
  BY <1>2 DEF Transferred
<1>5. Balanced
  <2>1. \A p \in Procs : Unsaved[p] = 0
    BY <1>2 DEF Unsaved
  <2>2. /\ Unsaved \in [Procs -> Int] /\ received \in [Users -> Int]
        /\ refunded \in [Users -> Int] /\ onChain \in [Users -> Int]
    BY <1>1, UnsavedTyped DEF Typed, MoneyTyped, ContributionsTyped
  <2>3. SumOver(Unsaved, Procs) = 0
    BY <2>1, <2>2, ProcsFinite, SumOfZeros
  <2>4. SumOver(received, Users) = 0 /\ SumOver(refunded, Users) = 0 /\ SumOver(onChain, Users) = 0
    BY <1>2, <2>2, UsersFinite, SumOfZeros
  <2> QED
    BY <1>2, <2>3, <2>4 DEF Balanced, Outlay
<1> QED
  BY <1>3, <1>4, <1>5 DEF Backed

\* A handler holds back what it will say, never says more: for any number of users,
\* sessions and scheduler slots, whichever call, write, reply or process is lost,
\* the contributions recorded are at most the confirmed ones, a Payout row stands
\* for a transfer, and treasury, payouts and refunds add up to no more than came in
\* (addContribution, executePayout, settleMemberExit).
THEOREM RecordsAreBackedCorrect == Spec => []RecordsAreBacked
<1>1. Init => Typed /\ Backed
  BY TypedInitially, BackedInitially
<1>2. Typed /\ Backed /\ [Next]_vars => Typed' /\ Backed'
  BY TypedInductive, BackedInductive
<1>3. Typed /\ Backed => RecordsAreBacked
  <2> SUFFICES ASSUME Typed, Backed
               PROVE  RecordsAreBacked
    OBVIOUS
  <2>1. ASSUME NEW u \in Users PROVE recorded[u] <= onChain[u]
    <3>1. recorded[u] + Cardinality(Recording(u)) <= onChain[u]
      BY DEF Backed, Confirmed
    <3>2. recorded[u] \in Nat /\ onChain[u] \in Nat /\ Cardinality(Recording(u)) \in Nat
      BY BackedNumbers, ProcsFinite
    <3> QED
      BY <3>1, <3>2
  <2>2. \A c \in Cycles, u \in Users : <<c, u>> \in payoutRows => sent[c][u] > 0
    BY DEF Backed, Transferred
  <2>3. pool + SumOf(received) + SumOf(refunded) <= SumOf(onChain)
    <3>1. SumOver(Unsaved, Procs) >= 0
      BY UnsavedTyped, ProcsFinite, SumOfNaturals
    <3>2. /\ SumOf(received) = SumOver(received, Users)
          /\ SumOf(refunded) = SumOver(refunded, Users)
          /\ SumOf(onChain) = SumOver(onChain, Users)
      BY DEF SumOf, SumOver
    <3>3. Outlay <= SumOver(onChain, Users)
      BY DEF Backed, Balanced
    <3> QED
      BY <3>1, <3>2, <3>3, BackedNumbers DEF Outlay
  <2> QED
    BY <2>1, <2>2, <2>3 DEF RecordsAreBacked
<1> QED
  BY <1>1, <1>2, <1>3, PTL DEF Spec
=============================================================================
