------------------------ MODULE CommandLimiterProofs ------------------------
(***************************************************************************)
(* Proofs about CommandLimiter for any number of requests and faults, any  *)
(* limit and windows of any length.                                        *)
(***************************************************************************)
EXTENDS CommandLimiter, FiniteSetTheorems, FunctionTheorems, TLAPS

-----------------------------------------------------------------------------
(* Types and times *)

RequestType ==
    [pc : Pcs, at : 0 .. MaxClock, by : Stores, born : 0 .. MaxFaults, hitAt : 0 .. MaxClock,
     store : Stores, count : Nat]

CountersTyped ==
    /\ clock \in 1 .. MaxClock
    /\ life \in Nat /\ faults \in Nat /\ life <= faults /\ faults <= MaxFaults

KeyTyped == ends \in 0 .. MaxClock + HitWindow /\ lapsed \subseteq Requests

FlagsTyped == up \in BOOLEAN /\ flagged \in BOOLEAN /\ flags \subseteq Stores

WindowTyped ==
    /\ window \in [Stores -> SUBSET Entries]
    /\ \A s \in Stores : IsFiniteSet(window[s]) /\ Cardinality(window[s]) <= Limit

HitsTyped ==
    /\ hits \in [Stores -> SUBSET Entries]
    /\ \A s \in Stores : IsFiniteSet(hits[s])

Typed ==
    /\ CountersTyped /\ FlagsTyped /\ req \in [Requests -> RequestType] /\ WindowTyped /\ HitsTyped
    /\ KeyTyped

USE LimiterAssumption

\* What one request becomes, and that the others stay.
Becomes(r, label, at, by, born, hitAt, store, count) ==
    /\ req'[r] = [pc |-> label, at |-> at, by |-> by, born |-> born, hitAt |-> hitAt,
                  store |-> store, count |-> count]
    /\ \A q \in Requests : q # r => req'[q] = req[q]
    /\ req' = [q \in Requests |-> req'[q]]

GoesOn(r, label, count) ==
    Becomes(r, label, req[r].at, req[r].by, req[r].born, req[r].hitAt, req[r].store, count)

\* The limit is checked, in one of the stores.
Checked(r) ==
    /\ req[r].pc \in {"none", "fallback"}
    /\ \E s \in Stores :
          LET fresh == Pruned(window[s], clock, Window) IN
          \/ /\ Cardinality(fresh) < Limit
             /\ window' = [window EXCEPT ![s] = fresh \cup {Entry(r, clock)}]
             /\ Becomes(r, "allowed", clock, s, life, 0, "redis", 0)
          \/ /\ window' = [window EXCEPT ![s] = fresh]
             /\ Becomes(r, "hit", clock, s, life, 0, "redis", 0)
    /\ UNCHANGED <<counted, flags, flagged, faults>>

\* The script was carried out or not, but nobody knows.
Thrown(r) ==
    /\ req[r].pc = "none"
    /\ LET fresh == Pruned(window["redis"], clock, Window) IN
          \/ window' = window
          \/ window' = [window EXCEPT !["redis"] = fresh]
          \/ /\ Cardinality(fresh) < Limit
             /\ window' = [window EXCEPT !["redis"] = fresh \cup {Entry(r, clock)}]
    /\ Becomes(r, "fallback", clock, req[r].by, req[r].born, req[r].hitAt, req[r].store,
               req[r].count)
    /\ UNCHANGED <<counted, flags, flagged>>
    /\ faults < MaxFaults /\ faults' = faults + 1

Begun(r) ==
    /\ req[r].pc = "hit"
    /\ Becomes(r, "add", req[r].at, "redis", req[r].born, clock, req[r].store, req[r].count)
    /\ UNCHANGED <<window, counted, flags, flagged, faults>>

\* The four commands to Redis, each carried out.
Added(r) ==
    /\ req[r].pc = "add"
    /\ Add(r)
    /\ GoesOn(r, "prune", req[r].count)
    /\ UNCHANGED <<window, flags, flagged, faults>>

PrunedOld(r) ==
    /\ req[r].pc = "prune"
    /\ Remove(r)
    /\ GoesOn(r, "count", req[r].count)
    /\ UNCHANGED <<window, flags, flagged, faults>>

Counted(r) ==
    /\ req[r].pc = "count"
    /\ GoesOn(r, "expire", Cardinality(hits["redis"]))
    /\ UNCHANGED <<window, counted, flags, flagged, faults>>

Expired(r) ==
    /\ req[r].pc = "expire"
    /\ Prolong
    /\ GoesOn(r, IF req[r].count >= HitsToFlag THEN "flag" ELSE "denied", 0)
    /\ UNCHANGED <<window, flags, flagged, faults>>

\* One of them failed, carried out or not.
Dropped(r) ==
    /\ req[r].pc \in {"add", "prune", "count", "expire"}
    /\ \/ UNCHANGED counted
       \/ req[r].pc = "add" /\ Add(r)
       \/ Remove(r)
       \/ Prolong
    /\ GoesOn(r, "dropped", 0)
    /\ UNCHANGED <<window, flags, flagged>>
    /\ faults < MaxFaults /\ faults' = faults + 1

Recent(r) == Pruned(hits["memory"] \cup {Entry(r, req[r].hitAt)}, req[r].hitAt, HitWindow)

InMemory(r) ==
    /\ req[r].pc \in {"add", "prune", "count", "expire"}
    /\ hits' = [hits EXCEPT !["memory"] = Recent(r)]
    /\ Becomes(r, IF Cardinality(Recent(r)) >= HitsToFlag THEN "flag" ELSE "denied",
               req[r].at, req[r].by, req[r].born, req[r].hitAt, "memory", 0)
    /\ UNCHANGED <<window, ends, lapsed, flags, flagged, faults>>

Flagged(r) ==
    /\ req[r].pc = "flag"
    /\ flags' \subseteq flags \cup Stores /\ flagged' = TRUE
    /\ GoesOn(r, "denied", req[r].count)
    /\ UNCHANGED <<window, counted>>
    /\ \/ faults' = faults
       \/ faults < MaxFaults /\ faults' = faults + 1

Does(r) ==
    \/ Checked(r) \/ Thrown(r) \/ Begun(r)
    \/ Added(r) \/ PrunedOld(r) \/ Counted(r) \/ Expired(r) \/ Dropped(r) \/ InMemory(r)
    \/ Flagged(r)

LEMMA StepIs ==
    ASSUME Typed, NEW r \in Requests, Step(r)
    PROVE  Does(r) /\ UNCHANGED <<clock, up, life>>
<1> DEFINE x == req[r]
<1>1. x \in RequestType
  BY DEF Typed
<1>2. ASSUME NEW y, req' = [req EXCEPT ![r] = y]
      PROVE  /\ req'[r] = y /\ \A q \in Requests : q # r => req'[q] = req[q]
             /\ req' = [q \in Requests |-> req'[q]]
  BY <1>2 DEF Typed
<1>3. ASSUME NEW label, NEW count, NEW y,
             \/ y = [x EXCEPT !.pc = label] /\ count = x.count
             \/ y = [x EXCEPT !.pc = label, !.count = count]
             \/ y = [x EXCEPT !.count = count, !.pc = label]
      PROVE  y = [pc |-> label, at |-> x.at, by |-> x.by, born |-> x.born, hitAt |-> x.hitAt,
                  store |-> x.store, count |-> count]
  BY <1>1, <1>3 DEF RequestType
<1>4. ASSUME NEW s \in Stores, req[r].pc \in {"none", "fallback"}, Check(r, s),
             UNCHANGED <<counted, flags, flagged, faults>>
      PROVE  Checked(r)
  <2> DEFINE fresh == Pruned(window[s], clock, Window)
  <2>1. ASSUME NEW label, NEW y,
               y = [NoRequest EXCEPT !.pc = label, !.at = clock, !.by = s, !.born = life]
        PROVE  y = [pc |-> label, at |-> clock, by |-> s, born |-> life, hitAt |-> 0,
                    store |-> "redis", count |-> 0]
    BY <2>1 DEF NoRequest
  <2>2. CASE Cardinality(fresh) < Limit
    <3> DEFINE y == [NoRequest EXCEPT !.pc = "allowed", !.at = clock, !.by = s, !.born = life]
    <3>1. /\ req' = [req EXCEPT ![r] = y]
          /\ window' = [window EXCEPT ![s] = fresh \cup {Entry(r, clock)}]
      BY <1>4, <2>2 DEF Check
    <3>2. y = [pc |-> "allowed", at |-> clock, by |-> s, born |-> life, hitAt |-> 0,
               store |-> "redis", count |-> 0]
      BY <2>1
    <3> HIDE DEF y
    <3>3. Becomes(r, "allowed", clock, s, life, 0, "redis", 0)
      BY <1>2, <3>1, <3>2 DEF Becomes
    <3> QED
      BY <1>4, <2>2, <3>1, <3>3 DEF Checked
  <2>3. CASE ~(Cardinality(fresh) < Limit)
    <3> DEFINE y == [NoRequest EXCEPT !.pc = "hit", !.at = clock, !.by = s, !.born = life]
    <3>1. req' = [req EXCEPT ![r] = y] /\ window' = [window EXCEPT ![s] = fresh]
      BY <1>4, <2>3 DEF Check
    <3>2. y = [pc |-> "hit", at |-> clock, by |-> s, born |-> life, hitAt |-> 0,
               store |-> "redis", count |-> 0]
      BY <2>1
    <3> HIDE DEF y
    <3>3. Becomes(r, "hit", clock, s, life, 0, "redis", 0)
      BY <1>2, <3>1, <3>2 DEF Becomes
    <3> QED
      BY <1>4, <3>1, <3>3 DEF Checked
  <2> QED
    BY <2>2, <2>3
<1>5. CASE Arrive(r)
  <2>1. /\ Check(r, IF up THEN "redis" ELSE "memory") /\ req[r].pc = "none"
        /\ UNCHANGED <<clock, up, life, counted, flags, flagged, faults>>
    BY <1>5 DEF Arrive, Arrives, NoFault
  <2> QED
    BY <1>4, <2>1 DEF Does, Stores
<1>6. CASE FallBack(r)
  <2>1. /\ Check(r, "memory") /\ req[r].pc = "fallback"
        /\ UNCHANGED <<clock, up, life, counted, flags, flagged, faults>>
    BY <1>6 DEF FallBack, NoFault
  <2> QED
    BY <1>4, <2>1 DEF Does, Stores
<1>7. CASE ArriveThrows(r)
  <2> DEFINE y == [x EXCEPT !.pc = "fallback", !.at = clock]
  <2>1. y = [pc |-> "fallback", at |-> clock, by |-> x.by, born |-> x.born, hitAt |-> x.hitAt,
             store |-> x.store, count |-> x.count]
    <3>1. ASSUME NEW z, z = y
          PROVE  z = [pc |-> "fallback", at |-> clock, by |-> x.by, born |-> x.born,
                      hitAt |-> x.hitAt, store |-> x.store, count |-> x.count]
      BY <1>1, <3>1 DEF RequestType
    <3> QED
      BY <3>1
  <2>2. req' = [req EXCEPT ![r] = y]
    BY <1>7 DEF ArriveThrows
  <2> HIDE DEF y
  <2>3. Becomes(r, "fallback", clock, x.by, x.born, x.hitAt, x.store, x.count)
    BY <1>2, <2>1, <2>2 DEF Becomes
  <2>4. Thrown(r)
    BY <1>7, <2>3 DEF ArriveThrows, Arrives, Fault, Thrown
  <2> QED
    BY <1>7, <2>4 DEF ArriveThrows, Does
<1>8. CASE BeginHit(r)
  <2> DEFINE y == [x EXCEPT !.pc = "add", !.hitAt = clock, !.by = "redis"]
  <2>1. y = [pc |-> "add", at |-> x.at, by |-> "redis", born |-> x.born, hitAt |-> clock,
             store |-> x.store, count |-> x.count]
    <3>1. ASSUME NEW z, z = y
          PROVE  z = [pc |-> "add", at |-> x.at, by |-> "redis", born |-> x.born,
                      hitAt |-> clock, store |-> x.store, count |-> x.count]
      BY <1>1, <3>1 DEF RequestType
    <3> QED
      BY <3>1
  <2>2. req' = [req EXCEPT ![r] = y]
    BY <1>8 DEF BeginHit
  <2> HIDE DEF y
  <2>3. Becomes(r, "add", x.at, "redis", x.born, clock, x.store, x.count)
    BY <1>2, <2>1, <2>2 DEF Becomes
  <2> QED
    BY <1>8, <2>3 DEF BeginHit, NoFault, Begun, Does
<1>9. ASSUME NEW label, NEW count, NEW y, req' = [req EXCEPT ![r] = y],
             \/ y = [x EXCEPT !.pc = label] /\ count = x.count
             \/ y = [x EXCEPT !.pc = label, !.count = count]
             \/ y = [x EXCEPT !.count = count, !.pc = label]
      PROVE  GoesOn(r, label, count)
  <2>1. y = [pc |-> label, at |-> x.at, by |-> x.by, born |-> x.born, hitAt |-> x.hitAt,
             store |-> x.store, count |-> count]
    BY <1>3, <1>9
  <2> QED
    BY <1>2, <1>9, <2>1 DEF GoesOn, Becomes
<1>10. ASSUME CountInMemory(r), req[r].pc \in {"add", "prune", "count", "expire"},
              UNCHANGED <<window, flags, flagged, faults>>
       PROVE  InMemory(r)
  <2> DEFINE label == IF Cardinality(Recent(r)) >= HitsToFlag THEN "flag" ELSE "denied"
             y == [x EXCEPT !.store = "memory", !.count = 0, !.pc = label]
  <2>1. /\ req' = [req EXCEPT ![r] = y] /\ hits' = [hits EXCEPT !["memory"] = Recent(r)]
        /\ UNCHANGED <<ends, lapsed>>
    BY <1>10 DEF CountInMemory, Recent
  <2> HIDE DEF label
  <2>2. y = [pc |-> label, at |-> x.at, by |-> x.by, born |-> x.born, hitAt |-> x.hitAt,
             store |-> "memory", count |-> 0]
    <3>1. ASSUME NEW z, z = y
          PROVE  z = [pc |-> label, at |-> x.at, by |-> x.by, born |-> x.born,
                      hitAt |-> x.hitAt, store |-> "memory", count |-> 0]
      BY <1>1, <3>1 DEF RequestType
    <3> QED
      BY <3>1
  <2> HIDE DEF y
  <2>3. Becomes(r, label, x.at, x.by, x.born, x.hitAt, "memory", 0)
    BY <1>2, <2>1, <2>2 DEF Becomes
  <2> QED
    BY <1>10, <2>1, <2>3 DEF InMemory, label
<1>11. CASE AddHit(r)
  <2>1. ASSUME up
        PROVE  Added(r)
    BY <1>9, <1>11, <2>1 DEF AddHit, Goto, NoFault, Added
  <2>2. ASSUME ~up
        PROVE  InMemory(r)
    BY <1>10, <1>11, <2>2 DEF AddHit, NoFault
  <2> QED
    BY <1>11, <2>1, <2>2 DEF AddHit, Does
<1>12. CASE PruneHits(r)
  BY <1>9, <1>12 DEF PruneHits, Goto, NoFault, PrunedOld, Does
<1>13. CASE CountHits(r)
  BY <1>9, <1>13 DEF CountHits, NoFault, Counted, Does
<1>14. CASE ExpireHits(r)
  BY <1>9, <1>14 DEF ExpireHits, NoFault, Expired, Does
<1>15. CASE HitThrows(r)
  <2>1. CASE up
    <3>1. GoesOn(r, "dropped", 0)
      <4>1. req' = [req EXCEPT ![r].pc = "dropped", ![r].count = 0]
        BY <1>15, <2>1 DEF HitThrows
      <4> DEFINE y == [x EXCEPT !.pc = "dropped", !.count = 0]
      <4>2. req' = [req EXCEPT ![r] = y]
        BY <4>1 DEF Typed
      <4>3. y = [x EXCEPT !.pc = "dropped", !.count = 0]
        OBVIOUS
      <4> HIDE DEF y
      <4> QED
        BY <1>9, <4>2, <4>3
    <3>2. \/ UNCHANGED counted
          \/ req[r].pc = "add" /\ Add(r)
          \/ Remove(r)
          \/ Prolong
      BY <1>15, <2>1 DEF HitThrows
    <3> QED
      BY <1>15, <2>1, <3>1, <3>2 DEF HitThrows, Fault, Dropped, Does
  <2>2. CASE ~up
    BY <1>10, <1>15, <2>2 DEF HitThrows, NoFault, Does
  <2> QED
    BY <2>1, <2>2
<1>16. CASE Flag(r)
  <2>1. GoesOn(r, "denied", x.count)
    BY <1>9, <1>16 DEF Flag, Goto
  <2>2. flags' \subseteq flags \cup Stores
    BY <1>16 DEF Flag, Stores
  <2> QED
    BY <1>16, <2>1, <2>2 DEF Flag, Fault, NoFault, Flagged, Does
<1> QED
  BY <1>5, <1>6, <1>7, <1>8, <1>11, <1>12, <1>13, <1>14, <1>15, <1>16 DEF Step

LEMMA PrunedIs ==
    ASSUME NEW entries \in SUBSET Entries, IsFiniteSet(entries), NEW now \in Nat, NEW span \in Nat
    PROVE  /\ Pruned(entries, now, span) \in SUBSET Entries
           /\ IsFiniteSet(Pruned(entries, now, span))
           /\ Cardinality(Pruned(entries, now, span)) <= Cardinality(entries)
           /\ Cardinality(Pruned(entries, now, span)) \in Nat
<1>1. Pruned(entries, now, span) \subseteq entries
  BY DEF Pruned
<1> QED
  BY <1>1, FS_Subset, FS_CardinalityType

\* One entry more.
LEMMA AddedIs ==
    ASSUME NEW entries \in SUBSET Entries, IsFiniteSet(entries),
           NEW r \in Requests, NEW t \in 0 .. MaxClock
    PROVE  /\ entries \cup {Entry(r, t)} \in SUBSET Entries
           /\ IsFiniteSet(entries \cup {Entry(r, t)})
           /\ Cardinality(entries) \in Nat
           /\ Cardinality(entries \cup {Entry(r, t)}) <= Cardinality(entries) + 1
<1>1. Entry(r, t) \in Entries
  BY DEF Entry, Entries
<1>2. Cardinality(entries) \in Nat
  BY FS_CardinalityType
<1>3. Cardinality(entries \cup {Entry(r, t)}) =
          IF Entry(r, t) \in entries THEN Cardinality(entries) ELSE Cardinality(entries) + 1
  BY FS_AddElement
<1>4. IsFiniteSet(entries \cup {Entry(r, t)})
  BY FS_AddElement
<1> QED
  BY <1>1, <1>2, <1>3, <1>4

\* A check never leaves more entries than the limit.
LEMMA WindowTypedStep ==
    ASSUME Typed, NEW r \in Requests, Does(r)
    PROVE  WindowTyped'
<1> USE DEF Typed, WindowTyped
<1>1. CASE window' = window
  BY <1>1
<1>2. ASSUME NEW s \in Stores, NEW new \in SUBSET Entries, IsFiniteSet(new),
             Cardinality(new) <= Limit, window' = [window EXCEPT ![s] = new]
      PROVE  WindowTyped'
  BY <1>2
<1>3. ASSUME NEW s \in Stores
      PROVE  LET fresh == Pruned(window[s], clock, Window)
                 more == fresh \cup {Entry(r, clock)}
             IN  /\ fresh \in SUBSET Entries /\ IsFiniteSet(fresh) /\ Cardinality(fresh) <= Limit
                 /\ more \in SUBSET Entries /\ IsFiniteSet(more)
                 /\ Cardinality(fresh) < Limit => Cardinality(more) <= Limit
  <2> DEFINE fresh == Pruned(window[s], clock, Window)
             more == fresh \cup {Entry(r, clock)}
  <2>1. /\ fresh \in SUBSET Entries /\ IsFiniteSet(fresh) /\ Cardinality(fresh) \in Nat
        /\ Cardinality(fresh) <= Cardinality(window[s]) /\ Cardinality(window[s]) \in Nat
    <3>1. /\ window[s] \in SUBSET Entries /\ IsFiniteSet(window[s])
          /\ clock \in Nat /\ Window \in Nat
      BY DEF CountersTyped
    <3>2. Cardinality(window[s]) \in Nat
      BY <3>1, FS_CardinalityType
    <3> QED
      BY <3>1, <3>2, PrunedIs
  <2> HIDE DEF fresh
  <2>2. /\ more \in SUBSET Entries /\ IsFiniteSet(more)
        /\ Cardinality(more) <= Cardinality(fresh) + 1
    <3>1. clock \in 0 .. MaxClock
      BY DEF CountersTyped
    <3> HIDE DEF Typed, WindowTyped
    <3> QED
      BY <2>1, <3>1, AddedIs
  <2>3. Cardinality(more) \in Nat
    BY <2>2, FS_CardinalityType
  <2>4. Cardinality(window[s]) <= Limit
    OBVIOUS
  <2> HIDE DEF more
  <2>5. Cardinality(fresh) <= Limit /\ (Cardinality(fresh) < Limit => Cardinality(more) <= Limit)
    BY <2>1, <2>2, <2>3, <2>4
  <2> QED
    BY <2>1, <2>2, <2>5 DEF fresh, more
<1>4. CASE Checked(r)
  <2>1. PICK s \in Stores :
            LET fresh == Pruned(window[s], clock, Window) IN
            \/ /\ Cardinality(fresh) < Limit
               /\ window' = [window EXCEPT ![s] = fresh \cup {Entry(r, clock)}]
            \/ window' = [window EXCEPT ![s] = fresh]
    BY <1>4 DEF Checked
  <2> QED
    BY <1>2, <1>3, <2>1
<1>5. CASE Thrown(r)
  <2>1. LET fresh == Pruned(window["redis"], clock, Window) IN
        \/ window' = window
        \/ window' = [window EXCEPT !["redis"] = fresh]
        \/ /\ Cardinality(fresh) < Limit
           /\ window' = [window EXCEPT !["redis"] = fresh \cup {Entry(r, clock)}]
    BY <1>5 DEF Thrown
  <2>2. "redis" \in Stores
    BY DEF Stores
  <2> QED
    BY <1>1, <1>2, <1>3, <2>1, <2>2
<1> QED
  BY <1>1, <1>4, <1>5
     DEF Does, Begun, Added, PrunedOld, Counted, Expired, Dropped, InMemory, Flagged

\* What a request may do to the hits.
LEMMA HitsBecome ==
    ASSUME NEW r \in Requests, Does(r)
    PROVE  /\ \/ UNCHANGED hits
              \/ /\ req[r].pc = "add"
                 /\ hits' = [hits EXCEPT !["redis"] = @ \cup {Entry(r, req[r].hitAt)}]
              \/ hits' = [hits EXCEPT !["redis"] = Pruned(@, req[r].hitAt, HitWindow)]
              \/ InMemory(r)
           /\ UNCHANGED lapsed
<1>1. CASE InMemory(r)
  BY <1>1 DEF InMemory
<1>2. CASE \/ Checked(r) \/ Thrown(r) \/ Begun(r) \/ Counted(r) \/ Expired(r) \/ Flagged(r)
  BY <1>2 DEF Checked, Thrown, Begun, Counted, Expired, Flagged, Prolong, counted
<1>3. CASE Added(r)
  BY <1>3 DEF Added, Add
<1>4. CASE PrunedOld(r)
  BY <1>4 DEF PrunedOld, Remove
<1>5. CASE Dropped(r)
  BY <1>5 DEF Dropped, Add, Remove, Prolong, counted
<1> QED
  BY <1>1, <1>2, <1>3, <1>4, <1>5 DEF Does

LEMMA HitsTypedStep ==
    ASSUME Typed, NEW r \in Requests, Does(r)
    PROVE  HitsTyped'
<1> USE DEF Typed, HitsTyped
<1>0. req[r].hitAt \in 0 .. MaxClock /\ req[r].hitAt \in Nat
  BY DEF RequestType
<1>1. CASE UNCHANGED hits
  BY <1>1
<1>2. ASSUME NEW s \in Stores, NEW new \in SUBSET Entries, IsFiniteSet(new),
             hits' = [hits EXCEPT ![s] = new]
      PROVE  HitsTyped'
  BY <1>2
<1>3. CASE hits' = [hits EXCEPT !["redis"] = @ \cup {Entry(r, req[r].hitAt)}]
  <2> DEFINE new == hits["redis"] \cup {Entry(r, req[r].hitAt)}
  <2>1. new \in SUBSET Entries /\ IsFiniteSet(new) /\ "redis" \in Stores
    BY <1>0, AddedIs DEF Stores
  <2> QED
    BY <1>2, <1>3, <2>1
<1>4. CASE hits' = [hits EXCEPT !["redis"] = Pruned(@, req[r].hitAt, HitWindow)]
  <2> DEFINE new == Pruned(hits["redis"], req[r].hitAt, HitWindow)
  <2>1. "redis" \in Stores
    BY DEF Stores
  <2>2. new \in SUBSET Entries /\ IsFiniteSet(new)
    BY <1>0, <2>1, PrunedIs
  <2> HIDE DEF new
  <2>3. hits' = [hits EXCEPT !["redis"] = new]
    BY <1>4 DEF new
  <2> QED
    BY <1>2, <2>1, <2>2, <2>3
<1>5. CASE InMemory(r)
  <2>1. "memory" \in Stores
    BY DEF Stores
  <2> DEFINE more == hits["memory"] \cup {Entry(r, req[r].hitAt)}
  <2>2. more \in SUBSET Entries /\ IsFiniteSet(more)
    BY <1>0, <2>1, AddedIs
  <2>3. Recent(r) \in SUBSET Entries /\ IsFiniteSet(Recent(r))
    BY <1>0, <2>2, PrunedIs DEF Recent
  <2> QED
    BY <1>2, <1>5, <2>1, <2>3 DEF InMemory
<1> QED
  BY <1>1, <1>3, <1>4, <1>5, HitsBecome

LEMMA KeyTypedStep ==
    ASSUME Typed, NEW r \in Requests, Does(r)
    PROVE  KeyTyped'
<1>1. lapsed' = lapsed /\ ends' \in {ends, 0, clock + HitWindow}
  BY DEF Does, Checked, Thrown, Begun, Added, PrunedOld, Counted, Expired, Dropped, InMemory,
         Flagged, Add, Remove, Prolong, counted
<1> QED
  BY <1>1 DEF Typed, KeyTyped, CountersTyped

LEMMA RequestsTypedStep ==
    ASSUME Typed, NEW r \in Requests, Does(r)
    PROVE  req' \in [Requests -> RequestType]
<1> USE DEF Typed
<1>1. req[r] \in RequestType
  OBVIOUS
<1>2. /\ \A q \in Requests : q # r => req'[q] = req[q]
      /\ req' = [q \in Requests |-> req'[q]]
  BY DEF Does, Checked, Thrown, Begun, Added, PrunedOld, Counted, Expired, Dropped, InMemory,
         Flagged, GoesOn, Becomes
<1>3. req'[r] \in RequestType
  <2>0. ASSUME NEW label \in Pcs, NEW at \in 0 .. MaxClock, NEW by \in Stores,
               NEW b \in 0 .. MaxFaults, NEW hitAt \in 0 .. MaxClock, NEW store \in Stores,
               NEW count \in Nat, Becomes(r, label, at, by, b, hitAt, store, count)
        PROVE  req'[r] \in RequestType
    BY <2>0 DEF Becomes, RequestType
  <2>1. ASSUME NEW label \in Pcs, NEW count \in Nat, GoesOn(r, label, count)
        PROVE  req'[r] \in RequestType
    BY <1>1, <2>0, <2>1 DEF GoesOn, RequestType
  <2>2. {"none", "allowed", "denied", "dropped", "gone"} \cup Awaiting \subseteq Pcs
    BY DEF Pcs
  <2>3. /\ clock \in 0 .. MaxClock /\ life \in 0 .. MaxFaults /\ "redis" \in Stores
        /\ "memory" \in Stores /\ 0 \in 0 .. MaxClock /\ 0 \in Nat
    BY DEF CountersTyped, Stores
  <2>4. /\ req[r].at \in 0 .. MaxClock /\ req[r].by \in Stores /\ req[r].born \in 0 .. MaxFaults
        /\ req[r].hitAt \in 0 .. MaxClock /\ req[r].store \in Stores /\ req[r].count \in Nat
    BY <1>1 DEF RequestType
  <2>5. CASE Checked(r)
    <3>1. PICK s \in Stores : \/ Becomes(r, "allowed", clock, s, life, 0, "redis", 0)
                              \/ Becomes(r, "hit", clock, s, life, 0, "redis", 0)
      BY <2>5 DEF Checked
    <3> QED
      BY <2>0, <2>2, <2>3, <3>1 DEF Awaiting
  <2>6. CASE Thrown(r)
    BY <2>0, <2>2, <2>3, <2>4, <2>6 DEF Thrown, Awaiting
  <2>7. CASE Begun(r)
    BY <2>0, <2>2, <2>3, <2>4, <2>7 DEF Begun, Awaiting
  <2>8. CASE Added(r) \/ PrunedOld(r) \/ Expired(r) \/ Dropped(r) \/ Flagged(r)
    BY <2>1, <2>2, <2>3, <2>4, <2>8
       DEF Added, PrunedOld, Expired, Dropped, Flagged, Awaiting
  <2>9. CASE Counted(r)
    <3>1. Cardinality(hits["redis"]) \in Nat
      BY <2>3, FS_CardinalityType DEF HitsTyped
    <3> QED
      BY <2>1, <2>2, <2>9, <3>1 DEF Counted, Awaiting
  <2>10. CASE InMemory(r)
    BY <2>0, <2>2, <2>3, <2>4, <2>10 DEF InMemory, Awaiting
  <2> QED
    BY <2>5, <2>6, <2>7, <2>8, <2>9, <2>10 DEF Does
<1> QED
  BY <1>2, <1>3

\* What a crash leaves of a request.
Lost(r) ==
    [pc |-> "gone", at |-> 0, by |-> "redis", born |-> 0, hitAt |-> req[r].hitAt,
     store |-> "redis", count |-> 0]

LEMMA CrashIs ==
    ASSUME Typed, Crash
    PROVE  /\ \A r \in Requests : req'[r] = IF r \in InFlight THEN Lost(r) ELSE req[r]
           /\ req' = [r \in Requests |-> req'[r]]
           /\ window'["memory"] = {} /\ window'["redis"] = window["redis"]
           /\ hits'["memory"] = {} /\ hits'["redis"] = hits["redis"]
           /\ window' \in [Stores -> SUBSET Entries] /\ hits' \in [Stores -> SUBSET Entries]
<1>1. ASSUME NEW r \in Requests, NEW y, y = [NoRequest EXCEPT !.pc = "gone", !.hitAt = req[r].hitAt]
      PROVE  y = Lost(r)
  BY <1>1 DEF NoRequest, Lost
<1>2. \A r \in Requests : [NoRequest EXCEPT !.pc = "gone", !.hitAt = req[r].hitAt] = Lost(r)
  BY <1>1
<1>3. req' = [r \in Requests |-> IF r \in InFlight THEN Lost(r) ELSE req[r]]
  BY <1>2 DEF Crash
<1>4. \A r \in Requests : req'[r] = IF r \in InFlight THEN Lost(r) ELSE req[r]
  BY <1>3
<1>5. req' = [r \in Requests |-> req'[r]]
  BY <1>3
<1> QED
  BY <1>4, <1>5 DEF Crash, Typed, WindowTyped, HitsTyped, Stores

LEMMA TypedStep ==
    ASSUME Typed, [Next]_vars
    PROVE  Typed'
<1>1. CASE UNCHANGED vars
  BY <1>1 DEF vars, counted, Typed, CountersTyped, FlagsTyped, WindowTyped, HitsTyped, KeyTyped
<1>2. ASSUME NEW r \in Requests, Step(r)
      PROVE  Typed'
  <2>1. Does(r) /\ UNCHANGED <<clock, up, life>>
    BY <1>2, StepIs
  <2>2. /\ flagged' = flagged \/ flagged' = TRUE
        /\ flags' \subseteq flags \cup Stores
        /\ faults' = faults \/ (faults < MaxFaults /\ faults' = faults + 1)
    <3>1. CASE Flagged(r)
      BY <3>1 DEF Flagged
    <3>2. CASE ~Flagged(r)
      BY <2>1, <3>2 DEF Does, Checked, Thrown, Begun, Added, PrunedOld, Counted, Expired, Dropped,
                  InMemory
    <3> QED
      BY <3>1, <3>2
  <2>3. CountersTyped'
    BY <2>1, <2>2 DEF CountersTyped, Typed
  <2>4. FlagsTyped'
    BY <2>1, <2>2, Zenon DEF FlagsTyped, Typed
  <2> QED
    BY <2>1, <2>3, <2>4, WindowTypedStep, HitsTypedStep, RequestsTypedStep, KeyTypedStep DEF Typed
<1>3. CASE Tick \/ GoAway \/ ComeBack
  <2>1. CountersTyped'
    BY <1>3 DEF Tick, GoAway, ComeBack, Fault, NoFault, Typed, CountersTyped
  <2>2. UNCHANGED <<req, window, hits, ends, lapsed>>
    BY <1>3 DEF Tick, GoAway, ComeBack, counted
  <2>3. UNCHANGED <<flagged, flags>> /\ (up' = up \/ up' = TRUE \/ up' = FALSE)
    BY <1>3 DEF Tick, GoAway, ComeBack
  <2>4. FlagsTyped'
    BY <2>3, Zenon DEF FlagsTyped, Typed
  <2>5. WindowTyped' /\ HitsTyped' /\ KeyTyped'
    BY <2>2 DEF Typed, WindowTyped, HitsTyped, KeyTyped
  <2>6. req' \in [Requests -> RequestType]
    BY <2>2 DEF Typed
  <2> QED
    BY <2>1, <2>4, <2>5, <2>6 DEF Typed
<1>4. CASE Crash
  <2>1. CountersTyped'
    <3>1. clock' = clock /\ life' = life + 1 /\ faults < MaxFaults /\ faults' = faults + 1
      BY <1>4 DEF Crash, Fault
    <3> QED
      BY <3>1 DEF Typed, CountersTyped
  <2>6. FlagsTyped'
    <3>1. UNCHANGED <<up, flagged>> /\ flags' \subseteq flags
      BY <1>4 DEF Crash
    <3> QED
      BY <3>1, Zenon DEF FlagsTyped, Typed
  <2>2. \A r \in Requests : Lost(r) \in RequestType
    BY DEF Lost, RequestType, Typed, Pcs, Stores
  <2>3. req' \in [Requests -> RequestType]
    BY <1>4, <2>2, CrashIs DEF Typed
  <2>4. IsFiniteSet({}) /\ Cardinality({}) = 0
    BY FS_EmptySet
  <2>5. WindowTyped' /\ HitsTyped'
    <3>1. ASSUME NEW s \in Stores
          PROVE  /\ IsFiniteSet(window'[s]) /\ Cardinality(window'[s]) <= Limit
                 /\ IsFiniteSet(hits'[s])
      <4>1. CASE s = "memory"
        <5>1. window'["memory"] = {} /\ hits'["memory"] = {}
          BY <1>4, CrashIs
        <5> QED
          BY <2>4, <4>1, <5>1
      <4>2. CASE s = "redis"
        BY <1>4, <4>2, CrashIs DEF Typed, WindowTyped, HitsTyped
      <4> QED
        BY <4>1, <4>2 DEF Stores
    <3> QED
      BY <1>4, <3>1, CrashIs DEF WindowTyped, HitsTyped
  <2>7. KeyTyped'
    BY <1>4 DEF Crash, Typed, KeyTyped
  <2> QED
    BY <2>1, <2>3, <2>5, <2>6, <2>7 DEF Typed
<1>5. CASE KeyEnds
  <2>1. UNCHANGED <<clock, up, req, window, flags, life, flagged, faults>>
    BY <1>5 DEF KeyEnds, NoFault
  <2>2. CountersTyped' /\ WindowTyped' /\ req' \in [Requests -> RequestType]
    BY <2>1 DEF Typed, CountersTyped, WindowTyped
  <2>3. FlagsTyped'
    BY <2>1, Zenon DEF Typed, FlagsTyped
  <2>4. IsFiniteSet({})
    BY FS_EmptySet
  <2>5. HitsTyped'
    BY <1>5, <2>4 DEF KeyEnds, Typed, HitsTyped, Stores
  <2>6. KeyTyped'
    BY <1>5 DEF KeyEnds, Typed, KeyTyped, HitsTyped, CountersTyped, Entries, Stores
  <2> QED
    BY <2>2, <2>3, <2>5, <2>6 DEF Typed
<1> QED
  BY <1>1, <1>2, <1>3, <1>4, <1>5 DEF Next

LEMMA TypedInit == Init => Typed
<1> SUFFICES ASSUME Init PROVE Typed
  OBVIOUS
<1>1. IsFiniteSet({}) /\ Cardinality({}) = 0
  BY FS_EmptySet
<1>2. NoRequest \in RequestType
  BY DEF NoRequest, RequestType, Pcs, Stores
<1>3. CountersTyped
  BY DEF Init, CountersTyped
<1>6. FlagsTyped
  <2>1. up = TRUE /\ flagged = FALSE /\ flags = {}
    BY DEF Init
  <2> QED
    BY <2>1, Zenon DEF FlagsTyped
<1>4. req \in [Requests -> RequestType]
  BY <1>2 DEF Init
<1>5. WindowTyped /\ HitsTyped /\ KeyTyped
  BY <1>1 DEF Init, WindowTyped, HitsTyped, KeyTyped
<1> QED
  BY <1>3, <1>4, <1>5, <1>6 DEF Typed

LEMMA TypedInvariant == Spec => []Typed
  BY TypedInit, TypedStep, PTL DEF Spec

\* Every variable keeps its type; no store's window ever holds more entries than
\* the limit.
THEOREM TypeCorrect == Spec => []TypeOK
<1>1. Typed => TypeOK
  <2> SUFFICES ASSUME Typed PROVE TypeOK
    OBVIOUS
  <2>1. clock \in 1 .. MaxClock /\ life \in 0 .. MaxFaults /\ faults \in 0 .. MaxFaults
    BY DEF Typed, CountersTyped
  <2>2. \A s \in Stores : /\ window[s] \subseteq Entries /\ Cardinality(window[s]) <= Limit
                         /\ hits[s] \subseteq Entries
    BY DEF Typed, WindowTyped, HitsTyped
  <2>3. up \in BOOLEAN /\ flagged \in BOOLEAN /\ flags \subseteq Stores
    BY DEF Typed, FlagsTyped
  <2> QED
    BY <2>1, <2>2, <2>3, Zenon DEF Typed, KeyTyped, RequestType, TypeOK
<1> QED
  BY <1>1, TypedInvariant, PTL

-----------------------------------------------------------------------------
(* Cardinalities *)

\* A finite set that a function cuts into parts of L elements at most.
LEMMA PartsBound ==
    ASSUME NEW P, IsFiniteSet(P), NEW K, IsFiniteSet(K), NEW f \in [P -> K], NEW L \in Nat,
           \A k \in K : Cardinality({x \in P : f[x] = k}) <= L
    PROVE  Cardinality(P) <= L * Cardinality(K)
<1> DEFINE part(k) == {x \in P : f[x] = k}
           seats == 1 .. L
<1>1. ASSUME NEW k \in K
      PROVE  \E h : h \in Injection(part(k), seats)
  <2>1. part(k) \subseteq P /\ Cardinality(part(k)) <= L
    OBVIOUS
  <2> HIDE DEF part
  <2>2. IsFiniteSet(part(k))
    BY <2>1, FS_Subset
  <2> DEFINE n == Cardinality(part(k))
  <2>3. n \in Nat /\ ExistsBijection(1 .. n, part(k))
    BY <2>2, FS_CardinalityType
  <2>4. ExistsBijection(part(k), 1 .. n)
    BY <2>3, Fun_ExistsBijSymmetric
  <2>5. PICK h : h \in Bijection(part(k), 1 .. n)
    BY <2>4 DEF ExistsBijection
  <2>6. 1 .. n \subseteq seats
    BY <2>1, <2>3
  <2>7. h \in [part(k) -> 1 .. n] /\ IsInjective(h)
    BY <2>5 DEF Bijection, Injection
  <2>8. h \in [part(k) -> seats]
    BY <2>6, <2>7
  <2> QED
    BY <2>7, <2>8 DEF Injection
<1> DEFINE g == [k \in K |-> CHOOSE h : h \in Injection(part(k), seats)]
           F == [x \in P |-> <<f[x], g[f[x]][x]>>]
<1>2. \A k \in K : g[k] \in Injection(part(k), seats)
  BY <1>1
<1>3. \A x \in P : f[x] \in K /\ x \in part(f[x])
  OBVIOUS
<1> HIDE DEF g, part, seats
<1>4. \A x \in P : g[f[x]][x] \in seats
  BY <1>2, <1>3 DEF Injection
<1>5. F \in [P -> K \X seats]
  BY <1>3, <1>4
<1>6. ASSUME NEW x \in P, NEW y \in P, F[x] = F[y]
      PROVE  x = y
  <2>1. f[x] = f[y] /\ g[f[x]][x] = g[f[y]][y]
    BY <1>6
  <2>2. g[f[x]] \in Injection(part(f[x]), seats) /\ x \in part(f[x]) /\ y \in part(f[x])
    BY <1>2, <1>3, <2>1
  <2> QED
    BY <2>1, <2>2 DEF Injection, IsInjective
<1>7. F \in Injection(P, K \X seats)
  BY <1>5, <1>6 DEF Injection, IsInjective
<1>8. IsFiniteSet(seats) /\ Cardinality(seats) = L
  BY FS_Interval DEF seats
<1>9. IsFiniteSet(K \X seats) /\ Cardinality(K \X seats) = Cardinality(K) * L
  BY <1>8, FS_Product
<1>10. Cardinality(P) <= Cardinality(K \X seats)
  BY <1>7, <1>9, FS_Injection
<1>11. Cardinality(K) \in Nat
  BY FS_CardinalityType
<1> QED
  BY <1>9, <1>10, <1>11

\* Three different elements make a set of three, and a set of three has them.
LEMMA ThreeElements ==
    /\ \A x, y, z : x # y /\ x # z /\ y # z => IsFiniteSet({x, y, z}) /\ Cardinality({x, y, z}) = 3
    /\ \A S : IsFiniteSet(S) /\ Cardinality(S) >= 3
                => \E x, y, z \in S : x # y /\ x # z /\ y # z
<1>1. ASSUME NEW x, NEW y, NEW z, x # y, x # z, y # z
      PROVE  IsFiniteSet({x, y, z}) /\ Cardinality({x, y, z}) = 3
  <2> DEFINE one == {x}
             two == one \cup {y}
             three == two \cup {z}
  <2>1. IsFiniteSet(one) /\ Cardinality(one) = 1 /\ y \notin one
    BY <1>1, FS_Singleton
  <2>2. z \notin two /\ three = {x, y, z}
    BY <1>1
  <2> HIDE DEF one
  <2>3. IsFiniteSet(two) /\ Cardinality(two) = 2
    BY <2>1, FS_AddElement
  <2> HIDE DEF two
  <2>4. IsFiniteSet(three) /\ Cardinality(three) = 3
    BY <2>2, <2>3, FS_AddElement
  <2> QED
    BY <2>2, <2>4
<1>2. ASSUME NEW S, IsFiniteSet(S), Cardinality(S) >= 3
      PROVE  \E x, y, z \in S : x # y /\ x # z /\ y # z
  <2>1. PICK x : x \in S
    BY <1>2, FS_EmptySet
  <2>2. IsFiniteSet(S \ {x}) /\ Cardinality(S \ {x}) = Cardinality(S) - 1
    BY <1>2, <2>1, FS_RemoveElement
  <2>3. Cardinality(S) \in Nat
    BY <1>2, FS_CardinalityType
  <2>4. Cardinality(S \ {x}) >= 2
    BY <1>2, <2>2, <2>3
  <2>5. PICK y : y \in S \ {x}
    BY <2>2, <2>4, FS_EmptySet
  <2>6. /\ IsFiniteSet((S \ {x}) \ {y})
        /\ Cardinality((S \ {x}) \ {y}) = Cardinality(S \ {x}) - 1
    BY <2>2, <2>5, FS_RemoveElement
  <2>7. Cardinality((S \ {x}) \ {y}) # 0
    BY <2>2, <2>3, <2>4, <2>6
  <2>8. PICK z : z \in (S \ {x}) \ {y}
    BY <2>6, <2>7, FS_EmptySet
  <2> QED
    BY <2>1, <2>5, <2>8
<1> QED
  BY <1>1, <1>2

-----------------------------------------------------------------------------
(* Times *)

\* A call lasts until the next tick at most; it reads the time of its hit in the
\* life of the process in which the limit was checked.
Timed ==
    \A r \in Requests :
        /\ req[r].at <= clock /\ req[r].hitAt <= clock /\ req[r].born <= life
        /\ req[r].pc \in Awaiting => clock <= req[r].at + 1
        /\ req[r].pc \in Awaiting \ {"fallback"} => req[r].born = life
        /\ req[r].pc \in {"none", "allowed", "fallback", "hit"} => req[r].hitAt = 0
        /\ req[r].pc \in Awaiting \ {"fallback", "hit"} =>
              req[r].at <= req[r].hitAt /\ 1 <= req[r].hitAt

LEMMA TimedStep ==
    ASSUME Typed, Timed, [Next]_vars
    PROVE  Timed'
<1> USE DEF Awaiting
<1>0. /\ clock \in Nat /\ 1 <= clock /\ life \in Nat
      /\ \A r \in Requests : req[r] \in RequestType
  BY DEF Typed, CountersTyped
<1>1. CASE UNCHANGED <<clock, life, req>>
  BY <1>1 DEF Timed
<1>2. ASSUME NEW r \in Requests, Step(r)
      PROVE  Timed'
  <2>1. Does(r) /\ UNCHANGED <<clock, life>>
    BY <1>2, StepIs
  <2>2. \A q \in Requests : q # r => req'[q] = req[q]
    BY <2>1 DEF Does, Checked, Thrown, Begun, Added, PrunedOld, Counted, Expired, Dropped,
                InMemory, Flagged, GoesOn, Becomes
  <2> DEFINE x == req[r]
             y == req'[r]
  <2>3. /\ x.at \in Nat /\ x.hitAt \in Nat /\ x.born \in Nat
        /\ x.at <= clock /\ x.hitAt <= clock /\ x.born <= life
        /\ x.pc \in Awaiting => clock <= x.at + 1
        /\ x.pc \in Awaiting \ {"fallback"} => x.born = life
        /\ x.pc \in {"none", "allowed", "fallback", "hit"} => x.hitAt = 0
        /\ x.pc \in Awaiting \ {"fallback", "hit"} => x.at <= x.hitAt /\ 1 <= x.hitAt
    BY <1>0 DEF Timed, RequestType
  <2>4. /\ y.at <= clock /\ y.hitAt <= clock /\ y.born <= life
        /\ y.pc \in Awaiting => clock <= y.at + 1
        /\ y.pc \in Awaiting \ {"fallback"} => y.born = life
        /\ y.pc \in {"none", "allowed", "fallback", "hit"} => y.hitAt = 0
        /\ y.pc \in Awaiting \ {"fallback", "hit"} => y.at <= y.hitAt /\ 1 <= y.hitAt
    <3>1. CASE Checked(r)
      <4>1. /\ y.at = clock /\ y.hitAt = 0 /\ y.born = life /\ y.pc \in {"allowed", "hit"}
        BY <3>1 DEF Checked, Becomes
      <4> HIDE DEF y
      <4> QED
        BY <1>0, <4>1
    <3>2. CASE Thrown(r)
      <4>1. /\ y.at = clock /\ y.hitAt = x.hitAt /\ y.born = x.born /\ y.pc = "fallback"
            /\ x.pc = "none"
        BY <3>2 DEF Thrown, Becomes
      <4> HIDE DEF x, y
      <4> QED
        BY <1>0, <2>3, <4>1
    <3>3. CASE Begun(r)
      <4>1. /\ y.at = x.at /\ y.hitAt = clock /\ y.born = x.born /\ y.pc = "add"
            /\ x.pc = "hit"
        BY <3>3 DEF Begun, Becomes
      <4> HIDE DEF x, y
      <4> QED
        BY <1>0, <2>3, <4>1
    <3>4. CASE ~Checked(r) /\ ~Thrown(r) /\ ~Begun(r)
      <4>1. /\ y.at = x.at /\ y.hitAt = x.hitAt /\ y.born = x.born
            /\ x.pc \in {"add", "prune", "count", "expire", "flag"}
            /\ y.pc \in {"prune", "count", "expire", "flag", "denied", "dropped"}
        <5>1. CASE Added(r) \/ PrunedOld(r) \/ Counted(r) \/ Dropped(r) \/ Flagged(r)
          BY <5>1 DEF Added, PrunedOld, Counted, Dropped, Flagged, GoesOn, Becomes
        <5>2. CASE Expired(r)
          BY <5>2 DEF Expired, GoesOn, Becomes
        <5>3. CASE InMemory(r)
          BY <5>3 DEF InMemory, Becomes
        <5> QED
          BY <2>1, <3>4, <5>1, <5>2, <5>3 DEF Does
      <4> HIDE DEF x, y
      <4> QED
        BY <1>0, <2>3, <4>1
    <3> QED
      BY <3>1, <3>2, <3>3, <3>4
  <2> QED
    BY <2>1, <2>2, <2>4 DEF Timed
<1>3. CASE Tick
  <2>1. clock' = clock + 1 /\ UNCHANGED <<life, req>>
    BY <1>3 DEF Tick
  <2>2. \A r \in Requests : req[r].pc \in Awaiting => req[r].at = clock
    BY <1>3 DEF Tick, InFlight
  <2>3. \A r \in Requests : req[r].at \in Nat /\ req[r].hitAt \in Nat
    BY <1>0 DEF RequestType
  <2> QED
    BY <1>0, <2>1, <2>2, <2>3 DEF Timed
<1>4. CASE Crash
  <2>1. clock' = clock /\ life' = life + 1
    BY <1>4 DEF Crash
  <2>2. ASSUME NEW r \in Requests
        PROVE  \/ req'[r] = Lost(r)
               \/ req'[r] = req[r] /\ req[r].pc \notin Awaiting
    BY <1>4, CrashIs DEF InFlight
  <2>3. \A r \in Requests : req[r].at \in Nat /\ req[r].hitAt \in Nat /\ req[r].born \in Nat
    BY <1>0 DEF RequestType
  <2> SUFFICES ASSUME NEW r \in Requests
               PROVE  /\ req'[r].at <= clock /\ req'[r].hitAt <= clock
                      /\ req'[r].born <= life + 1
                      /\ req'[r].pc \notin Awaiting
                      /\ req'[r].pc \in {"none", "allowed", "fallback", "hit"}
                             => req'[r].hitAt = 0
    BY <2>1 DEF Timed
  <2>4. CASE req'[r] = Lost(r)
    BY <1>0, <2>4 DEF Timed, Lost
  <2>5. CASE req'[r] = req[r] /\ req[r].pc \notin Awaiting
    BY <1>0, <2>3, <2>5 DEF Timed
  <2> QED
    BY <2>2, <2>4, <2>5
<1> QED
  BY <1>1, <1>2, <1>3, <1>4 DEF Next, vars, GoAway, ComeBack, KeyEnds

LEMMA TimedInvariant == Spec => []Timed
<1>1. Init => Timed
  BY DEF Init, Timed, NoRequest, Awaiting
<1> QED
  BY <1>1, TimedStep, TypedInvariant, PTL DEF Spec

-----------------------------------------------------------------------------
(* The limit is held *)

Fresh(r) == req[r].pc = "allowed" /\ req[r].at + Window > clock

\* Requests let through by the memory of one life of the process.
Share(b) == {r \in Requests : Fresh(r) /\ req[r].by = "memory" /\ req[r].born = b}

\* A request that was let through has its entry in the store that counted it as
\* long as it counts; what an earlier life let through was bounded then.
Accounted ==
    /\ \A r \in Requests :
          Fresh(r) /\ (req[r].by = "memory" => req[r].born = life)
              => Entry(r, req[r].at) \in window[req[r].by]
    /\ \A b \in Nat : b < life => Cardinality(Share(b)) <= Limit

\* Requests with an entry each are no more than the limit.
LEMMA EntriesBound ==
    ASSUME Typed, NEW S \in SUBSET Requests, NEW s \in Stores,
           \A r \in S : Entry(r, req[r].at) \in window[s]
    PROVE  IsFiniteSet(S) /\ Cardinality(S) <= Limit
<1> DEFINE f == [r \in S |-> Entry(r, req[r].at)]
<1>1. IsFiniteSet(window[s]) /\ Cardinality(window[s]) <= Limit
  BY DEF Typed, WindowTyped
<1>2. f \in Injection(S, window[s])
  BY DEF Injection, IsInjective, Entry
<1>3. IsFiniteSet(S) /\ Cardinality(S) <= Cardinality(window[s])
  BY <1>1, <1>2, FS_Injection
<1>4. Cardinality(S) \in Nat /\ Cardinality(window[s]) \in Nat
  BY <1>1, <1>3, FS_CardinalityType
<1> QED
  BY <1>1, <1>3, <1>4

LEMMA ShareBound ==
    ASSUME Typed, Timed, Accounted, NEW b \in Nat
    PROVE  IsFiniteSet(Share(b)) /\ Cardinality(Share(b)) <= Limit
<1>1. Share(b) \in SUBSET Requests /\ "memory" \in Stores
  BY DEF Share, Stores
<1>2. IsFiniteSet(Share(b))
  BY <1>1, FS_Subset
<1>3. CASE b < life
  BY <1>2, <1>3 DEF Accounted
<1>4. CASE b = life
  <2>1. \A r \in Share(b) : Entry(r, req[r].at) \in window["memory"]
    BY <1>4 DEF Share, Accounted
  <2> QED
    BY <1>1, <2>1, EntriesBound
<1>5. CASE b > life
  <2>1. \A r \in Requests : req[r].born <= life /\ req[r].born \in Nat
    BY DEF Timed, Typed, RequestType
  <2>2. Share(b) = {}
    BY <1>5, <2>1 DEF Share, Typed, CountersTyped
  <2>3. Cardinality(Share(b)) = 0
    BY <2>2, FS_EmptySet
  <2> QED
    BY <1>2, <2>3
<1> QED
  BY <1>3, <1>4, <1>5 DEF Typed, CountersTyped

\* A share only shrinks, except that of the life that counts.
LEMMA ShareShrinks ==
    ASSUME Typed, Timed, Accounted, NEW b \in Nat, Share(b)' \subseteq Share(b)
    PROVE  Cardinality(Share(b))' <= Limit
<1>1. IsFiniteSet(Share(b)) /\ Cardinality(Share(b)) <= Limit
  BY ShareBound
<1>2. PICK T : T = Share(b)'
  OBVIOUS
<1>3. IsFiniteSet(T) /\ Cardinality(T) <= Cardinality(Share(b))
  BY <1>1, <1>2, FS_Subset
<1>4. Cardinality(T) \in Nat /\ Cardinality(Share(b)) \in Nat
  BY <1>1, <1>3, FS_CardinalityType
<1>5. Cardinality(T) <= Limit
  BY <1>1, <1>3, <1>4
<1> QED
  BY <1>2, <1>5

LEMMA AccountedStep ==
    ASSUME Typed, Timed, Accounted, [Next]_vars
    PROVE  Accounted'
<1>0. /\ clock \in Nat /\ life \in Nat /\ window \in [Stores -> SUBSET Entries]
      /\ \A r \in Requests : req[r].at \in Nat /\ req[r].by \in Stores /\ req[r].born \in Nat
  BY DEF Typed, CountersTyped, WindowTyped, RequestType
<1>1. CASE UNCHANGED <<clock, life, req, window>>
  BY <1>1 DEF Accounted, Share, Fresh
<1>2. ASSUME NEW r \in Requests, Step(r)
      PROVE  Accounted'
  <2>1. Does(r) /\ UNCHANGED <<clock, life>>
    BY <1>2, StepIs
  <2>2. \A q \in Requests : q # r => req'[q] = req[q]
    BY <2>1 DEF Does, Checked, Thrown, Begun, Added, PrunedOld, Counted, Expired, Dropped,
                InMemory, Flagged, GoesOn, Becomes
  <2>3. \/ Checked(r)
        \/ req'[r].pc # "allowed"
    <3>1. CASE Thrown(r) \/ Begun(r)
      BY <3>1 DEF Thrown, Begun, Becomes
    <3>2. CASE Added(r) \/ PrunedOld(r) \/ Counted(r) \/ Dropped(r) \/ Flagged(r)
      BY <3>2 DEF Added, PrunedOld, Counted, Dropped, Flagged, GoesOn, Becomes
    <3>3. CASE Expired(r)
      BY <3>3 DEF Expired, GoesOn, Becomes
    <3>4. CASE InMemory(r)
      BY <3>4 DEF InMemory, Becomes
    <3> QED
      BY <2>1, <3>1, <3>2, <3>3, <3>4 DEF Does
  <2>4. req'[r].pc = "allowed" =>
            /\ req'[r].at = clock /\ req'[r].by \in Stores /\ req'[r].born = life
            /\ Entry(r, clock) \in window'[req'[r].by]
    <3>1. CASE Checked(r)
      BY <1>0, <3>1 DEF Checked, Becomes
    <3> QED
      BY <2>3, <3>1
  <2>5. ASSUME NEW s \in Stores, NEW e \in window[s], e.at + Window > clock
        PROVE  e \in window'[s]
    <3>1. e \in Pruned(window[s], clock, Window)
      BY <2>5 DEF Pruned
    <3>2. CASE Checked(r)
      BY <1>0, <3>1, <3>2 DEF Checked
    <3>3. CASE Thrown(r)
      <4>1. \/ window' = window
            \/ window' = [window EXCEPT !["redis"] = Pruned(window["redis"], clock, Window)]
            \/ window' = [window EXCEPT !["redis"] =
                              Pruned(window["redis"], clock, Window) \cup {Entry(r, clock)}]
        BY <3>3 DEF Thrown
      <4> QED
        BY <1>0, <3>1, <4>1
    <3>4. CASE ~Checked(r) /\ ~Thrown(r)
      <4>1. window' = window
        BY <2>1, <3>4 DEF Does, Begun, Added, PrunedOld, Counted, Expired, Dropped, InMemory,
                          Flagged
      <4> QED
        BY <4>1
    <3> QED
      BY <3>2, <3>3, <3>4
  <2>6. ASSUME NEW q \in Requests, req'[q].pc = "allowed", req'[q].at + Window > clock,
               req'[q].by = "memory" => req'[q].born = life
        PROVE  Entry(q, req'[q].at) \in window'[req'[q].by]
    <3>1. CASE q = r
      BY <2>4, <2>6, <3>1
    <3>2. CASE q # r
      <4>1. Entry(q, req[q].at) \in window[req[q].by] /\ req'[q] = req[q]
        BY <2>2, <2>6, <3>2 DEF Accounted, Fresh
      <4>2. Entry(q, req[q].at).at + Window > clock
        BY <2>6, <4>1 DEF Entry
      <4> QED
        BY <1>0, <2>5, <4>1, <4>2
    <3> QED
      BY <3>1, <3>2
  <2>7. ASSUME NEW b \in Nat, b < life
        PROVE  Cardinality(Share(b))' <= Limit
    <3>1. Share(b)' \subseteq Share(b)
      BY <1>0, <2>1, <2>2, <2>4, <2>7 DEF Share, Fresh
    <3> QED
      BY <3>1, ShareShrinks
  <2> QED
    BY <2>1, <2>6, <2>7 DEF Accounted, Fresh
<1>3. CASE Tick
  <2>1. clock' = clock + 1 /\ UNCHANGED <<life, req, window>>
    BY <1>3 DEF Tick
  <2>2. \A r \in Requests : Fresh(r)' => Fresh(r)
    BY <1>0, <2>1 DEF Fresh
  <2>3. ASSUME NEW b \in Nat, b < life
        PROVE  Cardinality(Share(b))' <= Limit
    <3>1. Share(b)' \subseteq Share(b)
      BY <2>1, <2>2 DEF Share
    <3> QED
      BY <3>1, ShareShrinks
  <2> QED
    BY <2>1, <2>2, <2>3 DEF Accounted
<1>4. CASE Crash
  <2>1. clock' = clock /\ life' = life + 1
    BY <1>4 DEF Crash
  <2>2. ASSUME NEW r \in Requests
        PROVE  \/ req'[r].pc = "gone"
               \/ req'[r] = req[r]
    BY <1>4, CrashIs DEF Lost
  <2>3. \A r \in Requests : Fresh(r)' => Fresh(r) /\ req'[r] = req[r]
    BY <2>1, <2>2 DEF Fresh
  <2>4. ASSUME NEW r \in Requests, Fresh(r)', req'[r].by = "memory" => req'[r].born = life'
        PROVE  Entry(r, req'[r].at) \in window'[req'[r].by]
    <3>1. Fresh(r) /\ req'[r] = req[r]
      BY <2>3, <2>4
    <3>2. req[r].born <= life
      BY DEF Timed
    <3>3. req[r].by = "redis"
      BY <1>0, <2>1, <2>4, <3>1, <3>2 DEF Stores
    <3> QED
      BY <1>4, <3>1, <3>3, CrashIs DEF Accounted
  <2>5. ASSUME NEW b \in Nat
        PROVE  Cardinality(Share(b))' <= Limit
    <3>1. Share(b)' \subseteq Share(b)
      BY <2>3 DEF Share
    <3> QED
      BY <3>1, ShareShrinks
  <2> QED
    BY <2>4, <2>5 DEF Accounted
<1> QED
  BY <1>1, <1>2, <1>3, <1>4 DEF Next, vars, GoAway, ComeBack, KeyEnds

LEMMA AccountedInvariant == Spec => []Accounted
<1>1. Init => Accounted
  BY DEF Init, Accounted, Fresh, NoRequest
<1> QED
  BY <1>1, AccountedStep, TypedInvariant, TimedInvariant, PTL DEF Spec

LEMMA LimitHolds ==
    ASSUME Typed, Timed, Accounted
    PROVE  LimitHeld
<1> DEFINE passed == {r \in Requests : req[r].pc = "allowed" /\ req[r].at + Window > clock}
           stores == {<<"redis">> : r \in {q \in passed : req[q].by = "redis"}}
                     \cup {<<"memory", req[r].born>> : r \in {q \in passed : req[q].by = "memory"}}
           counter(r) == IF req[r].by = "redis" THEN <<"redis">> ELSE <<"memory", req[r].born>>
           f == [r \in passed |-> counter(r)]
<1>1. \A r \in passed : r \in Requests /\ Fresh(r) /\ req[r].by \in {"redis", "memory"}
                        /\ req[r].born \in Nat
  BY DEF Fresh, Typed, RequestType, Stores
<1>2. IsFiniteSet(passed)
  BY FS_Subset
<1>3. f \in [passed -> stores]
  BY <1>1
<1>4. \A k \in stores : \E r \in passed : f[r] = k
  BY <1>1
<1>5. IsFiniteSet(stores)
  <2>1. f \in Surjection(passed, stores)
    BY <1>3, <1>4 DEF Surjection
  <2> QED
    BY <1>2, <2>1, FS_Surjection
<1>6. ASSUME NEW k \in stores
      PROVE  Cardinality({r \in passed : f[r] = k}) <= Limit
  <2>1. CASE k = <<"redis">>
    <3>1. {r \in passed : f[r] = k} = {r \in passed : req[r].by = "redis"}
      BY <1>1, <2>1
    <3> DEFINE S == {r \in passed : req[r].by = "redis"}
    <3>2. S \in SUBSET Requests /\ "redis" \in Stores
      BY DEF Stores
    <3>3. \A r \in S : Entry(r, req[r].at) \in window["redis"]
      BY <1>1 DEF Accounted
    <3> HIDE DEF S
    <3>4. Cardinality(S) <= Limit
      BY <3>2, <3>3, EntriesBound
    <3> QED
      BY <3>1, <3>4 DEF S
  <2>2. ASSUME NEW b \in Nat, k = <<"memory", b>>
        PROVE  Cardinality({r \in passed : f[r] = k}) <= Limit
    <3>1. {r \in passed : f[r] = k} = Share(b)
      <4>1. ASSUME NEW r \in passed
            PROVE  f[r] = k <=> req[r].by = "memory" /\ req[r].born = b
        BY <1>1, <2>2
      <4>2. \A r \in Share(b) : r \in passed /\ req[r].by = "memory" /\ req[r].born = b
        BY DEF Share, Fresh
      <4>3. \A r \in passed : req[r].by = "memory" /\ req[r].born = b => r \in Share(b)
        BY <1>1 DEF Share
      <4> HIDE DEF f, passed
      <4> QED
        BY <4>1, <4>2, <4>3
    <3> QED
      BY <3>1, ShareBound
  <2>3. k = <<"redis">> \/ \E b \in Nat : k = <<"memory", b>>
    BY <1>1
  <2> QED
    BY <2>1, <2>2, <2>3
<1> HIDE DEF f
<1>7. Cardinality(passed) <= Limit * Cardinality(stores)
  <2> HIDE DEF passed, stores
  <2> QED
    BY <1>2, <1>3, <1>5, <1>6, PartsBound
<1> QED
  BY <1>7 DEF LimitHeld

\* However requests overlap, and whenever Redis or the process goes away, no
\* window holds more allowed requests than the limit for each store that counted
\* some of them.
THEOREM LimitHeldCorrect == Spec => []LimitHeld
  BY LimitHolds, TypedInvariant, TimedInvariant, AccountedInvariant, PTL

-----------------------------------------------------------------------------
(* Three hits flag the sender *)

\* The time of a hit is set once.
LEMMA HitAtKept ==
    ASSUME Typed, Timed, [Next]_vars, NEW q \in Requests, req[q].hitAt # 0
    PROVE  req'[q].hitAt = req[q].hitAt
<1>1. CASE UNCHANGED req
  BY <1>1
<1>2. ASSUME NEW r \in Requests, Step(r)
      PROVE  req'[q].hitAt = req[q].hitAt
  <2>1. Does(r)
    BY <1>2, StepIs
  <2>2. CASE Checked(r) \/ Thrown(r) \/ Begun(r)
    <3>1. req[r].hitAt = 0
      BY <2>2 DEF Checked, Thrown, Begun, Timed
    <3>2. q # r
      BY <3>1
    <3> QED
      BY <2>2, <3>2 DEF Checked, Thrown, Begun, Becomes
  <2>3. CASE Added(r) \/ PrunedOld(r) \/ Counted(r) \/ Expired(r) \/ Dropped(r) \/ Flagged(r)
    BY <2>3 DEF Added, PrunedOld, Counted, Expired, Dropped, Flagged, GoesOn, Becomes
  <2>4. CASE InMemory(r)
    BY <2>4 DEF InMemory, Becomes
  <2> QED
    BY <2>1, <2>2, <2>3, <2>4 DEF Does
<1>3. CASE Crash
  BY <1>3, CrashIs DEF Lost
<1> QED
  BY <1>1, <1>2, <1>3 DEF Next, vars, Tick, GoAway, ComeBack, KeyEnds

\* Where a request leaves the hits as they are it only prunes old ones, or adds
\* its own.
LEMMA HitsStay ==
    ASSUME Typed, Timed, NEW r \in Requests, Does(r), NEW s \in Stores
    PROVE  /\ \A e \in hits[s] : e.at + HitWindow > clock => e \in hits'[s]
           /\ \A e \in hits'[s] : e \in hits[s]
                 \/ /\ e = Entry(r, req[r].hitAt)
                    /\ req[r].pc \in Awaiting \ {"fallback", "hit"}
           /\ PrunedOld(r) => \A e \in hits'["redis"] : e.at + HitWindow > req[r].hitAt
           /\ UNCHANGED lapsed
<1>1. /\ hits \in [Stores -> SUBSET Entries] /\ clock \in Nat /\ HitWindow \in Nat
      /\ req[r].hitAt \in Nat /\ req[r].hitAt <= clock
  BY DEF Typed, CountersTyped, HitsTyped, RequestType, Timed
<1>2. \A e \in hits[s] : e.at \in Nat
  BY <1>1 DEF Entries
<1> DEFINE Kept == \A e \in hits[s] : e.at + HitWindow > clock => e \in hits'[s]
           Own == \A e \in hits'[s] :
                      \/ e \in hits[s]
                      \/ /\ e = Entry(r, req[r].hitAt)
                         /\ req[r].pc \in Awaiting \ {"fallback", "hit"}
<1>3. ASSUME PrunedOld(r)
      PROVE  \A e \in hits'["redis"] : e.at + HitWindow > req[r].hitAt
  <2>1. hits'["redis"] = Pruned(hits["redis"], req[r].hitAt, HitWindow)
    BY <1>1, <1>3 DEF PrunedOld, Remove, Stores
  <2> QED
    BY <2>1 DEF Pruned
<1>4. ASSUME NEW e \in hits[s], e.at + HitWindow > clock
      PROVE  e.at + HitWindow > req[r].hitAt
  BY <1>1, <1>2, <1>4
<1>9. UNCHANGED lapsed
  BY HitsBecome
<1>5. CASE UNCHANGED hits
  BY <1>3, <1>5, <1>9
<1>6. CASE /\ hits' = [hits EXCEPT !["redis"] = @ \cup {Entry(r, req[r].hitAt)}]
           /\ req[r].pc = "add"
  BY <1>1, <1>3, <1>6, <1>9 DEF Awaiting
<1>7. CASE hits' = [hits EXCEPT !["redis"] = Pruned(@, req[r].hitAt, HitWindow)]
  <2>1. hits'[s] = hits[s] \/ hits'[s] = Pruned(hits[s], req[r].hitAt, HitWindow)
    BY <1>1, <1>7
  <2>2. Kept /\ Own
    BY <1>4, <2>1 DEF Pruned
  <2> QED
    BY <1>3, <1>9, <2>2
<1>8. CASE InMemory(r)
  <2>1. /\ hits'[s] = hits[s] \/ (s = "memory" /\ hits'[s] = Recent(r))
        /\ req[r].pc \in Awaiting \ {"fallback", "hit"}
    BY <1>1, <1>8 DEF InMemory, Awaiting
  <2>2. Kept /\ Own
    BY <1>4, <2>1 DEF Pruned, Recent
  <2> QED
    BY <1>3, <1>9, <2>2
<1> QED
  BY <1>5, <1>6, <1>7, <1>8, HitsBecome

HasHit(r) == req[r].pc \in {"prune", "count", "expire", "flag", "denied"}

\* An entry is of the request that made it.  Who has recorded a hit finds it in
\* its store until it is old, or until the process with its memory is gone, or
\* the key lapsed with it.
Recorded ==
    /\ \A s \in Stores : \A e \in hits[s] : req[e.id].hitAt = e.at /\ 1 <= e.at
    /\ \A r \in Requests :
          /\ req[r].pc \notin {"flag", "denied"} => req[r].store = "redis"
          /\ HasHit(r) /\ (req[r].store = "memory" => req[r].born = life)
                => \/ Entry(r, req[r].hitAt) \in hits[req[r].store]
                   \/ req[r].hitAt + HitWindow <= clock
                   \/ r \in lapsed

LEMMA RecordedStep ==
    ASSUME Typed, Timed, Recorded, [Next]_vars
    PROVE  Recorded'
<1>0. /\ clock \in Nat /\ life \in Nat /\ HitWindow \in Nat \ {0, 1}
      /\ hits \in [Stores -> SUBSET Entries]
      /\ \A r \in Requests : req[r].hitAt \in Nat /\ req[r].store \in Stores
      /\ "redis" \in Stores /\ "memory" \in Stores
  BY DEF Typed, CountersTyped, HitsTyped, RequestType, Stores
<1>1. CASE UNCHANGED <<clock, life, req, hits, lapsed>>
  BY <1>1 DEF Recorded, HasHit
<1>2. ASSUME NEW r \in Requests, Step(r)
      PROVE  Recorded'
  <2>1. Does(r) /\ UNCHANGED <<clock, life>>
    BY <1>2, StepIs
  <2>2. \A q \in Requests : q # r => req'[q] = req[q]
    BY <2>1 DEF Does, Checked, Thrown, Begun, Added, PrunedOld, Counted, Expired, Dropped,
                InMemory, Flagged, GoesOn, Becomes
  <2>3. ASSUME NEW s \in Stores, NEW e \in hits'[s]
        PROVE  req'[e.id].hitAt = e.at /\ 1 <= e.at
    <3>1. CASE e \in hits[s]
      <4>1. e.id \in Requests /\ req[e.id].hitAt = e.at /\ 1 <= e.at
        BY <1>0, <3>1 DEF Recorded, Entries
      <4> QED
        BY <4>1, HitAtKept
    <3>2. CASE e = Entry(r, req[r].hitAt) /\ req[r].pc \in Awaiting \ {"fallback", "hit"}
      <4>1. e.id = r /\ e.at = req[r].hitAt /\ 1 <= req[r].hitAt
        BY <3>2 DEF Entry, Timed
      <4> QED
        BY <1>0, <4>1, HitAtKept
    <3> QED
      BY <2>1, <3>1, <3>2, HitsStay
  <2> DEFINE x == req[r]
             y == req'[r]
  <2>4. y.pc \notin {"flag", "denied"} => y.store = "redis"
    <3>1. x.pc \notin {"flag", "denied"} => x.store = "redis"
      BY DEF Recorded
    <3>2. CASE Thrown(r) \/ Begun(r)
      BY <3>1, <3>2 DEF Thrown, Begun, Becomes
    <3>6. CASE Checked(r)
      BY <3>6 DEF Checked, Becomes
    <3>3. CASE Added(r) \/ PrunedOld(r) \/ Counted(r) \/ Dropped(r)
      BY <3>1, <3>3 DEF Added, PrunedOld, Counted, Dropped, GoesOn, Becomes
    <3>4. CASE Expired(r)
      BY <3>1, <3>4 DEF Expired, GoesOn, Becomes
    <3>5. CASE InMemory(r) \/ Flagged(r)
      BY <3>5 DEF InMemory, Flagged, GoesOn, Becomes
    <3> QED
      BY <2>1, <3>2, <3>3, <3>4, <3>5, <3>6 DEF Does
  <2>5. ASSUME NEW q \in Requests, HasHit(q), req[q].store = "memory" => req[q].born = life,
               req'[q].hitAt = req[q].hitAt, req'[q].store = req[q].store
        PROVE  \/ Entry(q, req'[q].hitAt) \in hits'[req'[q].store]
               \/ req'[q].hitAt + HitWindow <= clock
               \/ q \in lapsed'
    <3> DEFINE e == Entry(q, req[q].hitAt)
    <3>1. e.at = req[q].hitAt
      BY DEF Entry
    <3>2. CASE e \in hits[req[q].store] /\ e.at + HitWindow > clock
      BY <1>0, <2>1, <2>5, <3>2, HitsStay
    <3>3. CASE ~(e \in hits[req[q].store] /\ e.at + HitWindow > clock)
      BY <1>0, <2>1, <2>5, <3>1, <3>3, HitsBecome DEF Recorded
    <3> QED
      BY <3>2, <3>3
  <2>6. ASSUME HasHit(r)', y.store = "memory" => y.born = life
        PROVE  \/ Entry(r, y.hitAt) \in hits'[y.store]
               \/ y.hitAt + HitWindow <= clock
               \/ r \in lapsed'
    <3>1. CASE Added(r)
      <4>1. y.hitAt = x.hitAt /\ y.store = "redis"
        BY <3>1 DEF Added, GoesOn, Becomes, Recorded
      <4> QED
        BY <1>0, <3>1, <4>1 DEF Added, Add
    <3>2. CASE PrunedOld(r) \/ Counted(r) \/ Flagged(r)
      <4>1. HasHit(r) /\ y.hitAt = x.hitAt /\ y.store = x.store /\ y.born = x.born
        BY <3>2 DEF PrunedOld, Counted, Flagged, GoesOn, Becomes, HasHit
      <4> QED
        BY <2>5, <2>6, <4>1
    <3>3. CASE Expired(r)
      <4>1. HasHit(r) /\ y.hitAt = x.hitAt /\ y.store = x.store /\ y.born = x.born
        BY <3>3 DEF Expired, GoesOn, Becomes, HasHit
      <4> QED
        BY <2>5, <2>6, <4>1
    <3>4. CASE InMemory(r)
      <4>1. y.hitAt = x.hitAt /\ y.store = "memory" /\ hits'["memory"] = Recent(r)
        BY <1>0, <3>4 DEF InMemory, Becomes
      <4>2. x.hitAt + HitWindow > x.hitAt
        BY <1>0
      <4>3. Entry(r, x.hitAt) \in Recent(r)
        BY <4>2 DEF Recent, Pruned, Entry
      <4> QED
        BY <4>1, <4>3
    <3>5. CASE Checked(r) \/ Thrown(r) \/ Begun(r) \/ Dropped(r)
      <4>1. y.pc \in {"allowed", "hit", "fallback", "add", "dropped"}
        <5>1. CASE Checked(r)
          BY <5>1 DEF Checked, Becomes
        <5>2. CASE Thrown(r) \/ Begun(r) \/ Dropped(r)
          BY <5>2 DEF Thrown, Begun, Dropped, GoesOn, Becomes
        <5> QED
          BY <3>5, <5>1, <5>2
      <4> QED
        BY <2>6, <4>1 DEF HasHit
    <3> QED
      BY <2>1, <3>1, <3>2, <3>3, <3>4, <3>5 DEF Does
  <2>7. ASSUME NEW q \in Requests
        PROVE  /\ req'[q].pc \notin {"flag", "denied"} => req'[q].store = "redis"
               /\ HasHit(q)' /\ (req'[q].store = "memory" => req'[q].born = life)
                     => \/ Entry(q, req'[q].hitAt) \in hits'[req'[q].store]
                        \/ req'[q].hitAt + HitWindow <= clock
                        \/ q \in lapsed'
    <3>1. CASE q = r
      BY <2>4, <2>6, <3>1
    <3>2. CASE q # r
      <4>1. req'[q] = req[q]
        BY <2>2, <3>2
      <4> QED
        BY <2>5, <4>1 DEF HasHit, Recorded
    <3> QED
      BY <3>1, <3>2
  <2> QED
    BY <2>1, <2>3, <2>7 DEF Recorded
<1>3. CASE Tick
  BY <1>0, <1>3 DEF Tick, counted, Recorded, HasHit
<1>4. CASE Crash
  <2>1. /\ clock' = clock /\ life' = life + 1 /\ hits'["memory"] = {}
        /\ hits'["redis"] = hits["redis"] /\ lapsed' = lapsed
    BY <1>4, CrashIs DEF Crash
  <2>2. ASSUME NEW s \in Stores, NEW e \in hits'[s]
        PROVE  req'[e.id].hitAt = e.at /\ 1 <= e.at
    <3>1. s = "redis" /\ e \in hits["redis"]
      BY <2>1, <2>2 DEF Stores
    <3>2. e.id \in Requests /\ req[e.id].hitAt = e.at /\ 1 <= e.at
      BY <1>0, <3>1 DEF Recorded, Entries
    <3> QED
      BY <3>2, HitAtKept
  <2>3. ASSUME NEW q \in Requests
        PROVE  /\ req'[q].pc \notin {"flag", "denied"} => req'[q].store = "redis"
               /\ HasHit(q)' /\ (req'[q].store = "memory" => req'[q].born = life')
                     => \/ Entry(q, req'[q].hitAt) \in hits'[req'[q].store]
                        \/ req'[q].hitAt + HitWindow <= clock
                        \/ q \in lapsed'
    <3>1. CASE req'[q] = Lost(q)
      BY <3>1 DEF Lost, HasHit
    <3>2. CASE req'[q] = req[q]
      <4>1. req[q].born <= life /\ req[q].born \in Nat
        BY DEF Timed, Typed, RequestType
      <4>2. req[q].store = "redis" \/ req[q].born # life'
        BY <1>0, <2>1, <4>1
      <4>3. req[q].store \in {"redis", "memory"}
        BY <1>0 DEF Stores
      <4> QED
        BY <2>1, <3>2, <4>2, <4>3 DEF Recorded, HasHit
    <3> QED
      BY <1>4, <3>1, <3>2, CrashIs
  <2> QED
    BY <2>1, <2>2, <2>3 DEF Recorded
<1>5. CASE KeyEnds
  <2>1. /\ UNCHANGED <<clock, life, req>> /\ hits'["redis"] = {} /\ hits'["memory"] = hits["memory"]
        /\ lapsed' = lapsed \cup {e.id : e \in {d \in hits["redis"] : d.at + HitWindow > clock}}
    BY <1>0, <1>5 DEF KeyEnds
  <2>2. ASSUME NEW q \in Requests, Entry(q, req[q].hitAt) \in hits["redis"]
        PROVE  req[q].hitAt + HitWindow <= clock \/ q \in lapsed'
    <3>1. Entry(q, req[q].hitAt).id = q /\ Entry(q, req[q].hitAt).at = req[q].hitAt
      BY DEF Entry
    <3> QED
      BY <1>0, <2>1, <2>2, <3>1
  <2>3. \A s \in Stores : \A e \in hits'[s] : e \in hits[s]
    BY <2>1 DEF Stores
  <2>4. ASSUME NEW q \in Requests, HasHit(q), req[q].store = "memory" => req[q].born = life
        PROVE  \/ Entry(q, req[q].hitAt) \in hits'[req[q].store]
               \/ req[q].hitAt + HitWindow <= clock
               \/ q \in lapsed'
    <3>1. \/ Entry(q, req[q].hitAt) \in hits[req[q].store]
          \/ req[q].hitAt + HitWindow <= clock
          \/ q \in lapsed
      BY <2>4 DEF Recorded
    <3>2. req[q].store \in {"redis", "memory"}
      BY <1>0 DEF Stores
    <3> QED
      BY <2>1, <2>2, <3>1, <3>2
  <2> QED
    BY <2>1, <2>3, <2>4 DEF Recorded, HasHit
<1> QED
  BY <1>1, <1>2, <1>3, <1>4, <1>5 DEF Next, vars, counted, GoAway, ComeBack

LEMMA RecordedInvariant == Spec => []Recorded
<1>1. Init => Recorded
  BY DEF Init, Recorded, HasHit, NoRequest
<1> QED
  BY <1>1, RecordedStep, TypedInvariant, TimedInvariant, PTL DEF Spec

HasCounted(r) == req[r].pc \in {"expire", "flag", "denied"}
Enough(r) == req[r].pc = "flag" \/ (req[r].pc = "expire" /\ req[r].count >= HitsToFlag)

\* The hits of a set of requests are in one store and near each other.
Together(t) ==
    \A q, r \in t :
        /\ req[q].store = req[r].store
        /\ req[q].store = "memory" => req[q].born = req[r].born
        /\ req[r].hitAt + 1 < req[q].hitAt + HitWindow

\* Of three such requests that have counted, and have not lapsed, one has counted
\* the others.
LastCounts ==
    \A t \in Triples({r \in Requests : HasCounted(r)} \ lapsed) :
        Together(t) => flagged \/ \E r \in t : Enough(r)

\* A store that has the entries of three requests has three entries.
LEMMA TripleCount ==
    ASSUME NEW S, IsFiniteSet(S), NEW t, Cardinality(t) = HitsToFlag,
           \A q \in t : Entry(q, req[q].hitAt) \in S
    PROVE  Cardinality(S) >= HitsToFlag
<1> DEFINE f == [q \in t |-> Entry(q, req[q].hitAt)]
<1>1. f \in Injection(t, S)
  BY DEF Injection, IsInjective, Entry
<1>2. Cardinality(t) <= Cardinality(S)
  BY <1>1, FS_Injection
<1>3. Cardinality(S) \in Nat
  BY FS_CardinalityType
<1> QED
  BY <1>2, <1>3 DEF HitsToFlag

\* The entries of hits near one that is being recorded are still in its store.
LEMMA NearIsThere ==
    ASSUME Typed, Timed, Recorded, NEW q \in Requests, NEW r \in Requests,
           q \notin lapsed, HasHit(q), req[q].store = "memory" => req[q].born = life,
           req[r].pc \in Awaiting \ {"fallback", "hit"},
           req[r].hitAt + 1 < req[q].hitAt + HitWindow
    PROVE  Entry(q, req[q].hitAt) \in hits[req[q].store]
<1>1. clock <= req[r].hitAt + 1
  BY DEF Typed, CountersTyped, RequestType, Timed
<1>2. ~(req[q].hitAt + HitWindow <= clock)
  BY <1>1 DEF Typed, CountersTyped, RequestType
<1> QED
  BY <1>2 DEF Recorded

LEMMA LastCountsStep ==
    ASSUME Typed, Timed, Recorded, LastCounts, [Next]_vars
    PROVE  LastCounts'
<1>0. HitWindow \in Nat /\ \A r \in Requests : req[r].hitAt \in Nat /\ req[r].store \in Stores
  BY DEF Typed, RequestType
<1>1. CASE UNCHANGED <<req, flagged>> /\ lapsed \subseteq lapsed'
  <2> SUFFICES ASSUME NEW t \in Triples({q \in Requests : HasCounted(q)'} \ lapsed'), Together(t)'
               PROVE  flagged' \/ \E q \in t : Enough(q)'
    BY DEF LastCounts
  <2>1. t \in Triples({q \in Requests : HasCounted(q)} \ lapsed) /\ Together(t)
    BY <1>1 DEF Triples, HasCounted, Together
  <2> QED
    BY <1>1, <2>1 DEF LastCounts, Enough
<1>2. ASSUME NEW r \in Requests, Step(r)
      PROVE  LastCounts'
  <2>1. Does(r) /\ UNCHANGED <<clock, life>>
    BY <1>2, StepIs
  <2>2. \A q \in Requests : q # r => req'[q] = req[q]
    BY <2>1 DEF Does, Checked, Thrown, Begun, Added, PrunedOld, Counted, Expired, Dropped,
                InMemory, Flagged, GoesOn, Becomes
  <2>3. flagged => flagged'
    BY <2>1 DEF Does, Checked, Thrown, Begun, Added, PrunedOld, Counted, Expired, Dropped,
                InMemory, Flagged
  <2> SUFFICES ASSUME NEW t \in Triples({q \in Requests : HasCounted(q)'} \ lapsed'), Together(t)'
               PROVE  flagged' \/ \E q \in t : Enough(q)'
    BY DEF LastCounts
  <2>4. /\ t \subseteq Requests /\ Cardinality(t) = HitsToFlag /\ \A q \in t : HasCounted(q)'
        /\ \A q \in t : q \notin lapsed
    BY <2>1, HitsBecome DEF Triples
  <2> DEFINE x == req[r]
             y == req'[r]
  <2>5. CASE r \notin t
    <3>1. \A q \in t : req'[q] = req[q]
      BY <2>2, <2>4, <2>5
    <3>2. t \in Triples({q \in Requests : HasCounted(q)} \ lapsed) /\ Together(t)
      BY <2>4, <3>1 DEF Triples, HasCounted, Together
    <3>3. flagged \/ \E q \in t : Enough(q)
      BY <3>2 DEF LastCounts
    <3> QED
      BY <2>3, <3>1, <3>3 DEF Enough
  <2>6. CASE r \in t /\ (Expired(r) \/ Flagged(r))
    <3>1. /\ x.pc \in {"expire", "flag"} /\ y.store = x.store /\ y.born = x.born
          /\ y.hitAt = x.hitAt
      <4>1. CASE Expired(r)
        BY <4>1 DEF Expired, GoesOn, Becomes
      <4>2. CASE Flagged(r)
        BY <4>2 DEF Flagged, GoesOn, Becomes
      <4> QED
        BY <2>6, <4>1, <4>2
    <3>2. \A q \in t : /\ HasCounted(q) /\ req'[q].store = req[q].store
                       /\ req'[q].born = req[q].born /\ req'[q].hitAt = req[q].hitAt
      BY <2>2, <2>4, <3>1 DEF HasCounted
    <3>3. t \in Triples({q \in Requests : HasCounted(q)} \ lapsed) /\ Together(t)
      BY <2>4, <3>2 DEF Triples, Together
    <3>4. flagged \/ \E q \in t : Enough(q)
      BY <3>3 DEF LastCounts
    <3>5. Enough(r) => flagged' \/ Enough(r)'
      <4>1. CASE Expired(r)
        BY <4>1 DEF Expired, GoesOn, Becomes, Enough
      <4>2. CASE Flagged(r)
        BY <4>2 DEF Flagged
      <4> QED
        BY <2>6, <4>1, <4>2
    <3>6. \A q \in t : q # r => (Enough(q) => Enough(q)')
      BY <2>2, <2>4 DEF Enough
    <3> QED
      BY <2>3, <2>6, <3>4, <3>5, <3>6
  <2>7. ASSUME NEW q \in t, q # r, r \in t,
               x.pc \in Awaiting \ {"fallback", "hit"}, y.hitAt = x.hitAt, y.born = x.born
        PROVE  /\ req[q].store = y.store /\ req[q].hitAt + HitWindow > x.hitAt
               /\ Entry(q, req[q].hitAt) \in hits[y.store]
    <3>1. req'[q] = req[q] /\ q \in Requests /\ HasHit(q)
      BY <2>2, <2>4, <2>7 DEF HasCounted, HasHit
    <3>2. /\ req[q].store = y.store
          /\ req[q].store = "memory" => req[q].born = x.born
          /\ x.hitAt + 1 < req[q].hitAt + HitWindow
      BY <2>7, <3>1 DEF Together
    <3>3. x.born = life
      BY <2>7 DEF Timed
    <3>4. Entry(q, req[q].hitAt) \in hits[req[q].store]
      BY <2>4, <2>7, <3>1, <3>2, <3>3, NearIsThere
    <3>5. req[q].hitAt \in Nat /\ x.hitAt \in Nat
      BY <1>0, <3>1
    <3> QED
      BY <1>0, <3>2, <3>4, <3>5
  <2>8. CASE r \in t /\ Counted(r)
    <3>1. /\ x.pc = "count" /\ y.hitAt = x.hitAt /\ y.born = x.born /\ y.store = x.store
          /\ y.pc = "expire" /\ y.count = Cardinality(hits["redis"])
      BY <2>8 DEF Counted, GoesOn, Becomes
    <3>2. x.store = "redis" /\ HasHit(r)
      BY <3>1 DEF Recorded, HasHit
    <3>3. x.hitAt + 1 < x.hitAt + HitWindow
      BY <2>8, <3>1 DEF Together
    <3>4. Entry(r, x.hitAt) \in hits["redis"]
      BY <2>4, <2>8, <3>1, <3>2, <3>3, NearIsThere DEF Awaiting
    <3>5. \A q \in t : Entry(q, req[q].hitAt) \in hits["redis"]
      BY <2>7, <2>8, <3>1, <3>2, <3>4 DEF Awaiting
    <3>6. IsFiniteSet(hits["redis"])
      BY DEF Typed, HitsTyped, Stores
    <3>7. Cardinality(hits["redis"]) >= HitsToFlag
      BY <2>4, <3>5, <3>6, TripleCount
    <3> QED
      BY <2>8, <3>1, <3>7 DEF Enough
  <2>9. CASE r \in t /\ InMemory(r)
    <3>1. /\ x.pc \in Awaiting \ {"fallback", "hit"} /\ y.hitAt = x.hitAt /\ y.born = x.born
          /\ y.store = "memory"
          /\ y.pc = IF Cardinality(Recent(r)) >= HitsToFlag THEN "flag" ELSE "denied"
      BY <2>9 DEF InMemory, Becomes, Awaiting
    <3>2. x.hitAt < x.hitAt + HitWindow
      BY <1>0
    <3>3. Entry(r, x.hitAt) \in Recent(r)
      BY <3>2 DEF Recent, Pruned, Entry
    <3>4. ASSUME NEW q \in t, q # r
          PROVE  Entry(q, req[q].hitAt) \in Recent(r)
      BY <2>7, <2>9, <3>1, <3>4 DEF Recent, Pruned, Entry
    <3>5. \A q \in t : Entry(q, req[q].hitAt) \in Recent(r)
      BY <3>3, <3>4
    <3>6. IsFiniteSet(Recent(r))
      <4>1. IsFiniteSet(hits["memory"])
        BY DEF Typed, HitsTyped, Stores
      <4>2. IsFiniteSet(hits["memory"] \cup {Entry(r, x.hitAt)})
        BY <4>1, FS_AddElement
      <4>3. Recent(r) \subseteq hits["memory"] \cup {Entry(r, x.hitAt)}
        BY DEF Recent, Pruned
      <4> QED
        BY <4>2, <4>3, FS_Subset
    <3>7. Cardinality(Recent(r)) >= HitsToFlag
      BY <2>4, <3>5, <3>6, TripleCount
    <3> QED
      BY <2>9, <3>1, <3>7 DEF Enough
  <2>10. CASE \/ Checked(r) \/ Thrown(r) \/ Begun(r) \/ Added(r) \/ PrunedOld(r) \/ Dropped(r)
    <3>1. y.pc \notin {"expire", "flag", "denied"}
      <4>1. CASE Checked(r)
        BY <4>1 DEF Checked, Becomes
      <4>2. CASE ~Checked(r)
        BY <2>10, <4>2 DEF Thrown, Begun, Added, PrunedOld, Dropped, GoesOn, Becomes
      <4> QED
        BY <4>1, <4>2
    <3>2. r \notin t
      BY <2>4, <3>1 DEF HasCounted
    <3> QED
      BY <2>5, <3>2
  <2> QED
    BY <2>1, <2>5, <2>6, <2>8, <2>9, <2>10 DEF Does
<1>3. CASE Crash
  <2>1. flagged' = flagged /\ lapsed' = lapsed
    BY <1>3 DEF Crash
  <2> SUFFICES ASSUME NEW t \in Triples({q \in Requests : HasCounted(q)'} \ lapsed'), Together(t)'
               PROVE  flagged'
    BY DEF LastCounts
  <2>2. /\ t \subseteq Requests /\ Cardinality(t) = HitsToFlag
        /\ \A q \in t : HasCounted(q)' /\ q \notin lapsed
    BY <2>1 DEF Triples
  <2>3. \A q \in t : req'[q] = req[q] /\ req[q].pc \notin Awaiting
    BY <1>3, <2>2, CrashIs DEF HasCounted, Lost, InFlight
  <2>4. t \in Triples({q \in Requests : HasCounted(q)} \ lapsed) /\ Together(t)
    BY <2>1, <2>2, <2>3 DEF Triples, HasCounted, Together
  <2>5. \A q \in t : ~Enough(q)
    BY <2>3 DEF Enough, Awaiting
  <2> QED
    BY <2>1, <2>4, <2>5 DEF LastCounts
<1> QED
  BY <1>1, <1>2, <1>3 DEF Next, vars, counted, Tick, KeyEnds, GoAway, ComeBack

\* Three hits near each other in one store flag the sender, however the calls
\* that recorded them overlapped and whatever failed meanwhile: the last of them
\* to count finds the entries of all three, since what it may prune is older, and
\* what the end of the key takes along counts as lapsed.
THEOREM ThreeHitsFlagCorrect == Spec => []ThreeHitsFlag
<1>1. Init => LastCounts
  <2> SUFFICES ASSUME Init, NEW t \in Triples({r \in Requests : HasCounted(r)} \ lapsed)
               PROVE  FALSE
    BY DEF LastCounts
  <2>1. t = {}
    BY DEF Init, Triples, HasCounted, NoRequest
  <2>2. Cardinality(t) = 3
    BY DEF Triples, HitsToFlag
  <2> QED
    BY <2>1, <2>2, FS_EmptySet
<1>2. LastCounts => ThreeHitsFlag
  <2> SUFFICES ASSUME LastCounts,
                      NEW t \in Triples({r \in Requests : req[r].pc = "denied"} \ lapsed),
                      Together(t)
               PROVE  flagged
    BY DEF ThreeHitsFlag, Together
  <2>1. t \in Triples({r \in Requests : HasCounted(r)} \ lapsed) /\ \A r \in t : ~Enough(r)
    BY DEF Triples, HasCounted, Enough
  <2> QED
    BY <2>1 DEF LastCounts
<1> QED
  BY <1>1, <1>2, LastCountsStep, TypedInvariant, TimedInvariant, RecordedInvariant, PTL DEF Spec

-----------------------------------------------------------------------------
(* A flag is earned *)

Evidence ==
    \E t \in Triples({r \in Requests : req[r].hitAt # 0}) :
        \A q, r \in t : req[r].hitAt <= req[q].hitAt + HitWindow

\* Three entries near each other are evidence.
LEMMA EvidenceFrom ==
    ASSUME NEW S, IsFiniteSet(S), Cardinality(S) >= HitsToFlag,
           \A e \in S : /\ e \in Entries /\ req[e.id].hitAt = e.at /\ 1 <= e.at
                        /\ \A f \in S : e.at <= f.at + HitWindow
    PROVE  Evidence
<1>1. PICK d \in S, e \in S, f \in S : d # e /\ d # f /\ e # f
  BY ThreeElements DEF HitsToFlag
<1>2. \A a, b \in S : a # b => a.id # b.id
  <2>1. \A a \in S : a = [id |-> a.id, at |-> req[a.id].hitAt]
    BY DEF Entries
  <2> QED
    BY <2>1
<1> DEFINE t == {d.id, e.id, f.id}
<1>3. Cardinality(t) = HitsToFlag
  BY <1>1, <1>2, ThreeElements DEF HitsToFlag
<1>4. \A q \in t : \E a \in S : a.id = q /\ q \in Requests /\ req[q].hitAt = a.at /\ req[q].hitAt # 0
  <2>1. \A a \in S : a.id \in Requests /\ a.at \in Nat /\ a.at # 0
    BY DEF Entries
  <2> QED
    BY <2>1
<1>5. t \in Triples({r \in Requests : req[r].hitAt # 0})
  BY <1>3, <1>4 DEF Triples
<1>6. \A q, r \in t : req[r].hitAt <= req[q].hitAt + HitWindow
  BY <1>4
<1> QED
  BY <1>5, <1>6 DEF Evidence

LEMMA EvidenceStays ==
    ASSUME Typed, Timed, [Next]_vars, Evidence
    PROVE  Evidence'
<1>1. PICK t \in Triples({r \in Requests : req[r].hitAt # 0}) :
          \A q, r \in t : req[r].hitAt <= req[q].hitAt + HitWindow
  BY DEF Evidence
<1>2. t \subseteq Requests /\ Cardinality(t) = HitsToFlag /\ \A r \in t : req[r].hitAt # 0
  BY DEF Triples
<1>3. \A r \in t : req'[r].hitAt = req[r].hitAt
  BY <1>2, HitAtKept
<1>4. t \in Triples({r \in Requests : req'[r].hitAt # 0})
  BY <1>2, <1>3 DEF Triples
<1> QED
  BY <1>1, <1>3, <1>4 DEF Evidence

\* Who is about to count has pruned what was too old for its hit, and what came
\* since is of its time; whoever has counted three has evidence.
Earned ==
    /\ \A r \in Requests : req[r].pc = "count" =>
          \A e \in hits["redis"] : req[r].hitAt + 1 <= e.at + HitWindow
    /\ flagged \/ (\E r \in Requests : Enough(r)) => Evidence

\* Entries are of the past.
LEMMA EntriesPast ==
    ASSUME Typed, Timed, Recorded, NEW s \in Stores, NEW e \in hits[s]
    PROVE  /\ e \in Entries /\ e.id \in Requests /\ e.at \in Nat
           /\ req[e.id].hitAt = e.at /\ 1 <= e.at /\ e.at <= clock
<1>1. e \in Entries /\ e.id \in Requests /\ e.at \in Nat
  BY DEF Typed, HitsTyped, Entries
<1>2. req[e.id].hitAt = e.at /\ 1 <= e.at
  BY DEF Recorded
<1> QED
  BY <1>1, <1>2 DEF Timed

LEMMA EarnedStep ==
    ASSUME Typed, Timed, Recorded, Earned, [Next]_vars
    PROVE  Earned'
<1>0. /\ HitWindow \in Nat \ {0, 1} /\ clock \in Nat /\ "redis" \in Stores /\ "memory" \in Stores
      /\ \A r \in Requests : req[r].hitAt \in Nat
  BY DEF Typed, CountersTyped, RequestType, Stores
<1>1. CASE UNCHANGED <<req, flagged>> /\ hits'["redis"] \subseteq hits["redis"]
  BY <1>1 DEF Earned, Evidence, Enough
<1>2. ASSUME NEW r \in Requests, Step(r)
      PROVE  Earned'
  <2>1. Does(r) /\ UNCHANGED <<clock, life>>
    BY <1>2, StepIs
  <2>2. \A q \in Requests : q # r => req'[q] = req[q]
    BY <2>1 DEF Does, Checked, Thrown, Begun, Added, PrunedOld, Counted, Expired, Dropped,
                InMemory, Flagged, GoesOn, Becomes
  <2> DEFINE x == req[r]
             y == req'[r]
  <2>3. y.pc = "count" => PrunedOld(r) /\ y.hitAt = x.hitAt
    <3>1. CASE Checked(r)
      BY <3>1 DEF Checked, Becomes
    <3>2. CASE Expired(r)
      BY <3>2 DEF Expired, GoesOn, Becomes
    <3>3. CASE InMemory(r)
      BY <3>3 DEF InMemory, Becomes
    <3>4. CASE Thrown(r) \/ Begun(r)
      BY <3>4 DEF Thrown, Begun, Becomes
    <3>5. CASE Added(r) \/ PrunedOld(r) \/ Counted(r) \/ Dropped(r) \/ Flagged(r)
      BY <3>5 DEF Added, PrunedOld, Counted, Dropped, Flagged, GoesOn, Becomes
    <3> QED
      BY <2>1, <3>1, <3>2, <3>3, <3>4, <3>5 DEF Does
  <2>4. ASSUME NEW q \in Requests, req'[q].pc = "count", NEW e \in hits'["redis"]
        PROVE  req'[q].hitAt + 1 <= e.at + HitWindow
    <3>1. CASE q = r
      <4>1. e.at + HitWindow > x.hitAt /\ y.hitAt = x.hitAt
        BY <1>0, <2>1, <2>3, <2>4, <3>1, HitsStay
      <4>2. e.at \in Nat
        BY <1>0, <2>1, HitsTypedStep DEF HitsTyped, Entries
      <4> QED
        BY <1>0, <3>1, <4>1, <4>2
    <3>2. CASE q # r
      <4>1. req'[q] = req[q] /\ req[q].hitAt <= clock
        BY <2>2, <3>2 DEF Timed
      <4>2. CASE e \in hits["redis"]
        BY <2>4, <4>1, <4>2 DEF Earned
      <4>3. CASE e = Entry(r, x.hitAt) /\ x.pc \in Awaiting \ {"fallback", "hit"}
        <5>1. e.at = x.hitAt
          BY <4>3 DEF Entry
        <5>2. clock <= x.hitAt + 1
          BY <1>0, <4>3 DEF Timed, Typed, RequestType
        <5> QED
          BY <1>0, <4>1, <5>1, <5>2
      <4> QED
        BY <1>0, <2>1, <4>2, <4>3, HitsStay
    <3> QED
      BY <3>1, <3>2
  <2>5. Enough(r)' => Evidence
    <3>1. CASE Expired(r)
      <4>1. Enough(r)' => Enough(r)
        BY <3>1 DEF Expired, GoesOn, Becomes, Enough
      <4> QED
        BY <4>1 DEF Earned
    <3>2. CASE Counted(r)
      <4>1. /\ x.pc = "count" /\ y.pc = "expire" /\ y.count = Cardinality(hits["redis"])
        BY <3>2 DEF Counted, GoesOn, Becomes
      <4>2. clock <= x.hitAt + 1
        BY <1>0, <4>1 DEF Timed, Typed, RequestType, Awaiting
      <4>3. ASSUME NEW e \in hits["redis"]
            PROVE  /\ e \in Entries /\ req[e.id].hitAt = e.at /\ 1 <= e.at
                   /\ \A f \in hits["redis"] : e.at <= f.at + HitWindow
        <5>1. /\ e \in Entries /\ e.at \in Nat /\ req[e.id].hitAt = e.at /\ 1 <= e.at
              /\ e.at <= clock
          BY <1>0, EntriesPast
        <5>2. ASSUME NEW f \in hits["redis"]
              PROVE  e.at <= f.at + HitWindow
          <6>1. x.hitAt + 1 <= f.at + HitWindow /\ f.at \in Nat
            BY <1>0, <4>1, EntriesPast DEF Earned
          <6> QED
            BY <1>0, <4>2, <5>1, <6>1
        <5> QED
          BY <5>1, <5>2
      <4>4. IsFiniteSet(hits["redis"])
        BY <1>0 DEF Typed, HitsTyped
      <4>5. Cardinality(hits["redis"]) >= HitsToFlag => Evidence
        BY <4>3, <4>4, EvidenceFrom
      <4> QED
        BY <4>1, <4>5 DEF Enough
    <3>3. CASE InMemory(r)
      <4>1. /\ x.pc \in Awaiting \ {"fallback", "hit"}
            /\ y.pc = IF Cardinality(Recent(r)) >= HitsToFlag THEN "flag" ELSE "denied"
        BY <3>3 DEF InMemory, Becomes, Awaiting
      <4>2. clock <= x.hitAt + 1 /\ x.hitAt <= clock /\ 1 <= x.hitAt
        BY <1>0, <4>1 DEF Timed, Typed, RequestType
      <4>3. ASSUME NEW e \in Recent(r)
            PROVE  /\ e \in Entries /\ e.at \in Nat /\ req[e.id].hitAt = e.at /\ 1 <= e.at
                   /\ e.at <= clock /\ x.hitAt + 1 <= e.at + HitWindow
        <5>1. e.at + HitWindow > x.hitAt
          BY DEF Recent, Pruned
        <5>2. /\ e \in Entries /\ e.at \in Nat /\ req[e.id].hitAt = e.at /\ 1 <= e.at
              /\ e.at <= clock
          <6>1. CASE e \in hits["memory"]
            BY <1>0, <6>1, EntriesPast
          <6>2. CASE e = Entry(r, x.hitAt)
            <7>1. e = [id |-> r, at |-> x.hitAt]
              BY <6>2 DEF Entry
            <7>2. x.hitAt \in 0 .. MaxClock
              BY DEF Typed, RequestType
            <7> QED
              BY <1>0, <4>2, <7>1, <7>2 DEF Entries
          <6> QED
            BY <6>1, <6>2 DEF Recent, Pruned
        <5> QED
          BY <1>0, <5>1, <5>2
      <4>4. \A e \in Recent(r) : \A f \in Recent(r) : e.at <= f.at + HitWindow
        BY <1>0, <4>2, <4>3
      <4>5. IsFiniteSet(Recent(r))
        <5>1. IsFiniteSet(hits["memory"] \cup {Entry(r, x.hitAt)})
          BY <1>0, FS_AddElement DEF Typed, HitsTyped
        <5>2. Recent(r) \subseteq hits["memory"] \cup {Entry(r, x.hitAt)}
          BY DEF Recent, Pruned
        <5> QED
          BY <5>1, <5>2, FS_Subset
      <4>6. Cardinality(Recent(r)) >= HitsToFlag => Evidence
        BY <4>3, <4>4, <4>5, EvidenceFrom
      <4> QED
        BY <4>1, <4>6 DEF Enough
    <3>4. CASE Checked(r)
      BY <3>4 DEF Checked, Becomes, Enough
    <3>5. CASE Thrown(r) \/ Begun(r) \/ Added(r) \/ PrunedOld(r) \/ Dropped(r) \/ Flagged(r)
      BY <3>5 DEF Thrown, Begun, Added, PrunedOld, Dropped, Flagged, GoesOn, Becomes, Enough
    <3> QED
      BY <2>1, <3>1, <3>2, <3>3, <3>4, <3>5 DEF Does
  <2>6. flagged' => flagged \/ Enough(r)
    BY <2>1 DEF Does, Checked, Thrown, Begun, Added, PrunedOld, Counted, Expired, Dropped,
                InMemory, Flagged, Enough
  <2>7. flagged' \/ (\E q \in Requests : Enough(q)') => Evidence
    BY <2>2, <2>5, <2>6 DEF Earned, Enough
  <2> QED
    BY <2>4, <2>7, EvidenceStays DEF Earned
<1>3. CASE Crash
  <2>1. flagged' = flagged /\ hits'["redis"] = hits["redis"]
    BY <1>3, CrashIs DEF Crash
  <2>2. \A r \in Requests : req'[r] = Lost(r) \/ req'[r] = req[r]
    BY <1>3, CrashIs
  <2>3. ASSUME NEW r \in Requests
        PROVE  req'[r] = req[r] \/ (req'[r].pc = "gone" /\ ~Enough(r)')
    <3>1. CASE req'[r] = Lost(r)
      <4>1. req'[r].pc = "gone"
        BY <3>1 DEF Lost
      <4> QED
        BY <4>1 DEF Enough
    <3> QED
      BY <2>2, <3>1
  <2>4. flagged' \/ (\E r \in Requests : Enough(r)') => Evidence
    BY <2>1, <2>3 DEF Earned, Enough
  <2> QED
    BY <2>1, <2>3, <2>4, EvidenceStays DEF Earned
<1> QED
  BY <1>0, <1>1, <1>2, <1>3 DEF Next, vars, counted, Tick, KeyEnds, GoAway, ComeBack, Typed, HitsTyped

\* Whoever is flagged was denied three times near each other: a count never
\* takes in a hit from before the window, whoever prunes it and when.
THEOREM FlagIsEarnedCorrect == Spec => []FlagIsEarned
<1>1. Init => Earned
  BY DEF Init, Earned, Enough, NoRequest
<1>2. Earned => FlagIsEarned
  BY DEF Earned, Evidence, FlagIsEarned
<1> QED
  BY <1>1, <1>2, EarnedStep, TypedInvariant, TimedInvariant, RecordedInvariant, PTL DEF Spec
=============================================================================
