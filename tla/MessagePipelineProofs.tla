----------------------- MODULE MessagePipelineProofs -----------------------
(***************************************************************************)
(* Proofs about MessagePipeline for any number of messages, requests in    *)
(* flight and worker slots, any clock, any bound of deliveries and stalls. *)
(***************************************************************************)
EXTENDS MessagePipeline, FiniteSetTheorems, TLAPS

-----------------------------------------------------------------------------
(* Types *)

\* A request carries a message while it is being answered, a slot while it works.
RequestsCarry == \A r \in Requests : at[r] = "idle" <=> msg[r] = None
SlotsCarry == \A w \in Workers : doing[w] = "idle" <=> cur[w] = None

\* Requests that carry a message, and those that are about to enqueue it.
Carrying(m) == {r \in Requests : msg[r] = m}
Sending(m) == {r \in Requests : at[r] = "enqueue" /\ msg[r] = m}

\* A call of Queue.add that outlived its request came with a delivery.
DeliveriesCounted ==
    \A m \in Messages : adding[m] + Cardinality(Carrying(m)) <= deliveries[m]

\* A job that stalled too often was given up.
StalledBounded == \A m \in Messages : job[m] # "failed" => stalled[m] <= MaxStalled

IngressTyped == IngressTypeOK /\ RequestsCarry /\ DeliveriesCounted /\ StalledBounded

\* A slot that is to store a wallet has one; one that pays has the stored one.
WalletHeld ==
    \A w \in Workers :
        /\ doing[w] \in {"earlyCreate", "create", "reportCreate"} => wallet[w] # None
        /\ doing[w] = "pay" => wallet[w] = user /\ user # None

SlotsTyped ==
    /\ doing \in [Workers -> Labels]
    /\ cur \in [Workers -> Messages \cup {None}]
    /\ wallet \in [Workers -> Workers \cup {None}]
    /\ user \in Workers \cup {None}
    /\ effects \in [Messages -> Nat]
    /\ paidFrom \subseteq Workers
    /\ SlotsCarry /\ WalletHeld

Typed == IngressTyped /\ SlotsTyped

\* Adding an element to a finite set or removing it changes the cardinality by
\* one at most.
LEMMA CarriersFinite ==
    ASSUME NEW m
    PROVE  /\ IsFiniteSet(Carrying(m)) /\ Cardinality(Carrying(m)) \in Nat
           /\ IsFiniteSet(Sending(m)) /\ Cardinality(Sending(m)) \in Nat
           /\ IsFiniteSet(Carrying(m)') /\ Cardinality(Carrying(m)') \in Nat
           /\ IsFiniteSet(Sending(m)') /\ Cardinality(Sending(m)') \in Nat
<1>1. Carrying(m) \in SUBSET Requests /\ Sending(m) \in SUBSET Requests
  BY DEF Carrying, Sending
<1>2. Carrying(m)' \in SUBSET Requests /\ Sending(m)' \in SUBSET Requests
  BY DEF Carrying, Sending
<1> QED
  BY <1>1, <1>2, IngressAssumption, FS_Subset, FS_CardinalityType

\* An answered request carries nothing any more, the others what they did.
LEMMA Responded ==
    ASSUME IngressTyped, NEW r \in Requests, at[r] # "idle", Respond(r)
    PROVE  /\ msg[r] \in Messages
           /\ at' \in [Requests -> {"idle", "check", "set", "enqueue"}]
           /\ msg' \in [Requests -> Messages \cup {None}]
           /\ tested' \in [Requests -> 0 .. MaxNow]
           /\ RequestsCarry'
           /\ \A m \in Messages :
                 /\ Cardinality(Carrying(m)') <= Cardinality(Carrying(m))
                 /\ m = msg[r] => Cardinality(Carrying(m)') = Cardinality(Carrying(m)) - 1
                 /\ Cardinality(Sending(m)') <= Cardinality(Sending(m))
                 /\ m = msg[r] /\ at[r] = "enqueue" =>
                       Cardinality(Sending(m)') = Cardinality(Sending(m)) - 1
<1> USE IngressAssumption DEF IngressTyped, IngressTypeOK, RequestsCarry, Respond
<1>1. msg[r] \in Messages
  OBVIOUS
<1>2. /\ at' \in [Requests -> {"idle", "check", "set", "enqueue"}]
      /\ msg' \in [Requests -> Messages \cup {None}]
      /\ tested' \in [Requests -> 0 .. MaxNow]
      /\ RequestsCarry'
  OBVIOUS
<1>3. ASSUME NEW m \in Messages
      PROVE  /\ Cardinality(Carrying(m)') <= Cardinality(Carrying(m))
             /\ m = msg[r] => Cardinality(Carrying(m)') = Cardinality(Carrying(m)) - 1
             /\ Cardinality(Sending(m)') <= Cardinality(Sending(m))
             /\ m = msg[r] /\ at[r] = "enqueue" =>
                   Cardinality(Sending(m)') = Cardinality(Sending(m)) - 1
  <2>1. Carrying(m)' = Carrying(m) \ {r} /\ (m = msg[r] => r \in Carrying(m))
    BY DEF Carrying
  <2>2. /\ Sending(m)' = Sending(m) \ {r}
        /\ m = msg[r] /\ at[r] = "enqueue" => r \in Sending(m)
    BY DEF Sending
  <2>3. Cardinality(Carrying(m) \ {r}) =
            IF r \in Carrying(m) THEN Cardinality(Carrying(m)) - 1 ELSE Cardinality(Carrying(m))
    BY CarriersFinite, FS_RemoveElement
  <2>4. Cardinality(Sending(m) \ {r}) =
            IF r \in Sending(m) THEN Cardinality(Sending(m)) - 1 ELSE Cardinality(Sending(m))
    BY CarriersFinite, FS_RemoveElement
  <2>5. Cardinality(Carrying(m)) \in Nat /\ Cardinality(Sending(m)) \in Nat
    BY CarriersFinite
  <2> QED
    BY <2>1, <2>2, <2>3, <2>4, <2>5
<1> QED
  BY <1>1, <1>2, <1>3

\* A request that is let in carries the same message, and is about to enqueue it.
LEMMA LetInOnce ==
    ASSUME IngressTyped, NEW r \in Requests, at[r] = "set", LetIn(r)
    PROVE  /\ msg[r] \in Messages
           /\ at' \in [Requests -> {"idle", "check", "set", "enqueue"}]
           /\ msg' = msg
           /\ tested' \in [Requests -> 0 .. MaxNow]
           /\ RequestsCarry'
           /\ \A m \in Messages :
                 /\ Cardinality(Carrying(m)') = Cardinality(Carrying(m))
                 /\ m # msg[r] => Cardinality(Sending(m)') = Cardinality(Sending(m))
                 /\ Cardinality(Sending(m)') <= Cardinality(Sending(m)) + 1
<1> USE IngressAssumption DEF IngressTyped, IngressTypeOK, RequestsCarry, LetIn
<1>1. msg[r] \in Messages
  OBVIOUS
<1>2. /\ at' \in [Requests -> {"idle", "check", "set", "enqueue"}] /\ msg' = msg /\ RequestsCarry'
      /\ tested' \in [Requests -> 0 .. MaxNow]
  OBVIOUS
<1>3. ASSUME NEW m \in Messages
      PROVE  /\ Cardinality(Carrying(m)') = Cardinality(Carrying(m))
             /\ m # msg[r] => Cardinality(Sending(m)') = Cardinality(Sending(m))
             /\ Cardinality(Sending(m)') <= Cardinality(Sending(m)) + 1
  <2>1. Carrying(m)' = Carrying(m)
    BY DEF Carrying
  <2>2. Sending(m)' = IF m = msg[r] THEN Sending(m) \cup {r} ELSE Sending(m)
    BY DEF Sending
  <2>3. Cardinality(Sending(m) \cup {r}) =
            IF r \in Sending(m) THEN Cardinality(Sending(m)) ELSE Cardinality(Sending(m)) + 1
    BY CarriersFinite, FS_AddElement
  <2>4. Cardinality(Sending(m)) \in Nat
    BY CarriersFinite
  <2> QED
    BY <2>1, <2>2, <2>3, <2>4
<1> QED
  BY <1>1, <1>2, <1>3

\* A job is added once, and nobody forgets that it was.
LEMMA JobAdded ==
    ASSUME IngressTyped, NEW m \in Messages, AddJob(m) \/ UNCHANGED jobs
    PROVE  /\ job' \in [Messages -> {"none", "waiting", "failed"} \cup Workers]
           /\ queued' \in [Messages -> BOOLEAN]
           /\ \A n \in Messages : queued[n] => queued'[n]
           /\ stalled' = stalled
           /\ StalledBounded'
<1> USE DEF IngressTyped, IngressTypeOK, StalledBounded, AddJob, jobs
<1>1. job' \in [Messages -> {"none", "waiting", "failed"} \cup Workers]
  OBVIOUS
<1>2. queued' \in [Messages -> BOOLEAN] /\ \A n \in Messages : queued[n] => queued'[n]
  OBVIOUS
<1>3. \A n \in Messages : job'[n] = job[n] \/ job[n] = "none"
  OBVIOUS
<1>4. stalled' = stalled
  OBVIOUS
<1> QED
  BY <1>1, <1>2, <1>3, <1>4

\* Nothing that DeliveriesCounted is about changes.
LEMMA CountsKept ==
    ASSUME UNCHANGED <<requests, adding, deliveries>>, DeliveriesCounted
    PROVE  DeliveriesCounted'
  BY DEF requests, DeliveriesCounted, Carrying

LEMMA IngressTypedStep ==
    ASSUME IngressTyped, SlotsTyped, [Next]_vars
    PROVE  IngressTyped'
<1> USE IngressAssumption DEF whatsapp, replay, requests, ingress, jobs
<1>1. CASE Tick
  <2>1. IngressTypeOK' /\ RequestsCarry' /\ StalledBounded'
    BY <1>1 DEF Tick, IngressTyped, IngressTypeOK, RequestsCarry, StalledBounded
  <2> QED
    BY <1>1, <2>1, CountsKept DEF Tick, IngressTyped
<1>2. ASSUME NEW m \in Messages, Send(m)
      PROVE  IngressTyped'
  <2>1. stamp' \in [Messages -> Int \cup {None}]
    BY <1>2 DEF Send, IngressTyped, IngressTypeOK
  <2>2. IngressTypeOK' /\ RequestsCarry' /\ StalledBounded'
    BY <1>2, <2>1 DEF Send, IngressTyped, IngressTypeOK, RequestsCarry, StalledBounded
  <2> QED
    BY <1>2, <2>2, CountsKept DEF Send, IngressTyped
<1>3. ASSUME NEW r \in Requests, NEW m \in Messages, Deliver(r, m)
      PROVE  IngressTyped'
  <2>1. IngressTypeOK' /\ RequestsCarry' /\ StalledBounded'
    BY <1>3 DEF Deliver, IngressTyped, IngressTypeOK, RequestsCarry, StalledBounded
  <2>2. ASSUME NEW n \in Messages
        PROVE  adding'[n] + Cardinality(Carrying(n)') <= deliveries'[n]
    <3>1. Carrying(n)' = IF n = m THEN Carrying(n) \cup {r} ELSE Carrying(n)
      BY <1>3 DEF Deliver, Carrying, IngressTyped, IngressTypeOK, RequestsCarry
    <3>2. Cardinality(Carrying(n) \cup {r}) =
              IF r \in Carrying(n) THEN Cardinality(Carrying(n))
              ELSE Cardinality(Carrying(n)) + 1
      BY CarriersFinite, FS_AddElement
    <3>3. adding'[n] = adding[n] /\ adding[n] \in Nat
      BY <1>3 DEF Deliver, IngressTyped, IngressTypeOK
    <3>4. deliveries'[n] = (IF n = m THEN deliveries[n] + 1 ELSE deliveries[n])
      BY <1>3 DEF Deliver, IngressTyped, IngressTypeOK
    <3>5. deliveries[n] \in Nat /\ Cardinality(Carrying(n)) \in Nat
      BY CarriersFinite DEF IngressTyped, IngressTypeOK
    <3>6. adding[n] + Cardinality(Carrying(n)) <= deliveries[n]
      BY DEF IngressTyped, DeliveriesCounted
    <3>7. Cardinality(Carrying(n)') \in Nat
      BY CarriersFinite
    <3>8. CASE n = m
      BY <3>1, <3>2, <3>3, <3>4, <3>5, <3>6, <3>7, <3>8
    <3>9. CASE n # m
      BY <3>1, <3>3, <3>4, <3>6, <3>9
    <3> QED
      BY <3>8, <3>9
  <2> QED
    BY <2>1, <2>2 DEF IngressTyped, DeliveriesCounted
<1>4. ASSUME NEW r \in Requests, RefuseStale(r) \/ RefuseDuplicate(r)
      PROVE  IngressTyped'
  <2>1. at[r] # "idle" /\ Respond(r) /\ UNCHANGED <<now, whatsapp, replay, adding, jobs>>
    BY <1>4 DEF RefuseStale, RefuseDuplicate
  <2>2. RequestsCarry' /\ IngressTypeOK'
    BY <2>1, Responded DEF IngressTyped, IngressTypeOK
  <2>3. DeliveriesCounted'
    BY <2>1, Responded, CarriersFinite DEF IngressTyped, IngressTypeOK, DeliveriesCounted
  <2> QED
    BY <2>1, <2>2, <2>3 DEF IngressTyped, StalledBounded
<1>15. ASSUME NEW r \in Requests, RefuseOwnKey(r)
       PROVE  IngressTyped'
  <2>1. /\ at[r] # "idle" /\ Respond(r) /\ SetKey(msg[r])
        /\ UNCHANGED <<now, whatsapp, passed, blind, late, adding, jobs>>
    BY <1>15 DEF RefuseOwnKey
  <2>4. keyUntil' \in [Messages -> Nat]
    BY <2>1, Responded DEF SetKey, KeyTtl, IngressTyped, IngressTypeOK
  <2>2. RequestsCarry' /\ IngressTypeOK'
    BY <2>1, <2>4, Responded DEF IngressTyped, IngressTypeOK
  <2>3. DeliveriesCounted'
    BY <2>1, Responded, CarriersFinite DEF IngressTyped, IngressTypeOK, DeliveriesCounted
  <2> QED
    BY <2>1, <2>2, <2>3 DEF IngressTyped, StalledBounded
<1>16. ASSUME NEW r \in Requests, TestFresh(r)
       PROVE  IngressTyped'
  <2>1. IngressTypeOK' /\ RequestsCarry' /\ StalledBounded'
    BY <1>16 DEF TestFresh, IngressTyped, IngressTypeOK, RequestsCarry, StalledBounded
  <2>2. DeliveriesCounted'
    BY <1>16 DEF TestFresh, IngressTyped, DeliveriesCounted, Carrying
  <2> QED
    BY <2>1, <2>2 DEF IngressTyped
<1>5. ASSUME NEW r \in Requests, PassCheck(r) \/ PassUnchecked(r)
      PROVE  IngressTyped'
  <2>1. /\ at[r] = "set" /\ LetIn(r)
        /\ SetKey(msg[r]) \/ UNCHANGED keyUntil
        /\ UNCHANGED <<now, whatsapp, adding, jobs>>
    BY <1>5 DEF PassCheck, PassUnchecked
  <2>2. RequestsCarry' /\ msg[r] \in Messages
    BY <2>1, LetInOnce
  <2>3. /\ passed' \in [Messages -> Nat] /\ blind' \in [Messages -> Nat]
        /\ late' \in [Messages -> Nat]
    BY <1>5, <2>2 DEF PassCheck, PassUnchecked, IngressTyped, IngressTypeOK
  <2>4. keyUntil' \in [Messages -> Nat]
    BY <2>1, <2>2 DEF SetKey, KeyTtl, IngressTyped, IngressTypeOK
  <2>5. IngressTypeOK'
    BY <2>1, <2>3, <2>4, LetInOnce DEF IngressTyped, IngressTypeOK
  <2>6. DeliveriesCounted'
    BY <2>1, LetInOnce DEF IngressTyped, DeliveriesCounted
  <2> QED
    BY <2>1, <2>2, <2>5, <2>6 DEF IngressTyped, StalledBounded
<1>6. ASSUME NEW r \in Requests, Enqueue(r) \/ EnqueueFails(r)
      PROVE  IngressTyped'
  <2>1. /\ at[r] # "idle" /\ Respond(r)
        /\ AddJob(msg[r]) \/ UNCHANGED jobs
        /\ UNCHANGED <<now, stamp, deliveries, replay, adding>>
        /\ acked' = acked \cup {msg[r]} \/ acked' = acked
    BY <1>6 DEF Enqueue, EnqueueFails
  <2>2. RequestsCarry' /\ msg[r] \in Messages
    BY <2>1, Responded
  <2>3. StalledBounded' /\ IngressTypeOK'
    BY <2>1, <2>2, Responded, JobAdded DEF IngressTyped, IngressTypeOK
  <2>4. DeliveriesCounted'
    BY <2>1, Responded, CarriersFinite DEF IngressTyped, IngressTypeOK, DeliveriesCounted
  <2> QED
    BY <2>2, <2>3, <2>4 DEF IngressTyped
<1>7. ASSUME NEW r \in Requests, EnqueueTimesOut(r)
      PROVE  IngressTyped'
  <2>1. /\ at[r] = "enqueue" /\ Respond(r) /\ UNCHANGED <<now, whatsapp, replay, jobs>>
        /\ adding' = [adding EXCEPT ![msg[r]] = @ + 1]
    BY <1>7 DEF EnqueueTimesOut
  <2>2. RequestsCarry' /\ msg[r] \in Messages
    BY <2>1, Responded
  <2>3. ASSUME NEW n \in Messages
        PROVE  /\ adding'[n] \in 0 .. MaxDeliveries
               /\ adding'[n] + Cardinality(Carrying(n)') <= deliveries'[n]
    <3>1. adding[n] + Cardinality(Carrying(n)) <= deliveries[n]
      BY DEF IngressTyped, DeliveriesCounted
    <3>2. /\ adding[n] \in Nat /\ deliveries[n] \in 0 .. MaxDeliveries
          /\ deliveries'[n] = deliveries[n]
      BY <2>1 DEF IngressTyped, IngressTypeOK
    <3>3. Cardinality(Carrying(n)) \in Nat /\ Cardinality(Carrying(n)') \in Nat
      BY CarriersFinite
    <3>4. CASE n = msg[r]
      <4>1. Cardinality(Carrying(n)') = Cardinality(Carrying(n)) - 1
        BY <2>1, <3>4, Responded
      <4>2. adding'[n] = adding[n] + 1
        BY <2>1, <3>4 DEF IngressTyped, IngressTypeOK
      <4> QED
        BY <3>1, <3>2, <3>3, <4>1, <4>2
    <3>5. CASE n # msg[r]
      <4>1. Cardinality(Carrying(n)') <= Cardinality(Carrying(n))
        BY <2>1, Responded
      <4>2. adding'[n] = adding[n]
        BY <2>1, <3>5 DEF IngressTyped, IngressTypeOK
      <4> QED
        BY <3>1, <3>2, <3>3, <4>1, <4>2
    <3> QED
      BY <3>4, <3>5
  <2>4. adding' \in [Messages -> 0 .. MaxDeliveries]
    BY <2>1, <2>3 DEF IngressTyped, IngressTypeOK
  <2>5. IngressTypeOK' /\ StalledBounded'
    BY <2>1, <2>4, Responded DEF IngressTyped, IngressTypeOK, StalledBounded
  <2> QED
    BY <2>2, <2>3, <2>5 DEF IngressTyped, DeliveriesCounted
<1>8. ASSUME NEW m \in Messages, LateAdd(m)
      PROVE  IngressTyped'
  <2>1. /\ adding[m] > 0 /\ adding' = [adding EXCEPT ![m] = @ - 1]
        /\ AddJob(m) \/ UNCHANGED jobs
        /\ UNCHANGED <<now, whatsapp, replay, requests>>
    BY <1>8 DEF LateAdd
  <2>2. IngressTypeOK' /\ StalledBounded'
    BY <2>1, JobAdded DEF IngressTyped, IngressTypeOK
  <2>3. ASSUME NEW n \in Messages
        PROVE  adding'[n] + Cardinality(Carrying(n)') <= deliveries'[n]
    <3>1. Carrying(n)' = Carrying(n) /\ deliveries' = deliveries
      BY <2>1 DEF Carrying
    <3>2. adding'[n] <= adding[n] /\ adding[n] \in Nat /\ adding'[n] \in Nat
      BY <2>1 DEF IngressTyped, IngressTypeOK
    <3>3. Cardinality(Carrying(n)) \in Nat /\ deliveries[n] \in Nat
      BY CarriersFinite DEF IngressTyped, IngressTypeOK
    <3> QED
      BY <3>1, <3>2, <3>3 DEF IngressTyped, DeliveriesCounted
  <2>4. RequestsCarry'
    BY <2>1 DEF IngressTyped, RequestsCarry
  <2> QED
    BY <2>2, <2>3, <2>4 DEF IngressTyped, DeliveriesCounted
<1>9. ASSUME NEW w \in Workers, NEW m \in Messages, StartJob(w, m)
      PROVE  IngressTyped'
  <2>1. IngressTypeOK' /\ RequestsCarry' /\ StalledBounded'
    BY <1>9 DEF StartJob, IngressTyped, IngressTypeOK, RequestsCarry, StalledBounded
  <2> QED
    BY <1>9, <2>1, CountsKept DEF StartJob, IngressTyped
<1>10. ASSUME NEW w \in Workers, FindUser(w) \/ CreateUser(w) \/ UserFails(w) \/ Pay(w) \/ PayFails(w)
       PROVE  IngressTyped'
  <2>1. UNCHANGED <<ingress, jobs>>
    BY <1>10 DEF FindUser, CreateUser, UserFails, Pay, PayFails
  <2>2. IngressTypeOK' /\ RequestsCarry' /\ StalledBounded'
    BY <2>1 DEF IngressTyped, IngressTypeOK, RequestsCarry, StalledBounded
  <2> QED
    BY <2>1, <2>2, CountsKept DEF IngressTyped
<1>11. ASSUME NEW w \in Workers, Finish(w)
       PROVE  IngressTyped'
  <2>1. cur[w] \in Messages
    BY <1>11 DEF Finish, SlotsTyped, SlotsCarry
  <2>2. IngressTypeOK' /\ RequestsCarry' /\ StalledBounded'
    BY <1>11, <2>1 DEF Finish, IngressTyped, IngressTypeOK, RequestsCarry, StalledBounded
  <2> QED
    BY <1>11, <2>2, CountsKept DEF Finish, IngressTyped
<1>12. ASSUME NEW m \in Messages, TakeBack(m)
       PROVE  IngressTyped'
  <2>1. stalled[m] \in 0 .. MaxStalled
    BY <1>12 DEF TakeBack, IngressTyped, IngressTypeOK, StalledBounded
  <2>2. stalled' \in [Messages -> 0 .. MaxStalled + 1]
    BY <1>12, <2>1 DEF TakeBack, IngressTyped, IngressTypeOK
  <2>3. IngressTypeOK' /\ RequestsCarry' /\ StalledBounded'
    BY <1>12, <2>2 DEF TakeBack, IngressTyped, IngressTypeOK, RequestsCarry, StalledBounded
  <2> QED
    BY <1>12, <2>3, CountsKept DEF TakeBack, IngressTyped
<1>13. CASE Crash
  <2>1. IngressTypeOK' /\ RequestsCarry' /\ StalledBounded'
    BY <1>13 DEF Crash, IngressTyped, IngressTypeOK, RequestsCarry, StalledBounded
  <2>2. \A n \in Messages : Carrying(n)' = {} /\ adding'[n] = 0 /\ deliveries'[n] \in Nat
    BY <1>13, <2>1 DEF Crash, Carrying, IngressTypeOK
  <2>3. \A n \in Messages : Cardinality(Carrying(n)') = 0
    BY <2>2, FS_EmptySet
  <2>4. DeliveriesCounted'
    BY <2>2, <2>3 DEF DeliveriesCounted
  <2> QED
    BY <2>1, <2>4 DEF IngressTyped
<1>14. CASE UNCHANGED vars
  <2>1. IngressTypeOK' /\ RequestsCarry' /\ StalledBounded'
    BY <1>14 DEF vars, IngressTyped, IngressTypeOK, RequestsCarry, StalledBounded
  <2> QED
    BY <1>14, <2>1, CountsKept DEF vars, IngressTyped
<1> QED
  BY <1>1, <1>2, <1>3, <1>4, <1>5, <1>6, <1>7, <1>8, <1>9, <1>10, <1>11, <1>12,
     <1>13, <1>14, <1>15, <1>16 DEF Next, RequestStep, WorkerStep

\* Where a slot goes with which wallet, and that it keeps its message.
LEMMA WentWith ==
    ASSUME SlotsTyped, NEW w \in Workers, doing[w] # "idle",
           NEW label \in Labels \ {"idle"}, NEW x \in Workers \cup {None}, GotoWith(w, label, x)
    PROVE  /\ doing' \in [Workers -> Labels]
           /\ cur' = cur
           /\ wallet' \in [Workers -> Workers \cup {None}]
           /\ SlotsCarry'
           /\ doing'[w] = label /\ wallet'[w] = x
           /\ \A v \in Workers : v # w => doing'[v] = doing[v] /\ wallet'[v] = wallet[v]
<1> USE DEF SlotsTyped, GotoWith
<1>1. doing' \in [Workers -> Labels] /\ wallet' \in [Workers -> Workers \cup {None}]
  OBVIOUS
<1>2. cur' = cur /\ doing'[w] = label /\ wallet'[w] = x
  OBVIOUS
<1>3. \A v \in Workers : v # w => doing'[v] = doing[v] /\ wallet'[v] = wallet[v]
  OBVIOUS
<1>4. SlotsCarry'
  BY <1>2, <1>3 DEF SlotsCarry
<1> QED
  BY <1>1, <1>2, <1>3, <1>4

\* One step of a slot that leaves the payments alone, and may store its wallet.
LEMMA SlotMoved ==
    ASSUME SlotsTyped, NEW w \in Workers, doing[w] # "idle",
           NEW label \in Labels \ {"idle"}, NEW x \in Workers \cup {None}, GotoWith(w, label, x),
           UNCHANGED outcome,
           user' = user \/ (user = None /\ user' \in Workers \cup {None}),
           label \in {"earlyCreate", "create", "reportCreate"} => x # None,
           label = "pay" => x = user' /\ x # None
    PROVE  SlotsTyped'
<1>1. /\ doing' \in [Workers -> Labels]
      /\ cur' = cur
      /\ wallet' \in [Workers -> Workers \cup {None}]
      /\ SlotsCarry'
      /\ doing'[w] = label /\ wallet'[w] = x
      /\ \A v \in Workers : v # w => doing'[v] = doing[v] /\ wallet'[v] = wallet[v]
  BY WentWith
<1>2. WalletHeld'
  BY <1>1 DEF SlotsTyped, WalletHeld
<1>3. user' \in Workers \cup {None} /\ paidFrom' \subseteq Workers
  BY DEF SlotsTyped, outcome
<1> QED
  BY <1>1, <1>2, <1>3 DEF SlotsTyped, outcome

LEMMA SlotsTypedStep ==
    ASSUME IngressTyped, SlotsTyped, [Next]_vars
    PROVE  SlotsTyped'
<1> USE IngressAssumption
<1>1. CASE UNCHANGED <<slots, user, outcome>>
  BY <1>1 DEF SlotsTyped, SlotsCarry, WalletHeld, slots, outcome
<1>2. ASSUME NEW w \in Workers, NEW m \in Messages, StartJob(w, m)
      PROVE  SlotsTyped'
  BY <1>2 DEF StartJob, SlotsTyped, SlotsCarry, WalletHeld, Labels, outcome
<1>3. ASSUME NEW w \in Workers, FindUser(w)
      PROVE  SlotsTyped'
  <2> USE DEF Labels
  <2>1. doing[w] \in {"early", "handler", "report"} /\ UNCHANGED <<user, outcome>>
    BY <1>3 DEF FindUser
  <2>2. user \in Workers \cup {None}
    BY DEF SlotsTyped
  <2>3. CASE user # None
    <3>1. WithUser(w, user)
      BY <1>3, <2>3 DEF FindUser
    <3>2. CASE doing[w] = "handler"
      BY <2>1, <2>2, <2>3, <3>1, <3>2, SlotMoved DEF WithUser, After, Early, Reporting
    <3>3. CASE doing[w] # "handler"
      BY <2>1, <2>2, <2>3, <3>1, <3>3, SlotMoved DEF WithUser, After, Early, Reporting
    <3> QED
      BY <3>2, <3>3
  <2>4. CASE user = None
    <3> DEFINE label == Create[doing[w]]
    <3>1. GotoWith(w, label, w)
      BY <1>3, <2>4 DEF FindUser
    <3>2. label \in {"earlyCreate", "create", "reportCreate"} /\ w # None
      BY <2>1 DEF Create
    <3> HIDE DEF label
    <3> QED
      BY <2>1, <2>2, <3>1, <3>2, SlotMoved
  <2> QED
    BY <2>3, <2>4
<1>10. ASSUME NEW w \in Workers, doing[w] # "idle", WithoutUser(w), UNCHANGED outcome,
              user' = user \/ (user = None /\ user' = wallet[w])
       PROVE  SlotsTyped'
  <2> DEFINE label == After(w, "report")
  <2>1. label \in {"handler", "finish", "report"} /\ GotoWith(w, label, None)
    BY <1>10 DEF WithoutUser, After
  <2> HIDE DEF label
  <2>2. user \in Workers \cup {None} /\ wallet[w] \in Workers \cup {None}
    BY DEF SlotsTyped
  <2>3. label \in Labels \ {"idle"}
    BY <2>1 DEF Labels
  <2> QED
    BY <1>10, <2>1, <2>2, <2>3, SlotMoved
<1>4. ASSUME NEW w \in Workers, CreateUser(w)
      PROVE  SlotsTyped'
  <2>1. doing[w] \in {"earlyCreate", "create", "reportCreate"} /\ UNCHANGED outcome
    BY <1>4 DEF CreateUser
  <2>2. /\ user \in Workers \cup {None}
        /\ wallet[w] \in Workers \cup {None} /\ wallet[w] # None
    BY <2>1 DEF SlotsTyped, WalletHeld
  <2>3. CASE user = None
    <3>1. user' = wallet[w] /\ WithUser(w, wallet[w])
      BY <1>4, <2>3 DEF CreateUser
    <3>2. CASE doing[w] = "create"
      BY <2>1, <2>2, <2>3, <3>1, <3>2, SlotMoved DEF WithUser, After, Early, Reporting, Labels
    <3>3. CASE doing[w] # "create"
      BY <2>1, <2>2, <2>3, <3>1, <3>3, SlotMoved DEF WithUser, After, Early, Reporting, Labels
    <3> QED
      BY <3>2, <3>3
  <2>4. CASE user # None
    <3>1. user' = user /\ WithoutUser(w)
      BY <1>4, <2>4 DEF CreateUser
    <3> QED
      BY <1>10, <2>1, <3>1
  <2> QED
    BY <2>3, <2>4
<1>5. ASSUME NEW w \in Workers, UserFails(w)
      PROVE  SlotsTyped'
  <2>1. /\ doing[w] # "idle" /\ UNCHANGED outcome /\ WithoutUser(w)
        /\ user' = user \/ (user = None /\ user' = wallet[w])
    BY <1>5 DEF UserFails
  <2> QED
    BY <1>10, <2>1
<1>6. ASSUME NEW w \in Workers, Pay(w) \/ PayFails(w)
      PROVE  SlotsTyped'
  <2> USE DEF Labels
  <2>1. /\ doing[w] = "pay" /\ GotoWith(w, "finish", None) /\ UNCHANGED user
        /\ PaymentMade(w) \/ UNCHANGED outcome
    BY <1>6 DEF Pay, PayFails
  <2>3. /\ doing' \in [Workers -> Labels]
        /\ cur' = cur
        /\ wallet' \in [Workers -> Workers \cup {None}]
        /\ SlotsCarry'
        /\ doing'[w] = "finish" /\ wallet'[w] = None
        /\ \A v \in Workers : v # w => doing'[v] = doing[v] /\ wallet'[v] = wallet[v]
    BY <2>1, WentWith
  <2>4. WalletHeld'
    BY <2>1, <2>3 DEF SlotsTyped, WalletHeld
  <2>5. cur[w] \in Messages /\ wallet[w] \in Workers
    BY <2>1 DEF SlotsTyped, SlotsCarry, WalletHeld
  <2>6. effects' \in [Messages -> Nat] /\ paidFrom' \subseteq Workers
    <3>1. CASE UNCHANGED outcome
      BY <3>1 DEF SlotsTyped, outcome
    <3>2. CASE PaymentMade(w)
      BY <2>5, <3>2 DEF SlotsTyped, PaymentMade
    <3> QED
      BY <2>1, <3>1, <3>2
  <2> QED
    BY <2>1, <2>3, <2>4, <2>6 DEF SlotsTyped
<1>7. ASSUME NEW w \in Workers, Finish(w)
      PROVE  SlotsTyped'
  BY <1>7 DEF Finish, SlotsTyped, SlotsCarry, WalletHeld, Labels, outcome
<1>8. CASE Crash
  BY <1>8 DEF Crash, SlotsTyped, SlotsCarry, WalletHeld, Labels, outcome
<1>9. ASSUME NEW m \in Messages, TakeBack(m)
      PROVE  SlotsTyped'
  BY <1>1, <1>9 DEF TakeBack
<1> QED
  BY <1>1, <1>2, <1>3, <1>4, <1>5, <1>6, <1>7, <1>8, <1>9 DEF Next, WorkerStep, vars

LEMMA TypedInit == Init => Typed
<1> SUFFICES ASSUME Init PROVE Typed
  OBVIOUS
<1> USE IngressAssumption DEF Init, IngressInit
<1>1. IngressTypeOK /\ RequestsCarry /\ StalledBounded
  BY DEF IngressTypeOK, RequestsCarry, StalledBounded
<1>2. \A m \in Messages : Carrying(m) = {}
  BY DEF Carrying
<1>3. \A m \in Messages : Cardinality(Carrying(m)) = 0
  BY <1>2, FS_EmptySet
<1>4. DeliveriesCounted
  BY <1>3 DEF DeliveriesCounted
<1>5. SlotsTyped
  BY DEF SlotsTyped, SlotsCarry, WalletHeld, Labels
<1> QED
  BY <1>1, <1>4, <1>5 DEF Typed, IngressTyped

LEMMA TypedInvariant == Spec => []Typed
<1>1. Typed /\ [Next]_vars => Typed'
  BY IngressTypedStep, SlotsTypedStep DEF Typed
<1> QED
  BY <1>1, TypedInit, PTL DEF Spec

\* Every variable keeps its type, whatever fails how often: BullMQ takes a job
\* back MaxStalled + 1 times at most, and Queue.add is called late at most once
\* per delivery.
THEOREM TypeCorrect == Spec => []TypeOK
<1>1. Typed => TypeOK
  BY DEF Typed, IngressTyped, SlotsTyped, TypeOK
<1> QED
  BY <1>1, TypedInvariant, PTL

-----------------------------------------------------------------------------
(* Whose money, and what an answer promises *)

\* A message is answered with 200 only after its job was added, so none that
\* WhatsApp stops delivering is lost (handleMessage, enqueueWithTimeout).
THEOREM AckedIsQueuedCorrect == Spec => []AckedIsQueued
<1>1. Init => AckedIsQueued
  BY DEF Init, IngressInit, AckedIsQueued
<1>2. Typed /\ AckedIsQueued /\ [Next]_vars => AckedIsQueued'
  <2> SUFFICES ASSUME Typed, AckedIsQueued, [Next]_vars
               PROVE  AckedIsQueued'
    OBVIOUS
  <2> USE DEF whatsapp, jobs
  <2>1. ASSUME NEW r \in Requests, Enqueue(r)
        PROVE  AckedIsQueued'
    <3>1. AddJob(msg[r]) /\ msg[r] \in Messages
      BY <2>1, Responded DEF Enqueue, Typed
    <3>2. queued'[msg[r]] /\ \A m \in Messages : queued[m] => queued'[m]
      BY <3>1 DEF AddJob, Typed, IngressTyped, IngressTypeOK
    <3>3. acked' \subseteq acked \cup {msg[r]} /\ acked \subseteq Messages
      BY <2>1 DEF Enqueue, Typed, IngressTyped, IngressTypeOK
    <3> QED
      BY <3>2, <3>3 DEF AckedIsQueued
  <2>2. ASSUME NEW r \in Requests, EnqueueFails(r)
        PROVE  AckedIsQueued'
    <3>1. (msg[r] \in Messages /\ AddJob(msg[r])) \/ UNCHANGED jobs
      BY <2>2, Responded DEF EnqueueFails, Typed
    <3>2. \A m \in Messages : queued[m] => queued'[m]
      BY <2>2, <3>1, JobAdded DEF EnqueueFails, Typed
    <3>3. acked' = acked /\ acked \subseteq Messages
      BY <2>2 DEF EnqueueFails, Typed, IngressTyped, IngressTypeOK
    <3> QED
      BY <3>2, <3>3 DEF AckedIsQueued
  <2>3. ASSUME NEW m \in Messages, LateAdd(m)
        PROVE  AckedIsQueued'
    <3>1. \A n \in Messages : queued[n] => queued'[n]
      BY <2>3, JobAdded DEF LateAdd, Typed
    <3>2. acked' = acked /\ acked \subseteq Messages
      BY <2>3 DEF LateAdd, Typed, IngressTyped, IngressTypeOK
    <3> QED
      BY <3>1, <3>2 DEF AckedIsQueued
  <2>4. CASE UNCHANGED <<acked, queued>>
    BY <2>4 DEF AckedIsQueued
  <2> QED
    BY <2>1, <2>2, <2>3, <2>4
       DEF Next, RequestStep, WorkerStep, vars, ingress, Tick, Send, Deliver, RefuseStale,
           TestFresh, RefuseDuplicate, RefuseOwnKey, PassCheck, PassUnchecked, EnqueueTimesOut, StartJob, FindUser,
           CreateUser, UserFails, Pay, PayFails, Finish, TakeBack, Crash
<1> QED
  BY <1>1, <1>2, TypedInvariant, PTL DEF Spec

\* Money leaves the wallet of the number's User row and no other, however many
\* first contacts race (getOrCreateUser, phoneNumberHash @unique).
THEOREM PaysFromItsWalletCorrect == Spec => []PaysFromItsWallet
<1>1. Init => PaysFromItsWallet
  BY DEF Init, PaysFromItsWallet
<1>2. Typed /\ PaysFromItsWallet /\ [Next]_vars => PaysFromItsWallet'
  <2> SUFFICES ASSUME Typed, PaysFromItsWallet, [Next]_vars
               PROVE  PaysFromItsWallet'
    OBVIOUS
  <2>1. ASSUME NEW w \in Workers, Pay(w) \/ PayFails(w)
        PROVE  PaysFromItsWallet'
    <3>1. wallet[w] = user
      BY <2>1 DEF Pay, PayFails, Typed, SlotsTyped, WalletHeld
    <3> QED
      BY <2>1, <3>1 DEF Pay, PayFails, PaymentMade, outcome, PaysFromItsWallet
  <2>2. ASSUME NEW w \in Workers, CreateUser(w) \/ UserFails(w)
        PROVE  PaysFromItsWallet'
    <3>1. CASE user' = user
      BY <2>2, <3>1 DEF CreateUser, UserFails, outcome, PaysFromItsWallet
    <3>2. CASE user = None
      <4>1. paidFrom = {}
        BY <3>2, IngressAssumption DEF Typed, SlotsTyped, PaysFromItsWallet
      <4> QED
        BY <2>2, <4>1 DEF CreateUser, UserFails, outcome, PaysFromItsWallet
    <3> QED
      BY <2>2, <3>1, <3>2 DEF CreateUser, UserFails
  <2>3. CASE UNCHANGED <<user, outcome>>
    BY <2>3 DEF PaysFromItsWallet, outcome
  <2> QED
    BY <2>1, <2>2, <2>3
       DEF Next, WorkerStep, vars, StartJob, FindUser, Finish, TakeBack, Crash
<1> QED
  BY <1>1, <1>2, TypedInvariant, PTL DEF Spec

-----------------------------------------------------------------------------
(* The replay key *)

\* A message has its timestamp before it is delivered, from a clock that is
\* Skew ahead at most.  Whoever awaits the SET tested it when it was fresh.  The
\* key of one that was let in is kept until the message is stale.
Stamped ==
    /\ \A m \in Messages : stamp[m] # None => stamp[m] \in Int /\ stamp[m] <= now + Skew
    /\ \A r \in Requests :
          /\ msg[r] # None => stamp[msg[r]] # None
          /\ at[r] = "set" => tested[r] - stamp[msg[r]] <= Stale
KeyOutlives ==
    \A m \in Messages :
        passed[m] > 0 => stamp[m] # None /\ stamp[m] + Ttl <= keyUntil[m] + Skew

Fresh == Stamped /\ KeyOutlives /\ PassedOnce

LEMMA FreshStep ==
    ASSUME IngressTyped, SlotsTyped, Fresh, [Next]_vars
    PROVE  Fresh'
<1> USE IngressAssumption, ReplayAssumption
<1>1. CASE Tick
  BY <1>1 DEF Tick, Fresh, Stamped, KeyOutlives, PassedOnce, whatsapp, replay, requests,
              IngressTyped, IngressTypeOK
<1>2. ASSUME NEW m \in Messages, Send(m)
      PROVE  Fresh'
  <2>1. /\ stamp'[m] \in Int /\ stamp'[m] <= now + Skew
        /\ \A n \in Messages : n # m => stamp'[n] = stamp[n]
        /\ now' = now /\ UNCHANGED <<at, msg, tested, keyUntil, passed, late>>
    BY <1>2 DEF Send, requests, replay, IngressTyped, IngressTypeOK
  <2>2. passed[m] = 0
    BY <1>2 DEF Send, Fresh, KeyOutlives, IngressTyped, IngressTypeOK
  <2>3. \A r \in Requests : msg[r] # None => msg[r] \in Messages /\ msg[r] # m
    BY <1>2 DEF Send, Fresh, Stamped, IngressTyped, IngressTypeOK
  <2>4. Stamped'
    BY <2>1, <2>3 DEF Fresh, Stamped, IngressTyped, IngressTypeOK, RequestsCarry
  <2>5. KeyOutlives' /\ PassedOnce'
    BY <2>1, <2>2 DEF Fresh, KeyOutlives, PassedOnce
  <2> QED
    BY <2>4, <2>5 DEF Fresh
<1>3. ASSUME NEW r \in Requests, NEW m \in Messages, Deliver(r, m)
      PROVE  Fresh'
  <2>1. Stamped'
    BY <1>3 DEF Deliver, Fresh, Stamped, IngressTyped, IngressTypeOK, RequestsCarry
  <2> QED
    BY <1>3, <2>1 DEF Deliver, Fresh, KeyOutlives, PassedOnce, replay
\* A request that goes on without touching the key, or is answered.
<1>4. ASSUME NEW r \in Requests, Respond(r) \/ LetIn(r), UNCHANGED <<now, stamp>>
      PROVE  Stamped'
  BY <1>4 DEF Respond, LetIn, Fresh, Stamped, IngressTyped, IngressTypeOK, RequestsCarry
<1>9. ASSUME UNCHANGED <<stamp, replay>>
      PROVE  KeyOutlives' /\ PassedOnce'
  BY <1>9 DEF Fresh, KeyOutlives, PassedOnce, replay
<1>10. ASSUME NEW r \in Requests, TestFresh(r)
       PROVE  Fresh'
  <2>1. /\ msg[r] \in Messages /\ stamp[msg[r]] \in Int /\ now \in Nat
        /\ UNCHANGED <<now, stamp, replay, msg>>
    BY <1>10 DEF TestFresh, whatsapp, IngressTyped, IngressTypeOK, RequestsCarry, Fresh, Stamped
  <2>2. now - stamp[msg[r]] <= Stale
    BY <1>10, <2>1 DEF TestFresh, IsStale
  <2>3. Stamped'
    BY <1>10, <2>1, <2>2 DEF TestFresh, Fresh, Stamped, IngressTyped, IngressTypeOK
  <2> QED
    BY <1>9, <2>1, <2>3 DEF Fresh
\* The key is set when there is none, with no delivery let in or with one.
<1>5. ASSUME NEW r \in Requests, at[r] = "set", Respond(r) \/ LetIn(r), UNCHANGED <<now, stamp>>,
             SetKey(msg[r]) \/ UNCHANGED keyUntil,
             UNCHANGED <<passed, late>> \/ PassCheck(r)
      PROVE  Fresh'
  <2> DEFINE m == msg[r]
  <2>1. /\ m \in Messages /\ stamp[m] # None /\ stamp[m] \in Int
        /\ stamp[m] <= now + Skew /\ now \in Nat /\ tested[r] \in Nat
        /\ tested[r] - stamp[m] <= Stale /\ passed[m] \in Nat /\ late[m] \in Nat
        /\ keyUntil[m] \in Nat
    BY <1>5 DEF IngressTyped, IngressTypeOK, RequestsCarry, Fresh, Stamped
  <2>2. Stamped'
    BY <1>4, <1>5
  <2>3. keyUntil[m] <= keyUntil'[m] /\ \A n \in Messages : n # m => keyUntil'[n] = keyUntil[n]
    BY <1>5, <2>1 DEF SetKey, KeyAlive, KeyTtl, IngressTyped, IngressTypeOK
  <2>4. CASE UNCHANGED <<passed, late>>
    <3>1. \A n \in Messages : keyUntil[n] \in Nat /\ keyUntil'[n] \in Nat /\ keyUntil[n] <= keyUntil'[n]
      BY <1>5, <2>1, <2>3 DEF SetKey, KeyTtl, IngressTyped, IngressTypeOK
    <3>2. KeyOutlives'
      <4> SUFFICES ASSUME NEW n \in Messages, passed[n] > 0
                   PROVE  stamp[n] # None /\ stamp[n] + Ttl <= keyUntil'[n] + Skew
        BY <1>5, <2>4 DEF KeyOutlives
      <4>1. stamp[n] # None /\ stamp[n] \in Int /\ stamp[n] + Ttl <= keyUntil[n] + Skew
        BY DEF Fresh, KeyOutlives, Stamped
      <4> QED
        BY <3>1, <4>1
    <3> QED
      BY <2>2, <2>4, <3>2 DEF Fresh, PassedOnce
  <2>5. CASE PassCheck(r)
    <3>1. keyUntil'[m] = now + Ttl /\ keyUntil[m] <= now
      BY <2>1, <2>5 DEF PassCheck, SetKey, KeyAlive, KeyTtl, IngressTyped, IngressTypeOK
    \* It is the first, or the message became stale while the SET waited.
    <3>2. passed[m] > 0 => now - tested[r] >= Margin
      <4> SUFFICES ASSUME passed[m] > 0 PROVE now - tested[r] >= Margin
        OBVIOUS
      <4>1. stamp[m] + Ttl <= keyUntil[m] + Skew
        BY <2>1 DEF Fresh, KeyOutlives
      <4> QED
        BY <2>1, <3>1, <4>1 DEF Margin
    <3>3. /\ passed'[m] = passed[m] + 1
          /\ passed[m] > 0 => late'[m] = late[m] + 1
          /\ late'[m] >= late[m]
          /\ \A n \in Messages : n # m => passed'[n] = passed[n] /\ late'[n] = late[n]
      BY <2>1, <2>5, <3>2 DEF PassCheck, IngressTyped, IngressTypeOK
    <3>4. KeyOutlives'
      BY <1>5, <2>1, <2>3, <3>1, <3>3 DEF Fresh, KeyOutlives
    <3>5. late'[m] \in Nat
      BY <2>1, <2>5 DEF PassCheck, IngressTyped, IngressTypeOK
    <3>6. passed'[m] <= 1 + late'[m]
      BY <2>1, <3>3, <3>5 DEF Fresh, PassedOnce
    <3>7. PassedOnce'
      BY <3>3, <3>6 DEF Fresh, PassedOnce
    <3> QED
      BY <2>2, <3>4, <3>7 DEF Fresh
  <2> QED
    BY <1>5, <2>4, <2>5
<1>6. CASE Crash
  BY <1>6 DEF Crash, Fresh, Stamped, KeyOutlives, PassedOnce, whatsapp, replay
<1>7. CASE UNCHANGED <<now, stamp, replay, requests>>
  BY <1>7 DEF Fresh, Stamped, KeyOutlives, PassedOnce, replay, requests
<1>8. ASSUME NEW r \in Requests, RequestStep(r)
      PROVE  Fresh'
  <2>1. CASE RefuseStale(r) \/ RefuseDuplicate(r) \/ Enqueue(r) \/ EnqueueFails(r) \/ EnqueueTimesOut(r)
    <3>1. Respond(r) /\ UNCHANGED <<now, stamp, replay>>
      BY <2>1 DEF RefuseStale, RefuseDuplicate, Enqueue, EnqueueFails, EnqueueTimesOut, whatsapp
    <3> QED
      BY <1>4, <1>9, <3>1 DEF Fresh
  <2>2. CASE RefuseOwnKey(r)
    BY <1>5, <2>2 DEF RefuseOwnKey, whatsapp
  <2>3. CASE PassCheck(r)
    <3>1. at[r] = "set" /\ LetIn(r) /\ UNCHANGED <<now, stamp>> /\ SetKey(msg[r])
      BY <2>3 DEF PassCheck, whatsapp
    <3> QED
      BY <1>5, <2>3, <3>1
  <2>4. CASE PassUnchecked(r)
    BY <1>5, <2>4 DEF PassUnchecked, whatsapp
  <2> QED
    BY <1>8, <1>10, <2>1, <2>2, <2>3, <2>4 DEF RequestStep
<1> QED
  BY <1>1, <1>2, <1>3, <1>6, <1>7, <1>8
     DEF Next, WorkerStep, vars, ingress, whatsapp, requests, LateAdd, StartJob, FindUser,
         CreateUser, UserFails, Pay, PayFails, Finish, TakeBack

LEMMA FreshInvariant == Spec => []Fresh
<1>1. Init => Fresh
  BY DEF Init, IngressInit, Fresh, Stamped, KeyOutlives, PassedOnce
<1>2. Typed /\ Fresh /\ [Next]_vars => Fresh'
  BY FreshStep DEF Typed
<1> QED
  BY <1>1, <1>2, TypedInvariant, PTL DEF Spec

\* The replay check lets one delivery of a message in, however long WhatsApp
\* goes on delivering it, because Stale + Skew < Ttl; each other one that it lets
\* in waited for Redis longer than Ttl - Stale - Skew between the test and the
\* SET (STALE_WEBHOOK_SECONDS, REPLAY_TTL_SECONDS).
THEOREM PassedOnceCorrect == Spec => []PassedOnce
<1>1. Fresh => PassedOnce
  BY DEF Fresh
<1> QED
  BY <1>1, FreshInvariant, PTL

-----------------------------------------------------------------------------
(* How often a message is paid *)

\* Slots that have yet to pay for the message.
Unpaid(m) == {w \in Workers : cur[w] = m /\ doing[w] # "finish"}
Waiting(m) == IF job[m] = "waiting" THEN 1 ELSE 0

\* Each payment made or still on its way, in a slot, in the queue or on the way
\* into it, came of a delivery that was let in or of a job that BullMQ took back.
Due(m) == effects[m] + Cardinality(Unpaid(m)) + Waiting(m) + adding[m] + Cardinality(Sending(m))
Allowed(m) == passed[m] + blind[m] + stalled[m]
Accounted == \A m \in Messages : Due(m) <= Allowed(m)

LEMMA UnpaidFinite ==
    ASSUME NEW m
    PROVE  /\ IsFiniteSet(Unpaid(m)) /\ Cardinality(Unpaid(m)) \in Nat
           /\ IsFiniteSet(Unpaid(m)') /\ Cardinality(Unpaid(m)') \in Nat
<1>1. Unpaid(m) \in SUBSET Workers /\ Unpaid(m)' \in SUBSET Workers
  BY DEF Unpaid
<1> QED
  BY <1>1, IngressAssumption, FS_Subset, FS_CardinalityType

LEMMA PartsNatural ==
    ASSUME Typed, NEW m \in Messages
    PROVE  /\ effects[m] \in Nat /\ Waiting(m) \in 0 .. 1 /\ adding[m] \in Nat
           /\ Cardinality(Unpaid(m)) \in Nat /\ Cardinality(Sending(m)) \in Nat
           /\ IsFiniteSet(Unpaid(m))
           /\ passed[m] \in Nat /\ blind[m] \in Nat /\ stalled[m] \in Nat
           /\ late[m] \in Nat
  BY UnpaidFinite, CarriersFinite
     DEF Typed, IngressTyped, IngressTypeOK, SlotsTyped, Waiting

\* A step of the requests that leaves the slots alone.
LEMMA RequestsDue ==
    ASSUME Typed, Typed', Accounted, UNCHANGED <<slots, outcome, stalled>>, NEW m \in Messages,
           Waiting(m)' + adding'[m] + Cardinality(Sending(m)') + passed[m] + blind[m]
               <= Waiting(m) + adding[m] + Cardinality(Sending(m)) + passed'[m] + blind'[m]
    PROVE  Due(m)' <= Allowed(m)'
<1>1. Unpaid(m)' = Unpaid(m) /\ effects' = effects /\ stalled' = stalled
  BY DEF Unpaid, slots, outcome
<1>2. /\ effects[m] \in Nat /\ Waiting(m) \in Nat /\ adding[m] \in Nat
      /\ Cardinality(Unpaid(m)) \in Nat /\ Cardinality(Sending(m)) \in Nat
      /\ passed[m] \in Nat /\ blind[m] \in Nat /\ stalled[m] \in Nat
  BY PartsNatural
<1>3. /\ Waiting(m)' \in Nat /\ adding'[m] \in Nat /\ Cardinality(Sending(m)') \in Nat
      /\ passed'[m] \in Nat /\ blind'[m] \in Nat
  BY CarriersFinite DEF Waiting, Typed, IngressTyped, IngressTypeOK
<1>4. Due(m) <= Allowed(m)
  BY DEF Accounted
<1> QED
  BY <1>1, <1>2, <1>3, <1>4 DEF Due, Allowed

\* Adding a job makes it wait, once, and only that one.
LEMMA WaitingAfterAdd ==
    ASSUME Typed, NEW n \in Messages, AddJob(n) \/ UNCHANGED jobs, NEW m \in Messages
    PROVE  Waiting(m)' <= Waiting(m) + (IF m = n THEN 1 ELSE 0)
  BY DEF AddJob, jobs, Waiting, Typed, IngressTyped, IngressTypeOK

\* A slot that pays or gives up leaves the slots that have yet to pay; one that
\* goes on stays among them.
LEMMA UnpaidAfter ==
    ASSUME Typed, NEW w \in Workers, doing[w] \notin {"idle", "finish"}, cur' = cur,
           NEW label \in Labels, doing' = [doing EXCEPT ![w] = label], NEW m \in Messages
    PROVE  /\ cur[w] \in Messages
           /\ Cardinality(Unpaid(m)') <= Cardinality(Unpaid(m))
           /\ m = cur[w] /\ label = "finish" =>
                 Cardinality(Unpaid(m)') = Cardinality(Unpaid(m)) - 1
<1> USE DEF Typed, SlotsTyped, SlotsCarry
<1>1. cur[w] \in Messages
  OBVIOUS
<1>2. CASE label # "finish"
  <2>1. Unpaid(m)' = Unpaid(m)
    BY <1>2 DEF Unpaid
  <2>2. Cardinality(Unpaid(m)) \in Nat
    BY UnpaidFinite
  <2> QED
    BY <1>1, <1>2, <2>1, <2>2
<1>3. CASE label = "finish"
  <2>1. Unpaid(m)' = Unpaid(m) \ {w}
    BY <1>3 DEF Unpaid
  <2>2. m = cur[w] <=> w \in Unpaid(m)
    BY DEF Unpaid
  <2>3. Cardinality(Unpaid(m) \ {w}) =
            IF w \in Unpaid(m) THEN Cardinality(Unpaid(m)) - 1 ELSE Cardinality(Unpaid(m))
    BY PartsNatural, FS_RemoveElement
  <2>4. Cardinality(Unpaid(m)) \in Nat
    BY PartsNatural
  <2> QED
    BY <1>1, <2>1, <2>2, <2>3, <2>4
<1> QED
  BY <1>2, <1>3

LEMMA AccountedStep ==
    ASSUME Typed, Typed', Accounted, [Next]_vars, NEW m \in Messages
    PROVE  Due(m)' <= Allowed(m)'
<1> USE IngressAssumption DEF whatsapp, replay, requests
<1>0. /\ effects[m] \in Nat /\ Waiting(m) \in 0 .. 1 /\ adding[m] \in Nat
      /\ Cardinality(Unpaid(m)) \in Nat /\ Cardinality(Sending(m)) \in Nat
      /\ passed[m] \in Nat /\ blind[m] \in Nat /\ stalled[m] \in Nat
  BY PartsNatural
<1>1. Due(m) <= Allowed(m)
  BY DEF Accounted
<1>2. CASE /\ UNCHANGED <<slots, outcome, jobs, passed, blind, adding>>
           /\ Sending(m)' = Sending(m)
  BY <1>1, <1>2 DEF slots, outcome, jobs, Due, Allowed, Unpaid, Waiting
<1>3. ASSUME NEW r \in Requests, NEW n \in Messages, Deliver(r, n)
      PROVE  Sending(m)' = Sending(m)
  BY <1>3 DEF Deliver, Sending, Typed, IngressTyped, IngressTypeOK
<1>4. ASSUME NEW r \in Requests,
             RefuseStale(r) \/ RefuseDuplicate(r) \/ RefuseOwnKey(r) \/ TestFresh(r)
      PROVE  Sending(m)' = Sending(m)
  BY <1>4 DEF RefuseStale, RefuseDuplicate, RefuseOwnKey, TestFresh, Respond, Sending,
              Typed, IngressTyped, IngressTypeOK
<1>5. ASSUME NEW r \in Requests, PassCheck(r) \/ PassUnchecked(r), UNCHANGED <<slots, outcome>>
      PROVE  Due(m)' <= Allowed(m)'
  <2>1. at[r] = "set" /\ LetIn(r) /\ UNCHANGED <<adding, jobs>>
    BY <1>5 DEF PassCheck, PassUnchecked
  <2>2. msg[r] \in Messages
    BY <2>1, LetInOnce DEF Typed
  <2>3. Cardinality(Sending(m)') <= Cardinality(Sending(m)) + (IF m = msg[r] THEN 1 ELSE 0)
    <3>1. CASE m = msg[r]
      BY <1>0, <2>1, <3>1, LetInOnce DEF Typed
    <3>2. CASE m # msg[r]
      BY <1>0, <2>1, <3>2, LetInOnce DEF Typed
    <3> QED
      BY <3>1, <3>2
  <2>4. passed'[m] + blind'[m] = passed[m] + blind[m] + (IF m = msg[r] THEN 1 ELSE 0)
    <3>1. passed \in [Messages -> Nat] /\ blind \in [Messages -> Nat]
      BY DEF Typed, IngressTyped, IngressTypeOK
    <3>2. CASE PassCheck(r)
      <4>1. passed' = [passed EXCEPT ![msg[r]] = @ + 1] /\ blind' = blind
        BY <3>2 DEF PassCheck
      <4> QED
        BY <1>0, <2>2, <3>1, <4>1
    <3>3. CASE PassUnchecked(r)
      <4>1. blind' = [blind EXCEPT ![msg[r]] = @ + 1] /\ passed' = passed
        BY <3>3 DEF PassUnchecked
      <4> QED
        BY <1>0, <2>2, <3>1, <4>1
    <3> QED
      BY <1>5, <3>2, <3>3
  <2>5. Waiting(m)' = Waiting(m) /\ adding'[m] = adding[m] /\ stalled' = stalled
    BY <2>1 DEF Waiting, jobs
  <2>6. Cardinality(Sending(m)') \in Nat /\ passed'[m] \in Nat /\ blind'[m] \in Nat
    BY CarriersFinite DEF Typed, IngressTyped, IngressTypeOK
  <2>7. Waiting(m)' + adding'[m] + Cardinality(Sending(m)') + passed[m] + blind[m]
            <= Waiting(m) + adding[m] + Cardinality(Sending(m)) + passed'[m] + blind'[m]
    BY <1>0, <2>3, <2>4, <2>5, <2>6
  <2> QED
    BY <1>5, <2>5, <2>7, RequestsDue
<1>6. ASSUME NEW r \in Requests, UNCHANGED <<slots, outcome>>,
             Enqueue(r) \/ EnqueueFails(r) \/ EnqueueTimesOut(r)
      PROVE  Due(m)' <= Allowed(m)'
  <2>1. at[r] = "enqueue" /\ Respond(r) /\ UNCHANGED replay
    BY <1>6 DEF Enqueue, EnqueueFails, EnqueueTimesOut
  <2>2. msg[r] \in Messages
    BY <2>1, Responded DEF Typed
  <2>3. Cardinality(Sending(m)') <= Cardinality(Sending(m)) - (IF m = msg[r] THEN 1 ELSE 0)
    BY <1>0, <2>1, Responded DEF Typed
  <2>4. CASE Enqueue(r) \/ EnqueueFails(r)
    <3>1. (AddJob(msg[r]) \/ UNCHANGED jobs) /\ adding' = adding
      BY <2>4 DEF Enqueue, EnqueueFails
    <3>2. Waiting(m)' <= Waiting(m) + (IF m = msg[r] THEN 1 ELSE 0)
      BY <2>2, <3>1, WaitingAfterAdd
    <3>3. stalled' = stalled
      BY <3>1 DEF AddJob, jobs
    <3> QED
      BY <1>0, <1>6, <2>1, <2>3, <3>1, <3>2, <3>3, CarriersFinite, RequestsDue DEF Waiting
  <2>5. CASE EnqueueTimesOut(r)
    <3>1. UNCHANGED jobs /\ adding'[m] = adding[m] + (IF m = msg[r] THEN 1 ELSE 0)
      BY <1>0, <2>2, <2>5 DEF EnqueueTimesOut, Typed, IngressTyped, IngressTypeOK
    <3>2. Waiting(m)' = Waiting(m) /\ stalled' = stalled
      BY <3>1 DEF Waiting, jobs
    <3> QED
      BY <1>0, <1>6, <2>1, <2>3, <3>1, <3>2, CarriersFinite, RequestsDue
  <2> QED
    BY <1>6, <2>4, <2>5
<1>7. ASSUME NEW n \in Messages, LateAdd(n), UNCHANGED <<slots, outcome>>
      PROVE  Due(m)' <= Allowed(m)'
  <2>1. (AddJob(n) \/ UNCHANGED jobs) /\ UNCHANGED <<replay, requests>>
    BY <1>7 DEF LateAdd
  <2>2. Waiting(m)' <= Waiting(m) + (IF m = n THEN 1 ELSE 0) /\ stalled' = stalled
    BY <2>1, WaitingAfterAdd DEF AddJob, jobs
  <2>3. adding'[m] = adding[m] - (IF m = n THEN 1 ELSE 0)
    BY <1>0, <1>7 DEF LateAdd, Typed, IngressTyped, IngressTypeOK
  <2>4. Sending(m)' = Sending(m)
    BY <2>1 DEF Sending
  <2> QED
    BY <1>0, <1>7, <2>1, <2>2, <2>3, <2>4, RequestsDue DEF Waiting
<1>8. ASSUME NEW w \in Workers, NEW n \in Messages, StartJob(w, n)
      PROVE  Due(m)' <= Allowed(m)'
  <2>1. Unpaid(m)' = IF m = n THEN Unpaid(m) \cup {w} ELSE Unpaid(m)
    BY <1>8 DEF StartJob, Unpaid, Typed, SlotsTyped, SlotsCarry
  <2>2. Cardinality(Unpaid(m) \cup {w}) =
            IF w \in Unpaid(m) THEN Cardinality(Unpaid(m)) ELSE Cardinality(Unpaid(m)) + 1
    BY PartsNatural, FS_AddElement
  <2>3. Waiting(m)' = IF m = n THEN 0 ELSE Waiting(m)
    BY <1>8 DEF StartJob, Waiting, Typed, IngressTyped, IngressTypeOK
  <2>4. m = n => Waiting(m) = 1
    BY <1>8 DEF StartJob, Waiting
  <2>5. /\ Sending(m)' = Sending(m) /\ UNCHANGED <<replay, adding, outcome, stalled>>
    BY <1>8 DEF StartJob, Sending, ingress
  <2> QED
    BY <1>0, <1>1, <2>1, <2>2, <2>3, <2>4, <2>5 DEF Due, Allowed, outcome
<1>9. ASSUME NEW w \in Workers, FindUser(w) \/ CreateUser(w) \/ UserFails(w)
      PROVE  Due(m)' <= Allowed(m)'
  <2>6. /\ doing[w] \notin {"idle", "finish"} /\ UNCHANGED <<ingress, jobs, outcome>>
        /\ doing[w] \in {"early", "handler", "report", "earlyCreate", "create", "reportCreate"}
    BY <1>9 DEF FindUser, CreateUser, UserFails
  <2>7. \/ \E x : WithUser(w, x)
        \/ WithoutUser(w)
        \/ FindUser(w) /\ GotoWith(w, Create[doing[w]], w)
    BY <1>9 DEF FindUser, CreateUser, UserFails
  <2>8. After(w, "pay") \in Labels /\ After(w, "report") \in Labels
    BY DEF After, Labels
  <2>9. FindUser(w) => Create[doing[w]] \in Labels
    BY DEF FindUser, Create, Labels
  <2>1. /\ doing[w] \notin {"idle", "finish"} /\ UNCHANGED <<ingress, jobs, outcome>>
        /\ \E label \in Labels : doing' = [doing EXCEPT ![w] = label]
        /\ cur' = cur
    BY <2>6, <2>7, <2>8, <2>9 DEF WithUser, WithoutUser, GotoWith
  <2>2. Cardinality(Unpaid(m)') <= Cardinality(Unpaid(m))
    BY <2>1, UnpaidAfter
  <2>3. Cardinality(Unpaid(m)') \in Nat
    BY UnpaidFinite
  <2>4. Waiting(m)' = Waiting(m) /\ Sending(m)' = Sending(m)
    BY <2>1 DEF Waiting, Sending, ingress, jobs
  <2> QED
    BY <1>0, <1>1, <2>1, <2>2, <2>3, <2>4 DEF Due, Allowed, outcome, ingress, jobs
<1>10. ASSUME NEW w \in Workers, Pay(w) \/ PayFails(w)
       PROVE  Due(m)' <= Allowed(m)'
  <2>1. /\ doing[w] = "pay" /\ UNCHANGED <<ingress, jobs>>
        /\ doing' = [doing EXCEPT ![w] = "finish"] /\ cur' = cur
    BY <1>10 DEF Pay, PayFails, GotoWith
  <2>2. /\ cur[w] \in Messages
        /\ Cardinality(Unpaid(m)') <= Cardinality(Unpaid(m))
        /\ m = cur[w] => Cardinality(Unpaid(m)') = Cardinality(Unpaid(m)) - 1
    BY <2>1, UnpaidAfter DEF Labels
  <2>3. effects'[m] \in Nat /\ effects'[m] <= effects[m] + (IF m = cur[w] THEN 1 ELSE 0)
    BY <1>0, <1>10, <2>2 DEF Pay, PayFails, PaymentMade, outcome, Typed, SlotsTyped
  <2>4. Cardinality(Unpaid(m)') \in Nat
    BY UnpaidFinite
  <2>5. Waiting(m)' = Waiting(m) /\ Sending(m)' = Sending(m)
    BY <2>1 DEF Waiting, Sending, ingress, jobs
  <2> QED
    BY <1>0, <1>1, <2>1, <2>2, <2>3, <2>4, <2>5 DEF Due, Allowed, ingress, jobs
<1>11. ASSUME NEW w \in Workers, Finish(w)
       PROVE  Due(m)' <= Allowed(m)'
  <2>1. Unpaid(m)' = Unpaid(m)
    BY <1>11 DEF Finish, Unpaid, Typed, SlotsTyped
  <2>2. Waiting(m)' = Waiting(m)
    BY <1>11 DEF Finish, Waiting, Typed, SlotsTyped, IngressTyped, IngressTypeOK, SlotsCarry
  <2>3. Sending(m)' = Sending(m)
    BY <1>11 DEF Finish, Sending, ingress
  <2> QED
    BY <1>1, <1>11, <2>1, <2>2, <2>3 DEF Finish, Due, Allowed, ingress, outcome
<1>12. ASSUME NEW n \in Messages, TakeBack(n)
       PROVE  Due(m)' <= Allowed(m)'
  <2>1. UNCHANGED <<ingress, slots, outcome>>
    BY <1>12 DEF TakeBack
  <2>2. stalled'[m] = stalled[m] + (IF m = n THEN 1 ELSE 0)
    BY <1>0, <1>12 DEF TakeBack, Typed, IngressTyped, IngressTypeOK
  <2>3. m # n => Waiting(m)' = Waiting(m)
    BY <1>12 DEF TakeBack, Waiting, Typed, IngressTyped, IngressTypeOK
  <2>4. m = n => Waiting(m) = 0
    BY <1>12 DEF TakeBack, Waiting
  <2>5. Unpaid(m)' = Unpaid(m) /\ Sending(m)' = Sending(m)
    BY <2>1 DEF Unpaid, Sending, ingress, slots
  <2>6. Waiting(m)' \in 0 .. 1
    BY DEF Waiting
  <2> QED
    BY <1>0, <1>1, <2>1, <2>2, <2>3, <2>4, <2>5, <2>6 DEF Due, Allowed, ingress, outcome
<1>13. CASE Crash
  <2>1. Unpaid(m)' = {} /\ Sending(m)' = {} /\ adding'[m] = 0
    BY <1>13 DEF Crash, Unpaid, Sending
  <2>2. Cardinality(Unpaid(m)') = 0 /\ Cardinality(Sending(m)') = 0
    BY <2>1, FS_EmptySet
  <2>3. Waiting(m)' = Waiting(m)
    BY <1>13 DEF Crash, Waiting, jobs
  <2> QED
    BY <1>0, <1>1, <1>13, <2>1, <2>2, <2>3 DEF Crash, Due, Allowed, outcome, jobs
<1>14. ASSUME UNCHANGED requests
       PROVE  Sending(m)' = Sending(m)
  BY <1>14 DEF Sending
<1> QED
  BY <1>2, <1>3, <1>4, <1>5, <1>6, <1>7, <1>8, <1>9, <1>10, <1>11, <1>12, <1>13, <1>14
     DEF Next, RequestStep, WorkerStep, vars, ingress, Tick, Send, Deliver, RefuseStale,
         RefuseDuplicate, RefuseOwnKey, TestFresh

LEMMA AccountedInvariant == Spec => []Accounted
<1>1. Init => Accounted
  <2> SUFFICES ASSUME Init, NEW m \in Messages PROVE Due(m) <= Allowed(m)
    BY DEF Accounted
  <2>1. Unpaid(m) = {} /\ Sending(m) = {}
    BY IngressAssumption DEF Init, IngressInit, Unpaid, Sending
  <2>2. Cardinality(Unpaid(m)) = 0 /\ Cardinality(Sending(m)) = 0
    BY <2>1, FS_EmptySet
  <2> QED
    BY <2>2 DEF Init, IngressInit, Due, Allowed, Waiting
<1>2. Typed /\ Typed' /\ Accounted /\ [Next]_vars => Accounted'
  BY AccountedStep DEF Accounted
<1> QED
  BY <1>1, <1>2, TypedInvariant, PTL DEF Spec

\* A message is paid for once, and once more at most for each time that Redis
\* was away during a replay check, the SET waited too long or BullMQ took its job
\* back, for any number of deliveries, slots and first contacts (jobId,
\* removeOnComplete, the replay key).
THEOREM EffectsAccountedCorrect == Spec => []EffectsAccounted
<1>1. Typed /\ Accounted /\ PassedOnce => EffectsAccounted
  <2> SUFFICES ASSUME Typed, Accounted, PassedOnce, NEW m \in Messages
               PROVE  effects[m] <= 1 + late[m] + blind[m] + stalled[m]
    BY DEF EffectsAccounted
  <2>1. Due(m) <= Allowed(m) /\ passed[m] <= 1 + late[m]
    BY DEF Accounted, PassedOnce
  <2> QED
    BY <2>1, PartsNatural DEF Due, Allowed
<1> QED
  BY <1>1, TypedInvariant, AccountedInvariant, PassedOnceCorrect, PTL
=============================================================================
