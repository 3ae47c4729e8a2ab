--------------------------- MODULE CommandLimiter ---------------------------
(***************************************************************************)
(* The rate limit on one sender's financial commands                       *)
(* (middleware/command-rate-limit.middleware.ts) and the flag for a sender *)
(* who keeps hitting it (services/abuse-detection.service.ts).  Requests   *)
(* overlap, Redis goes away and comes back, and the process, which keeps   *)
(* what it counts in memory while Redis is away, dies.                     *)
(***************************************************************************)
EXTENDS Naturals, FiniteSets

CONSTANTS
    Requests,  \* ids, 1 .. n; they arrive in this order
    Limit,     \* requests allowed in a window, five in the code
    Window,    \* its length in ticks, a minute in the code
    HitWindow, \* ticks in which three hits flag the sender, ten minutes
    Overlap,   \* bound on the requests that are answered at one time
    MaxClock,  \* bound on the time
    Faults,    \* what may go wrong: "away", "throw", "crash"
    MaxFaults  \* bound on how often something goes wrong

\* A call lasts a tick at most, which is much less than ten minutes.
ASSUME LimiterAssumption ==
    /\ IsFiniteSet(Requests) /\ Requests = 1 .. Cardinality(Requests)
    /\ Limit \in Nat \ {0} /\ Window \in Nat \ {0} /\ HitWindow \in Nat \ {0, 1}
    /\ MaxClock \in Nat \ {0} /\ Overlap \in Nat /\ MaxFaults \in Nat
    /\ Faults \subseteq {"away", "throw", "crash"}

VARIABLES
    clock,  \* Date.now()
    up,     \* redisClient.status is ready or connect
    req,    \* what each request awaits, or what became of it
    window, \* entries of rate_limit:FINANCIAL:<phone>, by store
    hits,   \* entries of abuse_hits:<phone>, by store
    ends,   \* the tick in which that key's time to live ends in Redis, 0: never
    lapsed, \* hits that went with the key although they were in the window
            \* (observed only)
    flags,  \* the stores with an abuse_flag:<phone>
    life,   \* how often the process was started again
    faults, \* how often something went wrong (bounds the model)
    flagged \* the sender was ever flagged (observed only)

counted == <<hits, ends, lapsed>>
vars == <<clock, up, req, window, counted, flags, life, faults, flagged>>

Stores == {"redis", "memory"}
HitsToFlag == 3

\* "allowed", "denied" (the hit was counted), "dropped" (it was not) and "gone"
\* (with its process) are ends.
Awaiting == {"fallback", "hit", "add", "prune", "count", "expire", "flag"}
Pcs == {"none", "allowed", "denied", "dropped", "gone"} \cup Awaiting

\* at: when the limit was checked; by, born: by which store, in which life;
\* hitAt, store: the hit's time, 0 for none, and where it was counted.
NoRequest == [pc |-> "none", at |-> 0, by |-> "redis", born |-> 0, hitAt |-> 0,
              store |-> "redis", count |-> 0]

Init ==
    /\ clock = 1 /\ up = TRUE /\ life = 0 /\ faults = 0
    /\ req = [r \in Requests |-> NoRequest]
    /\ window = [s \in Stores |-> {}]
    /\ hits = [s \in Stores |-> {}] /\ ends = 0 /\ lapsed = {}
    /\ flags = {} /\ flagged = FALSE

Fault(kind) == kind \in Faults /\ faults < MaxFaults /\ faults' = faults + 1
NoFault == UNCHANGED faults

InFlight == {r \in Requests : req[r].pc \in Awaiting}
Entry(r, t) == [id |-> r, at |-> t]

\* ZREMRANGEBYSCORE -inf now-span, and the filter of the lists in memory.
Pruned(entries, now, span) == {e \in entries : e.at + span > now}

-----------------------------------------------------------------------------
(* checkLimit *)

\* Mutant of Check: entries leave the window a tick early.
CheckTooEarly(r, store) ==
    LET fresh == Pruned(window[store], clock, Window - 1)
        ok == Cardinality(fresh) < Limit IN
    /\ window' = [window EXCEPT ![store] = IF ok THEN fresh \cup {Entry(r, clock)} ELSE fresh]
    /\ req' = [req EXCEPT ![r] = [NoRequest EXCEPT !.pc = IF ok THEN "allowed" ELSE "hit",
                                                   !.at = clock, !.by = store, !.born = life]]

\* Mutant of Check: one request more than the limit.
CheckOneMore(r, store) ==
    LET fresh == Pruned(window[store], clock, Window)
        ok == Cardinality(fresh) <= Limit IN
    /\ window' = [window EXCEPT ![store] = IF ok THEN fresh \cup {Entry(r, clock)} ELSE fresh]
    /\ req' = [req EXCEPT ![r] = [NoRequest EXCEPT !.pc = IF ok THEN "allowed" ELSE "hit",
                                                   !.at = clock, !.by = store, !.born = life]]

\* The script, or the same with the list in memory.
Check(r, store) ==
    LET fresh == Pruned(window[store], clock, Window)
        ok == Cardinality(fresh) < Limit IN
    /\ window' = [window EXCEPT ![store] = IF ok THEN fresh \cup {Entry(r, clock)} ELSE fresh]
    /\ req' = [req EXCEPT ![r] = [NoRequest EXCEPT !.pc = IF ok THEN "allowed" ELSE "hit",
                                                   !.at = clock, !.by = store, !.born = life]]

\* Requests arrive in the order of their ids.
Arrives(r) ==
    /\ req[r].pc = "none"
    /\ \A q \in Requests : q < r => req[q].pc # "none"
    /\ Cardinality(InFlight) < Overlap

\* The script is atomic; in memory nothing is awaited between reading the list
\* and writing it.
Arrive(r) ==
    /\ Arrives(r)
    /\ Check(r, IF up THEN "redis" ELSE "memory")
    /\ UNCHANGED <<clock, up, counted, flags, life, flagged>> /\ NoFault

\* The call of the script throws, also when the script was carried out.
ArriveThrows(r) ==
    /\ Fault("throw") /\ up
    /\ Arrives(r)
    /\ LET fresh == Pruned(window["redis"], clock, Window) IN
        window' \in {window, [window EXCEPT !["redis"] =
            IF Cardinality(fresh) < Limit THEN fresh \cup {Entry(r, clock)} ELSE fresh]}
    /\ req' = [req EXCEPT ![r].pc = "fallback", ![r].at = clock]
    /\ UNCHANGED <<clock, up, counted, flags, life, flagged>>

FallBack(r) ==
    /\ req[r].pc = "fallback"
    /\ Check(r, "memory")
    /\ UNCHANGED <<clock, up, counted, flags, life, flagged>> /\ NoFault

-----------------------------------------------------------------------------
(* recordFinancialLimitHit, after recordCommand, whose history nothing reads *)

Goto(r, label) == req' = [req EXCEPT ![r].pc = label]

\* now is read when the call begins; what the limit said matters no more.
BeginHit(r) ==
    /\ req[r].pc = "hit"
    /\ req' = [req EXCEPT ![r].pc = "add", ![r].hitAt = clock, ![r].by = "redis"]
    /\ UNCHANGED <<clock, up, window, counted, flags, life, flagged>> /\ NoFault

\* In memory: nothing is awaited from the push to the count.
CountInMemory(r) ==
    LET recent == Pruned(hits["memory"] \cup {Entry(r, req[r].hitAt)}, req[r].hitAt, HitWindow)
    IN  /\ hits' = [hits EXCEPT !["memory"] = recent]
        /\ req' = [req EXCEPT ![r].store = "memory", ![r].count = 0,
                              ![r].pc = IF Cardinality(recent) >= HitsToFlag THEN "flag" ELSE "denied"]
        /\ UNCHANGED <<ends, lapsed>>

\* What ZADD, ZREMRANGEBYSCORE and EXPIRE do to the key.  ZADD leaves its time
\* to live alone, and a new key has none; a key without entries is no key.
Add(r) ==
    /\ hits' = [hits EXCEPT !["redis"] = @ \cup {Entry(r, req[r].hitAt)}]
    /\ UNCHANGED <<ends, lapsed>>

Remove(r) ==
    /\ hits' = [hits EXCEPT !["redis"] = Pruned(@, req[r].hitAt, HitWindow)]
    /\ ends' = IF hits'["redis"] = {} THEN 0 ELSE ends
    /\ UNCHANGED lapsed

Prolong ==
    /\ ends' = IF hits["redis"] = {} THEN 0 ELSE clock + HitWindow
    /\ UNCHANGED <<hits, lapsed>>

\* The four commands to Redis, each an await of its own.
AddHit(r) ==
    /\ req[r].pc = "add"
    /\ \/ up /\ Add(r) /\ Goto(r, "prune")
       \/ ~up /\ CountInMemory(r)
    /\ UNCHANGED <<clock, up, window, flags, life, flagged>> /\ NoFault

\* Mutant of PruneHits: old hits are kept.
KeepHits(r) ==
    /\ req[r].pc = "prune" /\ up
    /\ Goto(r, "count")
    /\ UNCHANGED <<clock, up, window, counted, flags, life, flagged>> /\ NoFault

PruneHits(r) ==
    /\ req[r].pc = "prune" /\ up
    /\ Remove(r)
    /\ Goto(r, "count")
    /\ UNCHANGED <<clock, up, window, flags, life, flagged>> /\ NoFault

CountHits(r) ==
    /\ req[r].pc = "count" /\ up
    /\ req' = [req EXCEPT ![r].pc = "expire", ![r].count = Cardinality(hits["redis"])]
    /\ UNCHANGED <<clock, up, window, counted, flags, life, flagged>> /\ NoFault

\* Mutant of ExpireHits: the fourth hit flags the sender.
ExpireHitsLate(r) ==
    /\ req[r].pc = "expire" /\ up
    /\ Prolong
    /\ req' = [req EXCEPT ![r].pc = IF req[r].count > HitsToFlag THEN "flag" ELSE "denied"]
    /\ UNCHANGED <<clock, up, window, flags, life, flagged>> /\ NoFault

\* Only this command gives the key time for the hit that was added: ten minutes
\* from now.
ExpireHits(r) ==
    /\ req[r].pc = "expire" /\ up
    /\ Prolong
    /\ req' = [req EXCEPT ![r].count = 0,
                          ![r].pc = IF req[r].count >= HitsToFlag THEN "flag" ELSE "denied"]
    /\ UNCHANGED <<clock, up, window, flags, life, flagged>> /\ NoFault

\* A command throws, carried out or not: the hit is counted in memory only if
\* the client is not connected by then.
HitThrows(r) ==
    /\ req[r].pc \in {"add", "prune", "count", "expire"}
    /\ \/ /\ up /\ Fault("throw")
          /\ \/ req[r].pc = "add" /\ Add(r)
             \/ req[r].pc = "prune" /\ Remove(r)
             \/ req[r].pc = "expire" /\ Prolong
             \/ UNCHANGED counted
          /\ req' = [req EXCEPT ![r].pc = "dropped", ![r].count = 0]
       \/ ~up /\ req[r].pc # "add" /\ CountInMemory(r) /\ NoFault
    /\ UNCHANGED <<clock, up, window, flags, life, flagged>>

\* flagUserForReview: in Redis, or in memory when that fails.
Flag(r) ==
    /\ req[r].pc = "flag"
    /\ \/ up /\ flags' = flags \cup {"redis"} /\ NoFault
       \/ up /\ flags' = flags \cup {"memory"} /\ Fault("throw")
       \/ ~up /\ flags' = flags \cup {"memory"} /\ NoFault
    /\ flagged' = TRUE
    /\ Goto(r, "denied")
    /\ UNCHANGED <<clock, up, window, counted, life>>

-----------------------------------------------------------------------------
(* Time, the connection and the process *)

\* A request takes less than a tick, so it sees at most one end.
Tick ==
    /\ clock < MaxClock
    /\ ends # clock
    /\ \A r \in InFlight : req[r].at = clock
    /\ clock' = clock + 1
    /\ UNCHANGED <<up, req, window, counted, flags, life, flagged>> /\ NoFault

\* Redis drops the key in the tick in which its time to live ends, between any
\* two commands.
KeyEnds ==
    /\ ends = clock
    /\ hits' = [hits EXCEPT !["redis"] = {}]
    /\ ends' = 0
    /\ lapsed' = lapsed \cup {e.id : e \in {d \in hits["redis"] : d.at + HitWindow > clock}}
    /\ UNCHANGED <<clock, up, req, window, flags, life, flagged>> /\ NoFault

GoAway ==
    /\ Fault("away") /\ up
    /\ up' = FALSE
    /\ UNCHANGED <<clock, req, window, counted, flags, life, flagged>>

ComeBack ==
    /\ ~up /\ up' = TRUE
    /\ UNCHANGED <<clock, req, window, counted, flags, life, flagged>> /\ NoFault

\* What was in memory is gone, and the requests that were being answered.
Crash ==
    /\ Fault("crash")
    /\ req' = [r \in Requests |-> IF r \in InFlight
                                 THEN [NoRequest EXCEPT !.pc = "gone", !.hitAt = req[r].hitAt]
                                 ELSE req[r]]
    /\ window' = [window EXCEPT !["memory"] = {}]
    /\ hits' = [hits EXCEPT !["memory"] = {}]
    /\ flags' = flags \ {"memory"}
    /\ life' = life + 1
    /\ UNCHANGED <<clock, up, ends, lapsed, flagged>>

Step(r) ==
    \/ Arrive(r) \/ ArriveThrows(r) \/ FallBack(r)
    \/ BeginHit(r) \/ AddHit(r) \/ PruneHits(r) \/ CountHits(r) \/ ExpireHits(r)
    \/ HitThrows(r) \/ Flag(r)

Next == (\E r \in Requests : Step(r)) \/ Tick \/ KeyEnds \/ GoAway \/ ComeBack \/ Crash

Spec == Init /\ [][Next]_vars
-----------------------------------------------------------------------------
(* Properties *)

Entries == [id : Requests, at : 0 .. MaxClock]

TypeOK ==
    /\ clock \in 1 .. MaxClock /\ up \in BOOLEAN /\ flagged \in BOOLEAN
    /\ life \in 0 .. MaxFaults /\ faults \in 0 .. MaxFaults
    /\ req \in [Requests -> [pc : Pcs, at : 0 .. MaxClock, by : Stores, born : 0 .. MaxFaults,
                             hitAt : 0 .. MaxClock, store : Stores, count : Nat]]
    /\ \A s \in Stores :
          /\ window[s] \subseteq Entries /\ Cardinality(window[s]) <= Limit
          /\ hits[s] \subseteq Entries
    /\ flags \subseteq Stores
    /\ ends \in 0 .. MaxClock + HitWindow /\ lapsed \subseteq Requests

\* In no window are more requests let through than the limit allows, times the
\* stores that counted them: Redis, and the memory of each process that ran
\* while Redis was away (command-rate-limit.middleware.ts, "Limit: 5/min").
LimitHeld ==
    LET passed == {r \in Requests : req[r].pc = "allowed" /\ req[r].at + Window > clock}
        stores == {<<"redis">> : r \in {q \in passed : req[q].by = "redis"}}
                  \cup {<<"memory", req[r].born>> : r \in {q \in passed : req[q].by = "memory"}}
    IN  Cardinality(passed) <= Limit * Cardinality(stores)

Triples(set) == {t \in SUBSET set : Cardinality(t) = HitsToFlag}

\* Three hits in one store within ten minutes, less the tick that a call may
\* last, flag the sender, however the calls that recorded them overlapped, and
\* whatever became of other hits (recordFinancialLimitHit).  A dropped hit, and
\* hits that Redis and memory share, need not; nor need a hit that was added
\* while the key still had the time to live of the hit before, and that went
\* with the key before its own EXPIRE.
ThreeHitsFlag ==
    \A t \in Triples({r \in Requests : req[r].pc = "denied"} \ lapsed) :
        (\A q, r \in t :
            /\ req[q].store = req[r].store
            /\ req[q].store = "memory" => req[q].born = req[r].born
            /\ req[r].hitAt + 1 < req[q].hitAt + HitWindow)
        => flagged

\* A sender is flagged only for three requests that were denied within ten
\* minutes, give or take the tick that a call may last (flagUserForReview,
\* "Hit financial rate limit 3 times in 10 minutes").
FlagIsEarned ==
    flagged => \E t \in Triples({r \in Requests : req[r].hitAt # 0}) :
                  \A q, r \in t : req[r].hitAt <= req[q].hitAt + HitWindow
=============================================================================
