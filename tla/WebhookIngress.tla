--------------------------- MODULE WebhookIngress ---------------------------
(***************************************************************************)
(* How a WhatsApp message becomes a job: POST /webhook with its replay     *)
(* check (middleware/webhook-signature.middleware.ts), the controller that *)
(* enqueues under a timeout (controllers/bot.controller.ts) and the queue  *)
(* (queue/message.queue.ts).  WhatsApp delivers again what is not answered *)
(* with 200.  Requests with a bad signature, without a text message or     *)
(* over the rate limit change nothing here and are not written down.       *)
(***************************************************************************)
EXTENDS Integers, FiniteSets

CONSTANTS
    Messages,       \* text messages of one phone number
    Requests,       \* webhook requests the server handles at a time
    Workers,        \* slots of the message worker
    None,           \* null
    Stale,          \* STALE_WEBHOOK_SECONDS
    Ttl,            \* REPLAY_TTL_SECONDS
    Skew,           \* how far the clocks of WhatsApp and the server differ
    MaxNow,         \* bound of the clock
    MaxDeliveries,  \* bound of the deliveries of one message
    MaxStalled,     \* stalls after which BullMQ gives a job up
    Faults          \* what may go wrong, see FaultKinds

FaultKinds == { "redis",      \* a Redis command rejects, with or without effect
                "slow",       \* Queue.add outlives ENQUEUE_TIMEOUT_MS
                "replyLost",  \* WhatsApp does not see the answer
                "db",         \* a statement is rejected, with or without effect
                "ledger",     \* likewise a Stellar call
                "stall",      \* BullMQ takes a running job for a stalled one
                "crash" }     \* the process dies, server and worker with it

ASSUME IngressAssumption ==
    /\ None \notin Messages \cup Workers
    /\ {"none", "waiting", "failed"} \cap Workers = {}
    /\ Stale \in Nat /\ Ttl \in Nat \ {0} /\ Skew \in Nat
    /\ MaxNow \in Nat /\ MaxDeliveries \in Nat /\ MaxStalled \in Nat
    /\ Faults \subseteq FaultKinds
    /\ IsFiniteSet(Requests) /\ IsFiniteSet(Workers)

\* 300 s and 600 s: a key outlives the freshness of its message unless the
\* clocks differ by five minutes, or a SET waits for Redis.
ASSUME ReplayAssumption == Stale + Skew < Ttl

VARIABLES
    now,         \* the server's clock
    stamp,       \* the timestamp WhatsApp gave each message
    acked,       \* messages WhatsApp saw answered with 200
    deliveries,  \* how often each was delivered
    keyUntil,    \* when the replay key webhook:id:<id> expires, 0 if never set
    passed,      \* deliveries let in by setting the key
    blind,       \* deliveries let in although Redis failed
    late,        \* deliveries let in, after another one, whose SET was carried
                 \* out long after their freshness was tested (observed only)
    at,          \* what each request awaits
    msg,         \* the message it carries
    tested,      \* when its freshness was tested, while it awaits the SET
    adding,      \* calls of Queue.add whose request has been answered already
    job,         \* the job with the message's id; a worker while it is active
    queued,      \* whether there ever was one
    stalled      \* how often BullMQ took it back

whatsapp == <<stamp, acked, deliveries>>
replay == <<keyUntil, passed, blind, late>>
requests == <<at, msg, tested>>
jobs == <<job, queued, stalled>>
ingress == <<now, whatsapp, replay, requests, adding>>

IngressTypeOK ==
    /\ now \in 0 .. MaxNow
    /\ stamp \in [Messages -> Int \cup {None}]
    /\ acked \subseteq Messages
    /\ deliveries \in [Messages -> 0 .. MaxDeliveries]
    /\ keyUntil \in [Messages -> Nat]
    /\ passed \in [Messages -> Nat] /\ blind \in [Messages -> Nat]
    /\ late \in [Messages -> Nat]
    /\ at \in [Requests -> {"idle", "check", "set", "enqueue"}]
    /\ msg \in [Requests -> Messages \cup {None}]
    /\ tested \in [Requests -> 0 .. MaxNow]
    /\ adding \in [Messages -> 0 .. MaxDeliveries]
    /\ job \in [Messages -> {"none", "waiting", "failed"} \cup Workers]
    /\ queued \in [Messages -> BOOLEAN]
    /\ stalled \in [Messages -> 0 .. MaxStalled + 1]

IngressInit ==
    /\ now = 0
    /\ stamp = [m \in Messages |-> None]
    /\ acked = {}
    /\ deliveries = [m \in Messages |-> 0]
    /\ keyUntil = [m \in Messages |-> 0]
    /\ passed = [m \in Messages |-> 0] /\ blind = [m \in Messages |-> 0]
    /\ late = [m \in Messages |-> 0]
    /\ at = [r \in Requests |-> "idle"]
    /\ msg = [r \in Requests |-> None] /\ tested = [r \in Requests |-> 0]
    /\ adding = [m \in Messages |-> 0]
    /\ job = [m \in Messages |-> "none"]
    /\ queued = [m \in Messages |-> FALSE]
    /\ stalled = [m \in Messages |-> 0]

-----------------------------------------------------------------------------
(* WhatsApp *)

Tick ==
    /\ now < MaxNow /\ now' = now + 1
    /\ UNCHANGED <<whatsapp, replay, requests, adding, jobs>>

Send(m) ==
    /\ stamp[m] = None
    /\ \E t \in (now - Skew) .. (now + Skew) : stamp' = [stamp EXCEPT ![m] = t]
    /\ UNCHANGED <<now, acked, deliveries, replay, requests, adding, jobs>>

\* The first delivery, or one more while no 200 has been seen; an earlier one
\* may still be waiting for its answer.
Deliver(r, m) ==
    /\ at[r] = "idle"
    /\ stamp[m] # None /\ m \notin acked /\ deliveries[m] < MaxDeliveries
    /\ deliveries' = [deliveries EXCEPT ![m] = @ + 1]
    /\ at' = [at EXCEPT ![r] = "check"]
    /\ msg' = [msg EXCEPT ![r] = m]
    /\ UNCHANGED <<now, stamp, acked, replay, tested, adding, jobs>>

-----------------------------------------------------------------------------
(* webhookSignatureMiddleware *)

IsStale(m) == now - stamp[m] > Stale \/ stamp[m] - now > Stale

KeyAlive(m) == keyUntil[m] > now

Respond(r) ==
    /\ at' = [at EXCEPT ![r] = "idle"]
    /\ msg' = [msg EXCEPT ![r] = None]
    /\ tested' = [tested EXCEPT ![r] = 0]

LetIn(r) ==
    /\ at' = [at EXCEPT ![r] = "enqueue"]
    /\ tested' = [tested EXCEPT ![r] = 0]
    /\ UNCHANGED msg

\* 403 'Stale webhook'
RefuseStale(r) ==
    /\ at[r] = "check" /\ IsStale(msg[r])
    /\ Respond(r)
    /\ UNCHANGED <<now, whatsapp, replay, adding, jobs>>

\* The clock is read once.  The SET that follows is awaited without limit
\* (maxRetriesPerRequest: null).
TestFresh(r) ==
    /\ at[r] = "check" /\ ~IsStale(msg[r])
    /\ at' = [at EXCEPT ![r] = "set"]
    /\ tested' = [tested EXCEPT ![r] = now]
    /\ UNCHANGED <<now, whatsapp, replay, msg, adding, jobs>>

\* 403 'Duplicate webhook': SET ... NX found the key.
RefuseDuplicate(r) ==
    /\ at[r] = "set" /\ KeyAlive(msg[r])
    /\ Respond(r)
    /\ UNCHANGED <<now, whatsapp, replay, adding, jobs>>

\* Mutant of KeyTtl: the key is kept as long as a message is fresh.
KeyTtlTooShort == Stale

KeyTtl == Ttl

SetKey(m) ==
    keyUntil' = IF KeyAlive(m) THEN keyUntil
                ELSE [keyUntil EXCEPT ![m] = now + KeyTtl]

\* The connection broke after the SET was carried out: the client sends it
\* again, and it finds the key that it set itself.
RefuseOwnKey(r) ==
    /\ "redis" \in Faults
    /\ at[r] = "set" /\ ~KeyAlive(msg[r])
    /\ SetKey(msg[r])
    /\ Respond(r)
    /\ UNCHANGED <<now, whatsapp, passed, blind, late, adding, jobs>>

\* Ttl outlasts the freshness of a message by this much.
Margin == Ttl - Stale - Skew

PassCheck(r) ==
    /\ at[r] = "set" /\ ~KeyAlive(msg[r])
    /\ SetKey(msg[r])
    /\ passed' = [passed EXCEPT ![msg[r]] = @ + 1]
    /\ late' = IF passed[msg[r]] > 0 /\ now - tested[r] >= Margin
               THEN [late EXCEPT ![msg[r]] = @ + 1] ELSE late
    /\ LetIn(r)
    /\ UNCHANGED <<now, whatsapp, blind, adding, jobs>>

\* "Redis unavailable for replay checking, proceeding without replay protection"
PassUnchecked(r) ==
    /\ "redis" \in Faults
    /\ at[r] = "set"
    /\ SetKey(msg[r]) \/ UNCHANGED keyUntil
    /\ blind' = [blind EXCEPT ![msg[r]] = @ + 1]
    /\ LetIn(r)
    /\ UNCHANGED <<now, whatsapp, passed, late, adding, jobs>>

-----------------------------------------------------------------------------
(* BotController.handleMessage *)

\* BullMQ ignores a job whose id exists.  A completed job is removed and its
\* id forgotten, a failed one is kept.
AddJob(m) ==
    /\ job' = [job EXCEPT ![m] = IF @ = "none" THEN "waiting" ELSE @]
    /\ queued' = [queued EXCEPT ![m] = TRUE]
    /\ UNCHANGED stalled

Enqueue(r) ==
    /\ at[r] = "enqueue"
    /\ AddJob(msg[r])
    /\ \/ acked' = acked \cup {msg[r]}
       \/ "replyLost" \in Faults /\ UNCHANGED acked
    /\ Respond(r)
    /\ UNCHANGED <<now, stamp, deliveries, replay, adding>>

\* 500, whether or not the job was added
EnqueueFails(r) ==
    /\ "redis" \in Faults
    /\ at[r] = "enqueue"
    /\ AddJob(msg[r]) \/ UNCHANGED jobs
    /\ Respond(r)
    /\ UNCHANGED <<now, whatsapp, replay, adding>>

\* Mutant of EnqueueTimesOut: it answers 200, the job being on its way.
TimeoutAcknowledged(r) ==
    /\ "slow" \in Faults
    /\ at[r] = "enqueue"
    /\ adding' = [adding EXCEPT ![msg[r]] = @ + 1]
    /\ acked' = acked \cup {msg[r]}
    /\ Respond(r)
    /\ UNCHANGED <<now, stamp, deliveries, replay, jobs>>

\* enqueueWithTimeout gives up and answers 500; Queue.add goes on.
EnqueueTimesOut(r) ==
    /\ "slow" \in Faults
    /\ at[r] = "enqueue"
    /\ adding' = [adding EXCEPT ![msg[r]] = @ + 1]
    /\ Respond(r)
    /\ UNCHANGED <<now, whatsapp, replay, jobs>>

LateAdd(m) ==
    /\ adding[m] > 0
    /\ adding' = [adding EXCEPT ![m] = @ - 1]
    /\ AddJob(m) \/ ("redis" \in Faults /\ UNCHANGED jobs)
    /\ UNCHANGED <<now, whatsapp, replay, requests>>

RequestStep(r) ==
    \/ RefuseStale(r) \/ TestFresh(r) \/ RefuseDuplicate(r) \/ RefuseOwnKey(r)
    \/ PassCheck(r) \/ PassUnchecked(r)
    \/ Enqueue(r) \/ EnqueueFails(r) \/ EnqueueTimesOut(r)
=============================================================================
