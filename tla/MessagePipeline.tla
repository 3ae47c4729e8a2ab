-------------------------- MODULE MessagePipeline --------------------------
(***************************************************************************)
(* From the webhook to the command: WebhookIngress with the message worker *)
(* (workers/message.worker.ts) running the jobs, the first contact of a    *)
(* number (services/user.service.ts) and a SEND, which pays from the       *)
(* sender's wallet.  processCommand reports every error to the sender and  *)
(* returns, so a job runs again only after BullMQ took it for stalled.     *)
(***************************************************************************)
EXTENDS WebhookIngress

VARIABLES
    doing,     \* what each worker slot awaits
    cur,       \* the message it works on
    wallet,    \* the wallet it has generated or read, named by the slot that
               \* generated it: one that was not stored is gone when its slot
               \* generates another
    user,      \* the wallet of the number's User row, None before there is one
    effects,   \* payments the ledger made for each message
    paidFrom   \* wallets they were made from

slots == <<doing, cur, wallet>>
outcome == <<effects, paidFrom>>
vars == <<ingress, jobs, slots, user, outcome>>

\* processCommand calls getOrCreateUser and goes on without a user when that
\* fails; the handler calls it again and cannot; the catch calls it once more,
\* for the language of its report.
Labels == {"idle", "early", "earlyCreate", "handler", "create", "pay", "report",
           "reportCreate", "finish"}

TypeOK ==
    /\ IngressTypeOK
    /\ doing \in [Workers -> Labels]
    /\ cur \in [Workers -> Messages \cup {None}]
    /\ wallet \in [Workers -> Workers \cup {None}]
    /\ user \in Workers \cup {None}
    /\ effects \in [Messages -> Nat]
    /\ paidFrom \subseteq Workers

Init ==
    /\ IngressInit
    /\ doing = [w \in Workers |-> "idle"]
    /\ cur = [w \in Workers |-> None]
    /\ wallet = [w \in Workers |-> None]
    /\ user = None
    /\ effects = [m \in Messages |-> 0]
    /\ paidFrom = {}

-----------------------------------------------------------------------------

StartJob(w, m) ==
    /\ doing[w] = "idle" /\ job[m] = "waiting"
    /\ job' = [job EXCEPT ![m] = w]
    /\ doing' = [doing EXCEPT ![w] = "early"]
    /\ cur' = [cur EXCEPT ![w] = m]
    /\ UNCHANGED <<ingress, queued, stalled, wallet, user, outcome>>

GotoWith(w, label, x) ==
    /\ doing' = [doing EXCEPT ![w] = label]
    /\ wallet' = [wallet EXCEPT ![w] = x]
    /\ UNCHANGED cur

\* How it continues after getOrCreateUser, with a user and without; the first
\* and the third call only serve to load the user's language.
Early(w) == doing[w] \in {"early", "earlyCreate"}
Reporting(w) == doing[w] \in {"report", "reportCreate"}

After(w, label) == IF Early(w) THEN "handler" ELSE IF Reporting(w) THEN "finish" ELSE label
WithUser(w, x) == GotoWith(w, After(w, "pay"), IF After(w, "pay") = "pay" THEN x ELSE None)

\* Mutant of WithoutUser: the handler goes on with an empty wallet.
PayAnyway(w) == GotoWith(w, After(w, "pay"), None)

WithoutUser(w) == GotoWith(w, After(w, "report"), None)

Create == [early |-> "earlyCreate", handler |-> "create", report |-> "reportCreate"]

\* getOrCreateUser finds the user, or generates a wallet and funds it.
FindUser(w) ==
    /\ doing[w] \in {"early", "handler", "report"}
    /\ IF user # None THEN WithUser(w, user) ELSE GotoWith(w, Create[doing[w]], w)
    /\ UNCHANGED <<ingress, jobs, user, outcome>>

\* Mutant of CreateUser: the wallet just generated is used although another
\* handler has created the user.
CreateOrKeepOwn(w) ==
    /\ doing[w] \in {"earlyCreate", "create", "reportCreate"}
    /\ user' = IF user = None THEN wallet[w] ELSE user
    /\ WithUser(w, wallet[w])
    /\ UNCHANGED <<ingress, jobs, outcome>>

\* phoneNumberHash is unique: the second of two first contacts is rejected.
CreateUser(w) ==
    /\ doing[w] \in {"earlyCreate", "create", "reportCreate"}
    /\ IF user = None
       THEN user' = wallet[w] /\ WithUser(w, wallet[w])
       ELSE WithoutUser(w) /\ UNCHANGED user
    /\ UNCHANGED <<ingress, jobs, outcome>>

\* The database rejects the look-up, or the insert, which may have happened.
UserFails(w) ==
    /\ "db" \in Faults
    /\ doing[w] \in {"early", "handler", "report", "earlyCreate", "create", "reportCreate"}
    /\ \/ UNCHANGED user
       \/ /\ doing[w] \in {"earlyCreate", "create", "reportCreate"}
          /\ user' = IF user = None THEN wallet[w] ELSE user
    /\ WithoutUser(w)
    /\ UNCHANGED <<ingress, jobs, outcome>>

PaymentMade(w) ==
    /\ effects' = [effects EXCEPT ![cur[w]] = @ + 1]
    /\ paidFrom' = paidFrom \cup {wallet[w]}

Pay(w) ==
    /\ doing[w] = "pay"
    /\ PaymentMade(w)
    /\ GotoWith(w, "finish", None)
    /\ UNCHANGED <<ingress, jobs, user>>

\* Mutant of PayFails: it is tried again at once.
PayRetried(w) ==
    /\ "ledger" \in Faults
    /\ doing[w] = "pay"
    /\ PaymentMade(w) \/ UNCHANGED outcome
    /\ UNCHANGED <<ingress, jobs, slots, user>>

\* The sender is told that it failed, also when only the reply was lost.
PayFails(w) ==
    /\ "ledger" \in Faults
    /\ doing[w] = "pay"
    /\ PaymentMade(w) \/ UNCHANGED outcome
    /\ GotoWith(w, "finish", None)
    /\ UNCHANGED <<ingress, jobs, user>>

\* Mutant of Finish: the slot is not freed.
SlotKept(w) ==
    /\ doing[w] = "finish"
    /\ job' = [job EXCEPT ![cur[w]] = IF @ = w THEN "none" ELSE @]
    /\ UNCHANGED <<ingress, queued, stalled, slots, user, outcome>>

\* The job completes and is removed, unless BullMQ has taken it back.
Finish(w) ==
    /\ doing[w] = "finish"
    /\ job' = [job EXCEPT ![cur[w]] = IF @ = w THEN "none" ELSE @]
    /\ doing' = [doing EXCEPT ![w] = "idle"]
    /\ cur' = [cur EXCEPT ![w] = None]
    /\ wallet' = [wallet EXCEPT ![w] = None]
    /\ UNCHANGED <<ingress, queued, stalled, user, outcome>>

-----------------------------------------------------------------------------

Deserted(m) == job[m] \in Workers /\ cur[job[m]] # m

\* BullMQ's stalled check: the job is handed out again, and given up when it
\* stalled more than MaxStalled times.
TakeBack(m) ==
    /\ job[m] \in Workers /\ (Deserted(m) \/ "stall" \in Faults)
    /\ stalled' = [stalled EXCEPT ![m] = @ + 1]
    /\ job' = [job EXCEPT ![m] = IF stalled'[m] > MaxStalled THEN "failed" ELSE "waiting"]
    /\ UNCHANGED <<ingress, queued, slots, user, outcome>>

\* index.ts runs the server and the worker in one process.
Crash ==
    /\ "crash" \in Faults
    /\ at' = [r \in Requests |-> "idle"] /\ msg' = [r \in Requests |-> None]
    /\ tested' = [r \in Requests |-> 0]
    /\ adding' = [m \in Messages |-> 0]
    /\ doing' = [w \in Workers |-> "idle"] /\ cur' = [w \in Workers |-> None]
    /\ wallet' = [w \in Workers |-> None]
    /\ UNCHANGED <<now, whatsapp, replay, jobs, user, outcome>>

WorkerStep(w) ==
    \/ FindUser(w) \/ CreateUser(w) \/ UserFails(w)
    \/ Pay(w) \/ PayFails(w) \/ Finish(w)

Next ==
    \/ /\ \/ Tick
          \/ \E m \in Messages : Send(m) \/ LateAdd(m)
          \/ \E r \in Requests, m \in Messages : Deliver(r, m)
          \/ \E r \in Requests : RequestStep(r)
       /\ UNCHANGED <<slots, user, outcome>>
    \/ \E w \in Workers, m \in Messages : StartJob(w, m)
    \/ \E w \in Workers : WorkerStep(w)
    \/ \E m \in Messages : TakeBack(m)
    \/ Crash

Spec == Init /\ [][Next]_vars

\* Slots take jobs and run on, and BullMQ looks for stalled jobs.  Nobody is
\* obliged to send or to deliver.
Fairness ==
    /\ \A w \in Workers : WF_vars(WorkerStep(w))
    /\ \A m \in Messages : WF_vars(\E w \in Workers : StartJob(w, m))
    /\ \A m \in Messages : WF_vars(Deserted(m) /\ TakeBack(m))

FairSpec == Spec /\ Fairness

-----------------------------------------------------------------------------
(* Properties *)

\* A message answered with 200 has become a job: it is not lost, whichever of
\* Redis, the timeout or the process fails on the way
\* (handleMessage: 200 only after enqueueWithTimeout resolved).
AckedIsQueued == \A m \in acked : queued[m]

\* The replay key outlives the freshness of the message it stands for, on
\* whichever side of WhatsApp's clock the server's is: however long WhatsApp goes
\* on delivering, the check lets one delivery in, and others only when their SET
\* waited for Redis longer than the key outlives the freshness
\* (STALE_WEBHOOK_SECONDS, REPLAY_TTL_SECONDS, maxRetriesPerRequest).
PassedOnce == \A m \in Messages : passed[m] <= 1 + late[m]

\* A payment is made twice for one message only if Redis was away during a
\* replay check, a SET waited too long or BullMQ took the running job back, and
\* at most once more for each time that happened (jobId, removeOnComplete, the
\* replay key).
EffectsAccounted ==
    \A m \in Messages : effects[m] <= 1 + late[m] + blind[m] + stalled[m]

\* Whatever first contacts of one number race, money leaves the wallet of the
\* row that is stored and no other (getOrCreateUser, phoneNumberHash @unique).
PaysFromItsWallet == paidFrom \subseteq {user}

\* A queued message is carried through or given up, never forgotten, although
\* the process may die again and again (the worker, processCommand's catch).
QueuedIsHandled == \A m \in Messages : queued[m] ~> job[m] \in {"none", "failed"}

\* "Returning 500 makes WhatsApp retry delivery rather than silently dropping
\* the message" (handleMessage): what is refused as a duplicate is queued or
\* still on its way into the queue.
OnItsWay(m) ==
    \/ queued[m] \/ adding[m] > 0
    \/ \E r \in Requests : at[r] = "enqueue" /\ msg[r] = m
DuplicateIsOnItsWay ==
    [][\A r \in Requests : RefuseDuplicate(r) => OnItsWay(msg[r])]_vars
=============================================================================
