# Kolo Backend: TLA+ models and proofs

Kolo lets people save and pay through WhatsApp: a message becomes a command, a
command becomes rows in PostgreSQL, jobs in Redis and transactions on Stellar.
Nearly every operation is a sequence of awaits over three stores that share no
transaction, run by several workers at once. This directory models the parts
where that matters, checks them with TLC, and proves with TLAPS, for every value
of the constants, all the safety and step properties that the runs check.

Paths below are relative to the repository's `src/src/` unless they say otherwise.

## 1. The system

### Components

| Component | State it keeps | Operations | What makes it correct |
|---|---|---|---|
| Payment requests (`services/payment-request.service.ts`, its queue and worker) | `PaymentRequest` rows, two jobs per request, claimable balances on Stellar | REQUEST, ACCEPT, DECLINE, completion after 5 minutes, expiry | the respondent's money is locked once and only for an accepted request, the requester is paid once, status and ledger agree, every request ends |
| Payout rotation (`services/payout.service.ts`) | order, index, lock, cycle number, extensions, `Payout` rows, the treasury | ORDER, WAIT, PROCEED, SKIP, executePayout, completeCycle | nobody is paid twice in a cycle, a full pot is paid, everybody gets a turn, the order is a list of members and frozen once contributions began |
| Contributions (`handleContribute`, `services/group.service.ts`) | the contract's contributions, `Contribution` rows | CONTRIBUTE, JOIN GROUP | a row only for money the contract has |
| Group exit (`services/group-exit.service.ts`) | member status and role, exit log, pause | LEAVE GROUP, KICK | settled once, gone from the rotation, somebody can still run the group, a group of one is paused |
| Contribution scheduler (`workers/contribution-scheduler.worker.ts` and queue) | window, repeatable and delayed jobs | cycle-start, last call, cycle-end | every deadline is looked at |
| Webhook ingress (`controllers/bot.controller.ts`, `middleware/webhook-signature.middleware.ts`, `queue/message.queue.ts`) | replay keys, message jobs | signature, staleness, replay, enqueue | each message is processed once, none is lost |
| Rate limiting, abuse detection (`middleware/command-rate-limit.middleware.ts`, `services/abuse-detection.service.ts`) | a sliding window and a hit list per sender, in Redis or in memory, and a flag | check, record a hit, flag | the limit holds in every window, three hits flag a sender, nobody is flagged for less |
| Contract deployment (`workers/soroban-deployment.worker.ts` and queue, `services/soroban.service.ts`) | `deploymentStatus`, `stellarContractId`, the job | upload, create, initialize, record | the recorded contract exists, and a group keeps its contract |
| Reconciliation (`workers/contract-sync.worker.ts` and queue) | `ReconciliationMismatch` rows | compare every 5 minutes, resolve | what the contract has and what the rows say is compared, and a difference reported |
| Key rotation, wallet encryption (`workers/key-rotation.worker.ts`, `services/encryption.service.ts`, `scripts/encrypt-wallets.ts`) | sealed wallets and their key versions | start, rotate, seal, decrypt | every wallet stays readable, a rotation is complete and ends |
| Phone encryption (`middleware/prisma-encryption.middleware.ts`, `scripts/backfill-phone-encryption.ts`) | ciphertext and hash of each number | rewrite of reads and writes, backfill | every number is found, also one from before |
| Users (`services/user.service.ts`) | `User` rows | first contact | one user and one wallet for a number |
| Authentication, wallet hook | a consumed challenge; reducer state | SEP-10; fetch | a challenge is used once |
| Message processor and worker | none of their own | parse and dispatch, five commands at a time | see the components they call |

Components interact through the database rows, the BullMQ queues and Stellar;
there are no locks. The message worker (five slots) runs commands, the
payment-request and the scheduler workers run jobs (one and five slots), and
each may be interleaved with the others at every `await`.

### What is hard about it

* Conditional updates (`updateMany` with the old status) are the only locks of
  the escrow; everything after one relies on them.
* A Stellar call can take effect and still throw; so can a database write.
* BullMQ hands a stalled job out again, keeps failed jobs under their id and
  refuses to add an id that exists.
* The group handlers read, check, and write back in separate statements. The
  order is changed by four handlers, the index by two, the window by two.
* Delayed jobs outlive the state they were scheduled for.
* The treasury is one account; amounts owed are computed from rows.
* A transaction that is not confirmed within the polls counts as done, and may
  land later or never.
* A deployment, a rotation and a reconciliation read something, work for a
  while, and write by id what they made of it; other runs of the same job,
  commands and scripts write in between.
* Two servers may be configured with different key versions, and the version
  a wallet is sealed under is recorded in some places and not in others.
* What is counted in Redis is counted again in memory when Redis is away.

`PROJECT.json` lists these as hazards, each at its line.

## 2. Modules

| Module | Models |
|---|---|
| `EscrowPromise` | what a payment request promises its two parties, without processes: ask, lock, agree, pay, refuse, take back |
| `PaymentRequest` | the escrow in detail: sessions, workers, jobs, claimable balances, faults; the refinement mapping to `EscrowPromise` |
| `PaymentRequestInductive` | its inductive invariants `Ownership` and `Escrow`, and the step property `StepByStep` |
| `PaymentRequestProofs` | the proofs about it |
| `MCPaymentRequest` | symmetry for TLC |
| `GroupState` | the rows, jobs and balances of one savings group, and how a handler enters, goes on, returns and throws |
| `GroupContributions` | JOIN GROUP, CONTRIBUTE and the order lock |
| `PayoutRotation` | the scheduler's jobs, executePayout, completeCycle and the PAYOUT commands |
| `GroupExit` | LEAVE GROUP and KICK |
| `SavingsGroup` | the composition of the three, with the properties of money, order and progress |
| `ObservedGroup` | the same with history variables, and what payouts, deadlines, exits and the lock promise but for the occurrences these note |
| `MCSavingsGroup`, `MCObservedGroup` | symmetry for TLC |
| `SavingsGroupProofs` | the proofs about `SavingsGroup` |
| `ObservedGroupProofs` | the proofs about `ObservedGroup` |
| `Totals` | lemmas about sums over finite sets |
| `WebhookIngress` | the webhook's staleness and replay check, the enqueue timeout, WhatsApp's retries, the message queue |
| `MessagePipeline` | the ingress with the message worker: first contact of a number, a SEND, stalled jobs and crashes |
| `MessagePipelineProofs` | the proofs about both |
| `UserRecords` | the `User` rows: who is found by a number, which key a wallet is sealed under, which version each reader tries; first contacts |
| `RecordMigrations` | the two scripts over these rows: sealing plain wallets, and the phone backfill |
| `KeyRotation` | the start route, the rotation job with its pages and failures, stalled jobs, servers restarted under another version |
| `UserAccounts` | the composition of the three, with its properties |
| `UserAccountsProofs` | the proofs about it |
| `ContractDeployment` | CREATE GROUP, the deployment job and its two slots, the transactions they submit |
| `Reconciliation` | contributions to the deployed contract, cycles, and the run that compares the contract with the rows |
| `ContractLifecycle` | the composition of the two, with its properties |
| `ContractLifecycleProofs` | the proofs about it |
| `CommandLimiter` | the rate limit on one sender's financial commands and the flag for hitting it |
| `CommandLimiterProofs` | the proofs about it |

**How code becomes actions.** A process is a slot of a worker. `pc[p]` names
the await it is at and `frame[p]` (`cur`, `got`, `who`, `tries` in
`PaymentRequest`) what it has read. One action runs from one await to the next;
what the code reads before an await and uses after it stays in the frame and
may be stale. An early return that changes nothing is a stuttering step. A
throw becomes `Throw` (a job is tried again while it has attempts) or a label
of the catch block. Each operation with a fault has a second disjunct or an
action `...Fails`; a write that fails may or may not have taken effect.

**Faults** are a constant set, so a run says which it assumes: `ledgerDown`/
`down` (rejected, no effect), `ledgerReplyLost`/`replyLost` (took effect, still
throws), `db`, `queue` (Redis is away), `noWallet`, `stall` (a job is handed
out twice), `crash`. The webhook pipeline knows `redis` (a Redis command fails,
and it may or may not have been carried out), `slow` (the controller's ten
seconds pass first), `ledger`, `stall` and `crash`. The contract models know
`rpc` (a Soroban call throws, whatever the ledger made of it), `slow` (a
transaction is not confirmed in time), `db`, `queue`, `stall` and `crash`; the
limiter `away` (Redis is gone), `throw` (one command fails, carried out or not)
and `crash`. In the last two `MaxFaults` bounds how often something goes wrong
in one behaviour.

**History variables.** The group's handlers do not keep all their promises when
several run side by side or one is lost on its way. Rather than leave those
cases out, `ObservedGroup` adds variables that no handler reads and that note
each such occurrence when it happens; a property then says that the promise
holds but for these:

| Variable | Notes | Excuses |
|---|---|---|
| `unrecorded` | per cycle number, transfers whose handler ended without a Payout row (reply or write lost, process dead) | one more transfer each |
| `overlapping` | per cycle number, look-ups that found no row while another handler was between look-up and row | one more transfer each |
| `forsaken` | the handler that set the deadline ended before it added the job (Redis away, write that took effect and threw, process dead) | a window without its job |
| `twice` | members with a second exit that passed its check before the first had marked them | their two refunds and log rows |
| `unmarked` | members refunded by an exit that ended before it marked them | a second refund |
| `outOfDate` | an exit decided by the member list of its beginning after that had become wrong | no pause, no creator |
| `cutShort` | an exit ended between its mark and its end | no pause, no creator |
| `deserted` | there was nobody left in the group at some time | no creator for who joins then |
| `stale` | sessions about to write an order made from one that was replaced, or locked, since | that write |
| `readmitted` | members put back, or not taken out: their exit failed to, a stale order was written, an ORDER named them, the order became empty | their turn |

Each is set by the step in which the occurrence happens, by a condition that
does not mention the promise it excuses. `late` and `lapsed` do the same for the
webhook and the limiter.

**Abstractions.** A payment amount is irrelevant to the escrow and left out;
group amounts count `contributionAmount`. Time is what the guards compare:
whether `expiresAt` was reached, whether the reclaim window is open, and for a
group `window` (before or after `currentCycleEnd`) with `deadline`, its end in
days. Messages to people, wording and logging are left out. `payout` and
`resetCycle` are called on the Soroban service through a cast
(`payout.service.ts:339`, `:372`) but are not methods of the class; they are
modelled from their use, as a transfer and as a call without other effect.
`index.ts` starts neither the payment-request nor the contribution-scheduler
worker; the models assume a process that does. The reads of `StartEnd`,
`BeginProceed` and `BeginExit` are several queries in the code and one step
here. A stalled scheduler job counts as one of its attempts. A cycle-start job
whose update throws has had its effect or none, and its next attempt is one more
firing of the cron. BullMQ 5 may refuse custom job ids
such as `complete:<id>` (a colon, two parts); whether it does belongs to the
library, and the models take the ids as accepted. Webhook requests that are
turned away before the replay check (signature, shape, rate) or that carry no
text change nothing and are left out; waiting message jobs are taken in any
order. The freshness test reads the server's clock once; the `SET` that follows
is a step of its own, any time later, because the client waits for Redis
without limit (`maxRetriesPerRequest: null`, `lib/redis.ts:5`). WhatsApp's clock
is off by up to `Skew` either way; Redis counts the life of a key at the rate of
the server's clock. `processCommand` catches whatever a command throws, so a
message job is only ever run again when it stalls.

*Users.* A cipher is what opens under its own key only. A wallet is plain text,
a sealed text or a sealed seed, with the key it is sealed under and the
`keyVersion` its JSON names (0 for none). Hash and ciphertext of a number are
one bit, because every writer sets both in one statement. A wallet counts as
usable when SEND and CONTRIBUTE get a raw seed from it: the text that the script
seals decrypts, but both pass it to `fromRawEd25519Seed`, which throws. The
rotation can open either. The models begin with
every set of rows the release before phone encryption may have left. An
operator uses the backfill, or the wallet script and a rotation; `Programs`
says which sets are explored. The friendbot and the trustline of a new wallet
touch none of this and are left out.

*Contracts.* An attempt's contract id is new to it (its salt is random), and an
id that an attempt dropped is free again, since nobody knows it. Amounts count
contributions; the worker's tolerance of one stroop is then equality. The
source does not say whether the contract begins its total anew with a cycle
("this cycle", `contract-sync.worker.ts`), and nothing in `src/` tells it to:
both are allowed. `window` counts cycles, 0 while `currentCycleStart` is null;
rows that are made after a window's end and before the next cycle-start are not
distinguished. One member suffices, because a run treats members one after the
other. The resolve route sets `resolvedAt`, which no run reads. Repeated
mismatch rows of a member count once. `QueryContribution` is 0: when the
simulation succeeds, `queryContribution` looks for `results`
(`soroban.service.ts:530`), a field of the raw RPC response, in the parsed one
that the SDK's `simulateTransaction` returns, whose field is `result`; when it
fails, or decoding throws, the code answers 0 as well.

*Limiter.* One sender and the FINANCIAL tier; the other tiers differ in their
number only. The key of the limit is set by one script, with its time to live.
The key of the hits is not: `ZADD` leaves its time to live alone and `EXPIRE` is
a later await, so the key may end between any two commands (`KeyEnds`) and take
a hit along that was just counted. `lapsed` notes the hits that went although
they were still in the window. That ioredis sends a script again after a lost
connection is one of the outcomes of `throw` (carried out, and it throws) and
otherwise left out. A request lasts less than a tick, and so sees one end at
most.

## 3. What the runs check

| Run | Instance | Shows |
|---|---|---|
| `request_faults` | 1 request, 2 sessions, 2 workers, all faults but a lost Stellar reply | `TypeOK`, `PaidAtMostOnce`, `Ownership`, the inductive invariant `Escrow`, `KeepsPromise` (refinement of `EscrowPromise`), `BalanceIdStable`, `FinalForever` |
| `request_live` | 2 requests, 2 sessions, 1 worker, Stellar faults with lost replies, fair | `TransientHasOwner`, `PendingOvershoot`, `EveryRequestResolved` |
| `group_faults` | 3 users (one joins), 2 sessions, 2 scheduler slots, 2 commands of 7 kinds, 1 window, all faults | `TypeOK`, `RecordsAreBacked`, `OrderWellFormed` |
| `group_promises` | the same, with history variables | `PaidOncePerCycle`, `DeadlineHasJob`, `SettledOnce`, `PausedBelowTwo`, `GroupHasCreator`, `LeftOutOfRotation`, `OrderFrozenOnceLocked` |
| `group_live` | 2 users, 2 sessions, 3 commands of CONTRIBUTE, ORDER, SKIP, WAIT, 2 windows, fair | `FirstPotIsPaid` |
| `group_one_payout` | 2 users, 2 windows, fair | `RotationGoesOn` is violated |
| `webhook_delivery` | 1 message delivered twice, clocks that differ either way, 2 workers, all faults, fair | `TypeOK`, `AckedIsQueued`, `PassedOnce`, `EffectsAccounted`, `PaysFromItsWallet`, `QueuedIsHandled` |
| `webhook_retry_refused` | Redis failing | `DuplicateIsOnItsWay` is violated |
| `user_accounts` | 2 numbers, 2 rows, 2 servers, 2 key versions, 1 rotation job, all faults, fair | `TypeOK`, `WalletsStayReadable`, `BackfillFindsEveryone`, `RotationIsThorough`, `RotationEnds` |
| `contract_lifecycle` | 2 contracts, 2 slots, 1 member, 2 contributions, 1 cycle-start, 2 faults of any kind, fair | `TypeOK`, `DeployedContractExists`, `ContractKept`, `MissingMoneyIsReported` |
| `contract_loss` | 1 contract, 1 contribution, 1 crash, fair | `LossIsReported` is violated |
| `command_limits` | 5 requests, 2 at a time, limit 1 per window, 1 fault of any kind | `TypeOK`, `LimitHeld`, `ThreeHitsFlag`, `FlagIsEarned` |

What some of the properties say needs a word:

* `PaidOncePerCycle`, `DeadlineHasJob`, `SettledOnce`, `PausedBelowTwo`,
  `GroupHasCreator`, `LeftOutOfRotation` and `OrderFrozenOnceLocked` name the
  occurrences of section 2 that break them, one payment or one member at a time
  where they can. Leaving any of these names out of its property gives a
  counterexample in `group_promises` (section 5): none is there for the proof
  alone. For `unmarked` it takes a third command (contribute, leave, leave again)
  and so `MaxCommands = 3`; without windows (`MaxPeriods = 0`), and with lost
  replies, lost writes and crashes, the properties of exits and of the lock were
  checked on that instance too (778 000 states).
* `FirstPotIsPaid` asks for a payout under the number of the rotation in which
  the window was full, not for any payout, and only for the first: what happens
  to the later ones is `RotationGoesOn`. It allows the window not to be full any
  more when its job looks, which the next cycle-start brings about.
* `PassedOnce` allows one more passage for each `SET` that was carried out, after
  another delivery had been let in, later after its freshness test than the key
  outlives the freshness; `EffectsAccounted` counts these too.
* `WalletsStayReadable` is about wallets first sealed as a raw seed under version
  1. A wallet sealed as text by the script is unusable from the start, and so is
  one that a server made under a later version (section 5); nothing is promised
  of either.
* `ContractKept` allows a contract to be replaced by a job that BullMQ handed
  out again, or that was told its write had failed: both happen, and nothing
  but these does, however many attempts and slots there are.
* `MissingMoneyIsReported` promises little: as the run takes every contract to
  have nothing of anybody, it reports every member with rows. What has to be
  right is that some run gets there through crashes, skipped members, failing
  statements and cycles that begin between its reads. The other half, money the
  contract has and the rows do not, is what the comments promise; `LossIsReported`
  is its weakest reading, with all rows counted against the contract of now, and
  the code does not keep even that.
* `LimitHeld` multiplies the limit by the stores that counted, because the code
  does: Redis, and the memory of each process that ran while Redis was away.
* `ThreeHitsFlag` and `FlagIsEarned` leave a tick on either side, since a hit
  carries the time at which its call began. `ThreeHitsFlag` does not count hits
  that are dropped, shared between the stores, or `lapsed`.

**Bounds.** Requests do not interact except through the pending limit and the
slots, so one request with two sessions and two workers contains every pair of
racing handlers. Overshooting the limit takes two
requests, which `request_live` has; its one balance makes the second hold a
rejected one. Two balances allow a double hold. `RecordRetries` is 2 (3 in the code): first
and repeated attempt. In a group `N` is 2 or 3: three is the least for which
an order has a middle, an exit leaves a pair, and two exits leave one. Two
sessions and two commands, with a member who joins at any time and two scheduler
slots for the jobs of the cron and of a WAIT, hold every pair of handlers side by
side. Two windows are the least in which a cycle-start can move one that is
full; `MaxEnds = 4` has room for the job of each and for those of WAITs.
`Attempts` is 2 (3 in the code). `MaxCommands`, `MaxPeriods`,
`MaxContributions`, `MaxEnds` and `MaxCycles` bound counters that grow for ever
and are guards of the actions that count. Deadlock is not checked: after the
last command, or when every request is final, the system rightly stops, and
what must happen is stated as liveness. Symmetry is used for interchangeable
processes, users, requests and balances in safety runs only; users of a group
are numbered by the time they join and are not symmetric. Lost Stellar replies
together with crashes, failing writes and stalled jobs are left to the proofs,
which hold under every set of faults. Webhook time is counted in units of
`STALE_WEBHOOK_SECONDS`: a message is fresh for one, the clocks differ by up to
one, and the key lives for three, the least that outlives both; in the code 300,
anything below 300, and 600 seconds. `MaxNow = 3` reaches the instant at which the
first key ends while a second delivery, tested fresh before, waits for its `SET`.
One message is enough for two workers to race for a first
contact, because a job taken back while it runs is run by both. Two rows, one
of which is read in each page (`Batch = 1`; 100 in the code), make a
rotation and a backfill go from page to page while a first contact inserts; two
servers with two versions, and a job that may be taken back once, make two runs
of one rotation under different versions overlap. Two contracts are the first
and the one that replaces it; `Attempts` is 2 of 3, and two faults anywhere
reach, for instance, an attempt that fails after its contract was made and a
crash of the next, or a lost row and a failed run of the reconciliation. With
`Limit = 1` three hits take four requests, and the fifth comes after the window
has moved on. The hit window is the shorter one, so that a key that ends can cost
a flag within five requests.

**Fairness.** A handler that was entered runs on (the event loop), a worker
takes the jobs that are due, and clocks advance; in the webhook pipeline a
waiting job is started and a deserted one taken back, and so it is with rotation
jobs. The reconciliation cron fires for ever and its worker carries the runs
out. Deployments, contributions and first contacts need no fairness. Nobody is obliged to send a
command, to take money back, or to fire the cron: those actions are not fair.
No assumption is made about which of several enabled commands comes first.

## 4. What is proved

The proof modules hold for any sets of users, rows, requests, messages,
contracts, sessions, slots and servers and for any limits, bounds and retry
counts, from the named assumptions of the modules (`ConstantsAssumption`,
`GroupAssumption`, `IngressAssumption`, ...): `None` is none of the values it
stands beside, processes are told apart, limits are numbers, `Faults` are known.
Some say a little more, because a proof needs it and the code justifies it:

* the processes are finite sets (`GroupAssumption`, `IngressAssumption`,
  `LimiterAssumption`): connections and slots are; the counts would mean nothing
  otherwise;
* `ReplayAssumption`, `Stale + Skew < Ttl`: 300 s and 600 s, and a clock that is
  not five minutes off. `PassedOnce` is false without it, and with it still needs
  `late`;
* `ReconciliationAssumption`, `Members # {}`: a group has its creator;
* `LimiterAssumption`, a hit window of more than one tick: it is ten minutes,
  and a request lasts less than a tick.

Only theorems about payment requests have a hypothesis, on `Faults`, and it is
needed: TLC finds a counterexample on a small instance without it. All others
hold under every set of faults and for any number of handlers side by side.

### Payment requests (`PaymentRequestProofs`)

* Under **every** set of faults: `TypeCorrect`, `OwnershipInvariant`,
  `OneOwnerCorrect`, `PaidAtMostOnceCorrect`, `FinalForeverCorrect`,
  `BalanceIdStableCorrect`, and for finitely many sessions
  `PendingOvershootCorrect`.
* While writes are answered and processes live (`"db"`, `"crash"` not in
  `Faults`): `TransientHasOwnerCorrect`.
* If a rejected Stellar call had no effect (`"ledgerReplyLost" \notin Faults`):
  `EscrowInvariant`, `NoDoubleHoldCorrect`, `UnansweredUnfundedCorrect`,
  `EscrowAgreesCorrect`, `StepByStepCorrect` and `PromiseKept`, the refinement.
  The assumption is needed: without it a request is locked twice (section 5).

`PaidAtMostOnce` is not inductive: a state in which two workers
both believe they own a request satisfies it. `Ownership` says what the
conditional updates are for. A session between taking a hold and adding the
completion job is alone with its request (`SessionsOwn`): no other session has
taken it, no completion job exists, and status and frame fit its await. A
worker between `COMPLETING` and the end of its job is alone too, and has read
the recorded balance id (`WorkersOwn`). The balance id is recorded exactly with
the statuses that need it (`Recorded`), and only a recorded balance was ever
claimed (`BalancesOwned`); two claimed balances of one request are then the
same. The unconditional updates to ACCEPTED and COMPLETED are harmless for the
same reason: their process owns the row. `Escrow` adds that a hold is placed
only where nothing is funded yet (`NothingFundedYet`) and that a worker knows
whether its claim took effect (`ClaimsAreSeen`). The step lemmas have one step
per action; the refinement splits each step by `OneThingAtATime` (one status,
or one balance, or nothing) and maps each kind to an action of the promise.

`OneOwner`, `NoDoubleHold`, `UnansweredUnfunded`, `EscrowAgrees` and
`StepByStep` are consequences of `Ownership`, `Escrow` and `KeepsPromise`; the
runs check those three, and the theorems derive the rest.

`TransientHasOwner` is inductive with the types. `PendingOvershoot` is inductive
together with `Ownership`: `PendingMoves` says that a step leaves a user's
pending requests and the sessions that may add one as they are or smaller,
counts a session in while the limit is not reached, turns a session into a
request, or a request that is being held into a session; `BoundedStep` counts.

### Savings groups (`SavingsGroupProofs`, `ObservedGroupProofs`, `Totals`)

About `SavingsGroup`:

* `TypeCorrect`: `Fits` says what each await needs of the frame that carries it.
* `OrderWellFormedCorrect`: `OrdersGood` says the same of the stored order and of
  every copy in a frame. A stale copy stays good because a member row is never
  deleted, and each handler rearranges a good order into a good one.
* `RecordsAreBackedCorrect`: `Confirmed` counts the handlers that hold a
  confirmation no row has yet, `Transferred` ties rows and pending rows to
  transfers, and `Balanced` adds up treasury, payouts, refunds and transfers not
  recorded yet. A sum is treated as one summand changing (`Totals`). The library
  has no induction that the provers can apply to a fold, so `Totals` argues from
  the subset of least cardinality for which a claim would fail.

About `ObservedGroup`, each in two halves: a lemma that sorts the handlers' steps
into the few kinds that matter to the property (`PayoutKinds`, `Attends`,
`ExitKinds`, `OrderKinds`, and `StandsAside`, `GoesBy`, `LeavesExits` and
`OrderStands` for all the rest), one step per action, and one in which each kind,
with what the history variables note of it, preserves the invariant.

* `PaidOncePerCycleCorrect`: `PaidOnce` counts transfers together with handlers
  about to make one, against one and the excuses; and it says that while there is
  no row and nobody is on the way to it, every transfer made so far is excused,
  which is what the next look-up that finds nothing relies on.
* `DeadlineHasJobCorrect`: `Watched` asks for a job that nobody has begun, since a
  job that has begun is dropped whatever the deadline is by then; `JobsKept` says
  that a running job is in one slot's hands.
* `SettledOnceCorrect`: `Settling`. Unless two exits of a member began side by
  side, one at most is under way before its log row; until it is marked a member
  is active, without log row, and has no refund but the one just made
  (`SettledBy`). `ExitsKnow` is what an exit knows of its member.
* `PausedBelowTwoCorrect` and `GroupHasCreatorCorrect`: `Pausing` and `Led` name
  the awaits at which an exit has yet to pause the group or to hand the role on;
  an exit that decides otherwise goes by a list that is right, or `outOfDate`.
* `OrderFrozenOnceLockedCorrect`: `Frozen` says that what a session that is not
  `stale` will write is made from the order and the lock as they are now.
* `LeftOutOfRotationCorrect`: `LeftOut` adds that such an order names nobody
  beyond those who have a turn and the `readmitted`, and is never empty, so that
  only an exit can make the member rows the order again.

### Webhook and messages (`MessagePipelineProofs`), every set of faults

* `TypeCorrect`, with `DeliveriesCounted` (calls of `Queue.add` that outlive
  their request come of deliveries) and `StalledBounded`.
* `AckedIsQueuedCorrect` and `PaysFromItsWalletCorrect`: `WalletHeld` says that a
  slot at its payment has the wallet of the row, whoever inserted that.
* `PassedOnceCorrect`: `Fresh`. Who awaits the `SET` tested a message that was
  fresh at the time (`Stamped`), and the key of a message that was let in lasts
  until `Ttl - Skew` after the message's timestamp (`KeyOutlives`): who finds it
  gone was tested at least the margin ago, and is `late`.
* `EffectsAccountedCorrect`: `Accounted`. Payments made, slots that have yet to
  pay, the waiting job, late adds and requests about to enqueue are together no
  more than deliveries let in, deliveries let in unchecked and jobs taken back,
  and with `PassedOnce` the first of these is one and `late`.

### User records (`UserAccountsProofs`), every set of faults and programs

* `TypeCorrect`. Its lemmas sort what a step makes of a row: created, sealed,
  filled, rotated or kept.
* `WalletsStayReadableCorrect`: `PlainIsFirst`, a plain wallet is in a row no
  rotation has treated, and so are the rows the script has yet to seal; a run's
  copy that shows a sealed wallet is of a row that holds one in the same form,
  so what it writes back never turns a seed into a text.
* `RotationIsThoroughCorrect`: `Faithful`, however old a run's copy of a row is, it
  tells whether the row can be rotated, because no step changes that.
* `BackfillFindsEveryoneCorrect`: `Scanned`, rows up to the cursor are hidden, in
  the page or failed; a first contact inserts rows that are hidden already.

### Contracts (`ContractLifecycleProofs`), every set of faults

* `TypeCorrect`, with `JobHasOneOwner`.
* `DeployedContractExistsCorrect`: `SlotsCarry`, an id is carried by one slot from
  its creation until it is written, and its slot saw it on the ledger before.
* `ContractKeptCorrect`: `OneRun`, as long as the job was taken back from nobody
  one slot works, and `WrittenOnce`, what is left of that run after it wrote.

### The limiter (`CommandLimiterProofs`), every set of faults

* `TypeCorrect`: no window holds more entries than the limit.
* `LimitHeldCorrect`: `Accounted` gives each request that was let through its entry
  in the store that counted it, and bounds the share of each earlier life of the
  process when that life ends; `PartsBound` adds the shares up.
* `ThreeHitsFlagCorrect`: `Recorded`, a hit's entry stays until it is old unless
  its process died or the hit is `lapsed`, and `LastCounts`, of three near hits
  that did not lapse one counted after all were recorded.
* `FlagIsEarnedCorrect`: `Earned`, who counts has pruned what is too old for its
  own hit, so three entries it sees are of three denials near each other
  (`Evidence`).

### Model-checked only

Liveness, and whatever depends on fairness or ENABLED: `EveryRequestResolved`,
`FirstPotIsPaid`, `QueuedIsHandled`, `RotationEnds`, `MissingMoneyIsReported`; and
the violations of section 5, which are counterexamples. `SelectSeq` is recursive in a
way the provers cannot unfold; `Without` and `GroupExit`'s choice of an heir are
therefore written with `RemoveFirst` and `SelectInSeq`, which say the same of
lists that name nobody twice, as `OrderWellFormedCorrect` shows these to be.

## 5. Where code and comments disagree

Three runs show a disagreement, each listed under `findings`:

1. `group_one_payout`: the idempotency lookup takes the first payout of a
   rotation for every later one, so only one member is ever paid.
2. `webhook_retry_refused`: when queueing fails the webhook answers 500 so that
   WhatsApp delivers again (`bot.controller.ts:137`), but the replay key is
   already set and the redelivery is refused as a duplicate: the message is lost.
3. `contract_loss`: the reconciliation "will detect any divergence that slips
   through a crash between confirmation and the DB write"
   (`services/message-processor.service.ts:861`, and so
   `workers/contract-sync.worker.ts:11`), but `queryContribution` reads a field
   that the SDK's response does not have (`services/soroban.service.ts:530`) and
   always answers 0: a contribution without its row is 0 on either side.

Others were found with small instances of the same specifications. They are
not kept as runs; the change to reproduce each is given where one is needed.

*Payment requests*

* `NoDoubleHold` with `ledgerReplyLost` among the faults of `request_faults`: a
  Stellar call that took effect and throws is treated as "no funds are locked"
  (`payment-request.service.ts:100`), and a second ACCEPT locks them twice.
* A failed claim goes back to ACCEPTED "for later retries" (`:164`), but the job
  has no attempts and its id stays taken. In `EveryRequestResolved` this is one
  of the two kinds of `Stranded` rows; without it the property is violated.
* A request whose expiry job ran during HOLDING and whose hold then failed is
  PENDING for ever, the other kind. `Answerable` refuses it, but no job changes
  its status.
* `createRequest` can pass the pending limit (`:37-40`); `PendingOvershoot` is
  the bound that does hold.
* The respondent's reclaim predicate is `predicateBeforeRelativeTime`
  (`stellar.service.ts:325`): the hold can be taken back at once and not after
  the hour, the opposite of the comment at `:309-311`. `locales/en.json` tells
  users what the code does.

*Groups*

* `PaidOncePerCycle` without `unrecorded` in `group_promises`: the retry of a
  cycle-end job whose transfer lost its reply, or whose `payout.create` failed,
  pays again, although it "should never" (`payout.service.ts:319`).
* `PaidOncePerCycle` without `overlapping`: PROCEED and a cycle-end job both find
  no row and both pay. So do two cycle-end jobs, after two cycle-starts in quick
  succession.
* `DeadlineHasJob` without `forsaken`: `extendDeadline` writes the deadline and
  fails before the job is added, and `enqueueCycleEnd` returns null without
  Redis; the window then ends with nobody looking, unless an older job does.
* `FirstPotIsPaid` without its exception: the next cycle-start moves the window
  before the cycle-end job reads it (`payout.service.ts:394`), and a pot that was
  full is not paid.
* `OrderFrozenOnceLocked` without `stale`: ORDER passes the lock check, the first
  contribution locks, ORDER writes.
* `LeftOutOfRotation` without `readmitted`: an order must name every member row,
  those who left too (`payout.service.ts:81-87`), so they are back in the rotation;
  a SKIP or the lock writes back an order from before an exit; and who joined
  later is not in a configured order, so that once exits have emptied it,
  `resolveOrder` falls back on all member rows (`:45-50`), those of members who
  left included, and a SKIP makes these the order.
* `SettledOnce` without `twice`: LEAVE and KICK of one member side by side make
  two refunds and two log rows. Without `unmarked`: an exit that dies after its
  refund leaves the member active, who leaves again and is refunded again (with
  `MaxCommands = 3`).
* `GroupHasCreator` and `PausedBelowTwo` without `outOfDate`: the second of two
  exits works with a member list from before the first. Without `cutShort`: an
  exit whose update of the creator or of `isPaused` fails is not taken up again.
* `GroupHasCreator` without `deserted`: a group that everybody has left can be
  joined, and then has nobody to run it.
* The limit on extensions is compared before the increment
  (`payout.service.ts:185`): each WAIT in progress may add one beyond it.
* No step ever clears `isPaused`, although `prisma/schema.prisma:54-56` and the
  message of `group-exit.service.ts:214` speak of resuming.
* A group can be refunded more than the treasury holds for it: a partial payout
  spends contributions that a later exit counts again.
* After a crash between `AdvanceIndex` and `NewCycle` the index is past the end
  of the order and the retry stops at the Payout row.
* The key that keeps a last-call reminder from being sent twice is deleted when
  sending throws (`contribution-scheduler.worker.ts:151`), also after a message
  that did go out.

*Webhook*

* `PassedOnce` without `late`: a request that was tested fresh waits for Redis
  while the key of another delivery comes and goes, sets it anew and passes
  (`lib/redis.ts:5`, `webhook-signature.middleware.ts:112-120`).
* A `SET` that the client sends again after a lost connection finds the key that
  it set itself: the message is refused as its own duplicate (`RefuseOwnKey`).
* The job id should make BullMQ "safely ignore" a redelivery
  (`message.queue.ts:40-42`). With `Faults = {"redis", "slow"}` a payment is made
  twice: Redis is away during the replay check, the add outlives its timeout,
  the command completes and its id is forgotten, and the redelivery that the 500
  asked for runs it again. `EffectsAccounted` is what does hold.

*Users and wallets*

* A rotation decrypts each wallet with its row's version
  (`key-rotation.worker.ts:54`), but a user created after the version was raised
  has a wallet sealed under the new key in a row that says 1
  (`user.service.ts:64`, `prisma/schema.prisma:20`); such a wallet cannot be used
  or rotated.
* Payment requests (`payment-request.service.ts:92`, `:193`) and the trustline of
  a new wallet (`user.service.ts:36`) decrypt without a version, which means
  version 1: holds and claims fail for a rotated wallet, and the trustline for
  every wallet made after the version was raised.
* `scripts/encrypt-wallets.ts` seals the secret's text where readers expect the
  raw seed (`scripts/encrypt-wallets.ts:28`, `stellar.service.ts:110`), and records
  no version: its wallets cannot be spent from, before or after a rotation.
* Migration `20260824020000` drops the unique index on the number because
  uniqueness "is enforced by phoneNumberHash instead", but a number that writes
  before the backfill reaches its row is not found by its hash and gets a second
  row and wallet; the backfill then reports the old row as failed.
  `BackfillFindsEveryone` is what does hold.

*Contracts*

* `ContractKept` without its exceptions: a job that is handed out again after it
  wrote its contract sets DEPLOYING on a group that works, and either deploys a
  second contract, which leaves the money in the first, or ends as FAILED, after
  which reconciliation skips the group.
* An unconfirmed `initialize()` counts as deployed; nothing calls it again.
* `createGroup` goes on when the deployment job cannot be added, and
  `retryFailedDeployment` and `getFailedDeployments` have no caller: the group
  stays PENDING. The same holds of a FAILED one.
* A contribution that is not confirmed leaves a PENDING row that nothing looks
  at again.
* Runs are serial "to avoid duplicate mismatch records"
  (`contract-sync.worker.ts:44`), yet every run appends a row for a mismatch an
  earlier one reported.
* With `queryContribution` answering 0, every member with contributions in the
  cycle is reported as a mismatch by every run; if it answered the amount, a
  contribution in progress would be, because the contract is read before the
  rows.

*Limits*

* `ThreeHitsFlag` without `lapsed`: when the ten minutes of the hit before end
  between `ZADD` and `EXPIRE` (`abuse-detection.service.ts:86-89`), the key goes
  and takes the new hit along; three hits near each other then do not flag.
* A hit whose Redis command fails is logged as "falling back to in-memory"
  (`abuse-detection.service.ts:95`), but while the client is connected it is
  dropped; so is the flag it would have raised.
* The limit is counted again from nothing in memory when Redis is away, and
  again after a restart (`LimitHeld`).
* `isUserFlagged` has no caller, and a flag kept in memory is not seen once
  Redis is back.

## 6. Not modelled, and the plan

* *SEP-10 authentication*: a challenge is consumed by one `SET NX`; everything
  else is the Stellar SDK's verification of a transaction.
* *The wallet hook*: a browser hook of one reducer that nothing in this
  repository mounts.
* *Process entry, formatting, locales, logging, configuration, WhatsApp sending
  and Horizon queries* keep no state. `index.ts` is where it shows that two of
  the six workers are never started.
* *The contract's own code* is not in the repository
  (`contracts/savings_group.wasm` is an eight-byte placeholder), so contract
  calls are modelled from their use. `removeMember` of an exit is left out: its
  failure is swallowed and nothing reads the result.
* *Commands that start no protocol* (BALANCE, HISTORY, PROFILE, LANGUAGE,
  WITHDRAW, HELP), the limiter's other tiers, `webhookRateLimiter`, which is
  wired nowhere, and operations without a caller (`deleteGroup`,
  `updateGroupFrequency`, `retryFailedDeployment`, `getFailedDeployments`).

Every stateful part that runs has a module, and every invariant and step property
of a run has a theorem. What is left, most important first:

1. An abstract rotation, a queue of turns, that `ObservedGroup` implements while
   nothing is noted in its history, and the lemmas about `ToBack` and `Without` it
   needs.
2. An abstract delivery (each message handled at most once, with the exceptions
   that `EffectsAccounted` counts) that `MessagePipeline` implements.
3. `ThreeHitsFlag` per store and process life, without the bound of one sender.
