----------------------------- MODULE GroupState -----------------------------
(***************************************************************************)
(* One savings group as the database, the scheduler queue and the chain    *)
(* know it (src/prisma/schema.prisma), shared by the modules that act on   *)
(* it: GroupContributions, PayoutRotation and GroupExit, which SavingsGroup *)
(* composes.  Amounts are counted in contributionAmount, which every       *)
(* contribution must match exactly.                                        *)
(***************************************************************************)
EXTENDS Integers, SequencesExt

CONSTANTS
    N,                \* users 1 .. N may ever belong to the group
    Founders,         \* 1 .. Founders have joined, in this order; 1 created it
    Sessions,         \* slots of the message worker (commands in progress)
    Workers,          \* slots of the scheduler worker (jobs in progress)
    None,             \* null
    Commands,         \* the commands the members send
    Faults,           \* what may go wrong
    Attempts,         \* attempts of a scheduler job (defaultJobOptions)
    MaxExtensions,    \* MAX_PAYOUT_DEADLINE_EXTENSIONS
    MaxPeriods,       \* bound: cycle-start jobs that run
    MaxCommands,      \* bound: commands that are sent
    MaxContributions, \* bound: contributions of one user
    MaxEnds,          \* bound: cycle-end jobs at a time
    MaxCycles         \* bound: rotations that are completed

CommandNames == {"JOIN", "CONTRIBUTE", "ORDER", "WAIT", "PROCEED", "SKIP",
                 "LEAVE", "KICK"}
FaultKinds == { "down",      \* a chain call is rejected, no effect
                "replyLost", \* it took effect and still throws
                "db",        \* a write is rejected or its reply lost
                "queue",     \* Redis is away: the job is not added or removed
                "crash" }    \* a process dies between two awaits

ASSUME GroupAssumption ==
    /\ N \in Nat \ {0} /\ Founders \in 1 .. N
    /\ Sessions \cap Workers = {} /\ IsFiniteSet(Sessions \cup Workers)
    /\ None \notin Nat
    /\ Commands \subseteq CommandNames /\ Faults \subseteq FaultKinds
    /\ Attempts \in Nat \ {0} /\ MaxExtensions \in Nat
    /\ {MaxCommands, MaxContributions, MaxPeriods, MaxEnds, MaxCycles} \subseteq Nat

Users == 1 .. N
Procs == Sessions \cup Workers
EndJobs == 1 .. MaxEnds
DaysOfCycle == 7   \* a WEEKLY group
Cycles == 1 .. MaxCycles + 1

VARIABLES
    status,         \* GroupMember.status, "NONE" without a row
    role,           \* GroupMember.role
    joined,         \* the member rows by joinedAt
    payoutOrder,    \* SavingsGroup.payoutOrder, <<>> when null or empty
    payoutIndex,    \* SavingsGroup.currentPayoutIndex
    totalCycles,    \* SavingsGroup.totalCycles
    orderLocked,    \* whether payoutOrderLockedAt is set
    extensionsUsed, \* SavingsGroup.deadlineExtensionsUsed
    isPaused,       \* SavingsGroup.isPaused
    window,         \* now, relative to [currentCycleStart, currentCycleEnd)
    deadline,       \* currentCycleEnd, in days
    cron,           \* whether the repeatable cycle-start job is registered
    periods,        \* cycle-start jobs that ran
    endFor,         \* cycle-end jobs: the deadline each was added for, or 0
    endTries,       \* and the attempts it has failed
    onChain,        \* contributions the contract confirmed, per user
    recorded,       \* COMPLETED Contribution rows, per user
    counted,        \* users with such a row inside the current window
    late,           \* users with one created after its end
    payoutRows,     \* Payout rows: cycle number and recipient
    received,       \* what the Payout rows of a user add up to
    sent,           \* treasury transfers made for a cycle number, per recipient
    refunded,       \* what refunds sent to a user add up to
    exits,          \* MemberExitLog rows, per user
    pool,           \* what the treasury holds of the group's money
    pc,             \* what each process awaits
    frame,          \* what it has read or been given
    asked           \* commands sent so far

members == <<status, role, joined>>
rotation == <<payoutOrder, payoutIndex, totalCycles, orderLocked, extensionsUsed>>
clock == <<window, deadline>>
queue == <<cron, periods, endFor, endTries>>
contributions == <<onChain, recorded, counted, late>>
payouts == <<payoutRows, received, sent>>
settlements == <<refunded, exits>>
control == <<pc, frame, asked>>
vars == <<members, rotation, isPaused, clock, queue, contributions, payouts,
          settlements, pool, control>>

Labels == {"idle", "invoke", "record", "readLock", "writeLock",
           "writeOrder", "extend", "enqueueEnd",
           "load", "lookup", "pay", "savePayout", "advance", "reset", "newCycle",
           "settle", "refund", "markLeft", "logExit", "readOrder", "dropFromOrder",
           "transfer", "pause", "stopCron"}

\* user is the member a handler is about, job the cycle-end job a worker runs,
\* amount null until it is known, last whether this payout ends the rotation,
\* stay the members that were active when an exit began, lead whether the
\* exiting member was the creator.
Frames == [user : Users \cup {None}, job : EndJobs \cup {None},
           order : Seq(Users), index : Nat, cycle : Nat, last : BOOLEAN,
           amount : Nat \cup {None}, deadline : Nat,
           stay : SUBSET Users, lead : BOOLEAN]
NoFrame == [user |-> None, job |-> None, order |-> <<>>, index |-> 0, cycle |-> 0,
            last |-> FALSE, amount |-> None, deadline |-> 0, stay |-> {}, lead |-> FALSE]

TypeOK ==
    /\ status \in [Users -> {"NONE", "ACTIVE", "LEFT"}]
    /\ role \in [Users -> {"MEMBER", "CREATOR"}]
    /\ joined \in Seq(Users) /\ payoutOrder \in Seq(Users)
    /\ payoutIndex \in Nat /\ totalCycles \in Nat /\ extensionsUsed \in Nat
    /\ orderLocked \in BOOLEAN /\ isPaused \in BOOLEAN /\ cron \in BOOLEAN
    /\ window \in {"none", "open", "over"}
    /\ deadline \in Nat /\ periods \in 0 .. MaxPeriods
    /\ endFor \in [EndJobs -> Nat]
    /\ endTries \in [EndJobs -> 0 .. Attempts - 1]
    /\ onChain \in [Users -> Nat] /\ recorded \in [Users -> Nat]
    /\ counted \subseteq Users /\ late \subseteq Users
    /\ payoutRows \subseteq Cycles \X Users
    /\ received \in [Users -> Nat] /\ sent \in [Cycles -> [Users -> Nat]]
    /\ refunded \in [Users -> Nat] /\ exits \in [Users -> Nat]
    /\ pool \in Int
    /\ pc \in [Procs -> Labels]
    /\ frame \in [Procs -> Frames]
    /\ asked \in 0 .. MaxCommands

\* createGroup inserts the group with its creator; the other founders joined.
Init ==
    /\ status = [u \in Users |-> IF u <= Founders THEN "ACTIVE" ELSE "NONE"]
    /\ role = [u \in Users |-> IF u = 1 THEN "CREATOR" ELSE "MEMBER"]
    /\ joined = [i \in 1 .. Founders |-> i]
    /\ payoutOrder = <<>>
    /\ payoutIndex = 0 /\ totalCycles = 0 /\ extensionsUsed = 0
    /\ orderLocked = FALSE /\ isPaused = FALSE
    /\ window = "none" /\ deadline = 0
    /\ cron = TRUE /\ periods = 0
    /\ endFor = [j \in EndJobs |-> 0]
    /\ endTries = [j \in EndJobs |-> 0]
    /\ onChain = [u \in Users |-> 0] /\ recorded = [u \in Users |-> 0]
    /\ counted = {} /\ late = {}
    /\ payoutRows = {}
    /\ received = [u \in Users |-> 0] /\ sent = [c \in Cycles |-> [u \in Users |-> 0]]
    /\ refunded = [u \in Users |-> 0] /\ exits = [u \in Users |-> 0]
    /\ pool = 0
    /\ pc = [p \in Procs |-> "idle"]
    /\ frame = [p \in Procs |-> NoFrame]
    /\ asked = 0

-----------------------------------------------------------------------------

Active == {u \in Users : status[u] = "ACTIVE"}
Creators == {u \in Active : role[u] = "CREATOR"}

\* The configured order, or every member row by joinedAt, left members too.
ResolveOrder == IF payoutOrder # <<>> THEN payoutOrder ELSE joined

\* order.filter((id) => id !== userId): an order that names nobody twice
\* (OrderWellFormed) has one entry at most to take out.
Without(order, u) == RemoveFirst(order, u)

\* A handler begins, goes on with what it has read so far, or ends.
Enter(p, label, f) ==
    /\ pc[p] = "idle"
    /\ p \in Sessions => asked < MaxCommands
    /\ pc' = [pc EXCEPT ![p] = label]
    /\ frame' = [frame EXCEPT ![p] = f]
    /\ asked' = IF p \in Sessions THEN asked + 1 ELSE asked

GotoWith(p, label, f) ==
    /\ pc' = [pc EXCEPT ![p] = label]
    /\ frame' = [frame EXCEPT ![p] = f]
    /\ UNCHANGED asked

Goto(p, label) == GotoWith(p, label, frame[p])

Return(p) == GotoWith(p, "idle", NoFrame)

DropJob(j) ==
    /\ endFor' = [endFor EXCEPT ![j] = 0]
    /\ endTries' = [endTries EXCEPT ![j] = 0]

\* A payout handler ends well: a finished job is forgotten (removeOnComplete).
Finish(p) ==
    /\ Return(p)
    /\ IF frame[p].job = None THEN UNCHANGED <<endFor, endTries>>
       ELSE DropJob(frame[p].job)
    /\ UNCHANGED <<cron, periods>>

\* Mutant of Throw: one attempt too many.
RetryOnceMore(p) ==
    /\ Return(p)
    /\ LET j == frame[p].job IN
       IF j = None
       THEN UNCHANGED <<endFor, endTries>>
       ELSE IF endTries[j] < Attempts
       THEN endTries' = [endTries EXCEPT ![j] = @ + 1] /\ UNCHANGED endFor
       ELSE DropJob(j)
    /\ UNCHANGED <<cron, periods>>

\* It throws: a command tells its sender, a job is tried again while it may.
Throw(p) ==
    /\ Return(p)
    /\ LET j == frame[p].job IN
       IF j = None
       THEN UNCHANGED <<endFor, endTries>>
       ELSE IF endTries[j] + 1 < Attempts
       THEN endTries' = [endTries EXCEPT ![j] = @ + 1] /\ UNCHANGED endFor
       ELSE DropJob(j)
    /\ UNCHANGED <<cron, periods>>
=============================================================================
