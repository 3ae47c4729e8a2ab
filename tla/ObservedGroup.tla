--------------------------- MODULE ObservedGroup ---------------------------
(***************************************************************************)
(* A savings group with history variables, which note what went wrong on   *)
(* the way and are read by no handler: the promises of the group's         *)
(* handlers hold except where one of these occurrences explains it.        *)
(***************************************************************************)
EXTENDS SavingsGroup

VARIABLES
    unrecorded,   \* per cycle number: transfers that were left without a row
    overlapping,  \* per cycle number: look-ups passed while another handler paid
    forsaken,     \* whether nobody is left to add the job of the deadline
    twice,        \* members with two exits under way before either marked them
    unmarked,     \* members refunded by an exit that ended before it marked them
    outOfDate,    \* whether an exit decided by a copy that was wrong by then
    cutShort,     \* whether an exit ended between its mark and its end
    deserted,     \* whether everybody had left at some time
    stale,        \* sessions about to write an order made from one replaced since
    readmitted    \* members who have left and were not taken out or put back

history == <<unrecorded, overlapping, forsaken, twice, unmarked, outOfDate, cutShort,
             deserted, stale, readmitted>>

ObservedInit ==
    /\ Init
    /\ unrecorded = [c \in Cycles |-> 0] /\ overlapping = [c \in Cycles |-> 0]
    /\ forsaken = FALSE
    /\ twice = {} /\ unmarked = {}
    /\ outOfDate = FALSE /\ cutShort = FALSE /\ deserted = FALSE
    /\ stale = {} /\ readmitted = {}
-----------------------------------------------------------------------------
(* What a step shows; every one of these is about the step that is taken *)

Moved(p) == pc'[p] # pc[p]

Ended(p) == Moved(p) /\ pc'[p] = "idle"

\* A transfer whose handler ended without a Payout row of the cycle.
LeavesNoRow(p, c) ==
    /\ Ended(p) /\ frame[p].cycle = c
    /\ \/ pc[p] = "pay" /\ sent' # sent
       \/ pc[p] = "savePayout" /\ ~PaidInCycle(c)'

Paying(p, c) == pc[p] \in {"pay", "savePayout"} /\ frame[p].cycle = c

PassesBeside(p, c) ==
    /\ pc[p] = "lookup" /\ pc'[p] = "pay" /\ frame[p].cycle = c
    /\ \E q \in Procs : Paying(q, c)

Plus(b, n) == IF b THEN n + 1 ELSE n

ObservePayouts ==
    /\ unrecorded' = [c \in Cycles |->
          Plus(\E p \in Procs : LeavesNoRow(p, c), unrecorded[c])]
    /\ overlapping' = [c \in Cycles |->
          Plus(\E p \in Procs : PassesBeside(p, c), overlapping[c])]

\* The handler that sets the deadline comes to add its job, or is lost before
\* it does: its write threw although it took effect, Redis was away, it died.
ComesToEnqueue(p) == Moved(p) /\ pc'[p] = "enqueueEnd"

LosesJob(p) ==
    /\ Ended(p) /\ pc[p] = "enqueueEnd" /\ endFor' = endFor
    /\ frame[p].deadline = deadline

ObserveDeadline ==
    forsaken' = IF \E p \in Procs : ComesToEnqueue(p) THEN FALSE
                ELSE \/ forsaken
                     \/ deadline' # deadline \/ periods' # periods
                     \/ \E p \in Procs : LosesJob(p)
-----------------------------------------------------------------------------
(* Exits *)

Unmarked(s, u) == pc[s] \in {"settle", "refund", "markLeft"} /\ frame[s].user = u

ExitsAgain(u) ==
    /\ \E s \in Sessions : Moved(s) /\ pc'[s] = "settle" /\ frame'[s].user = u
    /\ \E s \in Sessions : Unmarked(s, u)

RefundsOnly(s) ==
    /\ Ended(s)
    /\ \/ pc[s] = "refund" /\ refunded' # refunded
       \/ pc[s] = "markLeft" /\ frame[s].amount # None /\ status' = status

\* An exit uses the copy of the group it read when it began where it decides
\* how to go on, and where it hands the creator role on.
UsesCopy(s) ==
    /\ pc[s] \in {"readOrder", "dropFromOrder", "transfer"}
    /\ Moved(s) /\ pc'[s] # "dropFromOrder"

CopyIsWrong(s) ==
    \/ ~(frame[s].stay \subseteq Active)
    \/ frame[s].stay = {} /\ Active # {}
    \/ frame[s].lead # (role[frame[s].user] = "CREATOR")

IsCutShort(s) ==
    /\ Ended(s)
    /\ \/ pc[s] = "markLeft" /\ status' # status
       \/ pc[s] = "logExit"
       \/ pc[s] \in {"readOrder", "dropFromOrder"} /\ NextStop(s) # "idle"
       \/ pc[s] = "transfer" /\ (Cardinality(frame[s].stay) <= 1 \/ role'[Heir(s)] # "CREATOR")
       \/ pc[s] = "pause"

ObserveExits ==
    /\ twice' = twice \cup {u \in Users : ExitsAgain(u)}
    /\ unmarked' = unmarked \cup
          {u \in Users : \E s \in Sessions : frame[s].user = u /\ RefundsOnly(s)}
    /\ outOfDate' = (outOfDate \/ \E s \in Sessions : UsesCopy(s) /\ CopyIsWrong(s))
    /\ cutShort' = (cutShort \/ \E s \in Sessions : IsCutShort(s))
    /\ deserted' = (deserted \/ (Active = {})')
-----------------------------------------------------------------------------
(* The order *)

Writing(s) == pc[s] \in {"writeLock", "writeOrder", "dropFromOrder"}

\* What is about to be written was made from the order and the lock.
Basis == <<ResolveOrder, orderLocked>>

\* A write puts back whom another handler has taken out meanwhile.
PutsBack(s) == IF s \in stale /\ Moved(s) THEN ToSet(frame[s].order) ELSE {}

\* An ORDER names members who have no turn (every member row is to be named).
Names(s) ==
    IF Moved(s) /\ pc'[s] = "writeOrder"
    THEN ToSet(frame'[s].order) \ ToSet(ResolveOrder) ELSE {}

\* An exit ends, or goes on, with its member still in the order.
FailsToDrop(s) ==
    \/ Ended(s) /\ pc[s] = "markLeft" /\ status' # status
    \/ Ended(s) /\ pc[s] = "logExit"
    \/ Ended(s) /\ pc[s] = "readOrder" /\ frame[s].user \in ToSet(ResolveOrder)
    \/ Moved(s) /\ pc[s] = "dropFromOrder" /\ payoutOrder' # frame[s].order

\* The order is empty: by resolveOrder that is every member row again.
EmptiesOrder(s) == Moved(s) /\ pc[s] = "dropFromOrder" /\ frame[s].order = <<>>

Readmits(s, u) ==
    \/ u \in PutsBack(s) \cup Names(s)
    \/ frame[s].user = u /\ FailsToDrop(s)
    \/ status[u] = "LEFT" /\ EmptiesOrder(s)

ObserveOrder ==
    /\ stale' = {s \in Sessions :
          Writing(s) /\ ~Moved(s) /\ (s \in stale \/ Basis' # Basis)}
    /\ readmitted' = readmitted \cup {u \in Users : \E s \in Sessions : Readmits(s, u)}

Observe == ObservePayouts /\ ObserveDeadline /\ ObserveExits /\ ObserveOrder

ObservedNext == Next /\ Observe
observed == <<vars, history>>
ObservedSpec == ObservedInit /\ [][ObservedNext]_observed
-----------------------------------------------------------------------------
(* Payouts *)

\* A cycle's pot is sent once, and once more for every transfer that was left
\* without its row and for every handler that looked for the row while another
\* was on its way to write it (executePayout, "should never pay the same
\* recipient twice for the same cycle").
PaidOncePerCycle ==
    \A c \in Cycles : SumOf(sent[c]) <= 1 + unrecorded[c] + overlapping[c]

\* While a deadline lies ahead the queue holds the cycle-end job that will look
\* at it, or a handler is about to add it, or the handler that set it was lost
\* before it could (handleCycleStart, extendDeadline).
DeadlineHasJob ==
    window = "open" /\ ~forsaken =>
        \/ \E j \in EndJobs : endFor[j] = deadline
        \/ \E p \in Procs : pc[p] = "enqueueEnd" /\ frame[p].deadline = deadline
-----------------------------------------------------------------------------
(* Exits *)

\* An exit leaves one log row, unless two exits of the member were under way
\* side by side (MemberExitLog, "One row per exit"), and no member is refunded
\* more than they paid in, unless that happened or an exit was lost between
\* refund and mark and the member left again.
SettledOnce ==
    \A u \in Users \ twice :
        /\ exits[u] <= 1
        /\ u \notin unmarked => refunded[u] <= recorded[u]

ExitInProgress == \E s \in Sessions :
    pc[s] \in {"logExit", "readOrder", "dropFromOrder", "transfer", "pause", "stopCron"}

\* A group somebody has left runs with two members or is paused, unless an exit
\* went by a list of members that was out of date, or was lost on its way
\* (performExit, "pause the group if membership drops below the 2-member minimum").
PausedBelowTwo ==
    /\ \E u \in Users : status[u] = "LEFT"
    /\ Cardinality(Active) < 2
    /\ ~ExitInProgress
    => isPaused \/ outOfDate \/ cutShort

\* Somebody who is still there can run the group, unless an exit handed the role
\* on by an out-of-date list or was lost on its way, or somebody joined after
\* everybody had left (performExit, "transfer the creator role on if needed").
GroupHasCreator ==
    Active # {} /\ ~ExitInProgress => Creators # {} \/ outOfDate \/ cutShort \/ deserted

\* Who has left has no turn any more, unless their exit failed to take them out,
\* another handler wrote back an order it had read before, an ORDER named
\* them, or the order became empty, which stands for all member rows
\* (removeMemberFromOrder).
LeftOutOfRotation ==
    \A u \in Users \ readmitted :
        \/ status[u] # "LEFT"
        \/ \E s \in Sessions :
              pc[s] \in {"logExit", "readOrder", "dropFromOrder"} /\ frame[s].user = u
        \/ u \notin ToSet(ResolveOrder)

\* Once the first contribution has locked it, the order changes only by SKIP and
\* by an exit, unless a handler writes what it made from an earlier order or
\* before the lock (lockOrderForCycle, "can no longer reshuffle").
OrderFrozenOnceLocked ==
    [][orderLocked /\ orderLocked' /\ payoutOrder' # payoutOrder =>
          \/ \E u \in Users : payoutOrder' \in {ToBack(ResolveOrder, u), Without(ResolveOrder, u)}
          \/ \E s \in stale : Moved(s)]_observed
=============================================================================
