------------------------- MODULE ObservedGroupProofs -------------------------
(***************************************************************************)
(* Proofs about a savings group with its history variables, for any number *)
(* of users, sessions, scheduler slots and commands and whatever fails:    *)
(* each promise holds but for the occurrences that excuse it.              *)
(***************************************************************************)
EXTENDS ObservedGroup, SavingsGroupProofs

\* Only p may act in a step.
OthersStay(p) == \A q \in Procs \ {p} : pc'[q] = pc[q] /\ frame'[q] = frame[q]

LEMMA MovesAre ==
    ASSUME Typed, NEW p \in Procs, NEW l, NEW f,
           Moves(p, l, f) \/ Enter(p, l, f) \/ GotoWith(p, l, f)
    PROVE  pc'[p] = l /\ frame'[p] = f /\ OthersStay(p)
  BY DEF Moves, Enter, GotoWith, OthersStay, Typed, ControlTyped

LEMMA EndsAre ==
    ASSUME Typed, NEW p \in Procs, Return(p) \/ Finish(p) \/ Throw(p)
    PROVE  pc'[p] = "idle" /\ frame'[p] = NoFrame /\ OthersStay(p)
  BY MovesAre DEF Return, Finish, Throw

LEMMA CommandsEnter ==
    ASSUME Typed, NEW s \in Sessions, Command(s)
    PROVE  /\ \E l \in {"invoke", "settle", "load", "writeOrder", "extend"} : \E f : Enter(s, l, f)
           /\ pc[s] = "idle" /\ pc'[s] \in {"invoke", "settle", "load", "writeOrder", "extend"}
           /\ OthersStay(s)
           /\ UNCHANGED <<members, rotation, isPaused, clock, queue, contributions, payouts,
                          settlements, pool>>
<1>1. s \in Procs
  BY DEF Procs
<1>2. \E l \in {"invoke", "settle", "load", "writeOrder", "extend"} : \E f : Enter(s, l, f)
  BY DEF Command, RotationCommand, BeginContribute, BeginExit, BeginProceed, BeginOrder,
     BeginSkip, BeginWait
<1>3. pc[s] = "idle" /\ pc'[s] \in {"invoke", "settle", "load", "writeOrder", "extend"}
      /\ OthersStay(s)
  BY <1>1, <1>2, MovesAre DEF Enter
<1>4. UNCHANGED <<members, rotation, isPaused, clock, queue, contributions, payouts,
                  settlements, pool>>
  BY DEF Command, RotationCommand, BeginContribute, BeginExit, BeginProceed, BeginOrder,
     BeginSkip, BeginWait
<1> QED
  BY <1>2, <1>3, <1>4
-----------------------------------------------------------------------------
(* Payouts *)

PayLabels == {"pay", "savePayout"}

\* A step that moves no pot and writes no row, and what each other step does.
StandsAside ==
    /\ UNCHANGED <<sent, payoutRows>>
    /\ \A q \in Procs : pc[q] \in PayLabels \/ pc'[q] \in PayLabels
                           => pc'[q] = pc[q] /\ frame'[q] = frame[q]

BeginsToPay(p) ==
    /\ pc[p] = "lookup" /\ pc'[p] = "pay" /\ frame'[p] = frame[p]
    /\ frame[p].cycle \in Cycles /\ ~PaidInCycle(frame[p].cycle)
    /\ UNCHANGED <<sent, payoutRows>>

Sends(p) ==
    /\ pc[p] = "pay" /\ pc'[p] \in {"savePayout", "idle"}
    /\ pc'[p] = "savePayout" => frame'[p] = frame[p]
    /\ frame[p].cycle \in Cycles /\ frame[p].user \in Users
    /\ sent' = [sent EXCEPT ![frame[p].cycle][frame[p].user] = @ + 1]
    /\ UNCHANGED payoutRows

Records(p) ==
    /\ pc[p] = "savePayout" /\ pc'[p] \notin PayLabels
    /\ frame[p].cycle \in Cycles /\ frame[p].user \in Users
    /\ payoutRows' = payoutRows \cup {<<frame[p].cycle, frame[p].user>>}
    /\ UNCHANGED sent

GivesUp(p) ==
    /\ pc[p] \in PayLabels /\ pc'[p] = "idle"
    /\ frame[p].cycle \in Cycles
    /\ UNCHANGED <<sent, payoutRows>>

PayoutKinds(p) == BeginsToPay(p) \/ Sends(p) \/ Records(p) \/ GivesUp(p)

LEMMA AsideOne ==
    ASSUME NEW p \in Procs, OthersStay(p), pc[p] \notin PayLabels, pc'[p] \notin PayLabels,
           UNCHANGED <<sent, payoutRows>>
    PROVE  StandsAside
  BY DEF StandsAside, OthersStay

LEMMA PayoutIs ==
    ASSUME Typed, NEW p \in Procs, PayoutStep(p)
    PROVE  OthersStay(p) /\ (StandsAside \/ PayoutKinds(p))
<1>1. PICK f \in Frames : f = frame[p] /\ Fits(p, pc[p], f)
  BY FrameOf
<1>2. CASE LoadPayout(p)
  <2>1. \E g : GotoWith(p, "lookup", g)
    BY <1>2 DEF LoadPayout
  <2>2. pc'[p] = "lookup" /\ OthersStay(p) /\ pc[p] = "load" /\ UNCHANGED <<sent, payoutRows>>
    BY <1>2, <2>1, MovesAre DEF LoadPayout, payouts
  <2> QED
    BY <2>2, AsideOne DEF PayLabels
<1>3. CASE LookupPayout(p)
  <2>1. pc[p] = "lookup" /\ UNCHANGED <<sent, payoutRows>> /\ f.cycle \in Cycles
    BY <1>1, <1>3 DEF LookupPayout, payouts, Fits
  <2>2. CASE Finish(p) \/ Throw(p)
    BY <2>1, <2>2, EndsAre, AsideOne DEF PayLabels
  <2>3. CASE ~PaidInCycle(f.cycle) /\ Goto(p, "pay")
    <3>1. pc'[p] = "pay" /\ frame'[p] = f /\ OthersStay(p)
      BY <1>1, <2>3, MovesAre DEF Goto
    <3> QED
      BY <1>1, <2>1, <2>3, <3>1 DEF PayoutKinds, BeginsToPay
  <2> QED
    BY <1>1, <1>3, <2>2, <2>3 DEF LookupPayout
<1>4. CASE Pay(p)
  <2>1. /\ pc[p] = "pay" /\ f.cycle \in Cycles /\ f.user \in Users /\ UNCHANGED payoutRows
        /\ sent' = [sent EXCEPT ![f.cycle][f.user] = @ + 1]
    BY <1>1, <1>4 DEF Pay, Fits
  <2>2. CASE Throw(p)
    <3>1. pc'[p] = "idle" /\ OthersStay(p)
      BY <2>2, EndsAre
    <3> QED
      BY <1>1, <2>1, <3>1 DEF PayoutKinds, Sends
  <2>3. CASE Goto(p, "savePayout")
    <3>1. pc'[p] = "savePayout" /\ frame'[p] = f /\ OthersStay(p)
      BY <1>1, <2>3, MovesAre DEF Goto
    <3> QED
      BY <1>1, <2>1, <3>1 DEF PayoutKinds, Sends
  <2> QED
    BY <1>4, <2>2, <2>3 DEF Pay
<1>5. CASE SavePayout(p)
  <2>1. /\ pc[p] = "savePayout" /\ f.cycle \in Cycles /\ f.user \in Users /\ UNCHANGED sent
        /\ payoutRows' = payoutRows \cup {<<f.cycle, f.user>>}
    BY <1>1, <1>5 DEF SavePayout, Fits
  <2>2. pc'[p] \in {"idle", "advance"} /\ OthersStay(p)
    <3>1. CASE Throw(p)
      BY <3>1, EndsAre
    <3>2. CASE Goto(p, "advance")
      BY <3>2, MovesAre DEF Goto
    <3> QED
      BY <1>5, <3>1, <3>2 DEF SavePayout
  <2> QED
    BY <1>1, <2>1, <2>2 DEF PayoutKinds, Records, PayLabels
<1>6. CASE PayFails(p) \/ PayoutWriteFails(p)
  <2>1. pc'[p] = "idle" /\ OthersStay(p)
    BY <1>6, EndsAre DEF PayFails, PayoutWriteFails
  <2>2. UNCHANGED <<sent, payoutRows>>
    BY <1>6 DEF PayFails, PayoutWriteFails, payouts
  <2>3. CASE pc[p] \in PayLabels
    <3>1. f.cycle \in Cycles
      BY <1>1, <2>3 DEF Fits, PayLabels
    <3> QED
      BY <1>1, <2>1, <2>2, <2>3, <3>1 DEF PayoutKinds, GivesUp
  <2>4. CASE pc[p] \notin PayLabels
    BY <2>1, <2>2, <2>4, AsideOne DEF PayLabels
  <2> QED
    BY <2>3, <2>4
<1>7. CASE AdvanceIndex(p) \/ ResetCycle(p) \/ NewCycle(p)
  <2>1. pc[p] \in {"advance", "reset", "newCycle"} /\ UNCHANGED <<sent, payoutRows>>
    BY <1>7 DEF AdvanceIndex, ResetCycle, NewCycle, payouts
  <2>2. Finish(p) \/ Throw(p) \/ \E g : GotoWith(p, "reset", g) \/ GotoWith(p, "newCycle", g)
    BY <1>7 DEF AdvanceIndex, ResetCycle, NewCycle, Goto
  <2>3. pc'[p] \in {"idle", "reset", "newCycle"} /\ OthersStay(p)
    BY <2>2, EndsAre, MovesAre
  <2> QED
    BY <2>1, <2>3, AsideOne DEF PayLabels
<1> QED
  BY <1>2, <1>3, <1>4, <1>5, <1>6, <1>7 DEF PayoutStep

LEMMA CrashIs ==
    ASSUME Typed, NEW p \in Procs, Crash(p)
    PROVE  OthersStay(p) /\ (StandsAside \/ PayoutKinds(p))
<1>1. PICK f \in Frames : f = frame[p] /\ Fits(p, pc[p], f)
  BY FrameOf
<1>2. pc'[p] = "idle" /\ OthersStay(p) /\ UNCHANGED <<sent, payoutRows>>
  BY EndsAre DEF Crash, payouts
<1>3. CASE pc[p] \in PayLabels
  <2>1. f.cycle \in Cycles
    BY <1>1, <1>3 DEF Fits, PayLabels
  <2> QED
    BY <1>1, <1>2, <1>3, <2>1 DEF PayoutKinds, GivesUp
<1>4. CASE pc[p] \notin PayLabels
  BY <1>2, <1>4, AsideOne DEF PayLabels
<1> QED
  BY <1>3, <1>4

LEMMA NextPays ==
    ASSUME Typed, [Next]_vars
    PROVE  StandsAside \/ \E p \in Procs : OthersStay(p) /\ PayoutKinds(p)
<1>0. Sessions \subseteq Procs /\ Workers \subseteq Procs
  BY DEF Procs
<1>1. ASSUME NEW u \in Users, Join(u) PROVE StandsAside
  BY <1>1 DEF Join, StandsAside, payouts, control
<1>2. CASE ReachDeadline \/ UNCHANGED vars
  BY <1>2 DEF ReachDeadline, vars, StandsAside, payouts, control
<1>3. ASSUME NEW p \in Procs, UNCHANGED <<sent, payoutRows>>, pc[p] \notin PayLabels,
             NEW l, NEW f, l \notin PayLabels, Enter(p, l, f) \/ GotoWith(p, l, f)
      PROVE  StandsAside
  BY <1>3, MovesAre, AsideOne
<1>4. ASSUME NEW s \in Sessions, Command(s) PROVE StandsAside
  BY <1>0, <1>4, CommandsEnter, AsideOne DEF PayLabels, payouts
<1>5. ASSUME NEW s \in Sessions, ContributionStep(s) PROVE StandsAside
  <2>1. UNCHANGED <<sent, payoutRows>> /\ pc[s] \notin PayLabels
    BY <1>5 DEF ContributionStep, InvokeContribute, RecordContribution, RecordFails, ReadLock,
         WriteLock, payouts, PayLabels
  <2>2. \E l \in {"idle", "record", "readLock", "writeLock"} : \E f : GotoWith(s, l, f)
    BY <1>5 DEF ContributionStep, InvokeContribute, RecordContribution, RecordFails, ReadLock,
         WriteLock, Goto, Return
  <2> QED
    BY <1>0, <1>3, <2>1, <2>2 DEF PayLabels
<1>6. ASSUME NEW s \in Sessions, ExitStep(s) PROVE StandsAside
  <2>1. UNCHANGED <<sent, payoutRows>> /\ pc[s] \notin PayLabels
    BY <1>6 DEF ExitStep, Settle, Refund, MarkLeft, LogExit, ReadOrder, DropFromOrder, Transfer,
         Pause, StopCron, ExitWriteFails, payouts, PayLabels
  <2>2. \E l \in {"idle", "refund", "markLeft", "logExit", "readOrder", "dropFromOrder", "transfer",
                  "pause", "stopCron"} : \E f : GotoWith(s, l, f)
    BY <1>6 DEF ExitStep, Settle, Refund, MarkLeft, LogExit, ReadOrder, DropFromOrder, Transfer,
         Pause, StopCron, ExitWriteFails, Goto, Return, GoOn, NextStop
  <2> QED
    BY <1>0, <1>3, <2>1, <2>2 DEF PayLabels
<1>7. ASSUME NEW p \in Procs, WriteOrder(p) \/ Extend(p) \/ ExtendFails(p) \/ EnqueueEnd(p)
      PROVE  StandsAside
  <2>1. UNCHANGED <<sent, payoutRows>> /\ pc[p] \notin PayLabels
    BY <1>7 DEF WriteOrder, Extend, ExtendFails, EnqueueEnd, payouts, PayLabels
  <2>2. \E l \in {"idle", "enqueueEnd"} : \E f : GotoWith(p, l, f)
    BY <1>7 DEF WriteOrder, Extend, ExtendFails, EnqueueEnd, Goto, Return
  <2> QED
    BY <1>3, <2>1, <2>2 DEF PayLabels
<1>8. ASSUME NEW w \in Workers, SchedulerStart(w) PROVE StandsAside
  <2>1. UNCHANGED <<sent, payoutRows>> /\ pc[w] \notin PayLabels
    BY <1>8 DEF SchedulerStart, StartCycle, StartEnd, payouts, PayLabels
  <2>2. \/ UNCHANGED control
        \/ \E l \in {"enqueueEnd", "load"} : \E f : Enter(w, l, f)
    BY <1>8 DEF SchedulerStart, StartCycle, StartEnd
  <2>3. CASE UNCHANGED control
    BY <2>1, <2>3 DEF StandsAside, control
  <2>4. ASSUME NEW l \in {"enqueueEnd", "load"}, NEW f, Enter(w, l, f) PROVE StandsAside
    BY <1>0, <1>3, <2>1, <2>4 DEF PayLabels
  <2> QED
    BY <2>2, <2>3, <2>4
<1>9. ASSUME NEW p \in Procs, PayoutStep(p) \/ Crash(p)
      PROVE  StandsAside \/ (OthersStay(p) /\ PayoutKinds(p))
  BY <1>9, PayoutIs, CrashIs
<1> QED
  BY <1>0, <1>1, <1>2, <1>4, <1>5, <1>6, <1>7, <1>8, <1>9
     DEF Next, SessionStep, RotationStep, WorkerStep

CountsTyped == unrecorded \in [Cycles -> Nat] /\ overlapping \in [Cycles -> Nat]

\* Handlers about to send cycle c's pot, what was sent, and what excuses it.
AboutTo(c) == [p \in Procs |-> IF pc[p] = "pay" /\ frame[p].cycle = c THEN 1 ELSE 0]
SentOrAbout(c) == SumOver(sent[c], Users) + SumOver(AboutTo(c), Procs)
Excused(c) == unrecorded[c] + overlapping[c]

\* The pot goes out once more only with an excuse; and while nobody is on the
\* way to its row and there is none, every transfer has one.
PaidOnce ==
    \A c \in Cycles :
        /\ SentOrAbout(c) <= 1 + Excused(c)
        /\ ~PaidInCycle(c) /\ (\A p \in Procs : ~Paying(p, c))
              => SumOver(sent[c], Users) <= Excused(c)

LEMMA PayNumbers ==
    ASSUME Typed, CountsTyped, NEW c \in Cycles
    PROVE  /\ sent[c] \in [Users -> Nat] /\ SumOver(sent[c], Users) \in Int
           /\ AboutTo(c) \in [Procs -> 0 .. 1] /\ SumOver(AboutTo(c), Procs) \in Int
           /\ SumOver(AboutTo(c), Procs) >= 0
           /\ (\A p \in Procs : AboutTo(c)[p] = 0) => SumOver(AboutTo(c), Procs) = 0
           /\ Excused(c) \in Nat
<1>1. sent[c] \in [Users -> Nat]
  BY DEF Typed, MoneyTyped
<1>2. PICK g : g = sent[c]
  OBVIOUS
<1>3. g \in [Users -> Int]
  BY <1>1, <1>2
<1>4. SumOver(sent[c], Users) \in Int
  BY <1>2, <1>3, UsersFinite, SumType
<1>5. PICK a : a = AboutTo(c)
  OBVIOUS
<1>6. a \in [Procs -> 0 .. 1]
  BY <1>5 DEF AboutTo
<1>7. a \in [Procs -> Int] /\ a \in [Procs -> Nat]
  BY <1>6
<1>8. SumOver(a, Procs) \in Int /\ SumOver(a, Procs) >= 0
  BY <1>7, ProcsFinite, SumType, SumOfNaturals
<1>9. (\A p \in Procs : a[p] = 0) => SumOver(a, Procs) = 0
  BY <1>7, ProcsFinite, SumOfZeros
<1> QED
  BY <1>1, <1>4, <1>5, <1>6, <1>8, <1>9 DEF Excused, CountsTyped

\* What a step of p does to the sums.
LEMMA AboutMoves ==
    ASSUME Typed, CountsTyped, Typed', CountsTyped', NEW p \in Procs, OthersStay(p), NEW c \in Cycles
    PROVE  /\ SumOver(AboutTo(c)', Procs)
                 = SumOver(AboutTo(c), Procs) + (AboutTo(c)'[p] - AboutTo(c)[p])
           /\ SumOver(AboutTo(c)', Procs) >= 0
<1>1. PICK a : a = AboutTo(c)
  OBVIOUS
<1>2. PICK b : b = AboutTo(c)'
  OBVIOUS
<1>3. a \in [Procs -> Int] /\ b \in [Procs -> Int] /\ b \in [Procs -> Nat]
  BY <1>1, <1>2 DEF AboutTo
<1>4. \A q \in Procs \ {p} : b[q] = a[q]
  BY <1>1, <1>2 DEF AboutTo, OthersStay
<1>5. SumOver(b, Procs) = SumOver(a, Procs) + (b[p] - a[p])
  BY <1>3, <1>4, ProcsFinite, SumChanges
<1>6. SumOver(b, Procs) >= 0
  BY <1>3, ProcsFinite, SumOfNaturals
<1> QED
  BY <1>1, <1>2, <1>5, <1>6

LEMMA CountsGrow ==
    ASSUME CountsTyped, Observe
    PROVE  /\ CountsTyped'
           /\ \A c \in Cycles : /\ Excused(c) \in Nat /\ Excused(c)' \in Nat
                                /\ Excused(c)' >= Excused(c)
           /\ \A c \in Cycles, p \in Procs :
                 LeavesNoRow(p, c) \/ PassesBeside(p, c) => Excused(c)' >= Excused(c) + 1
<1>2. CountsTyped'
  BY DEF Observe, ObservePayouts, CountsTyped, Plus
<1>3. ASSUME NEW c \in Cycles
      PROVE  /\ unrecorded[c] \in Nat /\ unrecorded'[c] \in Nat /\ unrecorded'[c] >= unrecorded[c]
             /\ overlapping[c] \in Nat /\ overlapping'[c] \in Nat /\ overlapping'[c] >= overlapping[c]
             /\ \A p \in Procs : LeavesNoRow(p, c) => unrecorded'[c] = unrecorded[c] + 1
             /\ \A p \in Procs : PassesBeside(p, c) => overlapping'[c] = overlapping[c] + 1
  BY DEF Observe, ObservePayouts, CountsTyped, Plus
<1> QED
  BY <1>2, <1>3 DEF Excused

LEMMA PaidOnceInductive ==
    ASSUME Typed, CountsTyped, PaidOnce, [ObservedNext]_observed
    PROVE  CountsTyped' /\ PaidOnce'
<1>0. CASE UNCHANGED observed
  BY <1>0 DEF observed, vars, history, control, payouts, CountsTyped, PaidOnce, SentOrAbout,
     Excused, AboutTo, PaidInCycle, Paying
<1> SUFFICES ASSUME Next, Observe PROVE CountsTyped' /\ PaidOnce'
  BY <1>0 DEF ObservedNext
<1>1. Typed' /\ CountsTyped'
  BY TypedInductive, CountsGrow
<1> SUFFICES ASSUME NEW c \in Cycles
             PROVE  /\ SentOrAbout(c)' <= 1 + Excused(c)'
                    /\ ~PaidInCycle(c)' /\ (\A q \in Procs : ~Paying(q, c)')
                          => SumOver(sent'[c], Users) <= Excused(c)'
  BY <1>1 DEF PaidOnce
<1>a. PICK sum, about, e : sum = SumOver(sent[c], Users) /\ about = SumOver(AboutTo(c), Procs)
                           /\ e = Excused(c)
  OBVIOUS
<1>b. PICK sum1, about1, e1 : sum1 = SumOver(sent'[c], Users) /\ about1 = SumOver(AboutTo(c)', Procs)
                              /\ e1 = Excused(c)'
  OBVIOUS
<1> DEFINE Goal == /\ sum1 + about1 <= 1 + e1
                   /\ ~PaidInCycle(c)' /\ (\A q \in Procs : ~Paying(q, c)') => sum1 <= e1
<1>2. /\ sum \in Int /\ about \in Int /\ about >= 0 /\ e \in Nat /\ sum + about <= 1 + e
      /\ ~PaidInCycle(c) /\ (\A q \in Procs : ~Paying(q, c)) => sum <= e
      /\ (\A q \in Procs : AboutTo(c)[q] = 0) => about = 0
  BY <1>a, PayNumbers DEF PaidOnce, SentOrAbout
<1>3. e1 \in Nat /\ e1 >= e
  BY <1>a, <1>b, <1>1, CountsGrow
<1>4. Goal => /\ SentOrAbout(c)' <= 1 + Excused(c)'
              /\ ~PaidInCycle(c)' /\ (\A q \in Procs : ~Paying(q, c)')
                    => SumOver(sent'[c], Users) <= Excused(c)'
  BY <1>b DEF SentOrAbout
<1>5. ASSUME StandsAside PROVE Goal
  <2>1. sum1 = sum /\ about1 = about
    <3>1. \A q \in Procs : (pc'[q] = "pay" /\ frame'[q].cycle = c) <=> (pc[q] = "pay" /\ frame[q].cycle = c)
      BY <1>5 DEF StandsAside, PayLabels
    <3>2. AboutTo(c)' = AboutTo(c)
      BY <3>1 DEF AboutTo
    <3> QED
      BY <1>a, <1>b, <1>5, <3>2 DEF StandsAside
  <2>2. /\ PaidInCycle(c)' <=> PaidInCycle(c)
        /\ \A q \in Procs : Paying(q, c)' <=> Paying(q, c)
    BY <1>5 DEF StandsAside, PaidInCycle, Paying, PayLabels
  <2> QED
    BY <1>2, <1>3, <2>1, <2>2
<1>6. ASSUME NEW p \in Procs, OthersStay(p), PayoutKinds(p)
      PROVE  Goal
  <2>1. about1 = about + (AboutTo(c)'[p] - AboutTo(c)[p]) /\ about1 >= 0
    BY <1>a, <1>b, <1>1, <1>6, AboutMoves
  <2>2. /\ AboutTo(c)[p] = IF pc[p] = "pay" /\ frame[p].cycle = c THEN 1 ELSE 0
        /\ AboutTo(c)'[p] = IF pc'[p] = "pay" /\ frame'[p].cycle = c THEN 1 ELSE 0
    BY DEF AboutTo
  <2>3. sent \in [Cycles -> [Users -> Nat]]
    BY DEF Typed, MoneyTyped
  <2>4. CASE frame[p].cycle # c
    <3>1. pc'[p] \in PayLabels => frame'[p].cycle = frame[p].cycle
      BY <1>6 DEF PayoutKinds, BeginsToPay, Sends, Records, GivesUp, PayLabels
    <3>2. about1 = about
      BY <1>2, <2>1, <2>2, <2>4, <3>1 DEF PayLabels
    <3>3. sent'[c] = sent[c]
      BY <1>6, <2>3, <2>4 DEF PayoutKinds, BeginsToPay, Sends, Records, GivesUp
    <3>4. PaidInCycle(c)' <=> PaidInCycle(c)
      BY <1>6, <2>4 DEF PayoutKinds, BeginsToPay, Sends, Records, GivesUp, PaidInCycle
    <3>5. \A q \in Procs : Paying(q, c)' <=> Paying(q, c)
      BY <1>6, <2>4, <3>1 DEF Paying, OthersStay, PayLabels
    <3>6. sum1 = sum
      BY <1>a, <1>b, <3>3
    <3> QED
      BY <1>2, <1>3, <3>2, <3>4, <3>5, <3>6
  <2>5. CASE frame[p].cycle = c /\ BeginsToPay(p)
    <3>1. sum1 = sum /\ about1 = about + 1 /\ ~PaidInCycle(c)
      BY <1>a, <1>b, <1>2, <2>1, <2>2, <2>5 DEF BeginsToPay
    <3>2. Paying(p, c)'
      BY <2>5 DEF BeginsToPay, Paying
    <3>3. CASE \E q \in Procs : Paying(q, c)
      <4>1. PassesBeside(p, c)
        BY <2>5, <3>3 DEF BeginsToPay, PassesBeside
      <4>2. e1 >= e + 1
        BY <1>a, <1>b, <1>6, <4>1, CountsGrow
      <4> QED
        BY <1>2, <1>3, <3>1, <3>2, <4>2
    <3>4. CASE \A q \in Procs : ~Paying(q, c)
      <4>1. about = 0
        BY <1>2, <3>4 DEF AboutTo, Paying
      <4> QED
        BY <1>2, <1>3, <3>1, <3>2, <3>4, <4>1
    <3> QED
      BY <3>3, <3>4
  <2>6. CASE frame[p].cycle = c /\ Sends(p)
    <3>1. sum1 = sum + 1
      <4>1. PICK u \in Users : u = frame[p].user
        BY <2>6 DEF Sends
      <4>2. sent'[c] = [sent[c] EXCEPT ![u] = @ + 1]
        BY <2>3, <2>6, <4>1 DEF Sends
      <4>3. sent[c] \in [Users -> Nat]
        BY <2>3
      <4> QED
        BY <1>a, <1>b, <4>2, <4>3, AccountGrows
    <3>2. about1 = about - 1
      BY <1>2, <2>1, <2>2, <2>6 DEF Sends
    <3>3. CASE pc'[p] = "savePayout"
      <4>1. Paying(p, c)'
        BY <2>6, <3>3 DEF Sends, Paying
      <4>2. sum1 + about1 <= 1 + e1
        BY <1>2, <1>3, <3>1, <3>2
      <4> QED
        BY <4>1, <4>2
    <3>4. CASE pc'[p] = "idle"
      <4>1. sent' # sent
        <5>1. CASE sent' = sent
          <6>1. sum1 = sum
            BY <1>a, <1>b, <5>1
          <6> QED
            BY <1>2, <3>1, <6>1
        <5> QED
          BY <5>1
      <4>2. LeavesNoRow(p, c)
        BY <2>6, <3>4, <4>1 DEF Sends, LeavesNoRow, Ended, Moved
      <4>3. e1 >= e + 1
        BY <1>a, <1>b, <1>6, <4>2, CountsGrow
      <4> QED
        BY <1>2, <1>3, <2>1, <3>1, <3>2, <4>3
    <3> QED
      BY <2>6, <3>3, <3>4 DEF Sends
  <2>7. CASE frame[p].cycle = c /\ Records(p)
    <3>1. PaidInCycle(c)' /\ sum1 = sum
      BY <1>a, <1>b, <2>7 DEF Records, PaidInCycle
    <3>2. about1 = about
      BY <1>2, <2>1, <2>2, <2>7 DEF Records, PayLabels
    <3> QED
      BY <1>2, <1>3, <3>1, <3>2
  <2>8. CASE frame[p].cycle = c /\ GivesUp(p)
    <3>1. sum1 = sum /\ (PaidInCycle(c)' <=> PaidInCycle(c))
      BY <1>a, <1>b, <2>8 DEF GivesUp, PaidInCycle
    <3>2. CASE pc[p] = "pay"
      <4>1. about1 = about - 1
        BY <1>2, <2>1, <2>2, <2>8, <3>2 DEF GivesUp
      <4>2. sum1 + about1 <= 1 + e1 /\ sum1 <= e1
        BY <1>2, <1>3, <2>1, <3>1, <4>1
      <4> QED
        BY <4>2
    <3>3. CASE pc[p] = "savePayout"
      <4>1. about1 = about
        BY <1>2, <2>1, <2>2, <2>8, <3>3 DEF GivesUp
      <4>2. ~PaidInCycle(c)' => LeavesNoRow(p, c)
        BY <2>8, <3>3 DEF GivesUp, LeavesNoRow, Ended, Moved
      <4>3. ~PaidInCycle(c)' => e1 >= e + 1
        BY <1>a, <1>b, <1>6, <4>2, CountsGrow
      <4> QED
        BY <1>2, <1>3, <3>1, <4>1, <4>3
    <3> QED
      BY <2>8, <3>2, <3>3 DEF GivesUp, PayLabels
  <2> QED
    BY <1>6, <2>4, <2>5, <2>6, <2>7, <2>8 DEF PayoutKinds
<1> QED
  BY <1>4, <1>5, <1>6, NextPays

LEMMA PaidOnceInitially ==
    ASSUME ObservedInit
    PROVE  CountsTyped /\ PaidOnce
<1>1. Typed /\ CountsTyped
  BY TypedInitially DEF ObservedInit, CountsTyped
<1>2. ASSUME NEW c \in Cycles
      PROVE  SumOver(sent[c], Users) = 0 /\ SumOver(AboutTo(c), Procs) = 0 /\ Excused(c) = 0
  <2>1. \A p \in Procs : AboutTo(c)[p] = 0
    BY DEF ObservedInit, Init, AboutTo
  <2>2. SumOver(AboutTo(c), Procs) = 0
    BY <1>1, <2>1, PayNumbers
  <2>3. PICK g : g = sent[c]
    OBVIOUS
  <2>4. g \in [Users -> Int] /\ \A u \in Users : g[u] = 0
    BY <2>3 DEF ObservedInit, Init
  <2>5. SumOver(sent[c], Users) = 0
    BY <2>3, <2>4, UsersFinite, SumOfZeros
  <2> QED
    BY <2>2, <2>5 DEF ObservedInit, Excused
<1> QED
  BY <1>1, <1>2 DEF PaidOnce, SentOrAbout

\* What is observed is a behaviour of the group.
LEMMA ObservedTyped ==
    /\ ObservedInit => Typed
    /\ Typed /\ [ObservedNext]_observed => Typed'
  BY TypedInitially, TypedInductive DEF ObservedInit, ObservedNext, observed

\* Whatever fails and however many handlers pay out side by side, a cycle's pot is
\* sent once, and once more only for a transfer that was left without its row or a
\* look-up beside another handler's transfer (executePayout, "should never pay the
\* same recipient twice for the same cycle").
THEOREM PaidOncePerCycleCorrect == ObservedSpec => []PaidOncePerCycle
<1>1. ObservedInit => Typed /\ CountsTyped /\ PaidOnce
  BY ObservedTyped, PaidOnceInitially
<1>2. Typed /\ CountsTyped /\ PaidOnce /\ [ObservedNext]_observed
         => Typed' /\ CountsTyped' /\ PaidOnce'
  BY ObservedTyped, PaidOnceInductive
<1>3. Typed /\ CountsTyped /\ PaidOnce => PaidOncePerCycle
  <2> SUFFICES ASSUME Typed, CountsTyped, PaidOnce, NEW c \in Cycles
               PROVE  SumOf(sent[c]) <= 1 + unrecorded[c] + overlapping[c]
    BY DEF PaidOncePerCycle
  <2>1. SumOf(sent[c]) = SumOver(sent[c], Users)
    BY DEF SumOf, SumOver
  <2>2. SumOver(sent[c], Users) + SumOver(AboutTo(c), Procs) <= 1 + Excused(c)
    BY DEF PaidOnce, SentOrAbout
  <2>3. SumOver(sent[c], Users) <= 1 + Excused(c)
    BY <2>2, PayNumbers
  <2>4. unrecorded[c] \in Nat /\ overlapping[c] \in Nat
    BY DEF CountsTyped
  <2> QED
    BY <2>1, <2>3, <2>4, PayNumbers DEF Excused
<1> QED
  BY <1>1, <1>2, <1>3, PTL DEF ObservedSpec
-----------------------------------------------------------------------------
(* The deadline's job *)

\* A job in a slot's hands is still in the queue, and in no other hands.
JobsKept ==
    /\ \A w \in Workers : frame[w].job # None => endFor[frame[w].job] # 0
    /\ \A v, w \in Workers : frame[v].job # None /\ frame[v].job = frame[w].job => v = w

Enqueuing == \E p \in Procs : pc[p] = "enqueueEnd" /\ frame[p].deadline = deadline
Awaited == \E j \in EndJobs : endFor[j] = deadline /\ ~ Running(j)

\* While the deadline lies ahead a job nobody has begun will look at it, or a
\* handler is about to add one.  The job must not have begun: what has begun is
\* dropped.
Watched == window = "open" => deadline > 0 /\ (Awaited \/ Enqueuing)

\* A step that leaves the deadline watched, unless it changes the deadline without
\* coming to add its job, or loses that job.
Attends ==
    /\ JobsKept'
    /\ \/ \E p \in Procs : ComesToEnqueue(p)
       \/ Watched /\ UNCHANGED <<deadline, periods>> /\ \A p \in Procs : ~LosesJob(p)
       => Watched'

\* A process that is not adding a job goes on with the job it has, or without one,
\* which then may have been dropped.
LetsGo(p, j) ==
    \/ j \in {frame[p].job, None} /\ UNCHANGED endFor
    \/ frame[p].job # None /\ j = None /\ endFor' = [endFor EXCEPT ![frame[p].job] = 0]

GoesBy(p) ==
    /\ \E l, f : Moves(p, l, f) /\ LetsGo(p, f.job) /\ l # "enqueueEnd"
    /\ pc[p] # "enqueueEnd"
    /\ UNCHANGED <<window, deadline>>

LEMMA SessionsHaveNoJob ==
    ASSUME Typed
    PROVE  \A p \in Procs : /\ frame[p].job \in EndJobs \cup {None}
                            /\ frame[p].job # None => p \in Workers
  BY FrameOf, FrameFields DEF Fits

LEMMA GoesByKeeps ==
    ASSUME Typed, JobsKept, NEW p \in Procs, GoesBy(p)
    PROVE  Attends
<1>1. PICK l, f : Moves(p, l, f) /\ LetsGo(p, f.job) /\ l # "enqueueEnd"
  BY DEF GoesBy
<1>2. /\ pc'[p] = l /\ frame'[p] = f
      /\ \A q \in Procs \ {p} : pc'[q] = pc[q] /\ frame'[q] = frame[q]
  BY <1>1 DEF Moves, Typed, ControlTyped
<1>3. Workers \subseteq Procs /\ \A q \in Procs : frame[q].job \in EndJobs \cup {None}
      /\ (frame[q].job # None => q \in Workers)
  BY SessionsHaveNoJob DEF Procs
<1>4. \A w \in Workers : frame'[w].job \in {frame[w].job, None}
  BY <1>1, <1>2, <1>3 DEF LetsGo
<1>5. endFor \in [EndJobs -> Nat]
  BY DEF Typed, QueueTyped
<1>0. \A q \in Procs : ~ComesToEnqueue(q)
  BY <1>1, <1>2 DEF ComesToEnqueue, Moved
<1>6. ASSUME UNCHANGED endFor PROVE JobsKept' /\ (Watched => Watched')
  <2>1. JobsKept'
    BY <1>4, <1>6 DEF JobsKept
  <2>2. \A j \in EndJobs : ~ Running(j) => ~ Running(j)'
    BY <1>4, Numbers DEF Running
  <2>3. Watched => Watched'
    BY <1>2, <1>6, <2>2 DEF Watched, Awaited, Enqueuing, GoesBy
  <2> QED
    BY <2>1, <2>3
<1>7. ASSUME frame[p].job # None, f.job = None, endFor' = [endFor EXCEPT ![frame[p].job] = 0]
      PROVE  JobsKept' /\ (Watched => Watched')
  <2>1. PICK k \in EndJobs : k = frame[p].job
    BY <1>3, <1>7
  <2>2. p \in Workers /\ Running(k)
    BY <1>3, <1>7, <2>1 DEF Running
  <2>3. \A j \in EndJobs \ {k} : endFor'[j] = endFor[j]
    BY <1>5, <1>7, <2>1
  <2>4. ASSUME NEW w \in Workers, frame'[w].job # None
        PROVE  endFor'[frame'[w].job] # 0
    <3>1. w # p
      BY <1>2, <1>7, <2>4
    <3>2. frame'[w] = frame[w] /\ frame[w].job # k
      BY <1>2, <1>3, <2>1, <2>2, <2>4, <3>1 DEF JobsKept
    <3> QED
      BY <1>3, <2>3, <2>4, <3>2 DEF JobsKept
  <2>5. JobsKept'
    <3>1. \A v, w \in Workers : frame'[v].job # None /\ frame'[v].job = frame'[w].job => v = w
      BY <1>4 DEF JobsKept
    <3> QED
      BY <2>4, <3>1 DEF JobsKept
  <2>6. \A j \in EndJobs : ~ Running(j) => ~ Running(j)'
    BY <1>4, Numbers DEF Running
  <2>7. Awaited => Awaited'
    BY <2>2, <2>3, <2>6 DEF Awaited, GoesBy
  <2>8. Enqueuing => Enqueuing'
    BY <1>2 DEF Enqueuing, GoesBy
  <2>9. Watched => Watched'
    BY <2>7, <2>8 DEF Watched, GoesBy
  <2> QED
    BY <2>5, <2>9
<1> QED
  BY <1>0, <1>1, <1>6, <1>7 DEF LetsGo, Attends

LEMMA EndGoesBy ==
    ASSUME Typed, NEW p \in Procs, pc[p] # "enqueueEnd", UNCHANGED <<window, deadline>>,
           Finish(p) \/ Throw(p) \/ (Return(p) /\ UNCHANGED endFor)
    PROVE  GoesBy(p)
<1>1. Moves(p, "idle", NoFrame) /\ NoFrame.job = None
  BY DEF Return, Finish, Throw, GotoWith, Moves, NoFrame
<1>2. LetsGo(p, None)
  BY DEF Finish, Throw, DropJob, LetsGo
<1> QED
  BY <1>1, <1>2 DEF GoesBy

LEMMA GotoGoesBy ==
    ASSUME Typed, NEW p \in Procs, pc[p] # "enqueueEnd", UNCHANGED <<window, deadline, endFor>>,
           NEW l, l # "enqueueEnd", NEW f, f.job \in {frame[p].job, None},
           GotoWith(p, l, f) \/ Enter(p, l, f)
    PROVE  GoesBy(p)
<1>1. Moves(p, l, f)
  BY DEF GotoWith, Enter, Moves
<1> QED
  BY <1>1 DEF GoesBy, LetsGo

LEMMA PayoutGoesBy ==
    ASSUME Typed, NEW p \in Procs, PayoutStep(p)
    PROVE  GoesBy(p)
<1>1. UNCHANGED <<window, deadline>> /\ pc[p] # "enqueueEnd"
  BY DEF PayoutStep, LoadPayout, LookupPayout, Pay, PayFails, SavePayout, AdvanceIndex,
         ResetCycle, NewCycle, PayoutWriteFails, clock
<1>2. CASE Finish(p) \/ Throw(p)
  BY <1>1, <1>2, EndGoesBy
<1>3. ASSUME UNCHANGED queue, NEW l, l # "enqueueEnd", Goto(p, l)
      PROVE  GoesBy(p)
  BY <1>1, <1>3, GotoGoesBy DEF Goto, queue
<1>4. PICK f \in Frames : f = frame[p]
  BY FrameOf
<1>5. CASE LoadPayout(p)
  <2>1. PICK user, last, amount :
           GotoWith(p, "lookup", [f EXCEPT !.user = user, !.index = payoutIndex + 1,
                                           !.last = last, !.cycle = totalCycles + 1,
                                           !.amount = amount])
    BY <1>4, <1>5 DEF LoadPayout
  <2>2. PICK g : g = [f EXCEPT !.user = user, !.index = payoutIndex + 1, !.last = last,
                               !.cycle = totalCycles + 1, !.amount = amount]
    OBVIOUS
  <2>3. g.job = f.job
    BY <2>2 DEF Frames
  <2>4. UNCHANGED endFor
    BY <1>5 DEF LoadPayout, queue
  <2>5. GotoWith(p, "lookup", g) /\ g.job \in {frame[p].job, None}
    BY <1>4, <2>1, <2>2, <2>3
  <2> QED
    BY <1>1, <2>4, <2>5, GotoGoesBy
<1>6. CASE UNCHANGED queue /\ GotoWith(p, "newCycle", [frame[p] EXCEPT !.cycle = totalCycles + 1])
  <2>1. PICK g : g = [f EXCEPT !.cycle = totalCycles + 1]
    OBVIOUS
  <2>2. g.job = f.job
    BY <2>1 DEF Frames
  <2>3. UNCHANGED endFor
    BY <1>6 DEF queue
  <2>4. GotoWith(p, "newCycle", g) /\ g.job \in {frame[p].job, None}
    BY <1>4, <1>6, <2>1, <2>2
  <2> QED
    BY <1>1, <2>3, <2>4, GotoGoesBy
<1> QED
  BY <1>2, <1>3, <1>5, <1>6
     DEF PayoutStep, LookupPayout, Pay, PayFails, SavePayout, AdvanceIndex,
         ResetCycle, NewCycle, PayoutWriteFails

\* A handler that ends without having added its job, for a deadline that still
\* stands, has lost it.
LEMMA LosesKeeps ==
    ASSUME Typed, JobsKept, NEW p \in Procs, pc[p] = "enqueueEnd", Moves(p, "idle", NoFrame),
           UNCHANGED <<window, deadline, endFor>>
    PROVE  Attends
<1>1. pc'[p] = "idle" /\ frame'[p] = NoFrame /\ OthersStay(p) /\ NoFrame.job = None
  BY MovesAre DEF NoFrame
<1>2. Workers \subseteq Procs /\ \A w \in Workers : frame'[w].job \in {frame[w].job, None}
  BY <1>1 DEF OthersStay, Procs
<1>3. JobsKept'
  BY <1>2 DEF JobsKept
<1>4. \A q \in Procs : ~ComesToEnqueue(q)
  BY <1>1 DEF ComesToEnqueue, Moved, OthersStay
<1>5. \A j \in EndJobs : ~ Running(j) => ~ Running(j)'
  BY <1>2, Numbers DEF Running
<1>6. ASSUME Watched, window = "open", ~LosesJob(p)
      PROVE  Awaited' \/ Enqueuing'
  <2>1. CASE Awaited
    BY <1>5, <2>1 DEF Awaited
  <2>2. CASE Enqueuing
    <3>1. PICK q \in Procs : pc[q] = "enqueueEnd" /\ frame[q].deadline = deadline
      BY <2>2 DEF Enqueuing
    <3>2. q # p
      BY <1>1, <1>6, <3>1 DEF LosesJob, Ended, Moved
    <3> QED
      BY <1>1, <3>1, <3>2 DEF Enqueuing, OthersStay
  <2> QED
    BY <1>6, <2>1, <2>2 DEF Watched
<1> QED
  BY <1>3, <1>4, <1>6 DEF Attends, Watched

\* The deadline is added for, unless Redis is away.
LEMMA EnqueueKeeps ==
    ASSUME Typed, JobsKept, NEW p \in Procs, EnqueueEnd(p)
    PROVE  Attends
<1>0. CASE UNCHANGED endFor
  BY <1>0, LosesKeeps DEF EnqueueEnd, Return, GotoWith, Moves, clock
<1> SUFFICES ASSUME endFor' # endFor PROVE Attends
  BY <1>0
<1>1. PICK k \in EndJobs : endFor[k] = 0 /\ endFor' = [endFor EXCEPT ![k] = frame[p].deadline]
  BY DEF EnqueueEnd
<1>2. UNCHANGED <<window, deadline>> /\ pc[p] = "enqueueEnd" /\ Moves(p, "idle", NoFrame)
  BY DEF EnqueueEnd, Return, GotoWith, Moves, clock
<1>3. /\ frame'[p] = NoFrame /\ NoFrame.job = None
      /\ \A q \in Procs \ {p} : pc'[q] = pc[q] /\ frame'[q] = frame[q]
  BY <1>2 DEF Moves, Typed, ControlTyped, NoFrame
<1>4. frame[p].deadline > 0 /\ frame[p].deadline \in Nat
  BY <1>2, FrameOf, FrameFields DEF Fits
<1>5. endFor'[k] = frame[p].deadline /\ \A j \in EndJobs \ {k} : endFor'[j] = endFor[j]
  BY <1>1 DEF Typed, QueueTyped
<1>6. Workers \subseteq Procs /\ \A q \in Procs : frame[q].job \in EndJobs \cup {None}
  BY SessionsHaveNoJob DEF Procs
<1>7. \A w \in Workers : frame'[w].job \in {frame[w].job, None}
  BY <1>3, <1>6
<1>8. \A w \in Workers : frame[w].job # k
  BY <1>1, Numbers DEF JobsKept
<1>9. JobsKept'
  <2>1. ASSUME NEW w \in Workers, frame'[w].job # None
        PROVE  endFor'[frame'[w].job] # 0
    <3>1. frame'[w].job = frame[w].job /\ frame[w].job \in EndJobs \ {k}
      BY <1>6, <1>7, <1>8, <2>1
    <3> QED
      BY <1>5, <2>1, <3>1 DEF JobsKept
  <2>2. \A v, w \in Workers : frame'[v].job # None /\ frame'[v].job = frame'[w].job => v = w
    BY <1>7 DEF JobsKept
  <2> QED
    BY <2>1, <2>2 DEF JobsKept
<1>10. \A j \in EndJobs : ~ Running(j) => ~ Running(j)'
  BY <1>7, Numbers DEF Running
<1>11. ASSUME window = "open", Watched
       PROVE  deadline > 0 /\ (Awaited' \/ Enqueuing')
  <2>1. deadline > 0 /\ (Awaited \/ Enqueuing)
    BY <1>11 DEF Watched
  <2>2. CASE Awaited
    <3>1. PICK j \in EndJobs : endFor[j] = deadline /\ ~ Running(j)
      BY <2>2 DEF Awaited
    <3>2. j # k
      BY <1>1, <2>1, <3>1 DEF Typed, ClockTyped
    <3> QED
      BY <1>2, <1>5, <1>10, <2>1, <3>1, <3>2 DEF Awaited
  <2>3. CASE Enqueuing
    <3>1. PICK q \in Procs : pc[q] = "enqueueEnd" /\ frame[q].deadline = deadline
      BY <2>3 DEF Enqueuing
    <3>2. CASE q = p
      <4>1. ~ Running(k)
        BY <1>8 DEF Running
      <4> QED
        BY <1>2, <1>5, <1>10, <2>1, <3>1, <3>2, <4>1 DEF Awaited
    <3>3. CASE q # p
      BY <1>2, <1>3, <2>1, <3>1, <3>3 DEF Enqueuing
    <3> QED
      BY <3>2, <3>3
  <2> QED
    BY <2>1, <2>2, <2>3
<1>12. Watched => Watched'
  BY <1>2, <1>11 DEF Watched
<1>13. \A q \in Procs : ~ComesToEnqueue(q)
  <2>1. pc'[p] = "idle"
    BY <1>2, MovesAre
  <2> QED
    BY <1>3, <2>1 DEF ComesToEnqueue, Moved
<1> QED
  BY <1>9, <1>12, <1>13 DEF Attends

\* A handler that has set the deadline goes on to add its job.
LEMMA SetKeeps ==
    ASSUME Typed, JobsKept, NEW p \in Procs, NEW f,
           Moves(p, "enqueueEnd", f), f.deadline = deadline', f.deadline > 0,
           f.job \in {frame[p].job, None}, UNCHANGED endFor
    PROVE  Attends
<1>1. pc'[p] = "enqueueEnd" /\ frame'[p] = f
      /\ \A q \in Procs \ {p} : frame'[q] = frame[q]
  BY DEF Moves, Typed, ControlTyped
<1>2. \A w \in Workers : frame'[w].job \in {frame[w].job, None}
  BY <1>1 DEF Procs
<1> QED
  BY <1>1, <1>2 DEF Attends, JobsKept, Watched, Enqueuing

\* A job that is due is not what the deadline ahead waits for.
LEMMA StartKeeps ==
    ASSUME Typed, JobsKept, NEW w \in Workers, NEW k \in EndJobs, StartEnd(w, k)
    PROVE  Attends
<1>1. UNCHANGED <<window, deadline>> /\ w \in Procs /\ pc[w] = "idle"
      /\ endFor[k] # 0 /\ (endFor[k] < deadline \/ window = "over") /\ ~ Running(k)
  BY DEF StartEnd, clock, Procs, Due
<1>2. endFor \in [EndJobs -> Nat] /\ deadline \in Nat
  BY DEF Typed, QueueTyped, ClockTyped
<1>3. window = "open" => \A j \in EndJobs : endFor[j] = deadline => j # k
  BY <1>1, <1>2
<1>4. \A v \in Workers : frame[v].job # k
  BY <1>1 DEF Running
<1>5. Workers \subseteq Procs /\ \A q \in Procs : frame[q].job \in EndJobs \cup {None}
  BY SessionsHaveNoJob DEF Procs
<1>8. \A q \in Procs : ~ComesToEnqueue(q)
  <2>1. \/ pc' = pc
        \/ \E f : Enter(w, "load", f)
    BY DEF StartEnd, control
  <2> QED
    BY <1>1, <2>1, MovesAre DEF ComesToEnqueue, Moved, OthersStay
<1>6. CASE Enter(w, "load", [NoFrame EXCEPT !.job = k]) /\ UNCHANGED <<endFor, endTries>>
  <2>1. PICK f : f = [NoFrame EXCEPT !.job = k]
    OBVIOUS
  <2>2. f.job = k /\ Moves(w, "load", f) /\ UNCHANGED endFor
    BY <1>6, <2>1, NoFrameFits DEF Enter, Moves, Frames
  <2>3. /\ frame'[w].job = k /\ \A v \in Workers \ {w} : frame'[v] = frame[v]
        /\ \A q \in Procs : pc[q] = "enqueueEnd" => pc'[q] = pc[q] /\ frame'[q] = frame[q]
    BY <1>1, <1>5, <2>2 DEF Moves, Typed, ControlTyped
  <2>4. JobsKept'
    BY <1>1, <1>4, <2>2, <2>3 DEF JobsKept
  <2>5. \A j \in EndJobs \ {k} : ~ Running(j) => ~ Running(j)'
    BY <2>3 DEF Running
  <2>6. Watched => Watched'
    BY <1>1, <1>3, <2>2, <2>3, <2>5 DEF Watched, Awaited, Enqueuing
  <2> QED
    BY <1>8, <2>4, <2>6 DEF Attends
<1>7. CASE DropJob(k) /\ UNCHANGED control
  <2>1. \A j \in EndJobs \ {k} : endFor'[j] = endFor[j]
    BY <1>2, <1>7 DEF DropJob
  <2>2. pc' = pc /\ frame' = frame
    BY <1>7 DEF control
  <2>3. JobsKept'
    BY <1>4, <1>5, <2>1, <2>2 DEF JobsKept
  <2>4. Watched => Watched'
    BY <1>1, <1>3, <2>1, <2>2 DEF Watched, Awaited, Enqueuing, Running
  <2> QED
    BY <1>8, <2>3, <2>4 DEF Attends
<1> QED
  BY <1>6, <1>7 DEF StartEnd

LEMMA SessionWatched ==
    ASSUME Typed, JobsKept, NEW s \in Sessions,
           Command(s) \/ SessionStep(s)
    PROVE  Attends
<1>1. s \in Procs
  BY DEF Procs
<1>2. ASSUME GoesBy(s) PROVE Attends
  BY <1>1, <1>2, GoesByKeeps
<1>3. ASSUME NEW l, l # "enqueueEnd", GotoWith(s, l, frame[s]), pc[s] # "enqueueEnd",
             UNCHANGED <<window, deadline, endFor>>
      PROVE  Attends
  BY <1>1, <1>2, <1>3, GotoGoesBy
<1>4. ASSUME Return(s), pc[s] # "enqueueEnd", UNCHANGED <<window, deadline, endFor>>
      PROVE  Attends
  BY <1>1, <1>2, <1>4, EndGoesBy
<1>5. CASE Command(s)
  <2>1. UNCHANGED <<window, deadline, endFor>>
    BY <1>5 DEF Command, RotationCommand, BeginContribute, BeginExit, BeginProceed, BeginOrder,
         BeginSkip, BeginWait, clock, queue
  <2>2. PICK l, f : Enter(s, l, f) /\ f.job = None /\ l # "enqueueEnd"
    <3>1. NoFrame \in Frames /\ NoFrame.job = None
      BY NoFrameFits DEF NoFrame
    <3>2. \A x : /\ [NoFrame EXCEPT !.user = x].job = None
                 /\ [NoFrame EXCEPT !.amount = x].job = None
                 /\ [NoFrame EXCEPT !.order = x].job = None
                 /\ [NoFrame EXCEPT !.deadline = x].job = None
      BY <3>1 DEF Frames
    <3>3. \A x, y, z : [NoFrame EXCEPT !.user = x, !.stay = y, !.lead = z].job = None
      BY <3>1 DEF Frames
    <3>4. CASE \E u \in Users : BeginExit(s, u)
      <4>1. PICK x, y, z : Enter(s, "settle", [NoFrame EXCEPT !.user = x, !.stay = y, !.lead = z])
        BY <3>4 DEF BeginExit
      <4> QED
        BY <3>3, <4>1
    <3>5. CASE \/ \E u \in Users : BeginContribute(s, u) \/ BeginSkip(s, u)
               \/ BeginProceed(s) \/ BeginWait(s)
               \/ \E named \in SUBSET Users : \E order \in SetToSeqs(named) : BeginOrder(s, order)
      <4>1. \E l \in {"invoke", "load", "writeOrder", "extend"} : \E x :
               \/ Enter(s, l, [NoFrame EXCEPT !.user = x])
               \/ Enter(s, l, [NoFrame EXCEPT !.amount = x])
               \/ Enter(s, l, [NoFrame EXCEPT !.order = x])
               \/ Enter(s, l, [NoFrame EXCEPT !.deadline = x])
        BY <3>5 DEF BeginContribute, BeginProceed, BeginOrder, BeginSkip, BeginWait
      <4> QED
        BY <3>2, <4>1
    <3> QED
      BY <1>5, <3>4, <3>5 DEF Command, RotationCommand
  <2>3. pc[s] # "enqueueEnd"
    BY <2>2 DEF Enter
  <2> QED
    BY <1>1, <1>2, <2>1, <2>2, <2>3, GotoGoesBy
<1>6. PICK f \in Frames : f = frame[s] /\ Fits(s, pc[s], f)
  BY <1>1, FrameOf
<1>6a. ASSUME NEW l, l # "enqueueEnd", NEW g, g.job = f.job, GotoWith(s, l, g), pc[s] # "enqueueEnd",
              UNCHANGED <<window, deadline, endFor>>
       PROVE  Attends
  <2>1. g.job \in {frame[s].job, None}
    BY <1>6, <1>6a
  <2> QED
    BY <1>1, <1>2, <1>6a, <2>1, GotoGoesBy
<1>7. CASE ContributionStep(s)
  <2>1. UNCHANGED <<window, deadline, endFor>> /\ pc[s] # "enqueueEnd"
    BY <1>7 DEF ContributionStep, InvokeContribute, RecordContribution, RecordFails, ReadLock,
         WriteLock, clock, queue
  <2>2. \/ Return(s) \/ \E l \in {"record", "readLock"} : GotoWith(s, l, frame[s])
        \/ GotoWith(s, "writeLock", [f EXCEPT !.order = ResolveOrder])
    BY <1>6, <1>7 DEF ContributionStep, InvokeContribute, RecordContribution, RecordFails, ReadLock,
         WriteLock, Goto
  <2>3. CASE Return(s) \/ \E l \in {"record", "readLock"} : GotoWith(s, l, frame[s])
    BY <1>3, <1>4, <2>1, <2>3
  <2>4. CASE GotoWith(s, "writeLock", [f EXCEPT !.order = ResolveOrder])
    <3>1. PICK g : g = [f EXCEPT !.order = ResolveOrder]
      OBVIOUS
    <3>2. g.job = f.job /\ GotoWith(s, "writeLock", g)
      BY <2>4, <3>1 DEF Frames
    <3> QED
      BY <1>6a, <2>1, <3>2
  <2> QED
    BY <2>2, <2>3, <2>4
<1>8. CASE ExitStep(s)
  <2>1. UNCHANGED <<window, deadline, endFor>> /\ pc[s] # "enqueueEnd"
    BY <1>8 DEF ExitStep, Settle, Refund, MarkLeft, LogExit, ReadOrder, DropFromOrder, Transfer,
         Pause, StopCron, ExitWriteFails, clock, queue
  <2>2. \/ Return(s)
        \/ \E l \in {"markLeft", "logExit", "readOrder", "transfer", "pause", "stopCron"} :
              GotoWith(s, l, frame[s])
        \/ \E x : GotoWith(s, "refund", [f EXCEPT !.amount = x])
        \/ \E x, y : GotoWith(s, "dropFromOrder", [f EXCEPT !.order = x, !.index = y])
    BY <1>6, <1>8 DEF ExitStep, Settle, Refund, MarkLeft, LogExit, ReadOrder, DropFromOrder,
         Transfer, Pause, StopCron, ExitWriteFails, GoOn, Goto, NextStop
  <2>3. CASE \/ Return(s)
             \/ \E l \in {"markLeft", "logExit", "readOrder", "transfer", "pause", "stopCron"} :
                   GotoWith(s, l, frame[s])
    BY <1>3, <1>4, <2>1, <2>3
  <2>4. ASSUME NEW x, GotoWith(s, "refund", [f EXCEPT !.amount = x])
        PROVE  Attends
    <3>1. PICK g : g = [f EXCEPT !.amount = x]
      OBVIOUS
    <3>2. g.job = f.job /\ GotoWith(s, "refund", g)
      BY <2>4, <3>1 DEF Frames
    <3> QED
      BY <1>6a, <2>1, <3>2
  <2>5. ASSUME NEW x, NEW y, GotoWith(s, "dropFromOrder", [f EXCEPT !.order = x, !.index = y])
        PROVE  Attends
    <3>1. PICK g : g = [f EXCEPT !.order = x, !.index = y]
      OBVIOUS
    <3>2. g.job = f.job /\ GotoWith(s, "dropFromOrder", g)
      BY <2>5, <3>1 DEF Frames
    <3> QED
      BY <1>6a, <2>1, <3>2
  <2> QED
    BY <2>2, <2>3, <2>4, <2>5
<1>9. CASE PayoutStep(s)
  BY <1>1, <1>2, <1>9, PayoutGoesBy
<1>10. CASE WriteOrder(s) \/ ExtendFails(s)
  BY <1>4, <1>10 DEF WriteOrder, ExtendFails, clock, queue
<1>11. CASE Extend(s) /\ Return(s)
  <2>1. /\ pc[s] = "extend" /\ UNCHANGED endFor /\ deadline' = f.deadline
        /\ window' = "open" => window = "open" \/ f.deadline > deadline
    BY <1>6, <1>11 DEF Extend, queue
  <2>2. pc'[s] = "idle" /\ frame'[s] = NoFrame /\ OthersStay(s) /\ NoFrame.job = None
    BY <1>1, <1>11, EndsAre DEF NoFrame
  <2>3. \A w \in Workers : w \in Procs /\ frame'[w].job \in {frame[w].job, None}
    BY <2>2 DEF OthersStay, Procs
  <2>4. JobsKept' /\ \A q \in Procs : ~ComesToEnqueue(q)
    BY <2>1, <2>2, <2>3 DEF JobsKept, ComesToEnqueue, Moved, OthersStay
  <2>5. \A j \in EndJobs : ~ Running(j) => ~ Running(j)'
    BY <2>3, Numbers DEF Running
  <2>6. ASSUME Watched, UNCHANGED deadline PROVE Watched'
    <3>1. window' = "open" => window = "open"
      BY <2>1, <2>6 DEF Typed, ClockTyped
    <3>2. Awaited => Awaited'
      BY <2>1, <2>5, <2>6 DEF Awaited
    <3>3. Enqueuing => Enqueuing'
      BY <2>1, <2>2, <2>6 DEF Enqueuing, OthersStay
    <3> QED
      BY <2>6, <3>1, <3>2, <3>3 DEF Watched
  <2> QED
    BY <2>4, <2>6 DEF Attends
<1>13. CASE Extend(s) /\ Goto(s, "enqueueEnd")
  <2>1. f.deadline > 0 /\ deadline' = f.deadline
    BY <1>6, <1>13 DEF Extend, Fits
  <2>2. Moves(s, "enqueueEnd", f) /\ UNCHANGED endFor
    BY <1>6, <1>13 DEF Extend, Goto, GotoWith, Moves, queue
  <2> QED
    BY <1>1, <1>6, <2>1, <2>2, SetKeeps
<1>12. CASE EnqueueEnd(s)
  BY <1>1, <1>12, EnqueueKeeps
<1> QED
  BY <1>5, <1>7, <1>8, <1>9, <1>10, <1>11, <1>12, <1>13 DEF SessionStep, RotationStep, Extend

LEMMA StepAttends ==
    ASSUME Typed, JobsKept, [Next]_vars
    PROVE  Attends
<1>1. ASSUME UNCHANGED <<pc, frame, endFor>>,
             window' = window \/ window' = "over" \/ periods' # periods
      PROVE  Attends
  BY <1>1 DEF Attends, JobsKept, Watched, Awaited, Enqueuing, Running, ComesToEnqueue, Moved
<1>2. ASSUME NEW u \in Users, Join(u) PROVE Attends
  BY <1>1, <1>2 DEF Join, clock, queue, control
<1>3. CASE ReachDeadline \/ UNCHANGED vars
  BY <1>1, <1>3 DEF ReachDeadline, vars, clock, queue, control
<1>4. ASSUME NEW s \in Sessions, Command(s) \/ SessionStep(s) PROVE Attends
  BY <1>4, SessionWatched
<1>5. ASSUME NEW w \in Workers, WorkerStep(w) PROVE Attends
  <2>1. w \in Procs
    BY DEF Procs
  <2>2. CASE PayoutStep(w)
    BY <2>1, <2>2, PayoutGoesBy, GoesByKeeps
  <2>3. CASE EnqueueEnd(w)
    BY <2>1, <2>3, EnqueueKeeps
  <2>4. ASSUME NEW j \in EndJobs, StartEnd(w, j) PROVE Attends
    BY <2>4, StartKeeps
  <2>5. CASE StartCycle(w) /\ UNCHANGED control
    <3>1. UNCHANGED <<pc, frame, endFor>> /\ periods' = periods + 1 /\ periods \in Nat
      BY <2>5 DEF StartCycle, control, Typed, QueueTyped
    <3> QED
      BY <1>1, <3>1
  <2>6. CASE StartCycle(w) /\ Enter(w, "enqueueEnd", [NoFrame EXCEPT !.deadline = deadline'])
    <3>1. deadline' > 0 /\ deadline' \in Nat
      BY <2>6, Numbers DEF StartCycle, DaysOfCycle, Typed, QueueTyped
    <3>2. PICK f : f = [NoFrame EXCEPT !.deadline = deadline']
      OBVIOUS
    <3>3. f.deadline = deadline' /\ f.job = None
      BY <3>2, NoFrameFits DEF Frames, NoFrame
    <3>4. Moves(w, "enqueueEnd", f) /\ UNCHANGED endFor
      BY <2>6, <3>2 DEF StartCycle, Enter, Moves
    <3> QED
      BY <2>1, <3>1, <3>3, <3>4, SetKeeps
  <2> QED
    BY <1>5, <2>2, <2>3, <2>4, <2>5, <2>6 DEF WorkerStep, SchedulerStart, StartCycle
<1>6. ASSUME NEW p \in Procs, Crash(p) PROVE Attends
  <2>1. UNCHANGED <<window, deadline>> /\ Throw(p)
    BY <1>6 DEF Crash, clock
  <2>2. CASE pc[p] # "enqueueEnd"
    BY <2>1, <2>2, EndGoesBy, GoesByKeeps
  <2>3. CASE pc[p] = "enqueueEnd"
    <3>1. frame[p].job = None
      BY <2>3, FrameOf DEF Fits, PayoutLabels
    <3>2. UNCHANGED endFor /\ Moves(p, "idle", NoFrame)
      BY <2>1, <3>1 DEF Throw, Return, GotoWith, Moves
    <3> QED
      BY <2>1, <2>3, <3>2, LosesKeeps
  <2> QED
    BY <2>2, <2>3
<1> QED
  BY <1>2, <1>3, <1>4, <1>5, <1>6 DEF Next

LEMMA WatchedInductive ==
    ASSUME Typed, JobsKept, forsaken \in BOOLEAN, ~forsaken => Watched, [ObservedNext]_observed
    PROVE  JobsKept' /\ forsaken' \in BOOLEAN /\ (~forsaken' => Watched')
<1>1. CASE UNCHANGED observed
  BY <1>1 DEF observed, vars, history, control, queue, clock, JobsKept, Watched, Awaited,
     Enqueuing, Running
<1>2. CASE Next /\ Observe
  <2>1. Attends
    BY <1>2, StepAttends
  <2>2. forsaken' \in BOOLEAN
    BY <1>2 DEF Observe, ObserveDeadline
  <2>3. ASSUME ~forsaken', \A p \in Procs : ~ComesToEnqueue(p)
        PROVE  ~forsaken /\ UNCHANGED <<deadline, periods>> /\ \A p \in Procs : ~LosesJob(p)
    BY <1>2, <2>3 DEF Observe, ObserveDeadline
  <2> QED
    BY <2>1, <2>2, <2>3 DEF Attends
<1> QED
  BY <1>1, <1>2 DEF ObservedNext

\* Whatever calls, writes and processes fail, whichever payout handlers throw and
\* drop their jobs, and however often WAIT moves the deadline, an open window is
\* watched, unless the handler that set its deadline was lost before it added the
\* job (handleCycleStart, extendDeadline, enqueueCycleEnd).
THEOREM DeadlineHasJobCorrect == ObservedSpec => []DeadlineHasJob
<1> DEFINE I == Typed /\ JobsKept /\ forsaken \in BOOLEAN /\ (~forsaken => Watched)
<1>1. ObservedInit => I
  <2> SUFFICES ASSUME ObservedInit PROVE I
    OBVIOUS
  <2>1. Typed
    BY ObservedTyped
  <2>2. Workers \subseteq Procs /\ NoFrame.job = None
    BY DEF Procs, NoFrame
  <2>3. \A p \in Procs : frame[p] = NoFrame
    BY DEF ObservedInit, Init
  <2>4. JobsKept
    BY <2>2, <2>3 DEF JobsKept
  <2>5. forsaken = FALSE /\ window = "none"
    BY DEF ObservedInit, Init
  <2>6. Watched
    BY <2>5 DEF Watched
  <2> QED
    BY <2>1, <2>4, <2>5, <2>6
<1>2. I /\ [ObservedNext]_observed => I'
  BY ObservedTyped, WatchedInductive
<1>3. I => DeadlineHasJob
  BY DEF Watched, Awaited, Enqueuing, DeadlineHasJob
<1> QED
  BY <1>1, <1>2, <1>3, PTL DEF ObservedSpec
-----------------------------------------------------------------------------
(* What a step does to the exits *)

\* An exit before and after its member is marked as LEFT.
Early == {"settle", "refund", "markLeft"}
Late == {"logExit", "readOrder", "dropFromOrder", "transfer", "pause", "stopCron"}

\* A step that takes no exit further, and what each other step does.
LeavesExits ==
    /\ \A s \in Sessions : pc[s] \in Early \cup Late \/ pc'[s] \in Early \cup Late
                              => pc'[s] = pc[s] /\ frame'[s] = frame[s]
    /\ UNCHANGED <<status, role, joined, isPaused, refunded, exits>>
    /\ \A u \in Users : recorded'[u] >= recorded[u]

Joins(u) ==
    /\ UNCHANGED <<pc, frame, role, isPaused, recorded, refunded, exits>>
    /\ status[u] = "NONE" /\ status' = [status EXCEPT ![u] = "ACTIVE"]
    /\ joined' = Append(joined, u)

SameExit(s) == /\ frame'[s].user = frame[s].user /\ frame'[s].stay = frame[s].stay
               /\ frame'[s].lead = frame[s].lead

Begins(s, u) ==
    /\ pc[s] = "idle" /\ pc'[s] = "settle"
    /\ frame'[s].user = u /\ frame'[s].stay = Active \ {u}
    /\ frame'[s].lead = (role[u] = "CREATOR")
    /\ status[u] = "ACTIVE"
    /\ UNCHANGED <<status, role, joined, isPaused, recorded, refunded, exits>>

Settles(s) ==
    /\ pc[s] = "settle" /\ SameExit(s)
    /\ \/ pc'[s] = "markLeft"
       \/ /\ pc'[s] = "refund"
          /\ frame'[s].amount \in Nat /\ frame'[s].amount <= recorded[frame[s].user]
    /\ UNCHANGED <<status, role, joined, isPaused, recorded, refunded, exits>>

Refunds(s) ==
    /\ pc[s] = "refund" /\ frame[s].amount \in Nat
    /\ pc'[s] = "idle" \/ (pc'[s] = "markLeft" /\ frame'[s] = frame[s])
    /\ refunded' = [refunded EXCEPT ![frame[s].user] = @ + frame[s].amount]
    /\ UNCHANGED <<status, role, joined, isPaused, recorded, exits>>

Marks(s) ==
    /\ pc[s] = "markLeft"
    /\ pc'[s] = "idle" \/ (pc'[s] = "logExit" /\ frame'[s] = frame[s])
    /\ status' = [status EXCEPT ![frame[s].user] = "LEFT"]
    /\ UNCHANGED <<role, joined, isPaused, recorded, refunded, exits>>

Logs(s) ==
    /\ pc[s] = "logExit"
    /\ pc'[s] = "idle" \/ (pc'[s] = "readOrder" /\ frame'[s] = frame[s])
    /\ exits' = [exits EXCEPT ![frame[s].user] = @ + 1]
    /\ UNCHANGED <<status, role, joined, isPaused, recorded, refunded>>

GoesOn(s) ==
    /\ pc[s] \in {"readOrder", "dropFromOrder"}
    /\ \/ pc[s] = "readOrder" /\ pc'[s] = "dropFromOrder" /\ SameExit(s)
       \/ pc'[s] = NextStop(s) /\ (pc'[s] # "idle" => SameExit(s))
    /\ UNCHANGED <<status, role, joined, isPaused, recorded, refunded, exits>>

HandsOn(s) ==
    /\ pc[s] = "transfer"
    /\ \/ pc'[s] = "idle"
       \/ pc'[s] = "pause" /\ frame'[s] = frame[s]
    /\ role' = [role EXCEPT ![Heir(s)] = "CREATOR"]
    /\ UNCHANGED <<status, joined, isPaused, recorded, refunded, exits>>

Pauses(s) ==
    /\ pc[s] = "pause"
    /\ pc'[s] = "idle" \/ (pc'[s] = "stopCron" /\ frame'[s] = frame[s])
    /\ isPaused' = TRUE
    /\ UNCHANGED <<status, role, joined, recorded, refunded, exits>>

Quits(s) ==
    /\ pc[s] \in Early \cup Late /\ pc'[s] = "idle"
    /\ UNCHANGED <<status, role, joined, isPaused, recorded, refunded, exits>>

ExitKinds(s) ==
    \/ \E u \in Users : Begins(s, u)
    \/ Settles(s) \/ Refunds(s) \/ Marks(s) \/ Logs(s) \/ GoesOn(s) \/ HandsOn(s) \/ Pauses(s)
    \/ Quits(s)

LEMMA LeavesOne ==
    ASSUME Typed, NEW p \in Procs, OthersStay(p),
           pc[p] \notin Early \cup Late, pc'[p] \notin Early \cup Late,
           UNCHANGED <<status, role, joined, isPaused, refunded, exits>>,
           \A u \in Users : recorded'[u] >= recorded[u]
    PROVE  LeavesExits
  BY DEF LeavesExits, OthersStay, Procs

\* Where a session step leads, and what it keeps of the frame.
LEMMA OnwardIs ==
    ASSUME Typed, NEW s \in Sessions, NEW l,
           Goto(s, l) \/ GoOn(s, l) \/ Return(s)
    PROVE  /\ OthersStay(s)
           /\ pc'[s] = "idle" \/ (pc'[s] = l /\ frame'[s] = frame[s])
           /\ Return(s) => pc'[s] = "idle"
           /\ Goto(s, l) \/ GoOn(s, l) => pc'[s] = l
<1>1. s \in Procs
  BY DEF Procs
<1>2. Return(s) => pc'[s] = "idle" /\ OthersStay(s)
  BY <1>1, EndsAre
<1>3. Goto(s, l) => pc'[s] = l /\ frame'[s] = frame[s] /\ OthersStay(s)
  BY <1>1, MovesAre DEF Goto
<1> QED
  BY <1>2, <1>3 DEF GoOn

LEMMA ExitIs ==
    ASSUME Typed, NEW s \in Sessions, ExitStep(s)
    PROVE  OthersStay(s) /\ ExitKinds(s)
<1>1. s \in Procs
  BY DEF Procs
<1>2. PICK f \in Frames : f = frame[s] /\ Fits(s, pc[s], f)
  BY <1>1, FrameOf
<1>3. CASE Settle(s)
  <2>1. pc[s] = "settle" /\ UNCHANGED <<status, role, joined, isPaused, recorded, refunded, exits>>
    BY <1>3 DEF Settle, members, contributions, settlements
  <2>2. CASE Goto(s, "markLeft")
    BY <2>1, <2>2, OnwardIs DEF ExitKinds, Settles, SameExit
  <2>3. CASE ~Goto(s, "markLeft")
    <3>1. PICK owed : /\ owed = recorded[f.user] - received[f.user] /\ owed > 0
                      /\ GotoWith(s, "refund", [f EXCEPT !.amount = owed])
      BY <1>2, <1>3, <2>3 DEF Settle
    <3>2. PICK g : g = [f EXCEPT !.amount = owed]
      OBVIOUS
    <3>3. g.user = f.user /\ g.stay = f.stay /\ g.lead = f.lead /\ g.amount = owed
      BY <3>2 DEF Frames
    <3>4. f.user \in Users
      BY <1>2, <2>1 DEF Fits
    <3>5. PICK rec, got \in Nat : rec = recorded[f.user] /\ got = received[f.user]
      BY <3>4 DEF Typed, ContributionsTyped, MoneyTyped
    <3>6. owed \in Nat /\ owed <= rec
      BY <3>1, <3>5
    <3>7. pc'[s] = "refund" /\ frame'[s] = g /\ OthersStay(s)
      BY <1>1, <3>1, <3>2, MovesAre
    <3> QED
      BY <1>2, <2>1, <3>3, <3>5, <3>6, <3>7 DEF ExitKinds, Settles, SameExit
  <2> QED
    BY <2>2, <2>3
<1>4. CASE Refund(s)
  <2>1. pc[s] = "refund" /\ UNCHANGED <<status, role, joined, isPaused, recorded, exits>>
    BY <1>4 DEF Refund, members, contributions
  <2>2. f.amount \in Nat
    BY <1>2, <2>1 DEF Fits
  <2>3. Goto(s, "markLeft") \/ Return(s)
    BY <1>4 DEF Refund
  <2>4. OthersStay(s) /\ (pc'[s] = "idle" \/ (pc'[s] = "markLeft" /\ frame'[s] = frame[s]))
    BY <2>3, OnwardIs
  <2>5. CASE UNCHANGED refunded /\ Return(s)
    <3>1. pc'[s] = "idle"
      BY <2>5, OnwardIs
    <3> QED
      BY <2>1, <2>4, <2>5, <3>1 DEF ExitKinds, Quits, Early
  <2>6. CASE refunded' = [refunded EXCEPT ![frame[s].user] = @ + frame[s].amount]
    BY <1>2, <2>1, <2>2, <2>4, <2>6 DEF ExitKinds, Refunds
  <2> QED
    BY <1>4, <2>5, <2>6 DEF Refund
<1>5. CASE MarkLeft(s)
  <2>1. OthersStay(s) /\ (pc'[s] = "idle" \/ (pc'[s] = "logExit" /\ frame'[s] = frame[s]))
    BY <1>5, OnwardIs DEF MarkLeft
  <2> QED
    BY <1>5, <2>1 DEF MarkLeft, ExitKinds, Marks, contributions, settlements
<1>6. CASE LogExit(s)
  <2>1. OthersStay(s) /\ (pc'[s] = "idle" \/ (pc'[s] = "readOrder" /\ frame'[s] = frame[s]))
    BY <1>6, OnwardIs DEF LogExit
  <2> QED
    BY <1>6, <2>1 DEF LogExit, ExitKinds, Logs, contributions, members
<1>7. CASE ReadOrder(s)
  <2>1. pc[s] = "readOrder" /\ UNCHANGED <<status, role, joined, isPaused, recorded, refunded, exits>>
    BY <1>7 DEF ReadOrder, members, contributions, settlements
  <2>2. CASE GoOn(s, NextStop(s))
    BY <2>1, <2>2, OnwardIs DEF ExitKinds, GoesOn, SameExit
  <2>3. CASE ~GoOn(s, NextStop(s))
    <3>1. PICK x, y : GotoWith(s, "dropFromOrder", [f EXCEPT !.order = x, !.index = y])
      BY <1>2, <1>7, <2>3 DEF ReadOrder
    <3>2. PICK g : g = [f EXCEPT !.order = x, !.index = y]
      OBVIOUS
    <3>3. g.user = f.user /\ g.stay = f.stay /\ g.lead = f.lead
      BY <3>2 DEF Frames
    <3>4. pc'[s] = "dropFromOrder" /\ frame'[s] = g /\ OthersStay(s)
      BY <1>1, <3>1, <3>2, MovesAre
    <3> QED
      BY <1>2, <2>1, <3>3, <3>4 DEF ExitKinds, GoesOn, SameExit
  <2> QED
    BY <2>2, <2>3
<1>8. CASE DropFromOrder(s)
  BY <1>8, OnwardIs DEF DropFromOrder, ExitKinds, GoesOn, SameExit, members, contributions, settlements
<1>9. CASE Transfer(s)
  <2>1. /\ pc[s] = "transfer" /\ role' = [role EXCEPT ![Heir(s)] = "CREATOR"]
        /\ UNCHANGED <<status, joined, isPaused, recorded, refunded, exits>>
    BY <1>9 DEF Transfer, contributions, settlements
  <2>2. GoOn(s, "pause") \/ GoOn(s, "idle") \/ Return(s)
    <3>1. CASE Cardinality(frame[s].stay) <= 1
      BY <1>9, <3>1 DEF Transfer
    <3>2. CASE ~(Cardinality(frame[s].stay) <= 1)
      BY <1>9, <3>2 DEF Transfer
    <3> QED
      BY <3>1, <3>2
  <2>3. OthersStay(s) /\ (pc'[s] = "idle" \/ (pc'[s] = "pause" /\ frame'[s] = frame[s]))
    BY <2>2, OnwardIs
  <2> QED
    BY <2>1, <2>3 DEF ExitKinds, HandsOn
<1>10. CASE Pause(s)
  BY <1>10, OnwardIs DEF Pause, ExitKinds, Pauses, members, contributions, settlements
<1>11. CASE StopCron(s) \/ ExitWriteFails(s)
  BY <1>11, OnwardIs DEF StopCron, ExitWriteFails, ExitKinds, Quits, Early, Late, members,
     contributions, settlements
<1> QED
  BY <1>3, <1>4, <1>5, <1>6, <1>7, <1>8, <1>9, <1>10, <1>11 DEF ExitStep

LEMMA ExitBegins ==
    ASSUME Typed, NEW s \in Sessions, NEW u \in Users, BeginExit(s, u)
    PROVE  Begins(s, u)
<1>1. s \in Procs
  BY DEF Procs
<1>2. PICK stay, lead : stay = Active \ {u} /\ lead = (role[u] = "CREATOR")
  OBVIOUS
<1>3. PICK f : f = [NoFrame EXCEPT !.user = u, !.stay = stay, !.lead = lead]
  OBVIOUS
<1>4. Enter(s, "settle", f) /\ status[u] = "ACTIVE"
  BY <1>2, <1>3 DEF BeginExit
<1>5. f.user = u /\ f.stay = stay /\ f.lead = lead
  BY <1>3, NoFrameFits DEF Frames
<1>6. pc[s] = "idle" /\ pc'[s] = "settle" /\ frame'[s] = f
  BY <1>1, <1>4, MovesAre DEF Enter
<1> QED
  BY <1>2, <1>4, <1>5, <1>6 DEF BeginExit, Begins, members, contributions, settlements

LEMMA NextExits ==
    ASSUME Typed, [Next]_vars
    PROVE  \/ LeavesExits
           \/ \E u \in Users : Joins(u)
           \/ \E s \in Sessions : OthersStay(s) /\ ExitKinds(s)
<1>0. Sessions \subseteq Procs /\ Workers \subseteq Procs
  BY DEF Procs
<1>n. \A u \in Users : recorded[u] \in Nat
  BY DEF Typed, ContributionsTyped
<1>r. ASSUME UNCHANGED recorded PROVE \A u \in Users : recorded'[u] >= recorded[u]
  BY <1>n, <1>r
<1>1. ASSUME NEW u \in Users, Join(u) PROVE Joins(u)
  BY <1>1 DEF Join, Joins, control, contributions, settlements
<1>2. CASE ReachDeadline \/ UNCHANGED vars
  BY <1>2, <1>r DEF ReachDeadline, vars, LeavesExits, members, contributions, settlements, control
<1>3. ASSUME NEW p \in Procs, UNCHANGED <<status, role, joined, isPaused, recorded, refunded, exits>>,
             pc[p] \notin Early \cup Late,
             NEW l, NEW f, l \notin Early \cup Late, Enter(p, l, f) \/ GotoWith(p, l, f)
      PROVE  LeavesExits
  BY <1>3, <1>r, MovesAre, LeavesOne
<1>4. ASSUME NEW s \in Sessions, Command(s)
      PROVE  LeavesExits \/ (OthersStay(s) /\ ExitKinds(s))
  <2>1. CASE \E u \in Users : BeginExit(s, u)
    BY <1>4, <2>1, ExitBegins, CommandsEnter DEF ExitKinds
  <2>2. CASE \A u \in Users : ~BeginExit(s, u)
    <3>1. /\ UNCHANGED <<status, role, joined, isPaused, recorded, refunded, exits>>
          /\ pc[s] \notin Early \cup Late
      BY <1>4, CommandsEnter DEF members, contributions, settlements, Early, Late
    <3>2. \E l \in {"invoke", "load", "writeOrder", "extend"} : \E f : Enter(s, l, f)
      BY <1>4, <2>2 DEF Command, RotationCommand, BeginContribute, BeginProceed, BeginOrder,
         BeginSkip, BeginWait
    <3> QED
      BY <1>0, <1>3, <3>1, <3>2 DEF Early, Late
  <2> QED
    BY <2>1, <2>2
<1>5. ASSUME NEW s \in Sessions, ContributionStep(s) PROVE LeavesExits
  <2>1. UNCHANGED <<status, role, joined, isPaused, refunded, exits>> /\ pc[s] \notin Early \cup Late
    BY <1>5 DEF ContributionStep, InvokeContribute, RecordContribution, RecordFails, ReadLock,
         WriteLock, members, settlements, Early, Late
  <2>2. \E l \in {"idle", "record", "readLock", "writeLock"} : \E f : GotoWith(s, l, f)
    BY <1>5 DEF ContributionStep, InvokeContribute, RecordContribution, RecordFails, ReadLock,
         WriteLock, Goto, Return
  <2>3. OthersStay(s) /\ pc'[s] \notin Early \cup Late
    BY <1>0, <2>2, MovesAre DEF Early, Late
  <2>4. \/ recorded' = recorded
        \/ pc[s] = "record" /\ recorded' = [recorded EXCEPT ![frame[s].user] = @ + 1]
    BY <1>5 DEF ContributionStep, InvokeContribute, RecordContribution, RecordFails, ReadLock,
         WriteLock, contributions
  <2>5. recorded \in [Users -> Nat]
    BY DEF Typed, ContributionsTyped
  <2>6. \A u \in Users : recorded'[u] >= recorded[u]
    BY <2>4, <2>5
  <2> QED
    BY <1>0, <2>1, <2>3, <2>6, LeavesOne
<1>6. ASSUME NEW s \in Sessions, WriteOrder(s) \/ Extend(s) \/ ExtendFails(s) PROVE LeavesExits
  <2>1. /\ UNCHANGED <<status, role, joined, isPaused, recorded, refunded, exits>>
        /\ pc[s] \notin Early \cup Late
    BY <1>6 DEF WriteOrder, Extend, ExtendFails, members, contributions, settlements, Early, Late
  <2>2. \E l \in {"idle", "enqueueEnd"} : \E f : GotoWith(s, l, f)
    BY <1>6 DEF WriteOrder, Extend, ExtendFails, Goto, Return
  <2> QED
    BY <1>0, <1>3, <2>1, <2>2 DEF Early, Late
<1>7. ASSUME NEW p \in Procs, PayoutStep(p) \/ EnqueueEnd(p) PROVE LeavesExits
  <2>1. UNCHANGED <<status, role, joined, isPaused, recorded, refunded, exits>>
    BY <1>7 DEF EnqueueEnd, PayoutStep, LoadPayout, LookupPayout, Pay, PayFails, SavePayout,
       AdvanceIndex, ResetCycle, NewCycle, PayoutWriteFails, members, contributions, settlements
  <2>2. pc[p] \notin Early \cup Late
    BY <1>7 DEF EnqueueEnd, PayoutStep, LoadPayout, LookupPayout, Pay, PayFails, SavePayout,
       AdvanceIndex, ResetCycle, NewCycle, PayoutWriteFails, Early, Late
  <2>3. \E l \in {"idle", "lookup", "pay", "savePayout", "advance", "reset", "newCycle"} :
           \E f : GotoWith(p, l, f)
    BY <1>7 DEF EnqueueEnd, PayoutStep, LoadPayout, LookupPayout, Pay, PayFails, SavePayout,
       AdvanceIndex, ResetCycle, NewCycle, PayoutWriteFails, Goto, Return, Finish, Throw
  <2> QED
    BY <1>3, <2>1, <2>2, <2>3 DEF Early, Late
<1>8. ASSUME NEW w \in Workers, SchedulerStart(w) PROVE LeavesExits
  <2>1. /\ UNCHANGED <<status, role, joined, isPaused, recorded, refunded, exits>>
        /\ pc[w] \notin Early \cup Late
    BY <1>8 DEF SchedulerStart, StartCycle, StartEnd, members, contributions, settlements,
       Early, Late
  <2>2. \/ UNCHANGED control
        \/ \E l \in {"enqueueEnd", "load"} : \E f : Enter(w, l, f)
    BY <1>8 DEF SchedulerStart, StartCycle, StartEnd
  <2>3. CASE UNCHANGED control
    BY <1>r, <2>1, <2>3 DEF LeavesExits, control
  <2>4. ASSUME NEW l \in {"enqueueEnd", "load"}, NEW f, Enter(w, l, f) PROVE LeavesExits
    BY <1>0, <1>3, <2>1, <2>4 DEF Early, Late
  <2> QED
    BY <2>2, <2>3, <2>4
<1>9. ASSUME NEW p \in Procs, Crash(p)
      PROVE  LeavesExits \/ (p \in Sessions /\ OthersStay(p) /\ ExitKinds(p))
  <2>1. UNCHANGED <<status, role, joined, isPaused, recorded, refunded, exits>>
    BY <1>9 DEF Crash, members, contributions, settlements
  <2>2. pc'[p] = "idle" /\ OthersStay(p)
    BY <1>9, EndsAre DEF Crash
  <2>3. CASE pc[p] \in Early \cup Late /\ p \in Sessions
    BY <2>1, <2>2, <2>3 DEF ExitKinds, Quits
  <2>4. CASE pc[p] \notin Early \cup Late
    BY <1>r, <2>1, <2>2, <2>4, LeavesOne DEF Early, Late
  <2>5. CASE p \notin Sessions
    BY <1>0, <1>r, <2>1, <2>2, <2>5 DEF LeavesExits, OthersStay
  <2> QED
    BY <2>3, <2>4, <2>5
<1>10. ASSUME NEW s \in Sessions, ExitStep(s) PROVE OthersStay(s) /\ ExitKinds(s)
  BY <1>10, ExitIs
<1> QED
  BY <1>0, <1>1, <1>2, <1>4, <1>5, <1>6, <1>7, <1>8, <1>9, <1>10
     DEF Next, SessionStep, RotationStep, WorkerStep
-----------------------------------------------------------------------------
(* What an exit settles *)

InExit(s, u) == pc[s] \in Early \cup {"logExit"} /\ frame[s].user = u
Repaid(s, u) == pc[s] = "markLeft" /\ frame[s].user = u /\ frame[s].amount # None

\* Unless two of a member's exits began side by side, one at most is under way up
\* to its log row, the member is active until it is marked, and has neither a log
\* row nor a refund before that, but for the refund the exit has just made.
SettledBy(u) ==
    /\ \A s, t \in Sessions : InExit(s, u) /\ InExit(t, u) => s = t
    /\ \A s \in Sessions : Unmarked(s, u) => status[u] = "ACTIVE"
    /\ status[u] # "LEFT" => exits[u] = 0
    /\ \A s \in Sessions : InExit(s, u) => exits[u] = 0
    /\ exits[u] <= 1
    /\ u \notin unmarked =>
          /\ refunded[u] <= recorded[u]
          /\ status[u] # "LEFT" /\ refunded[u] > 0 => \E s \in Sessions : Repaid(s, u)

ExitsKnow == \A s \in Sessions :
    /\ pc[s] \in Early \cup {"logExit"} => frame[s].user \in Users
    /\ pc[s] = "logExit" => status[frame[s].user] = "LEFT"
    /\ pc[s] = "refund" => frame[s].amount \in Nat /\ frame[s].amount <= recorded[frame[s].user]

Settling == ExitsKnow /\ \A u \in Users \ twice : SettledBy(u)

LEMMA ExitNumbers ==
    ASSUME Typed
    PROVE  /\ status \in [Users -> {"NONE", "ACTIVE", "LEFT"}]
           /\ \A u \in Users : recorded[u] \in Nat /\ refunded[u] \in Nat /\ exits[u] \in Nat
           /\ refunded \in [Users -> Nat] /\ exits \in [Users -> Nat]
           /\ \A s \in Sessions : pc[s] \in Early \cup {"logExit"} => frame[s].user \in Users
<1>1. \A s \in Sessions : pc[s] \in Early \cup {"logExit"} => frame[s].user \in Users
  BY DEF Typed, ControlTyped, Fits, Early, Procs
<1> QED
  BY <1>1 DEF Typed, MembersTyped, MoneyTyped, ContributionsTyped

LEMMA ObservedExits ==
    ASSUME ObserveExits
    PROVE  /\ twice \subseteq twice' /\ unmarked \subseteq unmarked'
           /\ \A u \in Users : /\ ExitsAgain(u) => u \in twice'
                               /\ \A s \in Sessions : frame[s].user = u /\ RefundsOnly(s) => u \in unmarked'
  BY DEF ObserveExits

\* A member whose exit the step does not touch.
LEMMA OtherMember ==
    ASSUME Typed, Typed', Settling, ObserveExits, NEW u \in Users \ twice',
           status'[u] = status[u], exits'[u] = exits[u], refunded'[u] = refunded[u],
           recorded'[u] >= recorded[u],
           \A t \in Sessions : InExit(t, u) \/ InExit(t, u)'
                                  => pc'[t] = pc[t] /\ frame'[t] = frame[t]
    PROVE  SettledBy(u)'
<1>1. u \notin twice /\ (u \notin unmarked' => u \notin unmarked)
  BY ObservedExits
<1>2. SettledBy(u)
  BY <1>1 DEF Settling
<1>3. \A t \in Sessions : /\ InExit(t, u)' => InExit(t, u)
                          /\ Unmarked(t, u)' => Unmarked(t, u)
                          /\ Repaid(t, u) => Repaid(t, u)'
  BY DEF InExit, Unmarked, Repaid, Early
<1>4. \A t \in Sessions : Unmarked(t, u)' => status'[u] = "ACTIVE"
  BY <1>2, <1>3 DEF SettledBy
<1>5. \A s, t \in Sessions : InExit(s, u)' /\ InExit(t, u)' => s = t
  BY <1>2, <1>3 DEF SettledBy
<1>6. (\A t \in Sessions : InExit(t, u)' => exits'[u] = 0) /\ exits'[u] <= 1
      /\ (status'[u] # "LEFT" => exits'[u] = 0)
  BY <1>2, <1>3 DEF SettledBy
<1>7. u \notin unmarked' => refunded'[u] <= recorded'[u]
  <2>1. PICK r, r1, n \in Nat : r = recorded[u] /\ r1 = recorded'[u] /\ n = refunded[u]
    BY ExitNumbers DEF Typed, ContributionsTyped
  <2> QED
    BY <1>1, <1>2, <2>1 DEF SettledBy
<1>8. u \notin unmarked' /\ status'[u] # "LEFT" /\ refunded'[u] > 0 => \E t \in Sessions : Repaid(t, u)'
  BY <1>1, <1>2, <1>3 DEF SettledBy
<1> QED
  BY <1>4, <1>5, <1>6, <1>7, <1>8 DEF SettledBy

LEMMA StaySettled ==
    ASSUME Typed, Typed', Settling, ObserveExits,
           LeavesExits \/ \E u \in Users : Joins(u)
    PROVE  Settling'
<1>1. \A s \in Sessions : pc[s] \in Early \cup Late \/ pc'[s] \in Early \cup Late
                              => pc'[s] = pc[s] /\ frame'[s] = frame[s]
  BY DEF LeavesExits, Joins
<1>2. /\ UNCHANGED <<refunded, exits>>
      /\ \A u \in Users : /\ status'[u] = status[u] \/ (status[u] = "NONE" /\ status'[u] = "ACTIVE")
                          /\ recorded'[u] >= recorded[u]
  BY ExitNumbers DEF LeavesExits, Joins
<1>3. \A s \in Sessions : pc'[s] \in Early \cup {"logExit"}
                             => pc'[s] = pc[s] /\ frame'[s] = frame[s] /\ frame[s].user \in Users
  BY <1>1, ExitNumbers DEF Late
<1>4. ExitsKnow'
  <2> SUFFICES ASSUME NEW s \in Sessions, pc'[s] \in Early \cup {"logExit"}
               PROVE  /\ frame'[s].user \in Users
                      /\ pc'[s] = "logExit" => status'[frame'[s].user] = "LEFT"
                      /\ pc'[s] = "refund" => /\ frame'[s].amount \in Nat
                                              /\ frame'[s].amount <= recorded'[frame'[s].user]
    BY DEF ExitsKnow, Early
  <2>1. PICK u \in Users : u = frame[s].user
    BY <1>3
  <2>2. PICK r, r1 \in Nat : r = recorded[u] /\ r1 = recorded'[u]
    BY DEF Typed, ContributionsTyped
  <2>3. r1 >= r
    BY <1>2, <2>2
  <2>4. pc'[s] = pc[s] /\ frame'[s] = frame[s]
    BY <1>3
  <2>5. pc'[s] = "logExit" => status'[u] = "LEFT"
    BY <1>2, <2>1, <2>4 DEF Settling, ExitsKnow
  <2>6. pc'[s] = "refund" => frame[s].amount \in Nat /\ frame[s].amount <= r
    BY <2>1, <2>2, <2>4 DEF Settling, ExitsKnow
  <2> QED
    BY <2>1, <2>2, <2>3, <2>4, <2>5, <2>6
<1>5. ASSUME NEW u \in Users \ twice' PROVE SettledBy(u)'
  <2>1. \A t \in Sessions : InExit(t, u) \/ InExit(t, u)' => pc'[t] = pc[t] /\ frame'[t] = frame[t]
    BY <1>1 DEF InExit, Late
  <2>2. CASE status'[u] = status[u]
    BY <1>2, <2>1, <2>2, OtherMember
  <2>3. CASE status[u] = "NONE" /\ status'[u] = "ACTIVE"
    <3>1. SettledBy(u) /\ (u \notin unmarked' => u \notin unmarked)
      BY ObservedExits DEF Settling
    <3>2. \A t \in Sessions : /\ InExit(t, u)' => InExit(t, u)
                              /\ Repaid(t, u) => Repaid(t, u)'
      BY <2>1 DEF InExit, Repaid, Early
    <3>3. PICK r, r1, n \in Nat : r = recorded[u] /\ r1 = recorded'[u] /\ n = refunded[u]
      BY ExitNumbers DEF Typed, ContributionsTyped
    <3>4. r1 >= r
      BY <1>2, <3>3
    <3>5. u \notin unmarked' => refunded'[u] <= recorded'[u]
      BY <1>2, <3>1, <3>3, <3>4 DEF SettledBy
    <3> QED
      BY <1>2, <2>3, <3>1, <3>2, <3>5 DEF SettledBy
  <2> QED
    BY <1>2, <2>2, <2>3
<1> QED
  BY <1>4, <1>5 DEF Settling

\* What a step of an exit does to what the sessions know.
LEMMA ExitsKnown ==
    ASSUME Typed, Typed', Settling, NEW s \in Sessions, OthersStay(s), ExitKinds(s)
    PROVE  ExitsKnow'
<1>0. Sessions \subseteq Procs
  BY DEF Procs
<1>1. UNCHANGED recorded /\ \A u \in Users : status[u] = "LEFT" => status'[u] = "LEFT"
  BY ExitNumbers DEF ExitKinds, Begins, Settles, Refunds, Marks, Logs, GoesOn, HandsOn, Pauses, Quits
<1>2. \A t \in Sessions : pc'[t] \in Early \cup {"logExit"} => frame'[t].user \in Users
  BY DEF Typed, ControlTyped, Fits, Early, Procs
<1>3. ASSUME NEW t \in Sessions, t # s
      PROVE  /\ pc'[t] = "logExit" => status'[frame'[t].user] = "LEFT"
             /\ pc'[t] = "refund" => frame'[t].amount \in Nat /\ frame'[t].amount <= recorded'[frame'[t].user]
  <2>1. pc'[t] = pc[t] /\ frame'[t] = frame[t]
    BY <1>0, <1>3 DEF OthersStay
  <2> QED
    BY <1>1, <1>2, <2>1 DEF Settling, ExitsKnow
<1>4. NextStop(s) \in {"transfer", "pause", "idle"}
  BY DEF NextStop
<1>5. pc'[s] = "logExit" => Marks(s)
  BY <1>4 DEF ExitKinds, Begins, Settles, Refunds, Marks, Logs, GoesOn, HandsOn, Pauses, Quits
<1>6. pc'[s] = "refund" => Settles(s)
  BY <1>4 DEF ExitKinds, Begins, Settles, Refunds, Marks, Logs, GoesOn, HandsOn, Pauses, Quits
<1>7. Marks(s) => (pc'[s] = "logExit" => status'[frame'[s].user] = "LEFT")
  BY <1>2, ExitNumbers DEF Marks
<1>8. Settles(s) => (pc'[s] = "refund" => /\ frame'[s].amount \in Nat
                                          /\ frame'[s].amount <= recorded'[frame'[s].user])
  BY <1>1 DEF Settles, SameExit
<1> QED
  BY <1>2, <1>3, <1>5, <1>6, <1>7, <1>8 DEF ExitsKnow

\* The exit that ends or goes on past its log row, and nothing is settled by it.
LEMMA NothingSettled ==
    ASSUME Typed, Typed', Settling, ObserveExits, NEW s \in Sessions, OthersStay(s),
           UNCHANGED <<status, recorded, refunded, exits>>,
           pc'[s] \notin Early \cup {"logExit"},
           NEW u \in Users \ twice', Repaid(s, u) => u \in unmarked'
    PROVE  SettledBy(u)'
<1>0. Sessions \subseteq Procs
  BY DEF Procs
<1>1. SettledBy(u) /\ (u \notin unmarked' => u \notin unmarked)
  BY ObservedExits DEF Settling
<1>2. \A t \in Sessions : /\ InExit(t, u)' => InExit(t, u)
                          /\ Unmarked(t, u)' => Unmarked(t, u)
                          /\ t # s => (Repaid(t, u) => Repaid(t, u)')
  BY <1>0 DEF InExit, Unmarked, Repaid, Early, OthersStay
<1>3. u \notin unmarked' /\ status'[u] # "LEFT" /\ refunded'[u] > 0 => \E t \in Sessions : Repaid(t, u)'
  BY <1>1, <1>2 DEF SettledBy
<1> QED
  BY <1>1, <1>2, <1>3 DEF SettledBy

LEMMA ExitSettles ==
    ASSUME Typed, Typed', Settling, ObserveExits, NEW s \in Sessions, OthersStay(s), ExitKinds(s)
    PROVE  Settling'
<1>0. Sessions \subseteq Procs /\ \A t \in Sessions \ {s} : pc'[t] = pc[t] /\ frame'[t] = frame[t]
  BY DEF Procs, OthersStay
<1>1. ExitsKnow'
  BY ExitsKnown
<1>2. UNCHANGED recorded /\ \A u \in Users : recorded'[u] >= recorded[u]
  BY ExitNumbers DEF ExitKinds, Begins, Settles, Refunds, Marks, Logs, GoesOn, HandsOn, Pauses, Quits
<1>3. NextStop(s) \in {"transfer", "pause", "idle"}
  BY DEF NextStop
<1> SUFFICES ASSUME NEW u \in Users \ twice' PROVE SettledBy(u)'
  BY <1>1 DEF Settling
<1>4. SettledBy(u) /\ u \notin twice /\ (u \notin unmarked' => u \notin unmarked)
  BY ObservedExits DEF Settling
\* Somebody else's exit.
<1>5. ASSUME ~InExit(s, u), ~InExit(s, u)', status'[u] = status[u], exits'[u] = exits[u],
             refunded'[u] = refunded[u]
      PROVE  SettledBy(u)'
  BY <1>0, <1>2, <1>5, OtherMember
<1>6. CASE \E v \in Users : Begins(s, v)
  <2>1. PICK v \in Users : Begins(s, v)
    BY <1>6
  <2>2. CASE v # u
    BY <1>5, <2>1, <2>2 DEF Begins, InExit, Early
  <2>3. CASE v = u
    <3>1. ~ \E t \in Sessions : Unmarked(t, u)
      <4>1. Moved(s) /\ pc'[s] = "settle" /\ frame'[s].user = u
        BY <2>1, <2>3 DEF Begins, Moved
      <4> QED
        BY <4>1, ObservedExits DEF ExitsAgain
    <3>2. \A t \in Sessions : pc[t] = "logExit" => frame[t].user # u
      BY <2>1, <2>3 DEF Settling, ExitsKnow, Begins
    <3>3. \A t \in Sessions : ~InExit(t, u) /\ ~Repaid(t, u)
      BY <3>1, <3>2 DEF InExit, Unmarked, Early, Repaid
    <3>4. \A t \in Sessions : (InExit(t, u)' => t = s) /\ (Unmarked(t, u)' => t = s)
      BY <1>0, <3>3 DEF InExit, Unmarked, Early
    <3>5. status'[u] = "ACTIVE" /\ exits'[u] = 0 /\ UNCHANGED <<refunded, recorded>>
      BY <1>4, <2>1, <2>3 DEF Begins, SettledBy
    <3>6. u \notin unmarked' => refunded'[u] <= recorded'[u] /\ ~(refunded'[u] > 0)
      BY <1>4, <2>1, <2>3, <3>3, <3>5 DEF SettledBy, Begins
    <3> QED
      BY <3>4, <3>5, <3>6 DEF SettledBy
  <2> QED
    BY <2>2, <2>3
<1>7. CASE Settles(s)
  <2>1. \A t \in Sessions : /\ InExit(t, u)' <=> InExit(t, u)
                            /\ Unmarked(t, u)' <=> Unmarked(t, u)
                            /\ Repaid(t, u) => Repaid(t, u)'
    BY <1>0, <1>7 DEF InExit, Unmarked, Repaid, Early, Settles, SameExit
  <2> QED
    BY <1>4, <1>7, <2>1 DEF Settles, SettledBy
<1>8. CASE Refunds(s)
  <2>1. CASE frame[s].user # u
    BY <1>5, <1>8, <2>1, ExitNumbers DEF Refunds, InExit, Early
  <2>2. CASE frame[s].user = u
    <3>1. InExit(s, u) /\ Unmarked(s, u) /\ status[u] = "ACTIVE"
      BY <1>4, <1>8, <2>2 DEF Refunds, InExit, Unmarked, Early, SettledBy
    <3>2. \A t \in Sessions : ~Repaid(t, u)
      BY <1>4, <1>8, <3>1 DEF SettledBy, InExit, Early, Repaid, Refunds
    <3>3. PICK a, n, r \in Nat : a = frame[s].amount /\ n = refunded[u] /\ r = recorded[u]
      BY <1>8, ExitNumbers DEF Refunds
    <3>4. a <= r /\ refunded'[u] = n + a
      BY <1>8, <2>2, <3>3, ExitNumbers DEF Refunds, Settling, ExitsKnow
    <3>5. u \notin unmarked => ~(n > 0)
      BY <1>4, <3>1, <3>2, <3>3 DEF SettledBy
    <3>6. u \notin unmarked' => refunded'[u] <= recorded'[u]
      BY <1>2, <1>4, <3>3, <3>4, <3>5
    <3>7. u \notin unmarked' /\ refunded'[u] > 0 => \E t \in Sessions : Repaid(t, u)'
      <4>1. CASE pc'[s] = "idle"
        <5>1. refunded' # refunded => RefundsOnly(s)
          BY <1>8, <4>1 DEF Refunds, RefundsOnly, Ended, Moved
        <5>2. refunded' = refunded => ~(refunded'[u] > 0) \/ u \in unmarked
          BY <3>3, <3>5
        <5> QED
          BY <1>4, <2>2, <5>1, <5>2, ObservedExits
      <4>2. CASE pc'[s] = "markLeft" /\ frame'[s] = frame[s]
        <5>1. frame'[s].amount # None
          BY <3>3, <4>2, Numbers
        <5> QED
          BY <2>2, <4>2, <5>1 DEF Repaid
      <4> QED
        BY <1>8, <4>1, <4>2 DEF Refunds
    <3>8. \A t \in Sessions : (InExit(t, u)' => InExit(t, u)) /\ (Unmarked(t, u)' => Unmarked(t, u))
      BY <1>0, <1>8, <2>2 DEF InExit, Unmarked, Early, Refunds
    <3>9. UNCHANGED <<status, exits>>
      BY <1>8 DEF Refunds
    <3> QED
      BY <1>4, <3>6, <3>7, <3>8, <3>9 DEF SettledBy
  <2> QED
    BY <2>1, <2>2
<1>9. CASE Marks(s)
  <2>1. CASE frame[s].user # u
    BY <1>5, <1>9, <2>1, ExitNumbers DEF Marks, InExit, Early
  <2>2. CASE frame[s].user = u
    <3>1. InExit(s, u) /\ status'[u] = "LEFT" /\ UNCHANGED <<recorded, refunded, exits>>
      BY <1>9, <2>2, ExitNumbers DEF Marks, InExit, Early
    <3>2. \A t \in Sessions : (InExit(t, u)' => InExit(t, u)) /\ ~Unmarked(t, u)'
      BY <1>0, <1>4, <1>9, <2>2, <3>1 DEF InExit, Unmarked, Early, Marks, SettledBy
    <3> QED
      BY <1>4, <3>1, <3>2 DEF SettledBy
  <2> QED
    BY <2>1, <2>2
<1>10. CASE Logs(s)
  <2>1. CASE frame[s].user # u
    BY <1>5, <1>10, <2>1, ExitNumbers DEF Logs, InExit, Early
  <2>2. CASE frame[s].user = u
    <3>1. InExit(s, u) /\ UNCHANGED <<status, recorded, refunded>>
      BY <1>10, <2>2 DEF Logs, InExit
    <3>2. status[u] = "LEFT"
      BY <1>10, <2>2 DEF Logs, Settling, ExitsKnow
    <3>3. exits'[u] = 1
      BY <1>4, <1>10, <2>2, <3>1, ExitNumbers DEF Logs, SettledBy
    <3>4. \A t \in Sessions : ~InExit(t, u)' /\ ~Unmarked(t, u)'
      BY <1>0, <1>4, <1>10, <3>1 DEF InExit, Unmarked, Early, Logs, SettledBy
    <3> QED
      BY <1>4, <3>1, <3>2, <3>3, <3>4 DEF SettledBy
  <2> QED
    BY <2>1, <2>2
<1>11. CASE GoesOn(s) \/ HandsOn(s) \/ Pauses(s) \/ Quits(s)
  <2>1. UNCHANGED <<status, recorded, refunded, exits>> /\ pc'[s] \notin Early \cup {"logExit"}
    BY <1>3, <1>11 DEF GoesOn, HandsOn, Pauses, Quits, Early
  <2>2. Repaid(s, u) => u \in unmarked'
    <3>1. Repaid(s, u) => Quits(s) /\ frame[s].user = u
      BY <1>11 DEF Repaid, GoesOn, HandsOn, Pauses, Quits
    <3>2. Quits(s) /\ Repaid(s, u) => RefundsOnly(s)
      BY DEF Quits, Repaid, RefundsOnly, Ended, Moved
    <3> QED
      BY <3>1, <3>2, ObservedExits
  <2> QED
    BY <2>1, <2>2, NothingSettled
<1> QED
  BY <1>6, <1>7, <1>8, <1>9, <1>10, <1>11 DEF ExitKinds

\* Whoever exits beside whom and whatever fails, an exit leaves one log row at
\* most and refunds at most what the member paid in, unless the member's exits
\* overlapped before one had marked it, or one was lost between its refund and its
\* mark (performExit, computeSettlement).
THEOREM SettledOnceCorrect == ObservedSpec => []SettledOnce
<1>1. ObservedInit => Typed /\ Settling
  <2> SUFFICES ASSUME ObservedInit PROVE Settling
    BY ObservedTyped
  <2>1. \A s \in Sessions : pc[s] = "idle"
    BY DEF ObservedInit, Init, Procs
  <2>2. \A u \in Users : exits[u] = 0 /\ refunded[u] = 0 /\ recorded[u] = 0
    BY DEF ObservedInit, Init
  <2> QED
    BY <2>1, <2>2 DEF Settling, ExitsKnow, SettledBy, InExit, Unmarked, Early
<1>2. Typed /\ Settling /\ [ObservedNext]_observed => Typed' /\ Settling'
  <2> SUFFICES ASSUME Typed, Settling, [ObservedNext]_observed PROVE Typed' /\ Settling'
    OBVIOUS
  <2>1. Typed'
    BY ObservedTyped
  <2>2. CASE UNCHANGED observed
    BY <2>1, <2>2 DEF observed, vars, history, control, members, contributions, settlements,
       Settling, ExitsKnow, SettledBy, InExit, Unmarked, Repaid
  <2>3. CASE Next /\ Observe
    BY <2>1, <2>3, NextExits, StaySettled, ExitSettles DEF Observe
  <2> QED
    BY <2>2, <2>3 DEF ObservedNext
<1>3. Settling => SettledOnce
  BY DEF Settling, SettledBy, SettledOnce
<1> QED
  BY <1>1, <1>2, <1>3, PTL DEF ObservedSpec
-----------------------------------------------------------------------------
(* A group of one is paused *)

Departing(s) == pc[s] \in {"logExit", "readOrder", "dropFromOrder"}
WillPause(s) == pc[s] \in {"transfer", "pause"} /\ Cardinality(frame[s].stay) <= 1
SomebodyLeft == \E u \in Users : status[u] = "LEFT"

\* When the group falls below two members an exit is on its way to pause it.
Pausing ==
    \/ outOfDate \/ cutShort
    \/ SomebodyLeft /\ Cardinality(Active) < 2
          => isPaused \/ \E s \in Sessions : Departing(s) \/ WillPause(s)

LEMMA ObservedPauses ==
    ASSUME ObserveExits
    PROVE  /\ outOfDate => outOfDate'
           /\ cutShort => cutShort'
           /\ \A s \in Sessions : /\ UsesCopy(s) /\ CopyIsWrong(s) => outOfDate'
                                  /\ IsCutShort(s) => cutShort'
           /\ (deserted \/ Active' = {}) => deserted'
  BY DEF ObserveExits

\* An exit that decides by a copy that is right pauses a group of one.
LEMMA RightCopyPauses ==
    ASSUME Typed, NEW s \in Sessions, ~CopyIsWrong(s), Cardinality(Active) < 2
    PROVE  Cardinality(frame[s].stay) <= 1 /\ NextStop(s) \in {"transfer", "pause"}
<1>1. frame[s].stay \subseteq Active /\ Active \subseteq Users
  BY DEF CopyIsWrong, Active
<1>2. PICK n, m \in Nat : n = Cardinality(frame[s].stay) /\ m = Cardinality(Active)
  BY <1>1, UsersFinite
<1>3. n <= m
  BY <1>1, <1>2, UsersFinite, FS_Subset
<1>4. n <= 1
  BY <1>2, <1>3
<1> QED
  BY <1>2, <1>4 DEF NextStop

LEMMA StayPausing ==
    ASSUME Typed, Typed', Pausing, ObserveExits, LeavesExits \/ \E u \in Users : Joins(u)
    PROVE  Pausing'
<1>1. SomebodyLeft' => SomebodyLeft
  BY ExitNumbers DEF LeavesExits, Joins, SomebodyLeft
<1>2. Active \subseteq Active' /\ Active' \subseteq Users
  BY ExitNumbers DEF LeavesExits, Joins, Active
<1>3. PICK m, n \in Nat : m = Cardinality(Active) /\ n = Cardinality(Active')
  BY UsersFinite DEF Active
<1>4. m <= n
  BY <1>2, <1>3, UsersFinite, FS_Subset
<1>5. Cardinality(Active') < 2 => Cardinality(Active) < 2
  BY <1>3, <1>4
<1>6. \A s \in Sessions : (Departing(s) => Departing(s)') /\ (WillPause(s) => WillPause(s)')
  BY DEF LeavesExits, Joins, Departing, WillPause, Late
<1>7. isPaused' = isPaused
  BY DEF LeavesExits, Joins
<1> QED
  BY <1>1, <1>5, <1>6, <1>7, ObservedPauses DEF Pausing

LEMMA ExitPauses ==
    ASSUME Typed, Typed', Pausing, ObserveExits, NEW s \in Sessions, OthersStay(s), ExitKinds(s)
    PROVE  Pausing'
<1>1. /\ Sessions \subseteq Procs
      /\ \A t \in Sessions \ {s} : (Departing(t) => Departing(t)') /\ (WillPause(t) => WillPause(t)')
  BY DEF Procs, OthersStay, Departing, WillPause
<1> SUFFICES ASSUME ~outOfDate', ~cutShort', SomebodyLeft', Cardinality(Active') < 2, ~isPaused'
             PROVE  \E t \in Sessions : Departing(t)' \/ WillPause(t)'
  BY DEF Pausing
<1>2. ~outOfDate /\ ~cutShort /\ ~IsCutShort(s) /\ (UsesCopy(s) => ~CopyIsWrong(s))
  BY ObservedPauses
\* A step that marks nobody: the exit that is to pause the group is another
\* one, or the one that acts is and still will be.
<1>3. ASSUME status' = status, isPaused = isPaused',
             Departing(s) \/ WillPause(s) => Departing(s)' \/ WillPause(s)'
      PROVE  \E t \in Sessions : Departing(t)' \/ WillPause(t)'
  <2>1. SomebodyLeft /\ Cardinality(Active) < 2
    BY <1>3 DEF SomebodyLeft, Active
  <2>2. PICK t \in Sessions : Departing(t) \/ WillPause(t)
    BY <1>2, <1>3, <2>1 DEF Pausing
  <2>3. CASE t = s
    BY <1>3, <2>2, <2>3
  <2>4. CASE t # s
    BY <1>1, <2>2, <2>4
  <2> QED
    BY <2>3, <2>4
<1>4. CASE (\E u \in Users : Begins(s, u)) \/ Settles(s) \/ Refunds(s)
  <2>1. ~Departing(s) /\ ~WillPause(s)
    BY <1>4 DEF Begins, Settles, Refunds, Departing, WillPause
  <2> QED
    BY <1>3, <1>4, <2>1 DEF Begins, Settles, Refunds
<1>5. CASE Marks(s)
  <2>1. CASE pc'[s] = "logExit"
    BY <2>1 DEF Departing
  <2>2. CASE pc'[s] = "idle"
    <3>1. status' = status
      BY <1>2, <1>5, <2>2 DEF Marks, IsCutShort, Ended, Moved
    <3>2. ~Departing(s) /\ ~WillPause(s) /\ isPaused = isPaused'
      BY <1>5 DEF Marks, Departing, WillPause
    <3> QED
      BY <1>3, <3>1, <3>2
  <2> QED
    BY <1>5, <2>1, <2>2 DEF Marks
<1>6. CASE Logs(s)
  <2>1. pc'[s] = "readOrder"
    BY <1>2, <1>6 DEF Logs, IsCutShort, Ended, Moved
  <2> QED
    BY <2>1 DEF Departing
<1>7. CASE GoesOn(s)
  <2>1. CASE pc'[s] = "dropFromOrder"
    BY <2>1 DEF Departing
  <2>2. CASE pc'[s] # "dropFromOrder"
    <3>1. pc[s] \in {"readOrder", "dropFromOrder"} /\ pc'[s] = NextStop(s) /\ status' = status
          /\ (pc'[s] # "idle" => SameExit(s))
      BY <1>7, <2>2 DEF GoesOn
    <3>2. UsesCopy(s)
      BY <2>2, <3>1 DEF UsesCopy, Moved, NextStop
    <3>3. Cardinality(Active) < 2
      BY <3>1 DEF Active
    <3>4. Cardinality(frame[s].stay) <= 1 /\ NextStop(s) \in {"transfer", "pause"}
      BY <1>2, <3>2, <3>3, RightCopyPauses
    <3> QED
      BY <3>1, <3>4 DEF WillPause, SameExit
  <2> QED
    BY <2>1, <2>2
<1>8. CASE HandsOn(s)
  <2>1. pc[s] = "transfer" /\ status' = status /\ isPaused' = isPaused
    BY <1>8 DEF HandsOn
  <2>2. WillPause(s) => pc'[s] = "pause" /\ frame'[s] = frame[s]
    BY <1>2, <1>8 DEF HandsOn, WillPause, IsCutShort, Ended, Moved
  <2>3. WillPause(s) => WillPause(s)'
    BY <2>2 DEF WillPause
  <2> QED
    BY <1>3, <2>1, <2>3 DEF Departing
<1>9. CASE Pauses(s)
  BY <1>9 DEF Pauses
<1>10. CASE Quits(s)
  <2>1. status' = status /\ isPaused' = isPaused /\ pc'[s] = "idle"
    BY <1>10 DEF Quits
  <2>2. ~WillPause(s)
    BY <1>2, <1>10 DEF Quits, WillPause, IsCutShort, Ended, Moved
  <2>3. ~Departing(s)
    <3>1. Cardinality(Active) < 2
      BY <2>1 DEF Active
    <3>2. ASSUME pc[s] \in {"readOrder", "dropFromOrder"} PROVE FALSE
      <4>1. NextStop(s) = "idle"
        BY <1>2, <2>1, <3>2 DEF IsCutShort, Ended, Moved
      <4>2. UsesCopy(s)
        BY <2>1, <3>2 DEF UsesCopy, Moved
      <4> QED
        BY <1>2, <3>1, <4>1, <4>2, RightCopyPauses
    <3>3. pc[s] # "logExit"
      BY <1>2, <2>1 DEF IsCutShort, Ended, Moved
    <3> QED
      BY <3>2, <3>3 DEF Departing
  <2> QED
    BY <1>3, <2>1, <2>2, <2>3
<1> QED
  BY <1>4, <1>5, <1>6, <1>7, <1>8, <1>9, <1>10 DEF ExitKinds

\* However many exits run side by side and whatever fails, a group that somebody
\* has left and that has fewer than two members is paused once no exit is under
\* way, unless one went by a list of members that had changed, or was lost between
\* its mark and its end (performExit).
THEOREM PausedBelowTwoCorrect == ObservedSpec => []PausedBelowTwo
<1>1. ObservedInit => Typed /\ Pausing
  <2>1. ObservedInit => ~SomebodyLeft
    BY DEF ObservedInit, Init, SomebodyLeft
  <2> QED
    BY <2>1, ObservedTyped DEF Pausing
<1>2. Typed /\ Pausing /\ [ObservedNext]_observed => Typed' /\ Pausing'
  <2> SUFFICES ASSUME Typed, Pausing, [ObservedNext]_observed PROVE Typed' /\ Pausing'
    OBVIOUS
  <2>1. Typed'
    BY ObservedTyped
  <2>2. CASE UNCHANGED observed
    BY <2>1, <2>2 DEF observed, vars, history, control, members, Pausing, SomebodyLeft, Active,
       Departing, WillPause
  <2>3. CASE Next /\ Observe
    BY <2>1, <2>3, NextExits, StayPausing, ExitPauses DEF Observe
  <2> QED
    BY <2>2, <2>3 DEF ObservedNext
<1>3. Pausing => PausedBelowTwo
  BY DEF Pausing, PausedBelowTwo, ExitInProgress, SomebodyLeft, Departing, WillPause
<1> QED
  BY <1>1, <1>2, <1>3, PTL DEF ObservedSpec
-----------------------------------------------------------------------------
(* Somebody can run the group *)

\* The exit of a creator that has yet to hand the role on.
HasRole(s) == Departing(s) /\ role[frame[s].user] = "CREATOR"
WillHandOn(s) == pc[s] = "transfer"

Led ==
    /\ Active = {} => deserted
    /\ \A s \in Sessions : /\ Departing(s) => frame[s].user \in Users
                           /\ WillHandOn(s) => frame[s].stay # {}
    /\ \/ outOfDate \/ cutShort \/ deserted
       \/ Creators # {} \/ \E s \in Sessions : HasRole(s) \/ WillHandOn(s)

LEMMA HeirStays ==
    ASSUME Typed, OrdersGood, NEW s \in Sessions,
           frame[s].stay \subseteq Active, frame[s].stay # {}
    PROVE  Heir(s) \in frame[s].stay
<1> DEFINE I == {i \in 1 .. Len(joined) : joined[i] \in frame[s].stay}
<1>1. joined \in Seq(Users)
  BY DEF Typed, MembersTyped
<1>2. I # {}
  <2>1. PICK u \in frame[s].stay : u \in Active
    OBVIOUS
  <2>2. u \in ToSet(joined)
    BY <2>1 DEF Active, OrdersGood
  <2>3. ToSet(joined) = {joined[i] : i \in 1 .. Len(joined)}
    BY <1>1, ToSetOf
  <2> QED
    BY <2>1, <2>2, <2>3
<1>3. Min(I) \in I
  <2>1. I \in SUBSET Nat
    OBVIOUS
  <2> HIDE DEF I
  <2> QED
    BY <1>2, <2>1, LeastIsMin
<1>4. SelectInSeq(joined, LAMBDA u : u \in frame[s].stay) = Min(I)
  BY <1>2 DEF SelectInSeq
<1> QED
  BY <1>3, <1>4 DEF Heir

\* What an exit knows of its member and of those who stay.
LEMMA ExitersKnown ==
    ASSUME Typed, Typed', Led,
           \/ LeavesExits \/ \E u \in Users : Joins(u)
           \/ \E s \in Sessions : OthersStay(s) /\ ExitKinds(s)
    PROVE  \A t \in Sessions : /\ Departing(t)' => frame'[t].user \in Users
                               /\ WillHandOn(t)' => frame'[t].stay # {}
<1>0. Sessions \subseteq Procs
  BY DEF Procs
<1> SUFFICES ASSUME NEW t \in Sessions
             PROVE  /\ Departing(t)' => frame'[t].user \in Users
                    /\ WillHandOn(t)' => frame'[t].stay # {}
  OBVIOUS
<1>1. CASE LeavesExits \/ \E u \in Users : Joins(u)
  BY <1>1 DEF LeavesExits, Joins, Led, Departing, WillHandOn, Late
<1>2. ASSUME NEW s \in Sessions, OthersStay(s), s # t
      PROVE  /\ Departing(t)' => frame'[t].user \in Users
             /\ WillHandOn(t)' => frame'[t].stay # {}
  BY <1>0, <1>2 DEF OthersStay, Led, Departing, WillHandOn
<1>3. ASSUME ExitKinds(t)
      PROVE  /\ Departing(t)' => frame'[t].user \in Users
             /\ WillHandOn(t)' => frame'[t].stay # {}
  <2>1. NextStop(t) \in {"transfer", "pause", "idle"} /\ (NextStop(t) = "transfer" => frame[t].stay # {})
    BY DEF NextStop
  <2>2. WillHandOn(t)' => GoesOn(t) /\ pc'[t] = NextStop(t) /\ SameExit(t)
    BY <1>3 DEF WillHandOn, ExitKinds, Begins, Settles, Refunds, Marks, Logs, GoesOn, HandsOn,
       Pauses, Quits
  <2>3. Departing(t)' => pc[t] \in {"markLeft", "logExit", "readOrder"} /\ frame'[t].user = frame[t].user
    BY <1>3, <2>1 DEF Departing, ExitKinds, Begins, Settles, Refunds, Marks, Logs, GoesOn, HandsOn,
       Pauses, Quits, SameExit
  <2>4. pc[t] \in {"markLeft", "logExit", "readOrder"} => frame[t].user \in Users
    BY <1>0, FrameOf DEF Fits
  <2> QED
    BY <2>1, <2>2, <2>3, <2>4 DEF SameExit, WillHandOn
<1> QED
  BY <1>1, <1>2, <1>3

LEMMA StayLed ==
    ASSUME Typed, Typed', Led, ObserveExits, LeavesExits \/ \E u \in Users : Joins(u)
    PROVE  Led'
<1>1. Creators \subseteq Creators'
  BY ExitNumbers DEF LeavesExits, Joins, Creators, Active
<1>2. \A s \in Sessions : (HasRole(s) => HasRole(s)') /\ (WillHandOn(s) => WillHandOn(s)')
  BY DEF LeavesExits, Joins, HasRole, Departing, WillHandOn, Late
<1>3. \A t \in Sessions : /\ Departing(t)' => frame'[t].user \in Users
                          /\ WillHandOn(t)' => frame'[t].stay # {}
  BY ExitersKnown
<1> QED
  BY <1>1, <1>2, <1>3, ObservedPauses DEF Led

LEMMA ExitLeads ==
    ASSUME Typed, Typed', OrdersGood, Led, ObserveExits,
           NEW s \in Sessions, OthersStay(s), ExitKinds(s)
    PROVE  Led'
<1>1. \A t \in Sessions : /\ Departing(t)' => frame'[t].user \in Users
                          /\ WillHandOn(t)' => frame'[t].stay # {}
  BY ExitersKnown
<1>2. Active' = {} => deserted'
  BY ObservedPauses
<1> SUFFICES ASSUME ~outOfDate', ~cutShort', ~deserted', Creators' = {}
             PROVE  \E t \in Sessions : HasRole(t)' \/ WillHandOn(t)'
  BY <1>1, <1>2 DEF Led
<1>3. /\ ~outOfDate /\ ~cutShort /\ ~deserted /\ ~IsCutShort(s) /\ (UsesCopy(s) => ~CopyIsWrong(s))
      /\ Active' # {} /\ Active # {}
  BY ObservedPauses DEF Led
<1>4. /\ role \in [Users -> {"MEMBER", "CREATOR"}]
      /\ \A u \in Users : role[u] = "CREATOR" => role'[u] = "CREATOR"
  <2>1. role \in [Users -> {"MEMBER", "CREATOR"}]
    BY DEF Typed, MembersTyped
  <2>2. role' = role \/ \E v : role' = [role EXCEPT ![v] = "CREATOR"]
    BY DEF ExitKinds, Begins, Settles, Refunds, Marks, Logs, GoesOn, HandsOn, Pauses, Quits
  <2> QED
    BY <2>1, <2>2
<1>5. /\ Sessions \subseteq Procs
      /\ \A t \in Sessions \ {s} : (HasRole(t) => HasRole(t)') /\ (WillHandOn(t) => WillHandOn(t)')
  BY <1>4 DEF Procs, OthersStay, HasRole, Departing, WillHandOn, Led
\* The exit that is to hand the role on is another one, or the one that acts is
\* and still will be.
<1>6. ASSUME Creators = {}, HasRole(s) \/ WillHandOn(s) => HasRole(s)' \/ WillHandOn(s)'
      PROVE  \E t \in Sessions : HasRole(t)' \/ WillHandOn(t)'
  <2>1. PICK t \in Sessions : HasRole(t) \/ WillHandOn(t)
    BY <1>3, <1>6 DEF Led
  <2>2. CASE t = s
    BY <1>6, <2>1, <2>2
  <2>3. CASE t # s
    BY <1>5, <2>1, <2>3
  <2> QED
    BY <2>2, <2>3
<1>7. UNCHANGED status => Creators = {} /\ Active' = Active
  BY <1>4 DEF Creators, Active
<1>8. CASE (\E u \in Users : Begins(s, u)) \/ Settles(s) \/ Refunds(s) \/ Pauses(s)
  <2>1. ~HasRole(s) /\ ~WillHandOn(s) /\ UNCHANGED status
    BY <1>8 DEF Begins, Settles, Refunds, Pauses, HasRole, Departing, WillHandOn
  <2> QED
    BY <1>6, <1>7, <2>1
<1>9. CASE Marks(s)
  <2>1. PICK w \in Users : w = frame[s].user
    BY <1>9, ExitNumbers DEF Marks, Early
  <2>2. pc[s] = "markLeft" /\ status' = [status EXCEPT ![w] = "LEFT"] /\ UNCHANGED role
    BY <1>9, <2>1 DEF Marks
  <2>3. CASE role[w] = "CREATOR" /\ status' # status
    <3>1. pc'[s] = "logExit" /\ frame'[s] = frame[s]
      BY <1>3, <1>9, <2>3 DEF Marks, IsCutShort, Ended, Moved
    <3> QED
      BY <2>1, <2>2, <2>3, <3>1 DEF HasRole, Departing
  <2>4. CASE role[w] # "CREATOR" \/ status' = status
    <3>1. Creators = {}
      BY <2>2, <2>4, ExitNumbers DEF Creators, Active
    <3>2. ~HasRole(s) /\ ~WillHandOn(s)
      BY <2>2 DEF HasRole, Departing, WillHandOn
    <3> QED
      BY <1>6, <3>1, <3>2
  <2> QED
    BY <2>3, <2>4
<1>10. CASE Logs(s)
  <2>1. pc'[s] = "readOrder" /\ frame'[s] = frame[s] /\ UNCHANGED <<role, status>> /\ pc[s] = "logExit"
    BY <1>3, <1>10 DEF Logs, IsCutShort, Ended, Moved
  <2>2. HasRole(s) \/ WillHandOn(s) => HasRole(s)'
    BY <2>1 DEF HasRole, Departing, WillHandOn
  <2> QED
    BY <1>6, <1>7, <2>1, <2>2
<1>11. CASE GoesOn(s)
  <2>1. pc[s] \in {"readOrder", "dropFromOrder"} /\ UNCHANGED <<role, status>>
    BY <1>11 DEF GoesOn
  <2>2. CASE pc'[s] = "dropFromOrder"
    <3>1. SameExit(s)
      BY <1>11, <2>2 DEF GoesOn, NextStop
    <3>2. HasRole(s) \/ WillHandOn(s) => HasRole(s)'
      BY <2>1, <2>2, <3>1 DEF HasRole, Departing, WillHandOn, SameExit
    <3> QED
      BY <1>6, <1>7, <2>1, <3>2
  <2>3. CASE pc'[s] # "dropFromOrder"
    <3>1. pc'[s] = NextStop(s)
      BY <1>11, <2>3 DEF GoesOn
    <3>2. UsesCopy(s)
      BY <2>1, <2>3, <3>1 DEF UsesCopy, Moved, NextStop
    <3>3. frame[s].lead = (role[frame[s].user] = "CREATOR") /\ frame[s].stay # {}
      BY <1>3, <3>2 DEF CopyIsWrong
    <3>4. HasRole(s) => WillHandOn(s)'
      BY <3>1, <3>3 DEF HasRole, WillHandOn, NextStop
    <3> QED
      BY <1>6, <1>7, <2>1, <3>4 DEF WillHandOn
  <2> QED
    BY <2>2, <2>3
\* The role is handed on by a copy that is right.
<1>12. ASSUME pc[s] = "transfer", pc'[s] \in {"idle", "pause"}, UNCHANGED status,
              role'[Heir(s)] = "CREATOR"
       PROVE  FALSE
  <2>1. UsesCopy(s) /\ frame[s].stay # {}
    BY <1>12 DEF UsesCopy, Moved, Led, WillHandOn
  <2>2. frame[s].stay \subseteq Active
    BY <1>3, <2>1 DEF CopyIsWrong
  <2>3. Heir(s) \in Active
    BY <2>1, <2>2, HeirStays
  <2> QED
    BY <1>12, <2>3 DEF Creators, Active
<1>13. CASE HandsOn(s)
  <2>1. pc[s] = "transfer" /\ pc'[s] \in {"idle", "pause"} /\ UNCHANGED status
        /\ role' = [role EXCEPT ![Heir(s)] = "CREATOR"]
    BY <1>13 DEF HandsOn
  <2>2. UsesCopy(s) /\ frame[s].stay # {}
    BY <2>1 DEF UsesCopy, Moved, Led, WillHandOn
  <2>3. Heir(s) \in Users
    BY <1>3, <2>2, HeirStays DEF CopyIsWrong, Active
  <2> QED
    BY <1>4, <1>12, <2>1, <2>3
<1>14. CASE Quits(s)
  <2>1. pc'[s] = "idle" /\ UNCHANGED <<status, role>>
    BY <1>14 DEF Quits
  <2>2. pc[s] # "transfer"
    BY <1>3, <1>12, <2>1 DEF IsCutShort, Ended, Moved
  <2>3. pc[s] # "logExit"
    BY <1>3, <2>1 DEF IsCutShort, Ended, Moved
  <2>4. ASSUME HasRole(s) PROVE FALSE
    <3>1. pc[s] \in {"readOrder", "dropFromOrder"}
      BY <2>3, <2>4 DEF HasRole, Departing
    <3>2. NextStop(s) = "idle" /\ UsesCopy(s)
      BY <1>3, <2>1, <3>1 DEF IsCutShort, Ended, Moved, UsesCopy
    <3>3. frame[s].lead = (role[frame[s].user] = "CREATOR") /\ frame[s].stay # {}
      BY <1>3, <3>2 DEF CopyIsWrong
    <3> QED
      BY <2>4, <3>2, <3>3 DEF HasRole, NextStop
  <2> QED
    BY <1>6, <1>7, <2>1, <2>2, <2>4 DEF WillHandOn
<1> QED
  BY <1>8, <1>9, <1>10, <1>11, <1>13, <1>14 DEF ExitKinds

\* However many exits run side by side and whatever fails, somebody who is still
\* there has the creator role once no exit is under way, unless an exit handed it
\* on by a list that had changed or was lost on its way, or everybody had left at
\* some time and somebody joined after that (performExit).
THEOREM GroupHasCreatorCorrect == ObservedSpec => []GroupHasCreator
<1>1. ObservedInit => Typed /\ OrdersGood /\ Led
  <2> SUFFICES ASSUME ObservedInit PROVE Led
    BY ObservedTyped, OrdersInitially DEF ObservedInit
  <2>1. 1 \in Users /\ 1 \in Creators
    BY Numbers DEF ObservedInit, Init, Users, Creators, Active
  <2>2. \A s \in Sessions : pc[s] = "idle"
    BY DEF ObservedInit, Init, Procs
  <2> QED
    BY <2>1, <2>2 DEF Led, Creators, Departing, WillHandOn
<1>2. Typed /\ OrdersGood /\ Led /\ [ObservedNext]_observed => Typed' /\ OrdersGood' /\ Led'
  <2> SUFFICES ASSUME Typed, OrdersGood, Led, [ObservedNext]_observed
               PROVE  Typed' /\ OrdersGood' /\ Led'
    OBVIOUS
  <2>1. Typed' /\ OrdersGood'
    BY ObservedTyped, OrdersInductive DEF ObservedNext, observed
  <2>2. CASE UNCHANGED observed
    BY <2>1, <2>2 DEF observed, vars, history, control, members, Led, Active, Creators,
       HasRole, Departing, WillHandOn
  <2>3. CASE Next /\ Observe
    BY <2>1, <2>3, NextExits, StayLed, ExitLeads DEF Observe
  <2> QED
    BY <2>1, <2>2, <2>3 DEF ObservedNext
<1>3. Led => GroupHasCreator
  BY DEF Led, GroupHasCreator, ExitInProgress, HasRole, Departing, WillHandOn
<1> QED
  BY <1>1, <1>2, <1>3, PTL DEF ObservedSpec
-----------------------------------------------------------------------------
(* What a step does to the order *)

\* The awaits at which a session has an order to write, or its member to take out.
Handling == {"writeLock", "writeOrder", "logExit", "readOrder", "dropFromOrder"}

\* A step that leaves the order, and those who handle it, as they are; and what each
\* other step does.
OrderStands ==
    /\ \A s \in Sessions : pc[s] \in Handling \/ pc'[s] \in Handling
                              => pc'[s] = pc[s] /\ frame'[s] = frame[s]
    /\ UNCHANGED payoutOrder /\ (orderLocked' => orderLocked)
    /\ UNCHANGED <<status, joined>> \/ \E u \in Users : Joins(u)

MarksMember(s) ==
    /\ pc[s] = "markLeft"
    /\ pc'[s] = "idle" \/ (pc'[s] = "logExit" /\ frame'[s] = frame[s])
    /\ status' = [status EXCEPT ![frame[s].user] = "LEFT"]
    /\ UNCHANGED <<joined, payoutOrder, orderLocked>>

Past(s) ==
    /\ pc[s] = "logExit"
    /\ pc'[s] = "idle" \/ (pc'[s] = "readOrder" /\ frame'[s] = frame[s])
    /\ UNCHANGED <<status, joined, payoutOrder, orderLocked>>

\* removeMemberFromOrder has nothing to do, or does not come to it.
PassesOrder(s) ==
    /\ pc[s] = "readOrder" /\ pc'[s] \notin Handling
    /\ pc'[s] = "idle" \/ frame[s].user \notin ToSet(ResolveOrder)
    /\ UNCHANGED <<status, joined, payoutOrder, orderLocked>>

ReadsToDrop(s) ==
    /\ pc[s] = "readOrder" /\ pc'[s] = "dropFromOrder"
    /\ frame'[s].user = frame[s].user /\ frame[s].user \in Users
    /\ frame'[s].order = Without(ResolveOrder, frame[s].user)
    /\ UNCHANGED <<status, joined, payoutOrder, orderLocked>>

ReadsToLock(s) ==
    /\ pc[s] = "readLock" /\ pc'[s] = "writeLock"
    /\ ~orderLocked /\ frame'[s].order = ResolveOrder
    /\ UNCHANGED <<status, joined, payoutOrder, orderLocked>>

Prepares(s) ==
    /\ pc[s] = "idle" /\ pc'[s] = "writeOrder"
    /\ \/ \E u \in Users : frame'[s].order = ToBack(ResolveOrder, u)
       \/ ~orderLocked /\ ToSet(frame'[s].order) = ToSet(joined)
    /\ UNCHANGED <<status, joined, payoutOrder, orderLocked>>

WritesBack(s) ==
    /\ Writing(s) /\ pc'[s] \notin Handling
    /\ payoutOrder' \in {payoutOrder, frame[s].order}
    /\ pc[s] # "writeLock" => UNCHANGED orderLocked
    /\ UNCHANGED <<status, joined>>

OrderKinds(s) ==
    \/ MarksMember(s) \/ Past(s)
    \/ PassesOrder(s) \/ ReadsToDrop(s) \/ ReadsToLock(s) \/ Prepares(s)
    \/ WritesBack(s)

LEMMA StandsOne ==
    ASSUME Typed, NEW p \in Procs, OthersStay(p),
           pc[p] \notin Handling, pc'[p] \notin Handling,
           UNCHANGED <<payoutOrder, status, joined>>, orderLocked' => orderLocked
    PROVE  OrderStands
  BY DEF OrderStands, OthersStay, Procs

LEMMA ContributionHandles ==
    ASSUME Typed, NEW s \in Sessions, ContributionStep(s)
    PROVE  OrderStands \/ (OthersStay(s) /\ OrderKinds(s))
<1>0. s \in Procs /\ frame[s] \in Frames
  BY FrameOf DEF Procs
<1>1. CASE InvokeContribute(s) \/ RecordContribution(s) \/ RecordFails(s)
  <2>1. /\ UNCHANGED <<status, joined, payoutOrder, orderLocked>> /\ pc[s] \in {"invoke", "record"}
        /\ \E l \in {"idle", "record", "readLock"} : \E f : GotoWith(s, l, f)
    BY <1>1 DEF InvokeContribute, RecordContribution, RecordFails, rotation, members, Goto, Return
  <2>2. pc'[s] \in {"idle", "record", "readLock"} /\ OthersStay(s)
    BY <1>0, <2>1, MovesAre
  <2> QED
    BY <1>0, <2>1, <2>2, StandsOne DEF Handling
<1>2. CASE ReadLock(s)
  <2>1. pc[s] = "readLock" /\ UNCHANGED <<status, joined, payoutOrder, orderLocked>>
    BY <1>2 DEF ReadLock, rotation, members
  <2>2. CASE orderLocked
    <3>1. pc'[s] = "idle" /\ OthersStay(s)
      BY <1>0, <1>2, <2>2, EndsAre DEF ReadLock
    <3> QED
      BY <1>0, <2>1, <3>1, StandsOne DEF Handling
  <2>3. CASE ~orderLocked
    <3>1. PICK f \in Frames : f = frame[s]
      BY <1>0
    <3>2. PICK g : g = [f EXCEPT !.order = ResolveOrder]
      OBVIOUS
    <3>3. g.order = ResolveOrder
      BY <3>2 DEF Frames
    <3>4. GotoWith(s, "writeLock", g)
      BY <1>2, <2>3, <3>1, <3>2 DEF ReadLock
    <3>5. pc'[s] = "writeLock" /\ frame'[s] = g /\ OthersStay(s)
      BY <1>0, <3>4, MovesAre
    <3> QED
      BY <2>1, <2>3, <3>3, <3>5 DEF OrderKinds, ReadsToLock
  <2> QED
    BY <2>2, <2>3
<1>3. CASE WriteLock(s)
  <2>1. pc[s] = "writeLock" /\ UNCHANGED <<status, joined>> /\ payoutOrder' \in {payoutOrder, frame[s].order}
    BY <1>3 DEF WriteLock, members
  <2>2. pc'[s] = "idle" /\ OthersStay(s)
    BY <1>0, <1>3, EndsAre DEF WriteLock
  <2> QED
    BY <2>1, <2>2 DEF OrderKinds, WritesBack, Writing, Handling
<1> QED
  BY <1>1, <1>2, <1>3 DEF ContributionStep

LEMMA CommandHandles ==
    ASSUME Typed, NEW s \in Sessions, Command(s)
    PROVE  OrderStands \/ (OthersStay(s) /\ OrderKinds(s))
<1>0. s \in Procs
  BY DEF Procs
<1>1. /\ pc[s] = "idle" /\ OthersStay(s) /\ UNCHANGED <<status, joined, payoutOrder, orderLocked>>
      /\ pc'[s] \in {"invoke", "settle", "load", "writeOrder", "extend"}
  BY CommandsEnter DEF members, rotation
<1>2. CASE pc'[s] # "writeOrder"
  BY <1>0, <1>1, <1>2, StandsOne DEF Handling
<1>3. CASE pc'[s] = "writeOrder"
  <2>1. ASSUME NEW l \in {"invoke", "settle", "load", "extend"}, NEW f, Enter(s, l, f) PROVE FALSE
    BY <1>0, <1>3, <2>1, MovesAre
  <2>2. ~ \E u \in Users : BeginContribute(s, u) \/ BeginExit(s, u)
    BY <2>1 DEF BeginContribute, BeginExit
  <2>3. ~BeginProceed(s) /\ ~BeginWait(s)
    BY <2>1 DEF BeginProceed, BeginWait
  <2>4. ASSUME NEW order, Enter(s, "writeOrder", [NoFrame EXCEPT !.order = order])
        PROVE  frame'[s].order = order
    <3>1. PICK f : f = [NoFrame EXCEPT !.order = order]
      OBVIOUS
    <3>2. f.order = order
      BY <3>1, NoFrameFits DEF Frames
    <3> QED
      BY <1>0, <2>4, <3>1, <3>2, MovesAre
  <2>5. ASSUME NEW order, BeginOrder(s, order) PROVE Prepares(s)
    BY <1>1, <1>3, <2>4, <2>5 DEF BeginOrder, Prepares
  <2>6. ASSUME NEW u \in Users, BeginSkip(s, u) PROVE Prepares(s)
    BY <1>1, <1>3, <2>4, <2>6 DEF BeginSkip, Prepares
  <2> QED
    BY <1>1, <2>2, <2>3, <2>5, <2>6 DEF Command, RotationCommand, OrderKinds
<1> QED
  BY <1>1, <1>2, <1>3

LEMMA ExitHandles ==
    ASSUME Typed, NEW s \in Sessions, ExitStep(s)
    PROVE  OrderStands \/ (OthersStay(s) /\ OrderKinds(s))
<1>0. s \in Procs
  BY DEF Procs
<1>1. PICK f \in Frames : f = frame[s] /\ Fits(s, pc[s], f)
  BY <1>0, FrameOf
<1>2. NextStop(s) \in {"transfer", "pause", "idle"}
  BY DEF NextStop
<1>3. CASE MarkLeft(s)
  <2>1. OthersStay(s) /\ (pc'[s] = "idle" \/ (pc'[s] = "logExit" /\ frame'[s] = frame[s]))
    BY <1>3, OnwardIs DEF MarkLeft
  <2> QED
    BY <1>3, <2>1 DEF MarkLeft, OrderKinds, MarksMember, rotation
<1>4. CASE LogExit(s)
  <2>1. OthersStay(s) /\ (pc'[s] = "idle" \/ (pc'[s] = "readOrder" /\ frame'[s] = frame[s]))
    BY <1>4, OnwardIs DEF LogExit
  <2> QED
    BY <1>4, <2>1 DEF LogExit, OrderKinds, Past, rotation, members
<1>5. CASE ReadOrder(s)
  <2>1. pc[s] = "readOrder" /\ UNCHANGED <<status, joined, payoutOrder, orderLocked>>
    BY <1>5 DEF ReadOrder, members, rotation
  <2>2. CASE f.user \notin ToSet(ResolveOrder)
    <3>1. GoOn(s, NextStop(s))
      BY <1>1, <1>5, <2>2 DEF ReadOrder
    <3>2. OthersStay(s) /\ pc'[s] = NextStop(s)
      BY <3>1, OnwardIs
    <3> QED
      BY <1>1, <1>2, <2>1, <2>2, <3>2 DEF OrderKinds, PassesOrder, Handling
  <2>3. CASE f.user \in ToSet(ResolveOrder)
    <3>1. PICK order, index : /\ order = Without(ResolveOrder, f.user)
                              /\ GotoWith(s, "dropFromOrder", [f EXCEPT !.order = order, !.index = index])
      BY <1>1, <1>5, <2>3 DEF ReadOrder
    <3>2. PICK g : g = [f EXCEPT !.order = order, !.index = index]
      OBVIOUS
    <3>3. g.user = f.user /\ g.order = order
      BY <3>2 DEF Frames
    <3>4. pc'[s] = "dropFromOrder" /\ frame'[s] = g /\ OthersStay(s)
      BY <1>0, <3>1, <3>2, MovesAre
    <3>5. f.user \in Users
      BY <1>1, <2>1 DEF Fits
    <3> QED
      BY <1>1, <2>1, <3>1, <3>3, <3>4, <3>5 DEF OrderKinds, ReadsToDrop
  <2> QED
    BY <2>2, <2>3
<1>6. CASE DropFromOrder(s)
  <2>1. /\ pc[s] = "dropFromOrder" /\ payoutOrder' \in {payoutOrder, frame[s].order}
        /\ UNCHANGED <<status, joined, orderLocked>>
    BY <1>6 DEF DropFromOrder, members
  <2>2. OthersStay(s) /\ pc'[s] = NextStop(s)
    BY <1>6, OnwardIs DEF DropFromOrder
  <2> QED
    BY <1>2, <2>1, <2>2 DEF OrderKinds, WritesBack, Writing, Handling
<1>7. CASE Settle(s) \/ Refund(s) \/ Transfer(s) \/ Pause(s) \/ StopCron(s)
  <2>1. /\ UNCHANGED <<status, joined, payoutOrder, orderLocked>>
        /\ pc[s] \in {"settle", "refund", "transfer", "pause", "stopCron"}
    BY <1>7 DEF Settle, Refund, Transfer, Pause, StopCron, rotation, members
  <2>2. \E l \in {"idle", "refund", "markLeft", "pause", "stopCron"} : \E g : GotoWith(s, l, g)
    BY <1>7 DEF Settle, Refund, Transfer, Pause, StopCron, GoOn, Goto, Return
  <2>3. OthersStay(s) /\ pc'[s] \in {"idle", "refund", "markLeft", "pause", "stopCron"}
    BY <1>0, <2>2, MovesAre
  <2> QED
    BY <1>0, <2>1, <2>3, StandsOne DEF Handling
<1>8. CASE ExitWriteFails(s)
  <2>1. UNCHANGED <<status, joined, payoutOrder, orderLocked>>
        /\ pc[s] \in {"markLeft", "logExit", "transfer", "pause"}
    BY <1>8 DEF ExitWriteFails, rotation, members
  <2>2. OthersStay(s) /\ pc'[s] = "idle"
    BY <1>0, <1>8, EndsAre DEF ExitWriteFails
  <2>3. CASE pc[s] = "logExit"
    BY <2>1, <2>2, <2>3 DEF OrderKinds, Past
  <2>4. CASE pc[s] # "logExit"
    BY <1>0, <2>1, <2>2, <2>4, StandsOne DEF Handling
  <2> QED
    BY <2>3, <2>4
<1> QED
  BY <1>3, <1>4, <1>5, <1>6, <1>7, <1>8 DEF ExitStep

LEMMA CrashHandles ==
    ASSUME Typed, NEW p \in Procs, Crash(p)
    PROVE  OrderStands \/ (p \in Sessions /\ OthersStay(p) /\ OrderKinds(p))
<1>1. UNCHANGED <<status, joined, payoutOrder, orderLocked>>
  BY DEF Crash, members, rotation
<1>2. pc'[p] = "idle" /\ OthersStay(p)
  BY EndsAre DEF Crash
<1>3. CASE p \notin Sessions
  BY <1>1, <1>2, <1>3 DEF OrderStands, OthersStay, Procs
<1>4. CASE pc[p] \notin Handling
  BY <1>1, <1>2, <1>4, StandsOne DEF Handling
<1>5. CASE pc[p] \in {"writeLock", "writeOrder", "dropFromOrder"} /\ p \in Sessions
  BY <1>1, <1>2, <1>5 DEF OrderKinds, WritesBack, Writing, Handling
<1>6. CASE pc[p] \in {"logExit", "readOrder"} /\ p \in Sessions
  BY <1>1, <1>2, <1>6 DEF OrderKinds, Past, PassesOrder, Handling
<1> QED
  BY <1>3, <1>4, <1>5, <1>6 DEF Handling

LEMMA NextHandles ==
    ASSUME Typed, [Next]_vars
    PROVE  OrderStands \/ \E s \in Sessions : OthersStay(s) /\ OrderKinds(s)
<1>0. Sessions \subseteq Procs /\ Workers \subseteq Procs
  BY DEF Procs
<1>1. ASSUME NEW u \in Users, Join(u) PROVE OrderStands
  <2>1. Joins(u)
    BY <1>1 DEF Join, Joins, control, contributions, settlements
  <2> QED
    BY <1>1, <2>1 DEF Join, OrderStands, control, rotation
<1>2. CASE ReachDeadline \/ UNCHANGED vars
  BY <1>2 DEF ReachDeadline, vars, OrderStands, members, rotation, control
<1>3. ASSUME NEW p \in Procs, UNCHANGED <<payoutOrder, status, joined>>, orderLocked' => orderLocked,
             pc[p] \notin Handling,
             NEW l, NEW f, l \notin Handling, Enter(p, l, f) \/ GotoWith(p, l, f)
      PROVE  OrderStands
  BY <1>3, MovesAre, StandsOne
<1>4. ASSUME NEW s \in Sessions, WriteOrder(s) PROVE OthersStay(s) /\ OrderKinds(s)
  <2>1. /\ pc[s] = "writeOrder" /\ payoutOrder' \in {payoutOrder, frame[s].order}
        /\ UNCHANGED <<status, joined, orderLocked>>
    BY <1>4 DEF WriteOrder, members
  <2>2. OthersStay(s) /\ pc'[s] = "idle"
    BY <1>0, <1>4, EndsAre DEF WriteOrder
  <2> QED
    BY <2>1, <2>2 DEF OrderKinds, WritesBack, Writing, Handling
<1>5. ASSUME NEW s \in Sessions, Extend(s) \/ ExtendFails(s) PROVE OrderStands
  <2>1. UNCHANGED <<payoutOrder, orderLocked, status, joined>> /\ pc[s] \notin Handling
    BY <1>5 DEF Extend, ExtendFails, members, rotation, Handling
  <2>2. \E l \in {"idle", "enqueueEnd"} : \E f : GotoWith(s, l, f)
    BY <1>5 DEF Extend, ExtendFails, Goto, Return
  <2> QED
    BY <1>0, <1>3, <2>1, <2>2 DEF Handling
<1>6. ASSUME NEW p \in Procs, PayoutStep(p) \/ EnqueueEnd(p) PROVE OrderStands
  <2>1. UNCHANGED <<payoutOrder, status, joined>>
    BY <1>6 DEF EnqueueEnd, PayoutStep, LoadPayout, LookupPayout, Pay, PayFails, SavePayout,
       AdvanceIndex, ResetCycle, NewCycle, PayoutWriteFails, members, rotation
  <2>2. orderLocked' => orderLocked
    BY <1>6 DEF EnqueueEnd, PayoutStep, LoadPayout, LookupPayout, Pay, PayFails, SavePayout,
       AdvanceIndex, ResetCycle, NewCycle, PayoutWriteFails, rotation
  <2>3. pc[p] \notin Handling
    BY <1>6 DEF EnqueueEnd, PayoutStep, LoadPayout, LookupPayout, Pay, PayFails, SavePayout,
       AdvanceIndex, ResetCycle, NewCycle, PayoutWriteFails, Handling
  <2>4. \E l \in {"idle", "lookup", "pay", "savePayout", "advance", "reset", "newCycle"} :
           \E f : GotoWith(p, l, f)
    BY <1>6 DEF EnqueueEnd, PayoutStep, LoadPayout, LookupPayout, Pay, PayFails, SavePayout,
       AdvanceIndex, ResetCycle, NewCycle, PayoutWriteFails, Goto, Return, Finish, Throw
  <2> QED
    BY <1>3, <2>1, <2>2, <2>3, <2>4 DEF Handling
<1>7. ASSUME NEW w \in Workers, SchedulerStart(w) PROVE OrderStands
  <2>1. UNCHANGED <<payoutOrder, orderLocked, status, joined>> /\ pc[w] \notin Handling
    BY <1>7 DEF SchedulerStart, StartCycle, StartEnd, members, rotation, Handling
  <2>2. \/ UNCHANGED control
        \/ \E l \in {"enqueueEnd", "load"} : \E f : Enter(w, l, f)
    BY <1>7 DEF SchedulerStart, StartCycle, StartEnd
  <2>3. CASE UNCHANGED control
    BY <2>1, <2>3 DEF OrderStands, control
  <2>4. ASSUME NEW l \in {"enqueueEnd", "load"}, NEW f, Enter(w, l, f) PROVE OrderStands
    BY <1>0, <1>3, <2>1, <2>4 DEF Handling
  <2> QED
    BY <2>2, <2>3, <2>4
<1> QED
  BY <1>0, <1>1, <1>2, <1>4, <1>5, <1>6, <1>7, ContributionHandles, CommandHandles, ExitHandles,
     CrashHandles DEF Next, SessionStep, RotationStep, WorkerStep
-----------------------------------------------------------------------------
(* The locked order *)

\* What a session will write was made from the order and the lock as they are now,
\* if it is not stale.
Fresh(s) ==
    /\ pc[s] = "writeLock" => ~orderLocked /\ frame[s].order = ResolveOrder
    /\ pc[s] = "writeOrder" => \/ ~orderLocked
                               \/ \E u \in Users : frame[s].order = ToBack(ResolveOrder, u)
    /\ pc[s] = "dropFromOrder" =>
          frame[s].user \in Users /\ frame[s].order = Without(ResolveOrder, frame[s].user)

Frozen == \A s \in Sessions \ stale : Fresh(s)

LockedChange ==
    orderLocked /\ orderLocked' /\ payoutOrder' # payoutOrder =>
        \/ \E u \in Users : payoutOrder' \in {ToBack(ResolveOrder, u), Without(ResolveOrder, u)}
        \/ \E s \in stale : Moved(s)

\* A session that had something to write before the step and did not act.
LEMMA StaysFresh ==
    ASSUME Frozen, ObserveOrder, NEW s \in Sessions \ stale', Writing(s),
           pc'[s] = pc[s], frame'[s] = frame[s]
    PROVE  Fresh(s)'
<1>1. s \notin stale /\ ResolveOrder' = ResolveOrder /\ orderLocked' = orderLocked
  BY DEF ObserveOrder, Moved, Basis
<1>2. Fresh(s)
  BY <1>1 DEF Frozen
<1> QED
  BY <1>1, <1>2 DEF Fresh

LEMMA FrozenInductive ==
    ASSUME Typed, Frozen, ObserveOrder,
           OrderStands \/ \E s \in Sessions : OthersStay(s) /\ OrderKinds(s)
    PROVE  Frozen' /\ LockedChange
<1>0. Sessions \subseteq Procs
  BY DEF Procs
<1>1. ASSUME NEW t \in Sessions \ stale', Writing(t)', pc'[t] = pc[t], frame'[t] = frame[t]
      PROVE  Fresh(t)'
  BY <1>1, StaysFresh DEF Writing
<1>2. ASSUME NEW t \in Sessions, ~Writing(t)' PROVE Fresh(t)'
  BY <1>2 DEF Fresh, Writing
<1>3. CASE OrderStands
  <2>1. \A t \in Sessions : Writing(t)' => pc'[t] = pc[t] /\ frame'[t] = frame[t]
    BY <1>3 DEF OrderStands, Writing, Handling
  <2> QED
    BY <1>1, <1>2, <1>3, <2>1 DEF OrderStands, Frozen, LockedChange
<1>4. ASSUME NEW s \in Sessions, OthersStay(s), OrderKinds(s) PROVE Frozen' /\ LockedChange
  <2>1. ASSUME NEW t \in Sessions \ stale', t # s PROVE Fresh(t)'
    BY <1>0, <1>1, <1>2, <1>4, <2>1 DEF OthersStay
  <2>2. CASE MarksMember(s) \/ Past(s) \/ PassesOrder(s)
    <3>1. ~Writing(s)' /\ UNCHANGED payoutOrder
      BY <2>2 DEF MarksMember, Past, PassesOrder, Writing, Handling
    <3> QED
      BY <1>2, <2>1, <3>1 DEF Frozen, LockedChange
  <2>3. CASE ReadsToDrop(s) \/ ReadsToLock(s) \/ Prepares(s)
    <3>1. UNCHANGED <<joined, payoutOrder, orderLocked>>
      BY <2>3 DEF ReadsToDrop, ReadsToLock, Prepares
    <3>2. ResolveOrder' = ResolveOrder
      BY <3>1 DEF ResolveOrder
    <3>3. Fresh(s)'
      BY <2>3, <3>1, <3>2 DEF ReadsToDrop, ReadsToLock, Prepares, Fresh
    <3> QED
      BY <2>1, <3>1, <3>3 DEF Frozen, LockedChange
  <2>4. CASE WritesBack(s)
    <3>1. ~Writing(s)' /\ Moved(s)
      BY <2>4 DEF WritesBack, Writing, Handling, Moved
    <3>2. s \notin stale => Fresh(s)
      BY DEF Frozen
    <3>3. LockedChange
      BY <2>4, <3>1, <3>2 DEF LockedChange, Fresh, WritesBack, Writing
    <3> QED
      BY <1>2, <2>1, <3>1, <3>3 DEF Frozen
  <2> QED
    BY <1>4, <2>2, <2>3, <2>4 DEF OrderKinds
<1> QED
  BY <1>3, <1>4

\* However many commands run side by side and whatever fails, a locked order changes
\* only by SKIP and by an exit, each from the order as it is, unless a session
\* writes what it made from an earlier order or before the lock (setPayoutOrder,
\* skipDefaultingMember, removeMemberFromOrder, lockOrderForCycle).
THEOREM OrderFrozenOnceLockedCorrect == ObservedSpec => OrderFrozenOnceLocked
<1>1. ObservedInit => Typed /\ Frozen
  <2>1. ObservedInit => \A s \in Sessions : pc[s] = "idle"
    BY DEF ObservedInit, Init, Procs
  <2> QED
    BY <2>1, ObservedTyped DEF Frozen, Fresh
<1>2. Typed /\ Frozen /\ [ObservedNext]_observed => Typed' /\ Frozen' /\ [LockedChange]_observed
  <2> SUFFICES ASSUME Typed, Frozen, [ObservedNext]_observed
               PROVE  Typed' /\ Frozen' /\ [LockedChange]_observed
    OBVIOUS
  <2>1. Typed'
    BY ObservedTyped
  <2>2. CASE UNCHANGED observed
    BY <2>1, <2>2 DEF observed, vars, history, control, members, rotation, Frozen, Fresh, ResolveOrder
  <2>3. CASE Next /\ Observe
    BY <2>1, <2>3, NextHandles, FrozenInductive DEF Observe
  <2> QED
    BY <2>2, <2>3 DEF ObservedNext
<1> QED
  BY <1>1, <1>2, PTL DEF ObservedSpec, OrderFrozenOnceLocked, LockedChange
-----------------------------------------------------------------------------
(* Who has left is out of the rotation *)

NoTurn(u) ==
    \/ status[u] # "LEFT"
    \/ \E s \in Sessions : Departing(s) /\ frame[s].user = u
    \/ u \notin ToSet(ResolveOrder)

HasOrder(s) == pc[s] \in {"writeLock", "writeOrder"}

\* The member rows are never empty, so that only an exit can empty the order; what
\* a session will write names those who have a turn and those who got one back.
LeftOut ==
    /\ joined # <<>>
    /\ \A s \in Sessions : HasOrder(s) => frame[s].order # <<>>
    /\ \A s \in Sessions \ stale :
          HasOrder(s) => ToSet(frame[s].order) \subseteq ToSet(ResolveOrder) \cup readmitted
    /\ \A u \in Users \ readmitted : NoTurn(u)

LEMMA EmptyIff ==
    ASSUME NEW order \in Seq(Users)
    PROVE  ToSet(order) = {} <=> order = <<>>
<1>1. ToSet(order) = {order[i] : i \in 1 .. Len(order)}
  BY ToSetOf
<1>2. ASSUME order # <<>> PROVE order[1] \in ToSet(order)
  BY <1>1, <1>2
<1> QED
  BY <1>2, EmptyOrder

LEMMA OrdersAre ==
    ASSUME Typed, OrdersGood
    PROVE  /\ payoutOrder \in Seq(Users) /\ joined \in Seq(Users)
           /\ ResolveOrder \in Seq(Users) /\ IsInjective(ResolveOrder)
           /\ \A s \in Sessions : frame[s].order \in Seq(Users)
<1>1. payoutOrder \in Seq(Users) /\ joined \in Seq(Users)
  BY DEF Typed, MembersTyped, RotationTyped
<1>2. \A s \in Sessions : frame[s].order \in Seq(Users)
  BY DEF Typed, ControlTyped, Frames, Procs
<1> QED
  BY <1>1, <1>2, ResolvedIsGood DEF ResolveOrder, GoodOrder, OrdersGood

LEMMA ObservedOrder ==
    ASSUME ObserveOrder
    PROVE  /\ readmitted \subseteq readmitted'
           /\ \A s \in Sessions, u \in Users : Readmits(s, u) => u \in readmitted'
           /\ \A s \in Sessions \ stale' : Writing(s) /\ ~Moved(s) =>
                 s \notin stale /\ ResolveOrder' = ResolveOrder /\ orderLocked' = orderLocked
  BY DEF ObserveOrder, Basis

\* A session that holds an order and does not act.
LEMMA HoldsOn ==
    ASSUME LeftOut, ObserveOrder, NEW s \in Sessions, HasOrder(s),
           pc'[s] = pc[s], frame'[s] = frame[s]
    PROVE  /\ frame'[s].order # <<>>
           /\ s \notin stale' => ToSet(frame'[s].order) \subseteq ToSet(ResolveOrder') \cup readmitted'
<1>1. Writing(s) /\ ~Moved(s)
  BY DEF Writing, HasOrder, Moved
<1> QED
  BY <1>1, ObservedOrder DEF LeftOut

\* The members and the order stay, and who is about to take a member out still is,
\* or the member got the turn back.
LEMMA NoTurnStays ==
    ASSUME LeftOut, ObserveOrder, NEW s \in Sessions, OthersStay(s),
           UNCHANGED <<status, joined, payoutOrder>>,
           Departing(s) => \/ Departing(s)' /\ frame'[s].user = frame[s].user
                           \/ frame[s].user \notin ToSet(ResolveOrder)
                           \/ Readmits(s, frame[s].user)
    PROVE  \A u \in Users \ readmitted' : NoTurn(u)'
<1> SUFFICES ASSUME NEW u \in Users \ readmitted' PROVE NoTurn(u)'
  OBVIOUS
<1>1. ResolveOrder' = ResolveOrder
  BY DEF ResolveOrder
<1>2. NoTurn(u) /\ ~Readmits(s, u)
  BY ObservedOrder DEF LeftOut
<1>3. Sessions \subseteq Procs
  BY DEF Procs
<1>4. ASSUME NEW t \in Sessions, Departing(t), frame[t].user = u PROVE NoTurn(u)'
  <2>1. CASE t # s
    BY <1>3, <1>4, <2>1 DEF OthersStay, Departing, NoTurn
  <2>2. CASE t = s
    BY <1>1, <1>2, <1>4, <2>2 DEF NoTurn
  <2> QED
    BY <2>1, <2>2
<1> QED
  BY <1>1, <1>2, <1>4 DEF NoTurn

LEMMA StayLeftOut ==
    ASSUME Typed, Typed', LeftOut, ObserveOrder, OrderStands
    PROVE  LeftOut'
<1>1. \A s \in Sessions : HasOrder(s)' => HasOrder(s) /\ pc'[s] = pc[s] /\ frame'[s] = frame[s]
  BY DEF OrderStands, HasOrder, Handling
<1>2. \A s \in Sessions : HasOrder(s)' =>
         /\ frame'[s].order # <<>>
         /\ s \notin stale' => ToSet(frame'[s].order) \subseteq ToSet(ResolveOrder') \cup readmitted'
  BY <1>1, HoldsOn
<1>3. \A s \in Sessions : Departing(s) => Departing(s)' /\ frame'[s] = frame[s]
  BY DEF OrderStands, Departing, Handling
<1>4. readmitted \subseteq readmitted'
  BY ObservedOrder
<1>5. CASE UNCHANGED <<status, joined>>
  <2>1. ResolveOrder' = ResolveOrder
    BY <1>5 DEF OrderStands, ResolveOrder
  <2>2. \A u \in Users \ readmitted' : NoTurn(u)'
    BY <1>3, <1>4, <1>5, <2>1 DEF LeftOut, NoTurn
  <2> QED
    BY <1>2, <1>5, <2>2 DEF LeftOut
<1>6. ASSUME NEW v \in Users, Joins(v) PROVE LeftOut'
  <2>1. /\ joined \in Seq(Users) /\ joined' = Append(joined, v) /\ joined' # <<>>
        /\ ToSet(joined') = ToSet(joined) \cup {v}
    BY <1>6, AppendIs DEF Joins, Typed, MembersTyped
  <2>2. ToSet(ResolveOrder') \subseteq ToSet(ResolveOrder) \cup {v}
    BY <2>1 DEF OrderStands, ResolveOrder
  <2>3. status'[v] = "ACTIVE" /\ \A u \in Users \ {v} : status'[u] = status[u]
    BY <1>6, ExitNumbers DEF Joins
  <2>4. ASSUME NEW u \in Users \ readmitted' PROVE NoTurn(u)'
    BY <1>3, <1>4, <2>2, <2>3 DEF LeftOut, NoTurn
  <2> QED
    BY <1>2, <2>1, <2>4 DEF LeftOut
<1> QED
  BY <1>5, <1>6 DEF OrderStands

\* An order is written back.
LEMMA WritesLeaveOut ==
    ASSUME Typed, Typed', OrdersGood, LeftOut, Frozen, ObserveOrder,
           NEW s \in Sessions, OthersStay(s), WritesBack(s), NEW u \in Users \ readmitted'
    PROVE  NoTurn(u)'
<1>0. Sessions \subseteq Procs
  BY DEF Procs
<1>1. NoTurn(u) /\ ~Readmits(s, u) /\ u \notin readmitted
  BY ObservedOrder DEF LeftOut
<1>2. Writing(s) /\ Moved(s) /\ UNCHANGED <<status, joined>>
  BY DEF WritesBack, Writing, Handling, Moved
<1>3. \A t \in Sessions \ {s} : Departing(t) => Departing(t)' /\ frame'[t] = frame[t]
  BY <1>0 DEF OthersStay, Departing
<1>4. CASE payoutOrder' # frame[s].order
  <2>1. UNCHANGED payoutOrder /\ ResolveOrder' = ResolveOrder
    BY <1>2, <1>4 DEF WritesBack, ResolveOrder
  <2>2. Departing(s) => frame[s].user # u
    BY <1>1, <1>2, <1>4 DEF Readmits, FailsToDrop, Departing, Writing
  <2> QED
    BY <1>1, <1>2, <1>3, <2>1, <2>2 DEF NoTurn
<1>5. CASE payoutOrder' = frame[s].order /\ frame[s].order = <<>>
  <2>1. pc[s] = "dropFromOrder"
    BY <1>2, <1>5 DEF LeftOut, HasOrder, Writing
  <2>2. status[u] # "LEFT"
    BY <1>1, <1>2, <1>5, <2>1 DEF Readmits, EmptiesOrder
  <2> QED
    BY <1>2, <2>2 DEF NoTurn
<1>6. CASE payoutOrder' = frame[s].order /\ frame[s].order # <<>>
  <2>1. ResolveOrder' = frame[s].order
    BY <1>6 DEF ResolveOrder
  <2>2. CASE s \in stale
    <3>1. u \notin ToSet(frame[s].order)
      BY <1>1, <1>2, <2>2 DEF Readmits, PutsBack
    <3> QED
      BY <2>1, <3>1 DEF NoTurn
  <2>3. CASE s \notin stale /\ HasOrder(s)
    <3>1. ToSet(frame[s].order) \subseteq ToSet(ResolveOrder) \cup readmitted
      BY <2>3 DEF LeftOut
    <3>2. ~Departing(s)
      BY <2>3 DEF HasOrder, Departing
    <3> QED
      BY <1>1, <1>2, <1>3, <2>1, <3>1, <3>2 DEF NoTurn
  <2>4. CASE s \notin stale /\ ~HasOrder(s)
    <3>1. frame[s].order = Without(ResolveOrder, frame[s].user)
      BY <1>2, <2>4 DEF Frozen, Fresh, HasOrder, Writing
    <3>2. ToSet(frame[s].order) = ToSet(ResolveOrder) \ {frame[s].user}
      BY <3>1, OrdersAre, WithoutFilters
    <3> QED
      BY <1>1, <1>2, <1>3, <2>1, <3>2 DEF NoTurn
  <2> QED
    BY <2>2, <2>3, <2>4
<1> QED
  BY <1>4, <1>5, <1>6

LEMMA HandlersLeaveOut ==
    ASSUME Typed, Typed', OrdersGood, OrdersGood', LeftOut, Frozen, ObserveOrder,
           NEW s \in Sessions, OthersStay(s), OrderKinds(s)
    PROVE  LeftOut'
<1>0. Sessions \subseteq Procs
  BY DEF Procs
<1>1. UNCHANGED joined
  BY DEF OrderKinds, MarksMember, Past, PassesOrder, ReadsToDrop, ReadsToLock, Prepares, WritesBack
<1>2. joined' # <<>> /\ ResolveOrder # <<>> /\ ResolveOrder \in Seq(Users)
  BY <1>1, OrdersAre DEF LeftOut, ResolveOrder
<1>3. ASSUME NEW t \in Sessions, t # s, HasOrder(t)'
      PROVE  /\ frame'[t].order # <<>>
             /\ t \notin stale' => ToSet(frame'[t].order) \subseteq ToSet(ResolveOrder') \cup readmitted'
  <2>1. HasOrder(t) /\ pc'[t] = pc[t] /\ frame'[t] = frame[t]
    BY <1>0, <1>3 DEF OthersStay, HasOrder
  <2> QED
    BY <2>1, HoldsOn
<1>4. readmitted \subseteq readmitted'
  BY ObservedOrder
<1>5. ASSUME HasOrder(s)' => frame'[s].order # <<>>,
             HasOrder(s)' => ToSet(frame'[s].order) \subseteq ToSet(ResolveOrder') \cup readmitted',
             \A u \in Users \ readmitted' : NoTurn(u)'
      PROVE  LeftOut'
  BY <1>2, <1>3, <1>5 DEF LeftOut
<1>6. CASE MarksMember(s)
  <2>1. ~HasOrder(s) /\ ~HasOrder(s)' /\ ~Departing(s)
    BY <1>6 DEF MarksMember, HasOrder, Departing
  <2>2. ASSUME NEW u \in Users \ readmitted' PROVE NoTurn(u)'
    <3>1. NoTurn(u) /\ ~Readmits(s, u)
      BY ObservedOrder DEF LeftOut
    <3>2. ResolveOrder' = ResolveOrder
      BY <1>6 DEF MarksMember, ResolveOrder
    <3>3. \A t \in Sessions : Departing(t) => Departing(t)' /\ frame'[t] = frame[t]
      BY <1>0, <2>1 DEF OthersStay, Departing
    <3>4. CASE status' = status
      BY <3>1, <3>2, <3>3, <3>4 DEF NoTurn
    <3>5. CASE status' # status /\ frame[s].user # u
      <4>1. status'[u] = status[u]
        BY <1>6, <3>5, ExitNumbers DEF MarksMember
      <4> QED
        BY <3>1, <3>2, <3>3, <4>1 DEF NoTurn
    <3>6. CASE status' # status /\ frame[s].user = u
      <4>1. pc'[s] = "logExit" /\ frame'[s] = frame[s]
        BY <1>6, <3>1, <3>6 DEF MarksMember, Readmits, FailsToDrop, Ended, Moved
      <4> QED
        BY <3>6, <4>1 DEF NoTurn, Departing
    <3> QED
      BY <3>4, <3>5, <3>6
  <2> QED
    BY <1>5, <2>1, <2>2
<1>7. CASE Past(s)
  <2>1. ~HasOrder(s) /\ ~HasOrder(s)' /\ UNCHANGED <<status, joined, payoutOrder>>
    BY <1>7 DEF Past, HasOrder
  <2>2. \/ Departing(s)' /\ frame'[s].user = frame[s].user
        \/ Readmits(s, frame[s].user)
    BY <1>7 DEF Past, Departing, Readmits, FailsToDrop, Ended, Moved
  <2>3. \A u \in Users \ readmitted' : NoTurn(u)'
    BY <2>1, <2>2, NoTurnStays
  <2> QED
    BY <1>5, <2>1, <2>3
<1>8. CASE PassesOrder(s)
  <2>1. ~HasOrder(s) /\ ~HasOrder(s)' /\ UNCHANGED <<status, joined, payoutOrder>>
    BY <1>8 DEF PassesOrder, HasOrder, Handling
  <2>2. frame[s].user \notin ToSet(ResolveOrder) \/ Readmits(s, frame[s].user)
    BY <1>8 DEF PassesOrder, Readmits, FailsToDrop, Ended, Moved
  <2>3. \A u \in Users \ readmitted' : NoTurn(u)'
    BY <2>1, <2>2, NoTurnStays
  <2> QED
    BY <1>5, <2>1, <2>3
<1>9. CASE ReadsToDrop(s)
  <2>1. /\ ~HasOrder(s) /\ ~HasOrder(s)' /\ UNCHANGED <<status, joined, payoutOrder>>
        /\ Departing(s)' /\ frame'[s].user = frame[s].user
    BY <1>9 DEF ReadsToDrop, HasOrder, Departing
  <2>2. \A u \in Users \ readmitted' : NoTurn(u)'
    BY <2>1, NoTurnStays
  <2> QED
    BY <1>5, <2>1, <2>2
<1>10. CASE ReadsToLock(s) \/ Prepares(s)
  <2>1. /\ ~HasOrder(s) /\ ~Departing(s) /\ UNCHANGED <<status, joined, payoutOrder>>
    BY <1>10 DEF ReadsToLock, Prepares, HasOrder, Departing
  <2>2. ResolveOrder' = ResolveOrder
    BY <2>1 DEF ResolveOrder
  <2>3. \A u \in Users \ readmitted' : NoTurn(u)'
    BY <2>1, NoTurnStays
  <2>4. frame'[s].order # <<>>
    <3>1. CASE ReadsToLock(s)
      BY <1>2, <3>1 DEF ReadsToLock
    <3>2. ASSUME NEW u \in Users, frame'[s].order = ToBack(ResolveOrder, u) PROVE frame'[s].order # <<>>
      <4>1. PICK rest \in Seq(Users) : rest = Without(ResolveOrder, u)
        BY OrdersAre, WithoutFilters
      <4> QED
        BY <3>2, <4>1 DEF ToBack
    <3>3. ASSUME ToSet(frame'[s].order) = ToSet(joined) PROVE frame'[s].order # <<>>
      BY <3>3, OrdersAre, EmptyIff, EmptyOrder DEF LeftOut
    <3> QED
      BY <1>10, <3>1, <3>2, <3>3 DEF Prepares
  <2>5. ToSet(frame'[s].order) \subseteq ToSet(ResolveOrder') \cup readmitted'
    <3>1. CASE ReadsToLock(s)
      BY <2>2, <3>1 DEF ReadsToLock
    <3>2. CASE Prepares(s)
      <4>1. Names(s) = ToSet(frame'[s].order) \ ToSet(ResolveOrder)
        BY <3>2 DEF Names, Prepares, Moved
      <4>2. ToSet(frame'[s].order) \subseteq Users
        BY <1>0, ToSetOf DEF Typed, ControlTyped, Frames
      <4>3. \A u \in Names(s) : u \in Users /\ Readmits(s, u)
        BY <4>1, <4>2 DEF Readmits
      <4>4. Names(s) \subseteq readmitted'
        BY <4>3, ObservedOrder
      <4> QED
        BY <2>2, <4>1, <4>4
    <3> QED
      BY <1>10, <3>1, <3>2
  <2> QED
    BY <1>5, <2>1, <2>3, <2>4, <2>5
<1>11. CASE WritesBack(s)
  <2>1. ~HasOrder(s)'
    BY <1>11 DEF WritesBack, HasOrder, Handling
  <2>2. \A u \in Users \ readmitted' : NoTurn(u)'
    BY <1>11, WritesLeaveOut
  <2> QED
    BY <1>5, <2>1, <2>2
<1> QED
  BY <1>6, <1>7, <1>8, <1>9, <1>10, <1>11 DEF OrderKinds

\* However many commands run side by side and whatever fails, who has left is taken
\* out of the order, or of the member rows in its place, before the exit is over,
\* unless that failed, another handler wrote back an order it had read before, an
\* ORDER named the member, or the order became empty (removeMemberFromOrder).
THEOREM LeftOutOfRotationCorrect == ObservedSpec => []LeftOutOfRotation
<1>1. ObservedInit => Typed /\ OrdersGood /\ Frozen /\ LeftOut
  <2> SUFFICES ASSUME ObservedInit PROVE Typed /\ OrdersGood /\ Frozen /\ LeftOut
    OBVIOUS
  <2>1. Typed /\ OrdersGood
    BY ObservedTyped, OrdersInitially DEF ObservedInit
  <2>2. \A s \in Sessions : pc[s] = "idle"
    BY DEF ObservedInit, Init, Procs
  <2>3. \A u \in Users : status[u] # "LEFT"
    BY DEF ObservedInit, Init
  <2>4. joined # <<>>
    <3>1. 1 \in Users /\ status[1] # "NONE"
      BY Numbers DEF ObservedInit, Init, Users
    <3>2. 1 \in ToSet(joined)
      BY <2>1, <3>1 DEF OrdersGood
    <3> QED
      BY <3>2, EmptyOrder
  <2> QED
    BY <2>1, <2>2, <2>3, <2>4 DEF Frozen, Fresh, LeftOut, HasOrder, NoTurn
<1>2. Typed /\ OrdersGood /\ Frozen /\ LeftOut /\ [ObservedNext]_observed
         => Typed' /\ OrdersGood' /\ Frozen' /\ LeftOut'
  <2> SUFFICES ASSUME Typed, OrdersGood, Frozen, LeftOut, [ObservedNext]_observed
               PROVE  Typed' /\ OrdersGood' /\ Frozen' /\ LeftOut'
    OBVIOUS
  <2>1. Typed' /\ OrdersGood'
    BY ObservedTyped, OrdersInductive DEF ObservedNext, observed
  <2>2. CASE UNCHANGED observed
    BY <2>1, <2>2 DEF observed, vars, history, control, members, rotation, Frozen, Fresh,
       ResolveOrder, LeftOut, HasOrder, NoTurn, Departing
  <2>3. CASE Next /\ Observe
    <3>1. Frozen' /\ ObserveOrder
      BY <2>3, NextHandles, FrozenInductive DEF Observe
    <3>2. LeftOut'
      BY <2>1, <2>3, <3>1, NextHandles, StayLeftOut, HandlersLeaveOut
    <3> QED
      BY <2>1, <3>1, <3>2
  <2> QED
    BY <2>2, <2>3 DEF ObservedNext
<1>3. LeftOut => LeftOutOfRotation
  BY DEF LeftOut, NoTurn, LeftOutOfRotation, Departing
<1> QED
  BY <1>1, <1>2, <1>3, PTL DEF ObservedSpec
=============================================================================
