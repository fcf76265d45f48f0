------------------------------- MODULE MachineProofs -------------------------------
(***************************************************************************)
(* The scheduler, the SCU's DMA controller, the CD block's host port with  *)
(* the SCU's interrupts, and the SMPC: components that meet in MCMachine.  *)
(* Each has its invariant, for all values of its constants, and the        *)
(* properties that follow from it.                                         *)
(***************************************************************************)
EXTENDS Scheduler, ScuDma, Smpc, CDHostPort, NaturalLemmas, TLAPS

-----------------------------------------------------------------------------
(***************************************************************************)
(* The scheduler keeps its types, never executes "no event", and leaves    *)
(* no event due when Advance returns, for all numbers of events, factors,  *)
(* intervals and steps, as long as clock ratios change in callbacks only.  *)
(***************************************************************************)
LEMMA Division ==
  ASSUME NEW a \in Nat, NEW d \in Nat \ {0}
  PROVE  /\ a \div d \in Nat
         /\ (a \div d) * d <= a
         /\ a < (a \div d) * d + d
BY SMTT(30)

LEMMA Products ==
  ASSUME NEW a \in Nat, NEW b \in Nat
  PROVE  a * b \in Nat
BY SMT

LEMMA Cancellation ==
  ASSUME NEW a \in Int, NEW b \in Int, NEW d \in Nat \ {0}, a * d < b * d
  PROVE  a < b
BY SMTT(30)

LEMMA Monotone ==
  ASSUME NEW a \in Int, NEW b \in Int, NEW d \in Nat \ {0}, a <= b
  PROVE  a * d <= b * d
BY SMTT(30)

LEMMA Distribution ==
  ASSUME NEW c \in Nat, NEW n \in Nat
  PROVE  (c + 1) * n = c * n + n
BY SMTT(30)

LEMMA ScaledNat ==
  ASSUME NEW e \in EventRecord, NEW c \in Nat
  PROVE  /\ ScaledCount(c, e) \in Nat
         /\ CalcTargetScaledByReciprocal(e) \in Nat
<1>1. /\ e.target \in Nat /\ e.num \in Nat \ {0} /\ e.den \in Nat \ {0}
  BY DEF EventRecord
<1>2. c * e.num \in Nat /\ e.target * e.den \in Nat
  BY <1>1, Products
<1>3. e.target * e.den + e.num - 1 \in Nat
  BY <1>1, <1>2
<1>4. QED
  BY <1>1, <1>2, <1>3, Division DEF ScaledCount, CalcTargetScaledByReciprocal

\* Rounding to the primary clock and back agree: before the primary count of
\* its deadline, no event is due on its own clock.
LEMMA NotDueBefore ==
  ASSUME NEW e \in EventRecord, NEW c \in Nat, c < CalcTargetScaledByReciprocal(e)
  PROVE  ScaledCount(c, e) < e.target
<1> DEFINE T == e.target
           n == e.num
           d == e.den
           q == CalcTargetScaledByReciprocal(e)
           r == ScaledCount(c, e)
<1>1. T \in Nat /\ n \in Nat \ {0} /\ d \in Nat \ {0}
  BY DEF EventRecord
<1>2. q \in Nat /\ r \in Nat
  BY ScaledNat
<1>3. T * d \in Nat /\ c * n \in Nat /\ q * n \in Nat /\ r * d \in Nat
  BY <1>1, <1>2, Products
<1>4. q * n <= T * d + n - 1
  <2>1. T * d + n - 1 \in Nat
    BY <1>1, <1>3
  <2>2. QED
    BY <1>1, <2>1, Division DEF CalcTargetScaledByReciprocal
<1>5. (c + 1) * n <= q * n
  BY <1>1, <1>2, Monotone
<1>6. (c + 1) * n = c * n + n
  <2> HIDE DEF T, n, d, q, r
  <2>1. QED
    BY <1>1, Distribution
<1>7. c * n < T * d
  <2> HIDE DEF T, n, d, q, r
  <2>1. QED
    BY <1>1, <1>3, <1>4, <1>5, <1>6
<1>8. r * d <= c * n
  BY <1>1, <1>3, Division DEF ScaledCount
<1>9. r * d < T * d
  <2> HIDE DEF T, n, d, q, r
  <2>1. QED
    BY <1>3, <1>7, <1>8
<1>10. r < T
  <2> HIDE DEF T, n, d, q, r
  <2>1. QED
    BY <1>1, <1>2, <1>9, Cancellation
<1>11. QED
  BY <1>10

-----------------------------------------------------------------------------
\* The cached deadline is no later than any event's, and names an event unless
\* there is none.
Covers(evs, count, id) ==
    /\ \A j \in Event : IsScheduled(evs[j]) => count <= CalcTargetScaledByReciprocal(evs[j])
    /\ count # NoDeadline => id \in Event

\* In a callback the cache may be too late; its return recalculates it.
SchedulerInv ==
    /\ SchedulerTypeOK
    /\ phase # "callback" => Covers(events, nextCount, nextEvent)
    /\ nextCount # NoDeadline => nextEvent \in Event

LEMMA RecalcCovers ==
  ASSUME NEW evs \in [Event -> EventRecord], RecalcSchedule(evs)
  PROVE  /\ nextCount' \in Nat
         /\ nextEvent' \in 0 .. NumEvents
         /\ Covers(evs, nextCount', nextEvent')
<1>1. Deadlines(evs) \subseteq Nat
  <2> SUFFICES ASSUME NEW j \in Event PROVE CalcTargetScaledByReciprocal(evs[j]) \in Nat
    BY DEF Deadlines
  <2>1. evs[j] \in EventRecord
    OBVIOUS
  <2>2. QED
    BY <2>1, ScaledNat
<1>2. nextCount' \in Nat /\ nextEvent' \in 0 .. NumEvents
  BY <1>1, SchedulerAssumption DEF RecalcSchedule
<1>3. IsEarliest(evs, nextCount', nextEvent')
  BY DEF RecalcSchedule
<1>4. \A j \in Event : IsScheduled(evs[j]) => nextCount' <= CalcTargetScaledByReciprocal(evs[j])
  <2> SUFFICES ASSUME NEW j \in Event, IsScheduled(evs[j])
               PROVE  nextCount' <= CalcTargetScaledByReciprocal(evs[j])
    OBVIOUS
  <2>1. CalcTargetScaledByReciprocal(evs[j]) \in Deadlines(evs)
    BY DEF Deadlines
  <2>2. CalcTargetScaledByReciprocal(evs[j]) \in Nat
    BY <1>1, <2>1
  <2>3. QED
    BY <1>2, <1>3, <2>1, <2>2, SchedulerAssumption DEF IsEarliest
<1>5. nextCount' # NoDeadline => nextEvent' \in Event
  BY <1>3 DEF IsEarliest
<1>6. QED
  BY <1>2, <1>4, <1>5 DEF Covers

LEMMA SchedulerInitInv == SchedulerInit => SchedulerInv
<1> SUFFICES ASSUME SchedulerInit PROVE SchedulerInv
  OBVIOUS
<1>1. events \in [Event -> EventRecord]
  BY SchedulerAssumption DEF SchedulerInit, EventRecord
<1>2. \A j \in Event : ~IsScheduled(events[j])
  BY DEF SchedulerInit, IsScheduled
<1>3. SchedulerTypeOK
  BY <1>1, SchedulerAssumption DEF SchedulerInit, SchedulerTypeOK, NoFiring
<1>4. QED
  BY <1>2, <1>3 DEF SchedulerInv, SchedulerInit, Covers

-----------------------------------------------------------------------------
LEMMA EventTypes == SchedulerInv => \A id \in Event : events[id] \in EventRecord
BY DEF SchedulerInv, SchedulerTypeOK

LEMMA ScheduleEventInv ==
  ASSUME SchedulerInv, NEW id \in Event, NEW target \in Nat, ScheduleEvent(id, target)
  PROVE  SchedulerInv'
<1> DEFINE e == [events[id] EXCEPT !.target = target]
           due == CalcTargetScaledByReciprocal(e)
<1>1. e \in EventRecord
  BY EventTypes DEF EventRecord
<1>2. due \in Nat
  BY <1>1, ScaledNat
<1>3. events' = [events EXCEPT ![id] = e] /\ events' \in [Event -> EventRecord]
  BY <1>1 DEF ScheduleEvent, SchedulerInv, SchedulerTypeOK
<1>4. \/ due < nextCount /\ nextCount' = due /\ nextEvent' = id
      \/ ~(due < nextCount) /\ nextCount' = nextCount /\ nextEvent' = nextEvent
  BY DEF ScheduleEvent
<1>5. SchedulerTypeOK'
  <2> HIDE DEF e, due
  <2>1. nextCount' \in Nat /\ nextEvent' \in 0 .. NumEvents
    BY <1>2, <1>4, SchedulerAssumption DEF SchedulerInv, SchedulerTypeOK, Event
  <2>2. QED
    BY <1>3, <2>1 DEF ScheduleEvent, SchedulerInv, SchedulerTypeOK
<1>6. ASSUME phase' # "callback", NEW j \in Event, IsScheduled(events'[j])
      PROVE  nextCount' <= CalcTargetScaledByReciprocal(events'[j])
  <2>1. phase # "callback" /\ nextCount \in Nat
    BY <1>6 DEF ScheduleEvent, SchedulerInv, SchedulerTypeOK
  <2>2. CASE j = id
    <3>1. events'[j] = e
      BY <1>3, <2>2 DEF SchedulerInv, SchedulerTypeOK
    <3> HIDE DEF e
    <3>2. QED
      BY <1>2, <1>4, <2>1, <3>1
  <2>3. CASE j # id
    <3>1. events'[j] = events[j]
      BY <1>3, <2>3 DEF SchedulerInv, SchedulerTypeOK
    <3>2. nextCount <= CalcTargetScaledByReciprocal(events[j])
      BY <1>6, <2>1, <3>1 DEF SchedulerInv, Covers
    <3>3. CalcTargetScaledByReciprocal(events[j]) \in Nat
      BY EventTypes, ScaledNat
    <3> HIDE DEF e, due
    <3>4. QED
      BY <1>2, <1>4, <2>1, <3>1, <3>2, <3>3
  <2>4. QED
    BY <2>2, <2>3
<1>7. nextCount' # NoDeadline => nextEvent' \in Event
  BY <1>4 DEF SchedulerInv
<1>8. QED
  BY <1>5, <1>6, <1>7 DEF SchedulerInv, Covers

LEMMA ScheduleFromNowInv ==
  ASSUME SchedulerInv, NEW id \in Event, NEW interval \in Intervals \cup CallbackIntervals,
         ScheduleFromNow(id, interval)
  PROVE  SchedulerInv'
<1>1. currCount \in Nat /\ interval \in Nat
  BY SchedulerAssumption DEF SchedulerInv, SchedulerTypeOK
<1>2. ScaledCount(currCount, events[id]) \in Nat
  BY <1>1, EventTypes, ScaledNat
<1>3. ScaledCount(currCount, events[id]) + interval \in Nat
  BY <1>1, <1>2
<1>4. QED
  BY <1>3, ScheduleEventInv DEF ScheduleFromNow

LEMMA CancelInv ==
  ASSUME SchedulerInv, NEW id \in Event, Cancel(id)
  PROVE  SchedulerInv'
<1>1. events' \in [Event -> EventRecord]
  BY SchedulerAssumption DEF Cancel, SchedulerInv, SchedulerTypeOK, EventRecord
<1>2. SchedulerTypeOK'
  BY <1>1 DEF Cancel, SchedulerInv, SchedulerTypeOK
<1>3. ASSUME NEW j \in Event, IsScheduled(events'[j]) PROVE events'[j] = events[j]
  BY <1>3 DEF Cancel, IsScheduled, SchedulerInv, SchedulerTypeOK, EventRecord
<1>4. phase' = phase /\ nextCount' = nextCount /\ nextEvent' = nextEvent
  BY DEF Cancel
<1>5. QED
  BY <1>2, <1>3, <1>4 DEF SchedulerInv, Covers

\* A recalculated schedule covers the new events, whatever was cached before.
LEMMA RecalculatedInv ==
  ASSUME SchedulerInv, RecalcSchedule(events'), events' \in [Event -> EventRecord],
         SchedulerTypeOK'
  PROVE  SchedulerInv'
BY RecalcCovers DEF SchedulerInv, Covers

LEMMA SetEventCountFactorInv ==
  ASSUME SchedulerInv, "idle" \notin FactorPhases, NEW id \in Event, NEW f \in Factors,
         SetEventCountFactor(id, f)
  PROVE  SchedulerInv'
<1>1. phase = "callback" /\ phase' = "callback"
  BY SchedulerAssumption DEF SetEventCountFactor
<1>2. Refactored(events[id], f) \in EventRecord
  <2>1. f[1] \in Nat \ {0} /\ f[2] \in Nat \ {0}
    BY SchedulerAssumption
  <2>2. events[id] \in EventRecord /\ currCount \in Nat
    BY EventTypes, SchedulerAssumption DEF SchedulerInv, SchedulerTypeOK
  <2>3. ScaledCount(currCount, events[id]) \in Nat
    BY <2>2, ScaledNat
  <2>4. currCount * f[1] \in Nat
    BY <2>1, <2>2, Products
  <2>5. (currCount * f[1]) \div f[2] \in Nat
    BY <2>1, <2>4, Division
  <2>6. Refactored(events[id], f).target \in Int
    BY <2>2, <2>3, <2>5, SchedulerAssumption DEF Refactored, EventRecord
  <2>7. Refactored(events[id], f).target \in Nat
    BY <2>6 DEF SetEventCountFactor
  <2>8. QED
    BY <2>1, <2>7 DEF Refactored, EventRecord
<1>3. events' \in [Event -> EventRecord]
  BY <1>2 DEF SetEventCountFactor, SchedulerInv, SchedulerTypeOK
<1>4. \/ RecalcSchedule(events')
      \/ nextCount' = nextCount /\ nextEvent' = nextEvent
  BY DEF SetEventCountFactor
<1>5. /\ nextCount' \in Nat /\ nextEvent' \in 0 .. NumEvents
      /\ nextCount' # NoDeadline => nextEvent' \in Event
  BY <1>3, <1>4, RecalcCovers DEF SchedulerInv, SchedulerTypeOK, Covers
<1>6. SchedulerTypeOK'
  BY <1>3, <1>5 DEF SetEventCountFactor, SchedulerInv, SchedulerTypeOK
<1>7. QED
  BY <1>1, <1>5, <1>6 DEF SchedulerInv

LEMMA ExecuteStepInv == SchedulerInv /\ ExecuteStep => SchedulerInv'
<1> SUFFICES ASSUME SchedulerInv, ExecuteStep PROVE SchedulerInv'
  OBVIOUS
<1>1. CASE Fire
  <2>1. currCount < NoDeadline /\ nextCount # NoDeadline
    BY <1>1, SchedulerAssumption DEF Fire, SchedulerInv, SchedulerTypeOK
  <2>2. nextEvent \in Event /\ events[nextEvent] \in EventRecord
    BY <2>1, EventTypes DEF SchedulerInv
  <2>3. firing' \in [id : 0 .. NumEvents, target : Nat] /\ firing'.id # NumEvents
    BY <1>1, <2>2, SchedulerAssumption DEF Fire, EventRecord, Event
  <2>4. SchedulerTypeOK'
    BY <1>1, <2>3 DEF Fire, SchedulerInv, SchedulerTypeOK
  <2>5. QED
    BY <1>1, <2>4 DEF Fire, SchedulerInv
<1>2. CASE SkipStale
  <2>1. events' \in [Event -> EventRecord] /\ RecalcSchedule(events')
    BY <1>2 DEF SkipStale, SchedulerInv, SchedulerTypeOK, RecalcSchedule
  <2>2. SchedulerTypeOK'
    BY <1>2, <2>1, RecalcCovers DEF SkipStale, SchedulerInv, SchedulerTypeOK
  <2>3. QED
    BY <2>1, <2>2, RecalculatedInv
<1>3. ASSUME NEW target \in Nat, Return(target) PROVE SchedulerInv'
  <2>1. events' \in [Event -> EventRecord]
    BY <1>3 DEF Return, SchedulerInv, SchedulerTypeOK, EventRecord
  <2>2. RecalcSchedule(events')
    BY <1>3 DEF Return
  <2>3. firing' \in [id : 0 .. NumEvents, target : Nat] /\ firing'.id = NumEvents
    BY <1>3, SchedulerAssumption DEF Return, NoFiring
  <2>4. SchedulerTypeOK'
    BY <1>3, <2>1, <2>2, <2>3, RecalcCovers DEF Return, SchedulerInv, SchedulerTypeOK
  <2>5. QED
    BY <2>1, <2>2, <2>4, RecalculatedInv
<1>4. CASE ReturnRescheduled
  <2>1. PICK interval \in CallbackIntervals : Return(firing.target + interval)
    BY <1>4 DEF ReturnRescheduled
  <2>2. firing.target + interval \in Nat
    BY SchedulerAssumption DEF SchedulerInv, SchedulerTypeOK
  <2>3. QED
    BY <1>3, <2>1, <2>2
<1>5. CASE ReturnDone
  BY <1>3, <1>5, SchedulerAssumption DEF ReturnDone
<1>6. CASE Finish
  <2>1. SchedulerTypeOK'
    BY <1>6 DEF Finish, SchedulerInv, SchedulerTypeOK
  <2>2. QED
    BY <1>6, <2>1 DEF Finish, SchedulerInv, Covers
<1>7. QED
  BY <1>1, <1>2, <1>4, <1>5, <1>6 DEF ExecuteStep

LEMMA AdvanceInv ==
  ASSUME SchedulerInv, NEW count \in Steps, Advance(count)
  PROVE  SchedulerInv'
<1>1. currCount' \in 0 .. MaxCount
  BY SchedulerAssumption DEF Advance, SchedulerInv, SchedulerTypeOK
<1>2. SchedulerTypeOK'
  BY <1>1 DEF Advance, SchedulerInv, SchedulerTypeOK
<1>3. QED
  BY <1>2 DEF Advance, SchedulerInv, Covers

LEMMA SavedInv == SchedulerInv /\ (SaveSchedule \/ LoadSchedule \/ ResetSchedule) => SchedulerInv'
<1> SUFFICES ASSUME SchedulerInv, SaveSchedule \/ LoadSchedule \/ ResetSchedule PROVE SchedulerInv'
  OBVIOUS
<1> DEFINE Saved == [count : 0 .. MaxCount, events : [Event -> EventRecord]]
<1>1. CASE SaveSchedule
  <2>1. [count |-> currCount, events |-> events] \in Saved
    BY DEF SchedulerInv, SchedulerTypeOK
  <2> DEFINE s == [count |-> currCount, events |-> events]
  <2>2. snapshot' = <<s>>
    BY <1>1 DEF SaveSchedule
  <2>3. <<s>> \in Seq(Saved) /\ Len(<<s>>) = 1
    <3> HIDE DEF s, Saved
    <3>1. QED
      BY <2>1 DEF s
  <2>4. SchedulerTypeOK'
    BY <1>1, <2>2, <2>3 DEF SaveSchedule, SchedulerInv, SchedulerTypeOK
  <2>5. QED
    BY <1>1, <2>4 DEF SaveSchedule, SchedulerInv, Covers
<1>2. CASE LoadSchedule
  <2>1. snapshot \in Seq(Saved) /\ snapshot # <<>>
    BY <1>2 DEF LoadSchedule, SchedulerInv, SchedulerTypeOK
  <2>2. snapshot[1] \in Saved
    <3> HIDE DEF Saved
    <3>1. QED
      BY <2>1
  <2>3. events' \in [Event -> EventRecord] /\ currCount' \in 0 .. MaxCount /\ RecalcSchedule(events')
    BY <1>2, <2>2 DEF LoadSchedule
  <2>4. snapshot' \in Seq(Saved) /\ Len(snapshot') <= 1
    BY <1>2 DEF LoadSchedule
  <2>5. SchedulerTypeOK'
    BY <1>2, <2>3, <2>4, RecalcCovers DEF LoadSchedule, SchedulerInv, SchedulerTypeOK
  <2>6. QED
    BY <2>3, <2>5, RecalculatedInv
<1>3. CASE ResetSchedule
  <2>1. events' \in [Event -> EventRecord]
    BY <1>3, SchedulerAssumption DEF ResetSchedule, SchedulerInv, SchedulerTypeOK, EventRecord
  <2>2. \A j \in Event : events'[j].target = NoDeadline
    BY <1>3 DEF ResetSchedule, SchedulerInv, SchedulerTypeOK, EventRecord
  <2>3. SchedulerTypeOK'
    BY <1>3, <2>1, SchedulerAssumption DEF ResetSchedule, SchedulerInv, SchedulerTypeOK
  <2>4. QED
    BY <1>3, <2>2, <2>3 DEF ResetSchedule, SchedulerInv, Covers, IsScheduled
<1>4. QED
  BY <1>1, <1>2, <1>3

LEMMA NextInv ==
  ASSUME "idle" \notin FactorPhases, SchedulerInv, [SchedulerNext]_schedulerVars
  PROVE  SchedulerInv'
<1>1. CASE UNCHANGED schedulerVars
  BY <1>1 DEF schedulerVars, SchedulerInv, SchedulerTypeOK, Covers, NoFiring
<1>2. CASE SchedulerNext
  <2>1. ASSUME NEW id \in Event, NEW i \in Intervals \cup CallbackIntervals, ScheduleFromNow(id, i)
        PROVE  SchedulerInv'
    BY <2>1, ScheduleFromNowInv
  <2>2. ASSUME NEW id \in Event, Cancel(id) PROVE SchedulerInv'
    BY <2>2, CancelInv
  <2>3. ASSUME NEW id \in Event, NEW f \in Factors, SetEventCountFactor(id, f) PROVE SchedulerInv'
    BY <2>3, SetEventCountFactorInv
  <2>4. ASSUME NEW count \in Steps, Advance(count) PROVE SchedulerInv'
    BY <2>4, AdvanceInv
  <2>5. CASE ExecuteStep
    BY <2>5, ExecuteStepInv
  <2>6. CASE SaveSchedule \/ LoadSchedule \/ ResetSchedule
    BY <2>6, SavedInv
  <2>7. QED
    BY <1>2, <2>1, <2>2, <2>3, <2>4, <2>5, <2>6 DEF SchedulerNext
<1>3. QED
  BY <1>1, <1>2

\* The invariant holds of every behaviour in which clock ratios change inside
\* callbacks only, as the SMPC's clock change does.
THEOREM SchedulerInvariant ==
  ASSUME "idle" \notin FactorPhases
  PROVE  SchedulerSpec => []SchedulerInv
<1>1. SchedulerInv /\ [SchedulerNext]_schedulerVars => SchedulerInv'
  BY NextInv
<1>2. QED
  BY SchedulerInitInv, <1>1, PTL DEF SchedulerSpec

\* The scheduler's members keep their types.
THEOREM SchedulerTypes ==
  ASSUME "idle" \notin FactorPhases
  PROVE  SchedulerSpec => []SchedulerTypeOK
<1>1. SchedulerInv => SchedulerTypeOK
  BY DEF SchedulerInv
<1>2. QED
  BY <1>1, SchedulerInvariant, PTL

\* Execute never looks for a callback at the index that means "none", whatever
\* was cancelled or loaded since the caches were computed.
THEOREM SchedulerExecutesEvents ==
  ASSUME "idle" \notin FactorPhases
  PROVE  SchedulerSpec => []ExecutesAnEvent
<1>1. SchedulerInv => ExecutesAnEvent
  <2> SUFFICES ASSUME SchedulerInv, currCount >= nextCount PROVE nextEvent \in Event
    BY DEF ExecutesAnEvent
  <2>1. currCount < NoDeadline /\ nextCount # NoDeadline
    BY SchedulerAssumption DEF SchedulerInv, SchedulerTypeOK
  <2>2. QED
    BY <2>1 DEF SchedulerInv
<1>2. QED
  BY <1>1, SchedulerInvariant, PTL

\* Advance never returns with an event due on its own clock, whatever the
\* clock ratios: the cached deadline is early enough, and rounding is sound.
THEOREM SchedulerFiresAllDue ==
  ASSUME "idle" \notin FactorPhases
  PROVE  SchedulerSpec => AdvanceFiresAllDue
<1>1. ASSUME SchedulerInv, [SchedulerNext]_schedulerVars, phase = "execute", phase' = "idle"
      PROVE  \A id \in Event : ~Due(events[id])
  <2>1. currCount < nextCount
    BY <1>1 DEF schedulerVars, SchedulerNext, ScheduleFromNow, ScheduleEvent, Cancel, SetEventCountFactor,
       MayUse, Advance, ExecuteStep, Fire, SkipStale, ReturnRescheduled, ReturnDone, Return, Finish,
       SaveSchedule, LoadSchedule, ResetSchedule
  <2> SUFFICES ASSUME NEW id \in Event, IsScheduled(events[id])
               PROVE  ~(ScaledCount(currCount, events[id]) >= events[id].target)
    BY DEF Due
  <2>2. events[id] \in EventRecord /\ currCount \in Nat /\ nextCount \in Nat
    BY <1>1, EventTypes, SchedulerAssumption DEF SchedulerInv, SchedulerTypeOK
  <2>3. nextCount <= CalcTargetScaledByReciprocal(events[id])
    BY <1>1 DEF SchedulerInv, Covers
  <2>4. CalcTargetScaledByReciprocal(events[id]) \in Nat /\ ScaledCount(currCount, events[id]) \in Nat
    BY <2>2, ScaledNat
  <2>5. currCount < CalcTargetScaledByReciprocal(events[id])
    BY <2>1, <2>2, <2>3, <2>4
  <2>6. ScaledCount(currCount, events[id]) < events[id].target
    BY <2>2, <2>5, NotDueBefore
  <2>7. QED
    BY <2>2, <2>4, <2>6 DEF EventRecord
<1>2. QED
  BY <1>1, SchedulerInvariant, PTL DEF SchedulerSpec, AdvanceFiresAllDue

-----------------------------------------------------------------------------
(***************************************************************************)
(* The SCU's DMA controller, for any number of its levels, triggers, kinds *)
(* of transfer and delays: RunDMA's assertion holds.                       *)
(***************************************************************************)
ChannelRecord ==
    [enabled : BOOLEAN, active : BOOLEAN, start : BOOLEAN, trigger : Triggers \cup {"Immediate"},
     kind : {"direct", "list", "illegal", "illegalList"}, left : Nat, intrDelay : Nat]

\* A channel that transfers has something left to transfer.
Going(chs) == \A l \in Channels : chs[l].active => chs[l].left \in Nat \ {0}

LevelOK(level, chs) == level \in Channels \cup {NoChannel} /\ (level # NoChannel => chs[level].active)

DmaInv ==
    /\ dma \in [Channels -> ChannelRecord]
    /\ Going(dma)
    /\ LevelOK(activeDMAChannelLevel, dma)

LEMMA MaxOfLevels ==
  ASSUME NEW S \in SUBSET Channels, S # {}
  PROVE  Max(S) \in S
<1>1. \A y \in S : y = 0 \/ y = 1 \/ y = 2
  BY DmaAssumption
<1>2. \E x \in S : \A y \in S : x >= y
  <2>1. CASE 2 \in S
    BY <1>1, <2>1
  <2>2. CASE 2 \notin S /\ 1 \in S
    BY <1>1, <2>2
  <2>3. CASE 2 \notin S /\ 1 \notin S
    BY <1>1, <2>3
  <2>4. QED
    BY <2>1, <2>2, <2>3
<1>3. QED
  BY <1>2 DEF Max

LEMMA SelectedLevel ==
  ASSUME NEW chs
  PROVE  /\ Selected(chs) \in Channels \cup {NoChannel}
         /\ Selected(chs) # NoChannel => Runnable(chs[Selected(chs)]) /\ ~Doomed(chs[Selected(chs)])
<1> DEFINE levels == {l \in Channels : Runnable(chs[l]) /\ ~Doomed(chs[l])}
<1>1. CASE levels = {}
  BY <1>1 DEF Selected
<1>2. CASE levels # {}
  <2>1. Max(levels) \in levels
    BY <1>2, MaxOfLevels
  <2>2. Selected(chs) = Max(levels)
    BY <1>2 DEF Selected
  <2>3. QED
    BY <2>1, <2>2
<1>3. QED
  BY <1>1, <1>2

\* The channel that is started.
LEMMA StartedRecord ==
  ASSUME NEW ch \in ChannelRecord, ch.kind # "illegalList",
         NEW begun, begun = [ch EXCEPT !.start = FALSE, !.active = TRUE, !.left = Pieces[ch.kind]]
  PROVE  begun \in ChannelRecord /\ begun.active /\ begun.left \in Nat \ {0}
<1>1. Pieces[ch.kind] \in Nat \ {0}
  BY DEF Pieces, ChannelRecord
<1>2. QED
  BY <1>1 DEF ChannelRecord

LEMMA UnstartedRecord ==
  ASSUME NEW ch \in ChannelRecord, NEW rest, rest = [ch EXCEPT !.start = FALSE]
  PROVE  rest \in ChannelRecord /\ rest.active = ch.active /\ rest.left = ch.left
BY DEF ChannelRecord

LEMMA RecalcKeeps ==
  ASSUME NEW chs \in [Channels -> ChannelRecord], Going(chs), RecalcDMAChannel(chs)
  PROVE  DmaInv'
<1> DEFINE s == Selected(chs)
           Begun(l) == [chs[l] EXCEPT !.start = FALSE, !.active = TRUE, !.left = Pieces[chs[l].kind]]
           Rest(l) == [chs[l] EXCEPT !.start = FALSE]
<1>1. s \in Channels \cup {NoChannel}
      /\ (s # NoChannel => Runnable(chs[s]) /\ ~Doomed(chs[s]))
  BY SelectedLevel
<1>2. activeDMAChannelLevel' = s /\ dma' = Started(chs)
  BY DEF RecalcDMAChannel
<1>3. ASSUME NEW l \in Channels
      PROVE  /\ Started(chs)[l] \in ChannelRecord
             /\ Started(chs)[l].active => Started(chs)[l].left \in Nat \ {0}
             /\ l = s => Started(chs)[l].active
  <2>1. chs[l] \in ChannelRecord /\ (chs[l].active => chs[l].left \in Nat \ {0})
    BY DEF Going
  <2>2. CASE l = s /\ ~chs[l].active
    <3>1. chs[l].kind # "illegalList"
      BY <1>1, <2>2, DmaAssumption DEF Doomed, NoChannel
    <3>2. Started(chs)[l] = Begun(l)
      BY <2>2 DEF Started
    <3>3. QED
      BY <2>1, <3>1, <3>2, StartedRecord
  <2>3. CASE ~(l = s /\ ~chs[l].active) /\ l > s /\ Runnable(chs[l])
    <3>1. Started(chs)[l] = Rest(l)
      BY <2>3 DEF Started
    <3>2. l # s
      BY <1>1, <2>3, DmaAssumption DEF NoChannel
    <3>3. QED
      BY <2>1, <3>1, <3>2, UnstartedRecord
  <2>4. CASE ~(l = s /\ ~chs[l].active) /\ ~(l > s /\ Runnable(chs[l]))
    <3>1. Started(chs)[l] = chs[l]
      BY <2>4 DEF Started
    <3>2. QED
      BY <2>1, <2>4, <3>1
  <2>5. QED
    BY <2>2, <2>3, <2>4
<1>4. Started(chs) \in [Channels -> ChannelRecord]
  BY <1>3 DEF Started
<1>5. QED
  BY <1>1, <1>2, <1>3, <1>4 DEF DmaInv, Going, LevelOK

\* One channel changed: what Going and LevelOK ask of it.
LEMMA OneChannel ==
  ASSUME DmaInv, NEW l \in Channels, NEW ch \in ChannelRecord,
         ch.active => ch.left \in Nat \ {0},
         NEW chs, chs = [dma EXCEPT ![l] = ch]
  PROVE  /\ chs \in [Channels -> ChannelRecord]
         /\ Going(chs)
         /\ ch.active = dma[l].active => LevelOK(activeDMAChannelLevel, chs)
<1>1. dma \in [Channels -> ChannelRecord] /\ chs[l] = ch
      /\ (\A k \in Channels \ {l} : chs[k] = dma[k])
  BY DEF DmaInv
<1>2. chs \in [Channels -> ChannelRecord]
  BY <1>1
<1>3. Going(chs)
  BY <1>1 DEF DmaInv, Going
<1>4. QED
  BY <1>1, <1>2, <1>3 DEF DmaInv, LevelOK

LEMMA WriteModeKeeps ==
  ASSUME DmaInv, NEW l \in Channels, NEW trigger \in Triggers \cup {"Immediate"}, NEW kind \in Kinds,
         WriteMode(l, trigger, kind)
  PROVE  DmaInv'
<1> DEFINE ch == [dma[l] EXCEPT !.trigger = trigger, !.kind = kind]
<1>1. dma[l] \in ChannelRecord /\ ~dma[l].active
  BY DEF DmaInv, WriteMode
<1>2. ch \in ChannelRecord /\ ch.active = dma[l].active
  BY <1>1, DmaAssumption DEF ChannelRecord
<1>3. dma' = [dma EXCEPT ![l] = ch] /\ UNCHANGED activeDMAChannelLevel
  BY DEF WriteMode
<1>4. QED
  BY <1>1, <1>2, <1>3, OneChannel DEF DmaInv

LEMMA WriteEnableKeeps ==
  ASSUME DmaInv, NEW l \in Channels, NEW enabled \in BOOLEAN, WriteEnable(l, enabled)
  PROVE  DmaInv'
<1> DEFINE ch == [dma[l] EXCEPT !.enabled = enabled]
<1>1. dma[l] \in ChannelRecord /\ (dma[l].active => dma[l].left \in Nat \ {0})
  BY DEF DmaInv, Going
<1>2. ch \in ChannelRecord /\ ch.active = dma[l].active /\ ch.left = dma[l].left
  BY <1>1 DEF ChannelRecord
<1>3. dma' = [dma EXCEPT ![l] = ch] /\ UNCHANGED activeDMAChannelLevel
  BY DEF WriteEnable
<1>4. QED
  BY <1>1, <1>2, <1>3, OneChannel DEF DmaInv

LEMMA TriggerImmediateKeeps ==
  ASSUME DmaInv, NEW l \in Channels, TriggerImmediateDMA(l)
  PROVE  DmaInv'
<1> DEFINE ch == [dma[l] EXCEPT !.enabled = TRUE, !.start = TRUE]
           chs == [dma EXCEPT ![l] = ch]
<1>1. dma[l] \in ChannelRecord /\ ~dma[l].active
  BY DEF DmaInv, TriggerImmediateDMA
<1>2. ch \in ChannelRecord /\ ch.active = dma[l].active
  BY <1>1 DEF ChannelRecord
<1>3. chs = [dma EXCEPT ![l].enabled = TRUE, ![l].start = TRUE]
  BY DEF DmaInv
<1>4. RecalcDMAChannel(chs)
  BY <1>3 DEF TriggerImmediateDMA
<1>5. chs \in [Channels -> ChannelRecord] /\ Going(chs)
  BY <1>1, <1>2, OneChannel
<1>6. QED
  BY <1>4, <1>5, RecalcKeeps

LEMMA TriggerTransferKeeps ==
  ASSUME DmaInv, NEW trigger \in Triggers, TriggerDMATransfer(trigger)
  PROVE  DmaInv'
<1> DEFINE chs == Signalled(trigger)
<1>1. ASSUME NEW l \in Channels
      PROVE  /\ chs[l] \in ChannelRecord
             /\ chs[l].active => chs[l].left \in Nat \ {0}
  <2>1. dma[l] \in ChannelRecord /\ (dma[l].active => dma[l].left \in Nat \ {0})
    BY DEF DmaInv, Going
  <2>2. [dma[l] EXCEPT !.start = TRUE] \in ChannelRecord
        /\ [dma[l] EXCEPT !.start = TRUE].active = dma[l].active
        /\ [dma[l] EXCEPT !.start = TRUE].left = dma[l].left
    BY <2>1 DEF ChannelRecord
  <2>3. QED
    BY <2>1, <2>2 DEF Signalled
<1>2. chs \in [Channels -> ChannelRecord]
  BY <1>1 DEF Signalled
<1>3. QED
  BY <1>1, <1>2, RecalcKeeps DEF TriggerDMATransfer, Going

LEMMA ForceStopKeeps ==
  ASSUME DmaInv, ForceStop
  PROVE  DmaInv'
<1>1. ASSUME NEW l \in Channels
      PROVE  dma'[l] \in ChannelRecord /\ dma'[l].active = FALSE
  <2>1. dma[l] \in ChannelRecord /\ dma'[l] = [dma[l] EXCEPT !.active = FALSE]
    BY DEF DmaInv, ForceStop
  <2>2. QED
    BY <2>1 DEF ChannelRecord
<1>2. dma' \in [Channels -> ChannelRecord]
  BY <1>1 DEF ForceStop
<1>3. QED
  BY <1>1, <1>2 DEF ForceStop, DmaInv, Going, LevelOK

LEMMA AdvanceKeeps ==
  ASSUME DmaInv, NEW cycles \in Cycles, AdvanceDMA(cycles)
  PROVE  DmaInv'
<1>1. ASSUME NEW l \in Channels
      PROVE  dma'[l] \in ChannelRecord /\ dma'[l].active = dma[l].active /\ dma'[l].left = dma[l].left
  <2> DEFINE delay == IF dma[l].intrDelay > cycles THEN dma[l].intrDelay - cycles ELSE 0
  <2>1. dma[l] \in ChannelRecord /\ dma'[l] = [dma[l] EXCEPT !.intrDelay = delay]
    BY DEF DmaInv, AdvanceDMA
  <2>2. dma[l].intrDelay \in Nat /\ cycles \in Nat
    BY <2>1, DmaAssumption DEF ChannelRecord
  <2>3. delay \in Nat
    BY <2>2
  <2>4. QED
    BY <2>1, <2>3 DEF ChannelRecord
<1>2. dma' \in [Channels -> ChannelRecord]
  BY <1>1 DEF AdvanceDMA
<1>3. QED
  BY <1>1, <1>2 DEF AdvanceDMA, DmaInv, Going, LevelOK

\* What RunDMA works on.
LEMMA CurrentRecord ==
  ASSUME DmaInv, Working
  PROVE  /\ activeDMAChannelLevel \in Channels
         /\ Current = dma[activeDMAChannelLevel]
         /\ Current \in ChannelRecord
         /\ Current.active
         /\ Current.left \in Nat \ {0}
<1>1. activeDMAChannelLevel \in Channels /\ dma[activeDMAChannelLevel].active
  BY DEF DmaInv, LevelOK, Working
<1>2. QED
  BY <1>1 DEF DmaInv, Going, Current

LEMMA TransferPieceKeeps ==
  ASSUME DmaInv, Working, TransferPiece
  PROVE  DmaInv'
<1> DEFINE l == activeDMAChannelLevel
           ch == [dma[l] EXCEPT !.left = @ - 1]
<1>1. l \in Channels /\ dma[l] \in ChannelRecord /\ dma[l].left \in Nat /\ dma[l].left > 1
  BY CurrentRecord DEF TransferPiece, Current
<1>2. dma[l].left - 1 \in Nat \ {0}
  BY <1>1
<1>3. ch \in ChannelRecord /\ ch.active = dma[l].active /\ ch.left \in Nat \ {0}
  BY <1>1, <1>2 DEF ChannelRecord
<1>4. dma' = [dma EXCEPT ![l] = ch] /\ UNCHANGED activeDMAChannelLevel
  BY DEF TransferPiece
<1>5. QED
  BY <1>1, <1>3, <1>4, OneChannel DEF DmaInv

LEMMA EndedKeeps ==
  ASSUME DmaInv, NEW l \in Channels, NEW delay \in Nat,
         NEW chs, \/ chs = [dma EXCEPT ![l].active = FALSE, ![l].left = 0]
                  \/ chs = [dma EXCEPT ![l].active = FALSE, ![l].left = 0, ![l].intrDelay = delay],
         RecalcDMAChannel(chs)
  PROVE  DmaInv'
<1> DEFINE ended == [dma[l] EXCEPT !.active = FALSE, !.left = 0]
           put == [dma[l] EXCEPT !.active = FALSE, !.left = 0, !.intrDelay = delay]
<1>1. dma[l] \in ChannelRecord
  BY DEF DmaInv
<1>2. ended \in ChannelRecord /\ ended.active = FALSE /\ put \in ChannelRecord /\ put.active = FALSE
  BY <1>1 DEF ChannelRecord
<1>3. chs = [dma EXCEPT ![l] = ended] \/ chs = [dma EXCEPT ![l] = put]
  BY DEF DmaInv
<1>4. chs \in [Channels -> ChannelRecord] /\ Going(chs)
  <2>1. CASE chs = [dma EXCEPT ![l] = ended]
    BY <1>2, <2>1, OneChannel
  <2>2. CASE chs = [dma EXCEPT ![l] = put]
    BY <1>2, <2>2, OneChannel
  <2>3. QED
    BY <1>3, <2>1, <2>2
<1>5. QED
  BY <1>4, RecalcKeeps

LEMMA FinishTransferKeeps ==
  ASSUME DmaInv, Working, FinishTransfer
  PROVE  DmaInv'
<1> DEFINE l == activeDMAChannelLevel
           done == [dma EXCEPT ![l].active = FALSE, ![l].left = 0]
<1>1. l \in Channels
  BY CurrentRecord
<1>2. CASE Current.trigger = "Immediate"
  <2>1. PICK delay \in Delays : RecalcDMAChannel([done EXCEPT ![l].intrDelay = delay])
    BY <1>2 DEF FinishTransfer
  <2>2. delay \in Nat
    BY DmaAssumption
  <2>3. QED
    BY <1>1, <2>1, <2>2, EndedKeeps
<1>3. CASE Current.trigger # "Immediate"
  <2>1. RecalcDMAChannel(done)
    BY <1>3 DEF FinishTransfer
  <2>2. 0 \in Nat
    OBVIOUS
  <2>3. QED
    BY <1>1, <2>1, <2>2, EndedKeeps
<1>4. QED
  BY <1>2, <1>3

LEMMA DropIllegalKeeps ==
  ASSUME DmaInv, Working, DropIllegal
  PROVE  DmaInv'
<1> DEFINE l == activeDMAChannelLevel
<1>1. l \in Channels
  BY CurrentRecord
<1>2. RecalcDMAChannel([dma EXCEPT ![l].active = FALSE, ![l].left = 0])
  BY DEF DropIllegal
<1>3. 0 \in Nat
  OBVIOUS
<1>4. QED
  BY <1>1, <1>2, <1>3, EndedKeeps

LEMMA DmaInitHolds == DmaInit => DmaInv
BY DmaAssumption DEF DmaInit, DmaInv, Going, LevelOK, ChannelRecord, NoChannel

THEOREM DmaInvariant == DmaSpec => []DmaInv
<1>1. DmaInv /\ [DmaNext]_dmaVars => DmaInv'
  <2> SUFFICES ASSUME DmaInv, [DmaNext]_dmaVars PROVE DmaInv'
    OBVIOUS
  <2>1. CASE \E l \in Channels, trigger \in Triggers \cup {"Immediate"}, kind \in Kinds :
                 WriteMode(l, trigger, kind)
    BY <2>1, WriteModeKeeps
  <2>2. CASE \E l \in Channels, enabled \in BOOLEAN : WriteEnable(l, enabled)
    BY <2>2, WriteEnableKeeps
  <2>3. CASE \E l \in Channels : TriggerImmediateDMA(l)
    BY <2>3, TriggerImmediateKeeps
  <2>4. CASE AnySignal
    BY <2>4, TriggerTransferKeeps DEF AnySignal
  <2>5. CASE ForceStop
    BY <2>5, ForceStopKeeps
  <2>6. CASE AnyAdvance
    BY <2>6, AdvanceKeeps DEF AnyAdvance
  <2>7. CASE \E l \in Channels : Transfer(l)
    BY <2>7, TransferPieceKeeps, FinishTransferKeeps, DropIllegalKeeps DEF Transfer
  <2>8. CASE Stall \/ RunDMAReturns \/ UNCHANGED dmaVars
    BY <2>8 DEF Stall, RunDMAReturns, dmaVars, DmaInv, Going, LevelOK
  <2>9. QED
    BY <2>1, <2>2, <2>3, <2>4, <2>5, <2>6, <2>7, <2>8 DEF DmaNext
<1>2. QED
  BY <1>1, DmaInitHolds, PTL DEF DmaSpec

\* RunDMA's assertion: the level in service is that of a channel that
\* transfers, whatever has ended, been stopped or been refused (scu.cpp 696).
THEOREM DmaSelectsActive == DmaSpec => []SelectedIsActive
<1>1. DmaInv => SelectedIsActive
  BY DEF DmaInv, Going, LevelOK, SelectedIsActive, Current
<1>2. QED
  BY <1>1, DmaInvariant, PTL

-----------------------------------------------------------------------------
(***************************************************************************)
(* The CD block's host port with the SCU's interrupts: for every set of    *)
(* internal sources, masks and flags, a response is the answer to the      *)
(* program's own command, and no interrupt is lost on its way, if the      *)
(* handler acknowledges before it looks at the flags.                      *)
(***************************************************************************)
USE InterruptsAssumption

-----------------------------------------------------------------------------
(* The interrupt controller. *)

LEMMA LowestInternal ==
  ASSUME NEW S \in SUBSET Internal, S # {}
  PROVE  Min(S) \in S
<1>1. \E x \in S : \A y \in S : x <= y
  BY LowestNatural
<1>2. QED
  BY <1>1 DEF Min

LEMMA ExternalOne ==
  ASSUME NEW S \in SUBSET External, S # {}
  PROVE  S = {16} /\ Min(S) = 16
<1>1. S = {16}
  BY DEF External
<1>2. QED
  BY <1>1 DEF Min

LEMMA Levels ==
  /\ \A s \in Sources : Level[s] \in 1 .. 15
  /\ Level[16] = 7
  /\ Level[Boot] = 15
  /\ None \notin Sources
  /\ 16 \notin Internal
  /\ Boot \notin Sources
BY DEF Sources, External, Level, Boot, None

\* What is offered is in the status register; nothing is offered only if no
\* bit is let through, or the A-Bus waits for its acknowledgement.
LEMMA CandidateSource ==
  ASSUME NEW status \in SUBSET Sources, NEW mask, NEW abus \in BOOLEAN, NEW acks \in SUBSET External
  PROVE  LET s == Candidate(status, mask, abus, acks) IN
         /\ s \in status \cup {None}
         /\ s = None /\ acks = {} => InternalBits(status, mask) = {} /\ ExternalBits(status, abus) = {}
<1> DEFINE internalBits == InternalBits(status, mask)
           externalBits == ExternalBits(status, abus)
           s == Candidate(status, mask, abus, acks)
<1>1. internalBits \in SUBSET Internal /\ internalBits \subseteq status
      /\ externalBits \in SUBSET External /\ externalBits \subseteq status
  BY DEF InternalBits, ExternalBits, External
<1>2. /\ internalBits # {} => Min(internalBits) \in internalBits /\ Min(internalBits) # None
      /\ externalBits # {} => Min(externalBits) \in externalBits /\ Min(externalBits) # None
  BY <1>1, LowestInternal, ExternalOne, Levels DEF Sources
<1>3. s = IF internalBits = {} /\ externalBits = {} THEN None
          ELSE IF (IF internalBits = {} THEN 0 ELSE Level[Min(internalBits)])
                     >= (IF externalBits = {} THEN 0 ELSE Level[Min(externalBits)])
               THEN Min(internalBits)
          ELSE IF Min(externalBits) \notin acks THEN Min(externalBits) ELSE None
  BY DEF Candidate
<1>4. internalBits = {} /\ externalBits # {} =>
          ~((IF internalBits = {} THEN 0 ELSE Level[Min(internalBits)])
                     >= (IF externalBits = {} THEN 0 ELSE Level[Min(externalBits)]))
  BY <1>1, ExternalOne, Levels
<1>5. internalBits # {} /\ externalBits = {} =>
          (IF internalBits = {} THEN 0 ELSE Level[Min(internalBits)])
                     >= (IF externalBits = {} THEN 0 ELSE Level[Min(externalBits)])
  <2>1. internalBits # {} => Min(internalBits) \in Sources
    BY <1>1, <1>2 DEF Sources
  <2>2. internalBits # {} => Level[Min(internalBits)] \in 1 .. 15
    BY <2>1, Levels
  <2> HIDE DEF internalBits, externalBits
  <2>3. QED
    BY <2>2
<1> HIDE DEF internalBits, externalBits, s
<1>6. QED
  BY <1>1, <1>2, <1>3, <1>4, <1>5 DEF internalBits, externalBits, s

\* Examining the registers forgets nothing: what was latched stays latched or
\* is offered, and what is offered stays offered.
LEMMA UpdateKeeps ==
  ASSUME NEW status \in SUBSET Sources, NEW mask, NEW abus \in BOOLEAN, NEW acks \in SUBSET External,
         pendingIntr \in Sources \cup {None},
         UpdateMasterInterruptLevel(status, mask, abus, acks)
  PROVE  /\ intrStatus' \in SUBSET Sources
         /\ pendingIntr' \in Sources \cup {None}
         /\ abusIntrsPendingAck' \in SUBSET External
         /\ pendingIntr # None => pendingIntr' = pendingIntr
         /\ 16 \in status => 16 \in intrStatus' \/ pendingIntr' = 16
         /\ 16 \in abusIntrsPendingAck' => 16 \in acks \/ pendingIntr' = 16
         /\ pendingIntr' = None /\ 16 \notin abusIntrsPendingAck' =>
                InternalBits(intrStatus', mask) = {} /\ ExternalBits(intrStatus', abus) = {}
<1> DEFINE s == Candidate(status, mask, abus, acks)
<1>1. /\ s \in status \cup {None}
      /\ s = None /\ acks = {} => InternalBits(status, mask) = {} /\ ExternalBits(status, abus) = {}
  BY CandidateSource
<1>2. CASE pendingIntr # None \/ s = None
  <2>1. intrStatus' = status /\ abusIntrsPendingAck' = acks /\ pendingIntr' = pendingIntr
    BY <1>2 DEF UpdateMasterInterruptLevel
  <2>2. 16 \notin acks => acks = {}
    BY DEF External
  <2> HIDE DEF s
  <2>3. QED
    BY <1>1, <1>2, <2>1, <2>2
<1>3. CASE ~(pendingIntr # None \/ s = None)
  <2>1. pendingIntr' = s /\ intrStatus' = status \ {s} /\ abusIntrsPendingAck' = acks \cup ({s} \cap External)
    BY <1>3 DEF UpdateMasterInterruptLevel
  <2> HIDE DEF s
  <2>2. QED
    BY <1>1, <1>3, <2>1 DEF External
<1>4. QED
  BY <1>2, <1>3

-----------------------------------------------------------------------------
(* Interrupts on their way. *)

InterruptTypeOK ==
    /\ intrStatus \in SUBSET Sources
    /\ abusMask \in BOOLEAN
    /\ abusIntrsPendingAck \in SUBSET External
    /\ pendingIntr \in Sources \cup {None}
    /\ handlers \in Seq(Sources \cup {Boot})

HasHandler(s) == \E i \in DOMAIN handlers : handlers[i] = s

\* Handlers are nested by rising levels; the boot code has the highest.
Nested ==
    /\ \A i, j \in DOMAIN handlers : i < j => Level[handlers[i]] < Level[handlers[j]]
    /\ HasHandler(Boot) => handlers = <<Boot>>

\* An external interrupt that is not acknowledged is offered, or its handler
\* has not come to the acknowledgement.
Unacknowledged ==
    /\ stage # 0 => HasHandler(16)
    /\ 16 \in abusIntrsPendingAck => pendingIntr = 16 \/ (HasHandler(16) /\ stage = 0)

InterruptInv == InterruptTypeOK /\ Nested /\ Unacknowledged /\ FlagInterrupts /\ NothingLeftBehind

LEMMA HandlerSet == ASSUME NEW s PROVE s \in {handlers[i] : i \in DOMAIN handlers} <=> HasHandler(s)
BY DEF HasHandler

\* The registers are examined, with or without a new interrupt, and no handler
\* comes or goes.
LEMMA ExaminedKeeps ==
  ASSUME InterruptTypeOK, Nested, Unacknowledged,
         NEW status \in SUBSET Sources, 16 \in intrStatus => 16 \in status,
         NEW abus \in BOOLEAN,
         UpdateMasterInterruptLevel(status, intrMask', abus, abusIntrsPendingAck),
         abusMask' = abus, UNCHANGED handlers, stage' = 0 <=> stage = 0
  PROVE  /\ InterruptTypeOK' /\ Nested' /\ Unacknowledged' /\ NothingLeftBehind'
         /\ pendingIntr = 16 => pendingIntr' = 16
         /\ 16 \in status => 16 \in intrStatus' \/ pendingIntr' = 16
<1>1. /\ intrStatus' \in SUBSET Sources
      /\ pendingIntr' \in Sources \cup {None}
      /\ abusIntrsPendingAck' \in SUBSET External
      /\ pendingIntr # None => pendingIntr' = pendingIntr
      /\ 16 \in status => 16 \in intrStatus' \/ pendingIntr' = 16
      /\ 16 \in abusIntrsPendingAck' => 16 \in abusIntrsPendingAck \/ pendingIntr' = 16
      /\ pendingIntr' = None /\ 16 \notin abusIntrsPendingAck' =>
             InternalBits(intrStatus', intrMask') = {} /\ ExternalBits(intrStatus', abus) = {}
  BY UpdateKeeps DEF InterruptTypeOK
<1>2. InterruptTypeOK'
  BY <1>1 DEF InterruptTypeOK
<1>3. Nested'
  BY DEF Nested, HasHandler
<1>4. pendingIntr = 16 => pendingIntr' = 16
  BY <1>1 DEF None
<1>5. Unacknowledged'
  BY <1>1, <1>4 DEF Unacknowledged, HasHandler
<1>6. NothingLeftBehind'
  <2>1. handlers' = <<>> => ~HasHandler(16)'
    BY DEF HasHandler
  <2>2. handlers' = <<>> /\ pendingIntr' = None => 16 \notin abusIntrsPendingAck'
    BY <1>5, <2>1 DEF Unacknowledged, None
  <2>3. QED
    BY <1>1, <2>2 DEF NothingLeftBehind
<1>7. QED
  BY <1>1, <1>2, <1>3, <1>4, <1>5, <1>6

\* The flags that were on their way still are.
LEMMA FlagsStay ==
  ASSUME FlagInterrupts, UNCHANGED <<HIRQ, HIRQMASK, stage, handlers>>, program = Starting => program' = Starting,
         pendingIntr = 16 => pendingIntr' = 16,
         16 \in intrStatus => 16 \in intrStatus' \/ pendingIntr' = 16
  PROVE  FlagInterrupts'
BY DEF FlagInterrupts

LEMMA TriggerKeeps ==
  ASSUME InterruptInv, NEW s \in Internal, Trigger(s), UNCHANGED portVars
  PROVE  InterruptInv'
<1> DEFINE status == intrStatus \cup {s}
<1>1. /\ InterruptTypeOK /\ Nested /\ Unacknowledged /\ FlagInterrupts
      /\ UNCHANGED <<HIRQ, HIRQMASK, stage, program, handlers, intrMask, abusMask>>
      /\ UpdateMasterInterruptLevel(status, intrMask', abusMask, abusIntrsPendingAck)
  BY DEF InterruptInv, Trigger, portVars
<1>2. status \in SUBSET Sources /\ abusMask \in BOOLEAN
  BY <1>1 DEF InterruptTypeOK, Sources
<1>3. /\ InterruptTypeOK' /\ Nested' /\ Unacknowledged' /\ NothingLeftBehind'
      /\ pendingIntr = 16 => pendingIntr' = 16
      /\ 16 \in status => 16 \in intrStatus' \/ pendingIntr' = 16
  BY <1>1, <1>2, ExaminedKeeps
<1>4. QED
  BY <1>1, <1>3, FlagsStay DEF InterruptInv

LEMMA WriteISTKeeps ==
  ASSUME InterruptInv, NEW s \in Internal, WriteIST(s), UNCHANGED portVars
  PROVE  InterruptInv'
<1>1. /\ intrStatus' = intrStatus \ {s}
      /\ UNCHANGED <<HIRQ, HIRQMASK, stage, program, handlers, intrMask, abusMask, abusIntrsPendingAck, pendingIntr>>
  BY DEF WriteIST, portVars
<1>2. 16 \in intrStatus => 16 \in intrStatus'
  BY <1>1, Levels
<1>3. InterruptTypeOK' /\ Nested' /\ Unacknowledged'
  BY <1>1 DEF InterruptInv, InterruptTypeOK, Nested, Unacknowledged, HasHandler
<1>4. NothingLeftBehind'
  BY <1>1 DEF InterruptInv, NothingLeftBehind, InternalBits, ExternalBits
<1>5. FlagInterrupts'
  BY <1>1, <1>2, FlagsStay DEF InterruptInv
<1>6. QED
  BY <1>3, <1>4, <1>5 DEF InterruptInv

LEMMA ProgramMaskKeeps ==
  ASSUME InterruptInv, ProgramMask
  PROVE  InterruptInv'
<1>1. PICK m \in Masks : WriteIMS(m)
  BY DEF ProgramMask
<1>2. m[2] \in BOOLEAN
  OBVIOUS
<1>3. /\ InterruptTypeOK /\ Nested /\ Unacknowledged /\ FlagInterrupts
      /\ UNCHANGED <<HIRQ, HIRQMASK, stage, program, handlers>>
      /\ abusMask' = m[2]
      /\ UpdateMasterInterruptLevel(intrStatus, intrMask', m[2], abusIntrsPendingAck)
  BY <1>1 DEF InterruptInv, ProgramMask, WriteIMS, portVars
<1>4. intrStatus \in SUBSET Sources
  BY <1>3 DEF InterruptTypeOK
<1>5. /\ InterruptTypeOK' /\ Nested' /\ Unacknowledged' /\ NothingLeftBehind'
      /\ pendingIntr = 16 => pendingIntr' = 16
      /\ 16 \in intrStatus => 16 \in intrStatus' \/ pendingIntr' = 16
  BY <1>2, <1>3, <1>4, ExaminedKeeps
<1>6. QED
  BY <1>3, <1>5, FlagsStay DEF InterruptInv

\* A level as high as a handler's is not accepted: no handler runs twice.
LEMMA AcceptKeeps ==
  ASSUME InterruptInv, AcknowledgeExternalInterrupt, UNCHANGED portVars
  PROVE  InterruptInv'
<1> DEFINE s == pendingIntr
           n == Len(handlers)
<1>1. /\ s \in Sources /\ Level[s] > ServedLevel /\ s # None
      /\ handlers' = Append(handlers, s) /\ pendingIntr' = None /\ abusMask' = TRUE
      /\ UNCHANGED <<intrStatus, abusIntrsPendingAck, HIRQ, HIRQMASK, stage, program>>
  BY DEF AcknowledgeExternalInterrupt, InterruptInv, InterruptTypeOK, portVars
<1>2. handlers \in Seq(Sources \cup {Boot}) /\ n \in Nat
  BY DEF InterruptInv, InterruptTypeOK
<1>3. /\ DOMAIN handlers = 1 .. n /\ DOMAIN handlers' = 1 .. n + 1
      /\ handlers'[n + 1] = s
      /\ \A i \in 1 .. n : handlers'[i] = handlers[i] /\ handlers[i] \in Sources \cup {Boot}
  BY <1>1, <1>2
<1>4. \A i \in 1 .. n : Level[handlers[i]] < Level[s]
  <2> SUFFICES ASSUME NEW i \in 1 .. n PROVE Level[handlers[i]] < Level[s]
    OBVIOUS
  <2>1. n # 0 /\ handlers # <<>> /\ ServedLevel = Level[handlers[n]]
    BY <1>2 DEF ServedLevel
  <2>2. Level[handlers[i]] \in 1 .. 15 /\ Level[handlers[n]] \in 1 .. 15 /\ Level[s] \in 1 .. 15
    <3>1. n \in 1 .. n /\ s \in Sources
      BY <1>1, <1>2, <2>1
    <3>2. handlers[i] \in Sources \cup {Boot} /\ handlers[n] \in Sources \cup {Boot}
      BY <1>3, <3>1
    <3>3. QED
      BY <3>1, <3>2, Levels
  <2>3. i = n \/ Level[handlers[i]] < Level[handlers[n]]
    <3>1. i # n => i < n
      BY <1>2
    <3>2. n \in 1 .. n
      BY <1>2, <2>1
    <3>3. QED
      BY <1>3, <3>1, <3>2 DEF InterruptInv, Nested
  <2>4. Level[s] > ServedLevel
    BY <1>1
  <2> HIDE DEF n, s
  <2>5. QED
    BY <2>1, <2>2, <2>3, <2>4
<1>5. /\ s = 16 => ~HasHandler(16)
      /\ ~HasHandler(Boot)
  BY <1>1, <1>3, <1>4, Levels DEF HasHandler
<1>6. InterruptTypeOK'
  <2>1. handlers' \in Seq(Sources \cup {Boot})
    BY <1>1, <1>2
  <2>2. QED
    BY <1>1, <2>1 DEF InterruptInv, InterruptTypeOK
<1>7. HasHandler(16)' <=> HasHandler(16) \/ s = 16
  BY <1>2, <1>3 DEF HasHandler
<1>8. Nested'
  <2>1. ~HasHandler(Boot)'
    BY <1>1, <1>2, <1>3, <1>5, Levels DEF HasHandler
  <2>2. ASSUME NEW i \in 1 .. n + 1, NEW j \in 1 .. n + 1, i < j
        PROVE  Level[handlers'[i]] < Level[handlers'[j]]
    <3>1. CASE j = n + 1
      BY <1>2, <1>3, <1>4, <2>2, <3>1
    <3>2. CASE j # n + 1
      <4>1. i \in 1 .. n /\ j \in 1 .. n
        BY <1>2, <2>2, <3>2
      <4>2. QED
        BY <1>3, <2>2, <4>1 DEF InterruptInv, Nested
    <3>3. QED
      BY <3>1, <3>2
  <2>3. QED
    BY <1>3, <2>1, <2>2 DEF Nested
<1>9. Unacknowledged'
  BY <1>1, <1>5, <1>7 DEF InterruptInv, Unacknowledged, HasHandler
<1>10. FlagInterrupts'
  <2>1. s = 16 => stage = 0
    BY <1>5 DEF InterruptInv, Unacknowledged
  <2>2. HIRQ \cap HIRQMASK # {} /\ program # Starting =>
            s = 16 \/ 16 \in intrStatus \/ (HasHandler(16) /\ stage < 3)
    BY HandlerSet DEF InterruptInv, FlagInterrupts
  <2>3. 16 \in {handlers'[i] : i \in DOMAIN handlers'} <=> HasHandler(16)'
    BY DEF HasHandler
  <2>4. QED
    BY <1>1, <1>7, <2>1, <2>2, <2>3 DEF FlagInterrupts
<1>11. NothingLeftBehind'
  <2>1. n + 1 \in DOMAIN handlers'
    BY <1>2, <1>3
  <2>2. handlers' # <<>>
    BY <2>1
  <2>3. QED
    BY <2>2 DEF NothingLeftBehind
<1>12. QED
  BY <1>6, <1>8, <1>9, <1>10, <1>11 DEF InterruptInv

\* A flag raised, cleared or let through while the A-Bus waits for its
\* acknowledgement is met by a handler that has not looked yet.
LEMMA SignalKeeps ==
  ASSUME InterruptInv, UpdateInterrupts, stage' = 0 <=> stage = 0
  PROVE  InterruptInv'
<1>1. /\ InterruptTypeOK /\ Nested /\ Unacknowledged /\ NothingLeftBehind
      /\ UNCHANGED <<intrMask, abusMask, handlers>>
  BY DEF InterruptInv, UpdateInterrupts
<1>2. CASE /\ HIRQ' \cap HIRQMASK' # {}
           /\ 16 \notin intrStatus \cup abusIntrsPendingAck
  <2> DEFINE status == intrStatus \cup {16}
  <2>1. UpdateMasterInterruptLevel(status, intrMask', abusMask, abusIntrsPendingAck)
    BY <1>1, <1>2 DEF UpdateInterrupts, TriggerExternalInterrupt0
  <2>2. status \in SUBSET Sources /\ abusMask \in BOOLEAN
    BY <1>1 DEF InterruptTypeOK, Sources, External
  <2>3. /\ InterruptTypeOK' /\ Nested' /\ Unacknowledged' /\ NothingLeftBehind'
        /\ 16 \in intrStatus' \/ pendingIntr' = 16
    BY <1>1, <2>1, <2>2, ExaminedKeeps
  <2>4. QED
    BY <2>3 DEF InterruptInv, FlagInterrupts
<1>3. CASE ~(/\ HIRQ' \cap HIRQMASK' # {}
             /\ 16 \notin intrStatus \cup abusIntrsPendingAck)
  <2>1. UNCHANGED <<intrStatus, abusIntrsPendingAck, pendingIntr, intrMask, abusMask, handlers>>
    BY <1>1, <1>3 DEF UpdateInterrupts, TriggerExternalInterrupt0
  <2>2. InterruptTypeOK' /\ Nested' /\ Unacknowledged' /\ NothingLeftBehind'
    BY <1>1, <2>1 DEF InterruptTypeOK, Nested, Unacknowledged, HasHandler, NothingLeftBehind,
                      InternalBits, ExternalBits
  <2>3. HIRQ' \cap HIRQMASK' # {} =>
            16 \in intrStatus' \/ pendingIntr' = 16 \/ (HasHandler(16)' /\ stage' = 0)
    BY <1>1, <1>3, <2>1 DEF Unacknowledged, HasHandler
  <2>4. FlagInterrupts'
    BY <2>3 DEF FlagInterrupts, HasHandler
  <2>5. QED
    BY <2>2, <2>4 DEF InterruptInv
<1>4. QED
  BY <1>2, <1>3

\* Steps that touch neither the flags nor the interrupts.
LEMMA QuietKeeps ==
  ASSUME InterruptInv, UNCHANGED <<HIRQ, HIRQMASK, stage, interruptVars>>,
         program = Starting => program' = Starting
  PROVE  InterruptInv'
<1>1. UNCHANGED <<intrStatus, abusIntrsPendingAck, pendingIntr, intrMask, abusMask, handlers>>
  BY DEF interruptVars
<1>2. InterruptTypeOK' /\ Nested' /\ Unacknowledged' /\ NothingLeftBehind'
  BY <1>1 DEF InterruptInv, InterruptTypeOK, Nested, Unacknowledged, HasHandler, NothingLeftBehind,
              InternalBits, ExternalBits
<1>3. FlagInterrupts'
  BY <1>1 DEF InterruptInv, FlagInterrupts
<1>4. QED
  BY <1>2, <1>3 DEF InterruptInv

\* The program's own steps change the flags through UpdateInterrupts only.
LEMMA ProgramKeeps ==
  ASSUME InterruptInv,
         \/ \E value \in HirqMasks : WriteHIRQMASK(value)
         \/ \E kind \in CommandKinds : Prepare(kind)
         \/ WriteCR \/ SeeAnswer \/ StartPoll \/ ReadRR
  PROVE  InterruptInv'
<1>1. ASSUME NEW value \in HirqMasks, WriteHIRQMASK(value) PROVE InterruptInv'
  BY <1>1, SignalKeeps DEF WriteHIRQMASK
<1>2. ASSUME NEW kind \in CommandKinds, Prepare(kind) PROVE InterruptInv'
  BY <1>2, SignalKeeps DEF Prepare, WriteHIRQ
<1>3. CASE WriteCR
  BY <1>3, QuietKeeps DEF WriteCR, Starting
<1>4. CASE SeeAnswer
  BY <1>4, QuietKeeps DEF SeeAnswer, Starting
<1>5. CASE StartPoll
  BY <1>5, QuietKeeps DEF StartPoll, Starting, Idle
<1>6. CASE ReadRR
  BY <1>6, QuietKeeps DEF ReadRR, Starting
<1>7. QED
  BY <1>1, <1>2, <1>3, <1>4, <1>5, <1>6

LEMMA BlockKeeps ==
  ASSUME InterruptInv, ProcessCommand \/ PeriodicReport \/ ReadSectorFlag
  PROVE  InterruptInv'
<1>1. CASE ProcessCommand
  <2>1. CASE sent = "implemented"
    BY <1>1, <2>1, SignalKeeps DEF ProcessCommand, SetInterrupt
  <2>2. CASE sent # "implemented"
    BY <1>1, <2>2, QuietKeeps DEF ProcessCommand
  <2>3. QED
    BY <2>1, <2>2
<1>2. CASE PeriodicReport
  BY <1>2, SignalKeeps DEF PeriodicReport, SetInterrupt
<1>3. CASE ReadSectorFlag
  BY <1>3, SignalKeeps DEF ReadSectorFlag, SetInterrupt
<1>4. QED
  BY <1>1, <1>2, <1>3

LEMMA RunningHandler ==
  ASSUME InterruptTypeOK, handlers # <<>>
  PROVE  /\ Len(handlers) \in Nat \ {0}
         /\ DOMAIN handlers = 1 .. Len(handlers)
         /\ handlers[Len(handlers)] \in Sources \cup {Boot}
         /\ InCDHandler => HasHandler(16)
BY DEF InterruptTypeOK, InCDHandler, HasHandler

\* The registers are examined with what is left to acknowledge.
LEMMA AcknowledgedKeeps ==
  ASSUME InterruptTypeOK, NEW status \in SUBSET Sources, NEW abus \in BOOLEAN,
         NEW acks \in SUBSET External, UpdateMasterInterruptLevel(status, intrMask, abus, acks)
  PROVE  /\ intrStatus' \in SUBSET Sources
         /\ pendingIntr' \in Sources \cup {None}
         /\ abusIntrsPendingAck' \in SUBSET External
         /\ pendingIntr # None => pendingIntr' = pendingIntr
         /\ 16 \in status => 16 \in intrStatus' \/ pendingIntr' = 16
         /\ 16 \in abusIntrsPendingAck' => 16 \in acks \/ pendingIntr' = 16
         /\ pendingIntr' = None /\ 16 \notin abusIntrsPendingAck' =>
                InternalBits(intrStatus', intrMask) = {} /\ ExternalBits(intrStatus', abus) = {}
BY UpdateKeeps DEF InterruptTypeOK

\* The acknowledgement comes before the look at the flags.
LEMMA HandlerAcknowledgeKeeps ==
  ASSUME AcknowledgeFirst, InterruptInv, HandlerAcknowledge
  PROVE  InterruptInv'
<1>1. /\ InterruptTypeOK /\ handlers # <<>> /\ InCDHandler
      /\ UNCHANGED <<intrMask, abusMask, handlers>>
      /\ UpdateMasterInterruptLevel(intrStatus, intrMask, abusMask, {})
  BY DEF InterruptInv, HandlerAcknowledge, InCDHandler, WriteAIACK
<1>2. stage = 0 /\ stage' = 1
  BY DEF HandlerAcknowledge
<1>3. HasHandler(16)'
  BY <1>1, RunningHandler DEF HasHandler
<1>4. /\ intrStatus' \in SUBSET Sources
      /\ pendingIntr' \in Sources \cup {None}
      /\ abusIntrsPendingAck' \in SUBSET External
      /\ 16 \in abusIntrsPendingAck' => pendingIntr' = 16
  <2>1. intrStatus \in SUBSET Sources /\ abusMask \in BOOLEAN
    BY <1>1 DEF InterruptTypeOK
  <2>2. ASSUME NEW acks \in SUBSET External, acks = {}
        PROVE  /\ intrStatus' \in SUBSET Sources
               /\ pendingIntr' \in Sources \cup {None}
               /\ abusIntrsPendingAck' \in SUBSET External
               /\ 16 \in abusIntrsPendingAck' => pendingIntr' = 16
    <3>1. UpdateMasterInterruptLevel(intrStatus, intrMask, abusMask, acks)
      BY <1>1, <2>2
    <3>2. 16 \in abusIntrsPendingAck' => 16 \in acks \/ pendingIntr' = 16
      BY <1>1, <2>1, <3>1, AcknowledgedKeeps
    <3>3. /\ intrStatus' \in SUBSET Sources
          /\ pendingIntr' \in Sources \cup {None}
          /\ abusIntrsPendingAck' \in SUBSET External
      BY <1>1, <2>1, <3>1, AcknowledgedKeeps
    <3>4. QED
      BY <2>2, <3>2, <3>3
  <2>3. {} \in SUBSET External
    OBVIOUS
  <2>4. QED
    BY <2>2, <2>3, Zenon
<1>5. InterruptTypeOK'
  BY <1>1, <1>4 DEF InterruptTypeOK
<1>6. Nested'
  BY <1>1 DEF InterruptInv, Nested, HasHandler
<1>7. Unacknowledged'
  BY <1>3, <1>4 DEF Unacknowledged
<1>8. FlagInterrupts'
  BY <1>2, <1>3 DEF FlagInterrupts, HasHandler
<1>9. NothingLeftBehind'
  BY <1>1 DEF NothingLeftBehind
<1>10. QED
  BY <1>5, <1>6, <1>7, <1>8, <1>9 DEF InterruptInv

\* A flag raised after the look finds the A-Bus acknowledged.
LEMMA HandlerLooks ==
  ASSUME AcknowledgeFirst, InterruptInv, HandlerRead \/ HandlerClear
  PROVE  InterruptInv'
<1>1. CASE HandlerRead
  <2>1. stage = 1 /\ stage' = 2
    BY <1>1 DEF HandlerRead
  <2>2. UNCHANGED <<HIRQ, HIRQMASK, program, intrStatus, abusIntrsPendingAck, pendingIntr, intrMask, abusMask, handlers>>
    BY <1>1 DEF HandlerRead, interruptVars
  <2>3. InterruptTypeOK' /\ Nested' /\ NothingLeftBehind'
    BY <2>2 DEF InterruptInv, InterruptTypeOK, Nested, HasHandler, NothingLeftBehind,
                InternalBits, ExternalBits
  <2>4. Unacknowledged'
    BY <2>1, <2>2 DEF InterruptInv, Unacknowledged, HasHandler
  <2>5. FlagInterrupts'
    BY <2>1, <2>2 DEF InterruptInv, FlagInterrupts
  <2>6. QED
    BY <2>3, <2>4, <2>5 DEF InterruptInv
<1>2. CASE HandlerClear
  <2>1. stage = 2 /\ stage' = 3 /\ UpdateInterrupts
    BY <1>2 DEF HandlerClear, WriteHIRQ
  <2>2. QED
    BY <2>1, SignalKeeps
<1>3. QED
  BY <1>1, <1>2

\* Leaving examines the registers with the mask written back.
LEMMA HandlerLeaveKeeps ==
  ASSUME InterruptInv, NEW m \in Masks, HandlerLeave(m)
  PROVE  InterruptInv'
<1> DEFINE n == Len(handlers)
<1>1. m[2] \in BOOLEAN
  OBVIOUS
<1>2. /\ InterruptTypeOK /\ Nested /\ Unacknowledged /\ FlagInterrupts
      /\ handlers # <<>>
      /\ UNCHANGED <<HIRQ, HIRQMASK, program>>
      /\ intrMask' = m[1] /\ abusMask' = m[2]
      /\ UpdateMasterInterruptLevel(intrStatus, m[1], m[2], abusIntrsPendingAck)
  BY DEF InterruptInv, HandlerLeave, Leave, WriteIMS
<1>3. /\ handlers' = SubSeq(handlers, 1, n - 1)
      /\ stage' = IF InCDHandler THEN 0 ELSE stage
      /\ InCDHandler => stage = 3
  BY DEF HandlerLeave, Leave
<1>4. /\ n \in Nat \ {0} /\ DOMAIN handlers = 1 .. n
      /\ InCDHandler => HasHandler(16)
      /\ InCDHandler <=> handlers[n] = 16
  BY <1>2, RunningHandler DEF InCDHandler
<1>5. /\ handlers' \in Seq(Sources \cup {Boot})
      /\ DOMAIN handlers' = 1 .. n - 1
      /\ \A i \in 1 .. n - 1 : handlers'[i] = handlers[i]
  <2>1. handlers \in Seq(Sources \cup {Boot})
    BY <1>2 DEF InterruptTypeOK
  <2>2. QED
    BY <1>3, <1>4, <2>1
<1>6. intrStatus \in SUBSET Sources /\ pendingIntr \in Sources \cup {None}
      /\ abusIntrsPendingAck \in SUBSET External
  BY <1>2 DEF InterruptTypeOK
<1>7. /\ intrStatus' \in SUBSET Sources
      /\ pendingIntr' \in Sources \cup {None}
      /\ abusIntrsPendingAck' \in SUBSET External
      /\ pendingIntr # None => pendingIntr' = pendingIntr
      /\ 16 \in intrStatus => 16 \in intrStatus' \/ pendingIntr' = 16
      /\ 16 \in abusIntrsPendingAck' => 16 \in abusIntrsPendingAck \/ pendingIntr' = 16
      /\ pendingIntr' = None /\ 16 \notin abusIntrsPendingAck' =>
             InternalBits(intrStatus', m[1]) = {} /\ ExternalBits(intrStatus', m[2]) = {}
  BY <1>1, <1>2, <1>6, UpdateKeeps
<1>8. pendingIntr = 16 => pendingIntr' = 16
  BY <1>7 DEF None
<1>9. InterruptTypeOK'
  BY <1>1, <1>2, <1>5, <1>7 DEF InterruptTypeOK
<1>10. ASSUME NEW s, HasHandler(s)' PROVE HasHandler(s)
  BY <1>4, <1>5, <1>10 DEF HasHandler
<1>11. ASSUME NEW s, HasHandler(s), handlers[n] # s PROVE HasHandler(s)'
  <2>1. PICK i \in DOMAIN handlers : handlers[i] = s
    BY <1>11 DEF HasHandler
  <2>2. i \in 1 .. n - 1
    BY <1>4, <1>11, <2>1
  <2>3. QED
    BY <1>5, <2>1, <2>2 DEF HasHandler
<1>12. Nested'
  <2>1. ~HasHandler(Boot)'
    <3> SUFFICES ASSUME HasHandler(Boot)' PROVE FALSE
      OBVIOUS
    <3>1. handlers = <<Boot>>
      BY <1>2, <1>10 DEF Nested
    <3>2. n = 1
      BY <3>1
    <3>3. DOMAIN handlers' = {}
      BY <1>5, <3>2
    <3>4. QED
      BY <3>3 DEF HasHandler
  <2>2. \A i \in DOMAIN handlers' : i \in DOMAIN handlers /\ handlers'[i] = handlers[i]
    BY <1>4, <1>5
  <2>3. QED
    BY <1>2, <2>1, <2>2 DEF Nested
<1>13. Unacknowledged'
  <2>1. CASE InCDHandler
    BY <1>2, <1>3, <1>7, <1>8, <2>1 DEF Unacknowledged
  <2>2. CASE ~InCDHandler
    <3>1. HasHandler(16) => HasHandler(16)'
      BY <1>4, <1>11, <2>2
    <3>2. QED
      BY <1>2, <1>3, <1>7, <1>8, <2>2, <3>1 DEF Unacknowledged
  <2>3. QED
    BY <2>1, <2>2
<1>14. FlagInterrupts'
  <2>1. CASE InCDHandler
    <3>1. HIRQ \cap HIRQMASK # {} /\ program # Starting => pendingIntr = 16 \/ 16 \in intrStatus
      BY <1>2, <1>3, <2>1 DEF FlagInterrupts
    <3>2. QED
      BY <1>2, <1>7, <1>8, <3>1 DEF FlagInterrupts
  <2>2. CASE ~InCDHandler
    <3>1. HasHandler(16) => HasHandler(16)'
      BY <1>4, <1>11, <2>2
    <3>2. HIRQ \cap HIRQMASK # {} /\ program # Starting =>
              pendingIntr = 16 \/ 16 \in intrStatus \/ (HasHandler(16) /\ stage < 3)
      BY <1>2, HandlerSet DEF FlagInterrupts
    <3>3. 16 \in {handlers'[i] : i \in DOMAIN handlers'} <=> HasHandler(16)'
      BY DEF HasHandler
    <3>4. stage' = stage
      BY <1>3, <2>2
    <3>5. QED
      BY <1>2, <1>7, <1>8, <3>1, <3>2, <3>3, <3>4 DEF FlagInterrupts
  <2>3. QED
    BY <2>1, <2>2
<1>15. NothingLeftBehind'
  <2>1. handlers' = <<>> => ~HasHandler(16)'
    BY DEF HasHandler
  <2>2. handlers' = <<>> /\ pendingIntr' = None => 16 \notin abusIntrsPendingAck'
    BY <1>13, <2>1 DEF Unacknowledged, None
  <2>3. QED
    BY <1>2, <1>7, <2>2 DEF NothingLeftBehind
<1>16. QED
  BY <1>9, <1>12, <1>13, <1>14, <1>15 DEF InterruptInv

\* A reset drops what is offered, and the program starts again without asking.
LEMMA ResetKeepsInterrupts ==
  ASSUME InterruptInv, NEW hard \in BOOLEAN, ResetPort(hard)
  PROVE  InterruptInv'
<1>1. /\ abusIntrsPendingAck' = {} /\ pendingIntr' = None /\ handlers' = <<Boot>>
      /\ UNCHANGED intrStatus
      /\ program' = Starting /\ stage' = 0
  BY DEF ResetPort, ResetSCU
<1>2. abusMask' \in BOOLEAN
  BY DEF ResetPort, ResetSCU
<1>3. InterruptTypeOK'
  BY <1>1, <1>2 DEF InterruptInv, InterruptTypeOK
<1>4. Nested'
  BY <1>1 DEF Nested
<1>5. Unacknowledged' /\ FlagInterrupts' /\ NothingLeftBehind'
  BY <1>1 DEF Unacknowledged, FlagInterrupts, NothingLeftBehind
<1>6. QED
  BY <1>3, <1>4, <1>5 DEF InterruptInv

LEMMA InterruptsStart == HostPortInit => InterruptInv
<1> SUFFICES ASSUME HostPortInit PROVE InterruptInv
  OBVIOUS
<1>1. /\ intrStatus = {} /\ abusIntrsPendingAck = {} /\ pendingIntr = None /\ handlers = <<Boot>>
      /\ program = Starting /\ stage = 0
  BY DEF HostPortInit, InterruptsInit
<1>2. abusMask \in BOOLEAN
  BY DEF HostPortInit, InterruptsInit
<1>3. InterruptTypeOK
  BY <1>1, <1>2 DEF InterruptTypeOK
<1>4. Nested
  BY <1>1 DEF Nested
<1>5. Unacknowledged /\ FlagInterrupts /\ NothingLeftBehind
  BY <1>1 DEF Unacknowledged, FlagInterrupts, NothingLeftBehind
<1>6. QED
  BY <1>3, <1>4, <1>5 DEF InterruptInv

LEMMA InterruptsStep ==
  ASSUME AcknowledgeFirst, InterruptInv, [HostPortNext]_hostPortVars
  PROVE  InterruptInv'
<1>1. CASE InterruptStep
  BY <1>1, TriggerKeeps, WriteISTKeeps, AcceptKeeps DEF InterruptStep
<1>2. CASE ProgramMask
  BY <1>2, ProgramMaskKeeps
<1>3. CASE \/ \E value \in HirqMasks : WriteHIRQMASK(value)
           \/ \E kind \in CommandKinds : Prepare(kind)
           \/ WriteCR \/ SeeAnswer \/ StartPoll \/ ReadRR
  BY <1>3, ProgramKeeps
<1>4. CASE HandlerAcknowledge
  BY <1>4, HandlerAcknowledgeKeeps
<1>5. CASE HandlerRead \/ HandlerClear
  BY <1>5, HandlerLooks
<1>6. CASE \E m \in Masks : HandlerLeave(m)
  BY <1>6, HandlerLeaveKeeps
<1>7. CASE ProcessCommand \/ PeriodicReport \/ ReadSectorFlag
  BY <1>7, BlockKeeps
<1>8. CASE \E hard \in BOOLEAN : ResetPort(hard)
  BY <1>8, ResetKeepsInterrupts
<1>9. CASE UNCHANGED hostPortVars
  BY <1>9, QuietKeeps DEF hostPortVars, portVars
<1>10. QED
  BY <1>1, <1>2, <1>3, <1>4, <1>5, <1>6, <1>7, <1>8, <1>9 DEF HostPortNext

\* The interrupts' state is consistent: handlers are nested by rising levels
\* and an A-Bus interrupt that waits for its acknowledgement has a handler on
\* its way (cdblock.cpp 1217-1227, scu.cpp 304-323, 576-625).
THEOREM HostPortInterrupts == AcknowledgeFirst /\ HostPortSpec => []InterruptInv
<1> SUFFICES ASSUME AcknowledgeFirst PROVE HostPortSpec => []InterruptInv
  OBVIOUS
<1>1. HostPortInit => InterruptInv
  BY InterruptsStart
<1>2. InterruptInv /\ [HostPortNext]_hostPortVars => InterruptInv'
  BY InterruptsStep
<1>3. QED
  BY <1>1, <1>2, PTL DEF HostPortSpec

\* No flag that HIRQMASK lets through waits without an interrupt on its way,
\* if the handler acknowledges before it looks (cdblock.cpp 1217-1227).
THEOREM HostPortFlagsInterrupt == AcknowledgeFirst /\ HostPortSpec => []FlagInterrupts
<1>1. InterruptInv => FlagInterrupts
  BY DEF InterruptInv
<1>2. QED
  BY <1>1, HostPortInterrupts, PTL

\* No order of triggers, nested handlers, mask writes and acknowledgements
\* strands an interrupt that the mask lets through (scu.cpp 576-625).
THEOREM HostPortLeavesNothing == AcknowledgeFirst /\ HostPortSpec => []NothingLeftBehind
<1>1. InterruptInv => NothingLeftBehind
  BY DEF InterruptInv
<1>2. QED
  BY <1>1, HostPortInterrupts, PTL

-----------------------------------------------------------------------------
(* The program's command and its response. *)

ProgramTypeOK == program \in [at : {"boot", "idle", "write", "wait", "read", "poll"}, word : 0 .. 3]

\* A scheduled command is the one the program waits for, or one a soft reset
\* left behind while the boot code runs.
DueInv == commandDue => program.at = "wait" \/ handlers = <<Boot>>
BootInv == handlers = <<Boot>> => program = Starting

\* From its first word to the last word of its response, a command keeps the
\* reports out; CMOK is clear until it is processed.
WriteInv == program.at = "write" => "CMOK" \notin HIRQ /\ (program.word # 0 => processingCommand)
AnswerInv ==
    program.at = "wait" =>
        /\ processingCommand
        /\ "CMOK" \in HIRQ => ~commandDue /\ sent = "implemented" /\ RR = "response"
ReadInv == program.at = "read" => processingCommand /\ RR = "response"

CommandInv == ProgramTypeOK /\ DueInv /\ BootInv /\ WriteInv /\ AnswerInv /\ ReadInv

LEMMA CommandStart == HostPortInit => CommandInv
BY DEF HostPortInit, InterruptsInit, CommandInv, ProgramTypeOK, DueInv, BootInv, WriteInv, AnswerInv, ReadInv,
       Starting

\* Steps that leave the program and its command alone.
LEMMA CommandStays ==
  ASSUME CommandInv, UNCHANGED <<commandDue, processingCommand, RR, program, sent>>,
         "CMOK" \in HIRQ' => "CMOK" \in HIRQ,
         handlers = <<Boot>> => handlers' = <<Boot>> \/ ~commandDue,
         handlers' = <<Boot>> => handlers = <<Boot>>
  PROVE  CommandInv'
<1>1. ProgramTypeOK' /\ BootInv'
  BY DEF CommandInv, ProgramTypeOK, BootInv
<1>2. DueInv'
  BY DEF CommandInv, DueInv
<1>3. WriteInv' /\ AnswerInv' /\ ReadInv'
  BY DEF CommandInv, WriteInv, AnswerInv, ReadInv
<1>4. QED
  BY <1>1, <1>2, <1>3 DEF CommandInv

LEMMA WriteCRKeepsCommand ==
  ASSUME CommandInv, WriteCR
  PROVE  CommandInv'
<1>1. /\ handlers = <<>> /\ handlers' = <<>> /\ program.at = "write" /\ "CMOK" \notin HIRQ
      /\ UNCHANGED <<HIRQ, RR>>
  BY DEF WriteCR, InProgram, interruptVars, CommandInv, WriteInv
<1>2. CASE program.word = 3
  <2>1. program' = [at |-> "wait", word |-> 0]
    BY <1>2 DEF WriteCR
  <2>2. processingCommand'
    BY <1>1, <1>2 DEF WriteCR, CommandInv, WriteInv
  <2>3. QED
    BY <1>1, <2>1, <2>2 DEF CommandInv, ProgramTypeOK, DueInv, BootInv, WriteInv, AnswerInv, ReadInv
<1>3. CASE program.word # 3
  <2>1. program' = [program EXCEPT !.word = @ + 1] /\ program.word \in 0 .. 2
    BY <1>3 DEF WriteCR, CommandInv, ProgramTypeOK
  <2>2. ProgramTypeOK' /\ program'.at = "write"
    BY <1>1, <2>1 DEF CommandInv, ProgramTypeOK
  <2>3. processingCommand'
    BY <1>1 DEF WriteCR, CommandInv, WriteInv
  <2>4. ~commandDue'
    BY <1>1, <1>3 DEF WriteCR, CommandInv, DueInv
  <2>5. QED
    BY <1>1, <2>2, <2>3, <2>4 DEF CommandInv, DueInv, BootInv, WriteInv, AnswerInv, ReadInv
<1>4. QED
  BY <1>2, <1>3

LEMMA SeeAnswerKeepsCommand ==
  ASSUME CommandInv, SeeAnswer
  PROVE  CommandInv'
<1>1. /\ handlers' = <<>> /\ program.at = "wait" /\ processingCommand'
      /\ commandDue' = commandDue /\ RR' = RR
  BY DEF SeeAnswer, InProgram, interruptVars, CommandInv, AnswerInv
<1>2. CASE "CMOK" \in HIRQ /\ program' = [at |-> "read", word |-> 0]
  <2>1. ~commandDue /\ RR = "response"
    BY <1>1, <1>2 DEF CommandInv, AnswerInv
  <2>2. QED
    BY <1>1, <1>2, <2>1 DEF CommandInv, ProgramTypeOK, DueInv, BootInv, WriteInv, AnswerInv, ReadInv
<1>3. CASE ~commandDue /\ program' = Idle
  BY <1>1, <1>3 DEF CommandInv, ProgramTypeOK, DueInv, BootInv, WriteInv, AnswerInv, ReadInv, Idle
<1>4. QED
  BY <1>2, <1>3 DEF SeeAnswer

LEMMA ReadRRKeepsCommand ==
  ASSUME CommandInv, ReadRR
  PROVE  CommandInv'
<1>1. /\ handlers = <<>> /\ handlers' = <<>> /\ program.at \in {"read", "poll"}
      /\ commandDue' = commandDue /\ RR' = RR
  BY DEF ReadRR, InProgram, interruptVars
<1>2. ~commandDue
  BY <1>1 DEF CommandInv, DueInv
<1>3. CASE program.word = 3
  <2>1. program' = Idle
    BY <1>3 DEF ReadRR
  <2>2. QED
    BY <1>1, <1>2, <2>1 DEF CommandInv, ProgramTypeOK, DueInv, BootInv, WriteInv, AnswerInv, ReadInv, Idle
<1>4. CASE program.word # 3
  <2>1. program' = [program EXCEPT !.word = @ + 1] /\ program.word \in 0 .. 2
    BY <1>4 DEF ReadRR, CommandInv, ProgramTypeOK
  <2>2. ProgramTypeOK' /\ program'.at = program.at
    BY <2>1 DEF CommandInv, ProgramTypeOK
  <2>3. processingCommand' = processingCommand
    BY <1>4 DEF ReadRR
  <2>4. QED
    BY <1>1, <1>2, <2>2, <2>3 DEF CommandInv, DueInv, BootInv, WriteInv, AnswerInv, ReadInv
<1>5. QED
  BY <1>3, <1>4

LEMMA ProgramKeepsCommand ==
  ASSUME CommandInv,
         \/ \E value \in HirqMasks : WriteHIRQMASK(value)
         \/ \E kind \in CommandKinds : Prepare(kind)
         \/ StartPoll
  PROVE  CommandInv'
<1>1. ASSUME NEW value \in HirqMasks, WriteHIRQMASK(value) PROVE CommandInv'
  <2>1. /\ handlers = <<>> /\ handlers' = <<>> /\ program' = Idle /\ program.at \in {"boot", "idle"}
        /\ commandDue' = commandDue
    BY <1>1 DEF WriteHIRQMASK, InProgram, UpdateInterrupts
  <2>2. ~commandDue
    BY <2>1 DEF CommandInv, DueInv
  <2>3. QED
    BY <2>1, <2>2 DEF CommandInv, ProgramTypeOK, DueInv, BootInv, WriteInv, AnswerInv, ReadInv, Idle
<1>2. ASSUME NEW kind \in CommandKinds, Prepare(kind) PROVE CommandInv'
  <2>1. /\ handlers = <<>> /\ handlers' = <<>> /\ program = Idle
        /\ program' = [at |-> "write", word |-> 0]
        /\ "CMOK" \notin HIRQ' /\ commandDue' = commandDue
    BY <1>2 DEF Prepare, InProgram, WriteHIRQ, UpdateInterrupts
  <2>2. ~commandDue
    BY <2>1 DEF CommandInv, DueInv, Idle
  <2>3. QED
    BY <2>1, <2>2 DEF CommandInv, ProgramTypeOK, DueInv, BootInv, WriteInv, AnswerInv, ReadInv
<1>3. CASE StartPoll
  <2>1. /\ handlers = <<>> /\ handlers' = <<>> /\ program = Idle
        /\ program' = [at |-> "poll", word |-> 0] /\ commandDue' = commandDue
    BY <1>3 DEF StartPoll, InProgram, interruptVars
  <2>2. ~commandDue
    BY <2>1 DEF CommandInv, DueInv, Idle
  <2>3. QED
    BY <2>1, <2>2 DEF CommandInv, ProgramTypeOK, DueInv, BootInv, WriteInv, AnswerInv, ReadInv
<1>4. QED
  BY <1>1, <1>2, <1>3

LEMMA ShorterHandlers ==
  ASSUME NEW h \in Seq(Sources \cup {Boot}), h # <<>>, NEW g, g = SubSeq(h, 1, Len(h) - 1)
  PROVE  /\ Len(g) = Len(h) - 1
         /\ \A i \in 1 .. Len(h) - 1 : g[i] = h[i]
<1>1. Len(h) \in Nat \ {0} /\ DOMAIN h = 1 .. Len(h)
  OBVIOUS
<1>2. /\ g \in Seq(Sources \cup {Boot})
      /\ DOMAIN g = 1 .. Len(h) - 1
      /\ \A i \in 1 .. Len(h) - 1 : g[i] = h[i]
  BY <1>1
<1>3. QED
  BY <1>1, <1>2

\* The boot code is not interrupted, and no handler returns to it.
LEMMA HandlersKeepCommand ==
  ASSUME InterruptInv, CommandInv,
         \/ InterruptStep
         \/ ProgramMask
         \/ HandlerAcknowledge
         \/ HandlerRead
         \/ HandlerClear
         \/ \E m \in Masks : HandlerLeave(m)
  PROVE  CommandInv'
<1>1. ASSUME NEW s \in Internal, Trigger(s) \/ WriteIST(s), UNCHANGED portVars PROVE CommandInv'
  BY <1>1, CommandStays DEF Trigger, WriteIST, portVars
<1>2. CASE AcknowledgeExternalInterrupt /\ UNCHANGED portVars
  <2>1. /\ pendingIntr \in Sources /\ Level[pendingIntr] > ServedLevel
        /\ handlers' = Append(handlers, pendingIntr) /\ handlers \in Seq(Sources \cup {Boot})
    BY <1>2 DEF AcknowledgeExternalInterrupt, InterruptInv, InterruptTypeOK
  <2>2. handlers # <<Boot>>
    <3>1. Level[pendingIntr] \in 1 .. 15 /\ Level[Boot] = 15
      BY <2>1, Levels
    <3>2. handlers = <<Boot>> => ServedLevel = Level[Boot]
      BY DEF ServedLevel
    <3>3. QED
      BY <2>1, <3>1, <3>2
  <2>3. handlers' # <<Boot>>
    <3>1. handlers'[Len(handlers) + 1] = pendingIntr /\ Len(handlers') = Len(handlers) + 1
      BY <2>1
    <3>2. handlers' = <<Boot>> => Len(handlers') = 1 /\ handlers'[1] = Boot
      OBVIOUS
    <3>3. QED
      BY <2>1, <3>1, <3>2, Levels
  <2>4. QED
    BY <1>2, <2>2, <2>3, CommandStays DEF portVars
<1>3. CASE ProgramMask
  BY <1>3, CommandStays DEF ProgramMask, portVars
<1>4. CASE HandlerAcknowledge
  BY <1>4, CommandStays DEF HandlerAcknowledge
<1>5. CASE HandlerRead
  BY <1>5, CommandStays DEF HandlerRead, interruptVars
<1>6. CASE HandlerClear
  BY <1>6, CommandStays DEF HandlerClear, WriteHIRQ, UpdateInterrupts
<1>7. ASSUME NEW m \in Masks, HandlerLeave(m) PROVE CommandInv'
  <2>1. handlers' = SubSeq(handlers, 1, Len(handlers) - 1) /\ handlers \in Seq(Sources \cup {Boot})
        /\ handlers # <<>> /\ (HasHandler(Boot) => handlers = <<Boot>>)
    BY <1>7 DEF HandlerLeave, Leave, InterruptInv, InterruptTypeOK, Nested
  <2>2. handlers' # <<Boot>>
    <3> SUFFICES ASSUME handlers' = <<Boot>> PROVE FALSE
      OBVIOUS
    <3>1. Len(handlers') = 1 /\ handlers'[1] = Boot
      OBVIOUS
    <3>2. Len(handlers) \in Nat /\ Len(handlers') = Len(handlers) - 1 /\ handlers[1] = Boot
      <4>1. Len(handlers) \in Nat \ {0}
        BY <2>1
      <4>2. /\ Len(handlers') = Len(handlers) - 1
            /\ \A i \in 1 .. Len(handlers) - 1 : handlers'[i] = handlers[i]
        BY <2>1, ShorterHandlers
      <4>3. 1 \in 1 .. Len(handlers) - 1
        BY <3>1, <4>1, <4>2
      <4>4. QED
        BY <3>1, <4>1, <4>2, <4>3
    <3>3. 1 \in DOMAIN handlers
      BY <2>1, <3>1, <3>2
    <3>4. handlers = <<Boot>>
      BY <2>1, <3>2, <3>3 DEF HasHandler
    <3>5. Len(handlers) = 1
      BY <3>4
    <3>6. QED
      BY <3>1, <3>2, <3>5
  <2>3. QED
    BY <1>7, <2>2, CommandStays DEF HandlerLeave
<1>8. QED
  BY <1>1, <1>2, <1>3, <1>4, <1>5, <1>6, <1>7 DEF InterruptStep

\* A report comes only between commands, CMOK only with the due command.
LEMMA BlockKeepsCommand ==
  ASSUME CommandInv, ProcessCommand \/ PeriodicReport \/ ReadSectorFlag
  PROVE  CommandInv'
<1>1. CASE ProcessCommand
  <2>1. commandDue /\ ~commandDue' /\ UNCHANGED <<processingCommand, program, sent>>
    BY <1>1 DEF ProcessCommand
  <2>2. handlers' = handlers
    BY <1>1 DEF ProcessCommand, SetInterrupt, UpdateInterrupts, interruptVars
  <2>3. program.at \notin {"write", "read"}
    BY <2>1 DEF CommandInv, DueInv, BootInv, Starting
  <2>4. program.at = "wait" => ("CMOK" \in HIRQ' => sent = "implemented" /\ RR' = "response")
    BY <1>1, <2>1 DEF ProcessCommand, SetInterrupt, CommandInv, AnswerInv
  <2>5. ProgramTypeOK' /\ DueInv' /\ BootInv'
    BY <2>1, <2>2 DEF CommandInv, ProgramTypeOK, DueInv, BootInv
  <2>6. WriteInv' /\ ReadInv'
    BY <2>1, <2>3 DEF WriteInv, ReadInv
  <2>7. AnswerInv'
    BY <2>1, <2>4 DEF CommandInv, AnswerInv
  <2>8. QED
    BY <2>5, <2>6, <2>7 DEF CommandInv
<1>2. CASE PeriodicReport
  <2>1. /\ ~processingCommand
        /\ HIRQ' = HIRQ \cup {"SCDQ"} /\ handlers' = handlers
        /\ UNCHANGED <<commandDue, processingCommand, program, sent>>
    BY <1>2 DEF PeriodicReport, ReportDue, SetInterrupt, UpdateInterrupts
  <2>2. program.at \notin {"wait", "read"}
    BY <2>1 DEF CommandInv, AnswerInv, ReadInv
  <2>3. ProgramTypeOK' /\ DueInv' /\ BootInv'
    BY <2>1 DEF CommandInv, ProgramTypeOK, DueInv, BootInv
  <2>4. WriteInv'
    BY <2>1 DEF CommandInv, WriteInv
  <2>5. AnswerInv' /\ ReadInv'
    BY <2>1, <2>2 DEF AnswerInv, ReadInv
  <2>6. QED
    BY <2>3, <2>4, <2>5 DEF CommandInv
<1>3. CASE ReadSectorFlag
  BY <1>3, CommandStays DEF ReadSectorFlag, SetInterrupt, UpdateInterrupts
<1>4. QED
  BY <1>1, <1>2, <1>3

LEMMA ResetKeepsCommand ==
  ASSUME NEW hard \in BOOLEAN, ResetPort(hard)
  PROVE  CommandInv'
<1>1. handlers' = <<Boot>> /\ program' = Starting
  BY DEF ResetPort, ResetSCU
<1>2. QED
  BY <1>1 DEF CommandInv, ProgramTypeOK, DueInv, BootInv, WriteInv, AnswerInv, ReadInv, Starting

LEMMA CommandStep ==
  ASSUME InterruptInv, CommandInv, [HostPortNext]_hostPortVars
  PROVE  CommandInv'
<1>1. CASE WriteCR
  BY <1>1, WriteCRKeepsCommand
<1>2. CASE SeeAnswer
  BY <1>2, SeeAnswerKeepsCommand
<1>3. CASE ReadRR
  BY <1>3, ReadRRKeepsCommand
<1>4. CASE \/ \E value \in HirqMasks : WriteHIRQMASK(value)
           \/ \E kind \in CommandKinds : Prepare(kind)
           \/ StartPoll
  BY <1>4, ProgramKeepsCommand
<1>5. CASE \/ InterruptStep
           \/ ProgramMask
           \/ HandlerAcknowledge
           \/ HandlerRead
           \/ HandlerClear
           \/ \E m \in Masks : HandlerLeave(m)
  BY <1>5, HandlersKeepCommand
<1>6. CASE ProcessCommand \/ PeriodicReport \/ ReadSectorFlag
  BY <1>6, BlockKeepsCommand
<1>7. CASE \E hard \in BOOLEAN : ResetPort(hard)
  BY <1>7, ResetKeepsCommand
<1>8. CASE UNCHANGED hostPortVars
  BY <1>8, CommandStays DEF hostPortVars, portVars, interruptVars
<1>9. QED
  BY <1>1, <1>2, <1>3, <1>4, <1>5, <1>6, <1>7, <1>8 DEF HostPortNext

\* The command's bookkeeping agrees with what the program is at, whatever
\* reports, interrupts and resets come in between (cdblock.cpp 560-616, 1019).
THEOREM HostPortCommands == AcknowledgeFirst /\ HostPortSpec => []CommandInv
<1>1. HostPortInit => CommandInv
  BY CommandStart
<1>2. InterruptInv /\ CommandInv /\ [HostPortNext]_hostPortVars => CommandInv'
  BY CommandStep
<1>3. QED
  BY <1>1, <1>2, HostPortInterrupts, PTL DEF HostPortSpec

\* No report and no other answer comes between the words of a response
\* (cdblock.cpp 572, 606, 1019).
THEOREM HostPortResponseIntact == AcknowledgeFirst /\ HostPortSpec => []ResponseIntact
<1>1. CommandInv => ResponseIntact
  BY DEF CommandInv, ReadInv, ResponseIntact
<1>2. QED
  BY <1>1, HostPortCommands, PTL

\* The CMOK a program waits for is that of its own command, over resets too
\* (cdblock.cpp 606-616, 1019-1040).
THEOREM HostPortAnswerIsOwn == AcknowledgeFirst /\ HostPortSpec => []AnswerIsOwn
<1>1. CommandInv => AnswerIsOwn
  BY DEF CommandInv, AnswerInv, AnswerIsOwn
<1>2. QED
  BY <1>1, HostPortCommands, PTL

HIDE InterruptsAssumption

-----------------------------------------------------------------------------
(***************************************************************************)
(* The SMPC's safety properties, for every set of commands: NPE is true,   *)
(* no command is lost but next to an INTBACK that was broken off, and each *)
(* interrupt was asked for.                                                *)
(***************************************************************************)
SmpcTypeOK ==
    /\ SF \in BOOLEAN
    /\ IREG \in Parameters
    /\ NPE \in BOOLEAN
    /\ intbackInProgress \in BOOLEAN
    /\ optimize \in BOOLEAN
    /\ getPeripheralData \in BOOLEAN
    /\ callback \in {"command", "break"}
    /\ commandEvent \in {"none", "later", "now"}
    /\ host \in {"free", "flagged", "waiting"}
    /\ executed \in BOOLEAN
    /\ brokenOff \in BOOLEAN

\* SF is up only while the host waits or is about to; a command that the host
\* has not written yet finds the SMPC at rest, or an INTBACK was broken off.
HostInv ==
    /\ host = "free" => ~SF
    /\ host = "free" /\ commandEvent # "none" => brokenOff
    /\ host = "flagged" /\ (commandEvent # "none" \/ intbackInProgress \/ ~SF) => brokenOff
    /\ host = "flagged" /\ SF => ~intbackInProgress

\* What the event is about to do is what the host waits for.
WaitInv ==
    host = "waiting" =>
        /\ commandEvent # "none" => wanted = COMREG \/ brokenOff
        /\ ~SF /\ commandEvent # "none" => brokenOff
        /\ SF /\ intbackInProgress => wanted = "INTBACK" \/ brokenOff
        /\ ~SF => executed \/ brokenOff

\* A break is called for by a host that breaks off, or by what is left of one.
BreakInv ==
    /\ intbackInProgress => COMREG = "INTBACK" \/ brokenOff
    /\ callback = "break" => brokenOff
    /\ callback = "break" /\ commandEvent = "none" =>
           /\ ~intbackInProgress
           /\ host = "free" \/ (host = "flagged" /\ SF)

\* An INTBACK that the event is to carry out, or to go on with, is counted.
RequestInv ==
    /\ requests \in Nat
    /\ commandEvent # "none" /\ COMREG = "INTBACK" /\ callback = "command" => requests >= 1
    /\ SF /\ intbackInProgress /\ COMREG = "INTBACK" => requests >= 1

SmpcInv == SmpcTypeOK /\ MoreDataIsTrue /\ HostInv /\ WaitInv /\ BreakInv /\ RequestInv

USE SmpcAssumption DEF SmpcTypeOK, MoreDataIsTrue, HostInv, WaitInv, BreakInv, RequestInv,
    intbackVars, hostVars, Quiet, Asked

LEMMA WithStatus ==
  ASSUME NEW status \in BOOLEAN, IREG \in Parameters
  PROVE  [IREG EXCEPT !.status = status] \in Parameters
BY SMT DEF Parameters

LEMMA StatusCleared ==
  ASSUME IREG \in Parameters
  PROVE  [IREG EXCEPT !.status = FALSE] \in Parameters
<1>1. FALSE \in BOOLEAN
  OBVIOUS
<1>2. QED
  BY <1>1, WithStatus, Zenon

LEMMA ParametersTypes ==
  ASSUME NEW p \in Parameters
  PROVE  p.status \in BOOLEAN /\ p.optimize \in BOOLEAN /\ p.peripherals \in BOOLEAN
BY DEF Parameters

LEMMA NoParametersType == NoParameters \in Parameters
BY DEF NoParameters, Parameters

LEMMA SmpcInitHolds == SmpcInit => SmpcInv
<1> SUFFICES ASSUME SmpcInit PROVE SmpcInv
  OBVIOUS
<1>1. IREG \in Parameters
  BY NoParametersType DEF SmpcInit
<1>2. SmpcTypeOK
  BY <1>1 DEF SmpcInit
<1>3. QED
  BY <1>2 DEF SmpcInit, SmpcInv

LEMMA WriteSFKeeps == SmpcInv /\ WriteSF => SmpcInv'
<1> SUFFICES ASSUME SmpcInv, WriteSF PROVE SmpcInv'
  OBVIOUS
<1> USE DEF WriteSF, SmpcInv
<1>1. SmpcTypeOK'
  OBVIOUS
<1>2. MoreDataIsTrue'
  OBVIOUS
<1>3. HostInv'
  OBVIOUS
<1>4. WaitInv'
  OBVIOUS
<1>5. BreakInv'
  OBVIOUS
<1>6. RequestInv'
  OBVIOUS
<1>7. QED
  BY <1>1, <1>2, <1>3, <1>4, <1>5, <1>6

LEMMA WriteCOMREGKeeps == SmpcInv /\ HostWriteCOMREG => SmpcInv'
<1> SUFFICES ASSUME SmpcInv, HostWriteCOMREG PROVE SmpcInv'
  OBVIOUS
<1> USE DEF HostWriteCOMREG, WriteCOMREG, SmpcInv
<1>1. SmpcTypeOK'
  <2>1. IREG' \in Parameters
    OBVIOUS
  <2>2. QED
    BY <2>1
<1>2. MoreDataIsTrue'
  OBVIOUS
<1>3. HostInv'
  OBVIOUS
<1>4. WaitInv'
  OBVIOUS
<1>5. BreakInv'
  OBVIOUS
<1>6. RequestInv'
  OBVIOUS
<1>7. QED
  BY <1>1, <1>2, <1>3, <1>4, <1>5, <1>6

LEMMA SeeDoneKeeps == SmpcInv /\ SeeDone => SmpcInv'
<1> SUFFICES ASSUME SmpcInv, SeeDone PROVE SmpcInv'
  OBVIOUS
<1> USE DEF SeeDone, InStep, SmpcInv
<1>1. SmpcTypeOK'
  OBVIOUS
<1>2. MoreDataIsTrue'
  OBVIOUS
<1>3. HostInv'
  OBVIOUS
<1>4. WaitInv'
  OBVIOUS
<1>5. BreakInv'
  OBVIOUS
<1>6. RequestInv'
  OBVIOUS
<1>7. QED
  BY <1>1, <1>2, <1>3, <1>4, <1>5, <1>6

LEMMA WriteContinueKeeps == SmpcInv /\ WriteContinue => SmpcInv'
<1> SUFFICES ASSUME SmpcInv, WriteContinue PROVE SmpcInv'
  OBVIOUS
<1> USE DEF WriteContinue, SmpcInv
<1>1. SmpcTypeOK'
  <2>1. IREG' \in Parameters
    BY StatusCleared
  <2>2. QED
    BY <2>1
<1>2. MoreDataIsTrue'
  OBVIOUS
<1>3. HostInv'
  OBVIOUS
<1>4. WaitInv'
  OBVIOUS
<1>5. BreakInv'
  OBVIOUS
<1>6. RequestInv'
  OBVIOUS
<1>7. QED
  BY <1>1, <1>2, <1>3, <1>4, <1>5, <1>6

LEMMA WriteBreakKeeps == SmpcInv /\ WriteBreak => SmpcInv'
<1> SUFFICES ASSUME SmpcInv, WriteBreak PROVE SmpcInv'
  OBVIOUS
<1> USE DEF WriteBreak, SmpcInv
<1>1. SmpcTypeOK'
  BY StatusCleared
<1>2. MoreDataIsTrue'
  OBVIOUS
<1>3. HostInv'
  OBVIOUS
<1>4. WaitInv'
  OBVIOUS
<1>5. BreakInv'
  OBVIOUS
<1>6. RequestInv'
  OBVIOUS
<1>7. QED
  BY <1>1, <1>2, <1>3, <1>4, <1>5, <1>6

LEMMA ProcessCommandKeeps == SmpcInv /\ SMPCProcessCommand => SmpcInv'
<1> SUFFICES ASSUME SmpcInv, SMPCProcessCommand PROVE SmpcInv'
  OBVIOUS
<1> USE DEF SMPCProcessCommand, ResetMembers, WritePeripheralReport, BeginIntback, SmpcInv
<1>1. SmpcTypeOK'
  <2>1. IREG' \in Parameters
    BY NoParametersType
  <2>2. QED
    BY <2>1, ParametersTypes
<1>2. MoreDataIsTrue'
  OBVIOUS
<1>3. HostInv'
  OBVIOUS
<1>4. WaitInv'
  OBVIOUS
<1>5. BreakInv'
  OBVIOUS
<1>6. RequestInv'
  OBVIOUS
<1>7. QED
  BY <1>1, <1>2, <1>3, <1>4, <1>5, <1>6

LEMMA BreakEventKeeps == SmpcInv /\ OnINTBACKBreakEvent => SmpcInv'
<1> SUFFICES ASSUME SmpcInv, OnINTBACKBreakEvent PROVE SmpcInv'
  OBVIOUS
<1> USE DEF OnINTBACKBreakEvent, INTBACKBreak, SmpcInv
<1>1. SmpcTypeOK'
  OBVIOUS
<1>2. MoreDataIsTrue'
  OBVIOUS
<1>3. HostInv'
  OBVIOUS
<1>4. WaitInv'
  OBVIOUS
<1>5. BreakInv'
  OBVIOUS
<1>6. RequestInv'
  OBVIOUS
<1>7. QED
  BY <1>1, <1>2, <1>3, <1>4, <1>5, <1>6

LEMMA OptimizedReadKeeps == SmpcInv /\ TriggerOptimizedINTBACKRead => SmpcInv'
<1> SUFFICES ASSUME SmpcInv, TriggerOptimizedINTBACKRead PROVE SmpcInv'
  OBVIOUS
<1> USE DEF TriggerOptimizedINTBACKRead, OptimizedReadDue, SmpcInv
<1>1. SmpcTypeOK'
  OBVIOUS
<1>2. MoreDataIsTrue'
  OBVIOUS
<1>3. HostInv'
  OBVIOUS
<1>4. WaitInv'
  OBVIOUS
<1>5. BreakInv'
  OBVIOUS
<1>6. RequestInv'
  OBVIOUS
<1>7. QED
  BY <1>1, <1>2, <1>3, <1>4, <1>5, <1>6

LEMMA VBlankKeeps == SmpcInv /\ TriggerVBlankIN => SmpcInv'
<1> SUFFICES ASSUME SmpcInv, TriggerVBlankIN PROVE SmpcInv'
  OBVIOUS
<1> USE DEF TriggerVBlankIN, INTBACKBreak, SmpcInv
<1>1. SmpcTypeOK'
  OBVIOUS
<1>2. MoreDataIsTrue'
  OBVIOUS
<1>3. HostInv'
  OBVIOUS
<1>4. WaitInv'
  OBVIOUS
<1>5. BreakInv'
  OBVIOUS
<1>6. RequestInv'
  OBVIOUS
<1>7. QED
  BY <1>1, <1>2, <1>3, <1>4, <1>5, <1>6

LEMMA ResetKeeps == SmpcInv /\ ResetSMPC => SmpcInv'
<1> SUFFICES ASSUME SmpcInv, ResetSMPC PROVE SmpcInv'
  OBVIOUS
<1> USE DEF ResetSMPC, ResetMembers, SmpcInv
<1>1. SmpcTypeOK'
  <2>1. IREG' \in Parameters
    BY NoParametersType
  <2>2. QED
    BY <2>1
<1>2. MoreDataIsTrue'
  OBVIOUS
<1>3. HostInv'
  OBVIOUS
<1>4. WaitInv'
  OBVIOUS
<1>5. BreakInv'
  OBVIOUS
<1>6. RequestInv'
  OBVIOUS
<1>7. QED
  BY <1>1, <1>2, <1>3, <1>4, <1>5, <1>6

LEMMA SmpcStutterKeeps == SmpcInv /\ UNCHANGED smpcVars => SmpcInv'
BY DEF smpcVars, SmpcInv

\* The SMPC, the host, the beam and the user's reset in any order.
THEOREM SmpcInvariant == SmpcSpec => []SmpcInv
<1>1. SmpcInv /\ [SmpcNext]_smpcVars => SmpcInv'
  <2> SUFFICES ASSUME SmpcInv, [SmpcNext]_smpcVars PROVE SmpcInv'
    OBVIOUS
  <2>1. CASE CommandEvent
    BY <2>1, ProcessCommandKeeps, BreakEventKeeps DEF CommandEvent
  <2>2. CASE Beam
    BY <2>2, OptimizedReadKeeps, VBlankKeeps DEF Beam
  <2>3. CASE WriteSF \/ HostWriteCOMREG \/ SeeDone \/ WriteContinue \/ WriteBreak
    BY <2>3, WriteSFKeeps, WriteCOMREGKeeps, SeeDoneKeeps, WriteContinueKeeps, WriteBreakKeeps
  <2>4. CASE ResetSMPC
    BY <2>4, ResetKeeps
  <2>5. CASE UNCHANGED smpcVars
    BY <2>5, SmpcStutterKeeps
  <2>6. QED
    BY <2>1, <2>2, <2>3, <2>4, <2>5 DEF SmpcNext
<1>2. QED
  BY <1>1, SmpcInitHolds, PTL DEF SmpcSpec

\* SR.NPE is set exactly while a report is left to ask for (smpc.cpp 612, 717,
\* 839).
THEOREM SmpcMoreDataIsTrue == SmpcSpec => []MoreDataIsTrue
<1>1. SmpcInv => MoreDataIsTrue
  BY DEF SmpcInv
<1>2. QED
  BY <1>1, SmpcInvariant, PTL

\* A command whose SF falls without its having been processed is next to an
\* INTBACK that was broken off (smpc.cpp 255, 763).
THEOREM SmpcLosesOnlyToBreak == SmpcSpec => []LostOnlyToBreak
<1>1. SmpcInv => LostOnlyToBreak
  BY DEF SmpcInv, LostOnlyToBreak
<1>2. QED
  BY <1>1, SmpcInvariant, PTL

\* No SMPC interrupt comes that no INTBACK or continue has asked for.
THEOREM SmpcInterruptsAsked == SmpcSpec => []InterruptsAsked
<1>1. SmpcInv => InterruptsAsked
  BY DEF SmpcInv, InterruptsAsked
<1>2. QED
  BY <1>1, SmpcInvariant, PTL

=============================================================================
