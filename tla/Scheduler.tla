------------------------------ MODULE Scheduler ------------------------------
(***************************************************************************)
(* The event scheduler (core/scheduler.hpp): events with deadlines on      *)
(* clocks of their own, and a cache of the earliest deadline on the        *)
(* primary clock that tells the emulator loop how far it may run.          *)
(*                                                                         *)
(* Advance is cut where a callback runs: "execute" is the head of the loop *)
(* in Execute, "callback" is inside the callback of event `firing', which  *)
(* may use the scheduler itself.                                           *)
(***************************************************************************)
EXTENDS Integers, Sequences

CONSTANTS
    NumEvents,         \* kNumScheduledEvents
    NoDeadline,        \* kNoDeadline
    Factors,           \* the pairs <<numerator, denominator>> in use
    Intervals,         \* intervals of ScheduleFromNow outside callbacks
    CallbackIntervals, \* intervals of ScheduleFromNow and Reschedule in callbacks
    Steps,             \* how far one Advance may go
    MaxCount,          \* bound on the cycle count
    FactorPhases       \* when clock ratios may change: subset of {"idle", "callback"}

ASSUME SchedulerAssumption ==
    /\ NumEvents \in Nat \ {0}
    /\ MaxCount \in Nat
    /\ NoDeadline \in Nat
    /\ MaxCount < NoDeadline
    /\ Factors \subseteq (Nat \ {0}) \X (Nat \ {0})
    /\ Intervals \subseteq Nat
    /\ CallbackIntervals \subseteq Nat
    /\ Steps \subseteq Nat
    /\ FactorPhases \subseteq {"idle", "callback"}

VARIABLES
    currCount, \* m_currCount
    nextCount, \* m_nextCount
    nextEvent, \* m_nextEvent; NumEvents for none
    events,    \* m_events: target, countNumerator and countDenominator of each
    phase,     \* "idle", "execute" or "callback"
    firing,    \* in a callback: the event and the deadline it was called for
    snapshot   \* a saved state: the count and the events

schedulerVars == <<currCount, nextCount, nextEvent, events, phase, firing, snapshot>>

Event == 0 .. NumEvents - 1

NoFiring == [id |-> NumEvents, target |-> NoDeadline]

IsScheduled(e) == e.target # NoDeadline

\* The count of the event's own clock.
ScaledCount(count, e) == (count * e.num) \div e.den

\* Faulty: a deadline that is reached exactly counts as one later.
CalcTargetLate(e) == (e.target * e.den + e.num) \div e.num

\* Faulty: rounded down.
CalcTargetEarly(e) == (e.target * e.den) \div e.num

\* The primary count at which the event is due.
CalcTargetScaledByReciprocal(e) == (e.target * e.den + e.num - 1) \div e.num

Due(e) == IsScheduled(e) /\ ScaledCount(currCount, e) >= e.target

Deadlines(evs) == {CalcTargetScaledByReciprocal(evs[i]) : i \in {j \in Event : IsScheduled(evs[j])}}

\* The first of the events with the earliest deadline; none at kNoDeadline.
IsEarliest(evs, count, id) ==
    \/ /\ count = NoDeadline
       /\ id = NumEvents
       /\ \A d \in Deadlines(evs) : d >= NoDeadline
    \/ /\ count < NoDeadline
       /\ id \in Event
       /\ IsScheduled(evs[id])
       /\ count = CalcTargetScaledByReciprocal(evs[id])
       /\ \A j \in Event : IsScheduled(evs[j]) =>
              /\ count <= CalcTargetScaledByReciprocal(evs[j])
              /\ j < id => count < CalcTargetScaledByReciprocal(evs[j])

RecalcSchedule(evs) ==
    /\ nextCount' \in Deadlines(evs) \cup {NoDeadline}
    /\ nextEvent' \in 0 .. NumEvents
    /\ IsEarliest(evs, nextCount', nextEvent')

\* Users of the scheduler run between advances and inside callbacks; a
\* callback moves its own event through its context only.
MayUse(id) == phase = "idle" \/ (phase = "callback" /\ id # firing.id)

ScheduleEvent(id, target) ==
    LET e == [events[id] EXCEPT !.target = target]
        due == CalcTargetScaledByReciprocal(e)
    IN  /\ events' = [events EXCEPT ![id] = e]
        /\ IF due < nextCount
           THEN nextCount' = due /\ nextEvent' = id
           ELSE UNCHANGED <<nextCount, nextEvent>>
        /\ UNCHANGED <<currCount, phase, firing, snapshot>>

ScheduleFromNow(id, interval) ==
    /\ MayUse(id)
    /\ interval \in IF phase = "idle" THEN Intervals ELSE CallbackIntervals
    /\ ScheduleEvent(id, ScaledCount(currCount, events[id]) + interval)

\* The caches keep pointing at the cancelled event.
Cancel(id) ==
    /\ MayUse(id)
    /\ IsScheduled(events[id])
    /\ events' = [events EXCEPT ![id].target = NoDeadline]
    /\ UNCHANGED <<currCount, nextCount, nextEvent, phase, firing, snapshot>>

\* What is left until the deadline stays the same number of the event's cycles.
Refactored(e, f) ==
    [target |-> IF IsScheduled(e)
                THEN (currCount * f[1]) \div f[2] + (e.target - ScaledCount(currCount, e))
                ELSE NoDeadline,
     num |-> f[1], den |-> f[2]]

\* Only an event that is due recalculates the schedule.
SetEventCountFactor(id, f) ==
    /\ MayUse(id)
    /\ phase \in FactorPhases
    /\ Refactored(events[id], f).target >= 0
    /\ events' = [events EXCEPT ![id] = Refactored(events[id], f)]
    /\ IF Due(events[id])
       THEN RecalcSchedule(events')
       ELSE UNCHANGED <<nextCount, nextEvent>>
    /\ UNCHANGED <<currCount, phase, firing, snapshot>>

Advance(count) ==
    /\ phase = "idle"
    /\ currCount + count <= MaxCount
    /\ currCount' = currCount + count
    /\ phase' = "execute"
    /\ UNCHANGED <<nextCount, nextEvent, events, firing, snapshot>>

\* One round of Execute: call the cached event if it is due ...
Fire ==
    /\ phase = "execute"
    /\ currCount >= nextCount
    /\ Due(events[nextEvent])
    /\ phase' = "callback"
    /\ firing' = [id |-> nextEvent, target |-> events[nextEvent].target]
    /\ UNCHANGED <<currCount, nextCount, nextEvent, events, snapshot>>

\* ... or find that it has been cancelled or put off since.
SkipStale ==
    /\ phase = "execute"
    /\ currCount >= nextCount
    /\ ~Due(events[nextEvent])
    /\ RecalcSchedule(events)
    /\ UNCHANGED <<currCount, events, phase, firing, snapshot>>

\* The callback returns: Reschedule counts from the deadline it was called for.
Return(target) ==
    /\ phase = "callback"
    /\ events' = [events EXCEPT ![firing.id].target = target]
    /\ RecalcSchedule(events')
    /\ phase' = "execute"
    /\ firing' = NoFiring
    /\ UNCHANGED <<currCount, snapshot>>

ReturnRescheduled == \E interval \in CallbackIntervals : Return(firing.target + interval)
ReturnDone == Return(NoDeadline)

Finish ==
    /\ phase = "execute"
    /\ currCount < nextCount
    /\ phase' = "idle"
    /\ UNCHANGED <<currCount, nextCount, nextEvent, events, firing, snapshot>>

SaveSchedule ==
    /\ phase = "idle"
    /\ snapshot = <<>>
    /\ snapshot' = <<[count |-> currCount, events |-> events]>>
    /\ UNCHANGED <<currCount, nextCount, nextEvent, events, phase, firing>>

LoadSchedule ==
    /\ phase = "idle"
    /\ snapshot # <<>>
    /\ currCount' = snapshot[1].count
    /\ events' = snapshot[1].events
    /\ RecalcSchedule(snapshot[1].events)
    /\ snapshot' = <<>>
    /\ UNCHANGED <<phase, firing>>

\* Faulty: the earliest deadline is kept.
ResetScheduleStale ==
    /\ phase = "idle"
    /\ currCount' = 0
    /\ events' = [i \in Event |-> [events[i] EXCEPT !.target = NoDeadline]]
    /\ nextEvent' = NumEvents
    /\ UNCHANGED <<nextCount, phase, firing, snapshot>>

ResetSchedule ==
    /\ phase = "idle"
    /\ currCount' = 0
    /\ events' = [i \in Event |-> [events[i] EXCEPT !.target = NoDeadline]]
    /\ nextCount' = NoDeadline
    /\ nextEvent' = NumEvents
    /\ UNCHANGED <<phase, firing, snapshot>>

SchedulerInit ==
    /\ currCount = 0
    /\ nextCount = NoDeadline
    /\ nextEvent = NumEvents
    /\ events \in [Event -> {[target |-> NoDeadline, num |-> f[1], den |-> f[2]] : f \in Factors}]
    /\ phase = "idle"
    /\ firing = NoFiring
    /\ snapshot = <<>>

ExecuteStep == Fire \/ SkipStale \/ ReturnRescheduled \/ ReturnDone \/ Finish

SchedulerNext ==
    \/ \E id \in Event, interval \in Intervals \cup CallbackIntervals : ScheduleFromNow(id, interval)
    \/ \E id \in Event : Cancel(id)
    \/ \E id \in Event, f \in Factors : SetEventCountFactor(id, f)
    \/ \E count \in Steps : Advance(count)
    \/ ExecuteStep
    \/ SaveSchedule
    \/ LoadSchedule
    \/ ResetSchedule

\* Advance is a call: it runs to its end.
SchedulerSpec == SchedulerInit /\ [][SchedulerNext]_schedulerVars /\ WF_schedulerVars(ExecuteStep)

-----------------------------------------------------------------------------
EventRecord == [target : Nat, num : Nat \ {0}, den : Nat \ {0}]

\* The schedule's members keep their types, and only a callback has a caller.
SchedulerTypeOK ==
    /\ currCount \in 0 .. MaxCount
    /\ nextCount \in Nat
    /\ nextEvent \in 0 .. NumEvents
    /\ events \in [Event -> EventRecord]
    /\ phase \in {"idle", "execute", "callback"}
    /\ firing \in [id : 0 .. NumEvents, target : Nat]
    /\ phase = "callback" <=> firing.id # NumEvents
    /\ snapshot \in Seq([count : 0 .. MaxCount, events : [Event -> EventRecord]])
    /\ Len(snapshot) <= 1

\* When Advance returns, no event is due: however events were put off,
\* cancelled, loaded or scheduled by other events' callbacks, the cached
\* deadline never makes Execute miss one (scheduler.hpp 317-342).
AdvanceFiresAllDue ==
    [][phase = "execute" /\ phase' = "idle" => \A id \in Event : ~Due(events[id])]_schedulerVars

\* Execute never indexes the events with "none", though Cancel and LoadState
\* change deadlines behind the caches.
ExecutesAnEvent == phase = "execute" /\ currCount >= nextCount => nextEvent \in Event

\* Every Advance returns: rounding a deadline to the primary clock and back
\* never leaves Execute spinning on an event that is not due yet.
AdvanceReturns == phase # "idle" ~> phase = "idle"
=============================================================================
