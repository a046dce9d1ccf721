------------------------------- MODULE Events -------------------------------
(***************************************************************************)
(* The calendar of events, events/models.py, forms.py and views.py, and    *)
(* the reminder of every minute (run_meeting_notification in               *)
(* zzz/scheduler.py).                                                      *)
(*                                                                         *)
(* Time is counted in slots, Slots to a day, Week days to a week and       *)
(* Months months to a year; the lengths of the months are a constant.  All *)
(* times are local: a change of the clocks is not modelled.                *)
(***************************************************************************)
EXTENDS Integers, Sequences, FiniteSets, FiniteSetsExt

CONSTANTS
    Slots, Week, Months,
    MonthLengths,  \* of the months 1, 2, ... of the whole calendar
    Starts,        \* the starts that events are given
    MaxNow,        \* bound: the end of time
    MaxSaves       \* bound: times an event is saved or deleted

VARIABLES event, now, reminded, saves

vars == <<event, now, reminded, saves>>

-----------------------------------------------------------------------------
(* The calendar                                                            *)

LengthOf(i) == MonthLengths[i]
First[i \in 1..Len(MonthLengths) + 1] == IF i = 1 THEN 0 ELSE First[i - 1] + LengthOf(i - 1)

AllMonths == 1..Len(MonthLengths)
MonthOf(t) == CHOOSE i \in AllMonths : First[i] <= t \div Slots /\ t \div Slots < First[i + 1]
DayOf(t)   == t \div Slots - First[MonthOf(t)] + 1

(* The slot of t's time of day on day d of month i.                        *)
At(t, i, d) == (First[i] + d - 1) * Slots + (t % Slots)

MutantSafe(t, i, anchor) == At(t, i, IF DayOf(t) < LengthOf(i) THEN DayOf(t) ELSE LengthOf(i))
(* _replace_calendar_date                                                  *)
_replace_calendar_date(t, i, anchor) == At(t, i, IF anchor < LengthOf(i) THEN anchor ELSE LengthOf(i))

Weekdays(i, w) == {d \in 1..LengthOf(i) : (First[i] + d - 1) % Week = w}

(* _get_nth_weekday_of_month, as a set: empty when there is none.          *)
NthWeekday(t, i, w, nth) ==
    {At(t, i, d) : d \in {x \in Weekdays(i, w) :
        Cardinality({y \in Weekdays(i, w) : IF nth = -1 THEN y > x ELSE y < x}) =
            IF nth = -1 THEN 0 ELSE nth - 1}}

-----------------------------------------------------------------------------
(* The recurrences, as the loops of the model step through them            *)

(* From start, every n months, on the anchor day; Beyond when the calendar *)
(* ends.                                                                   *)
Beyond == First[Len(MonthLengths) + 1] * Slots

Chain(start, n) ==
    LET step[k \in 0..Len(MonthLengths)] ==
          IF k = 0 THEN start
          ELSE LET t == step[k - 1]
               IN  IF t = Beyond \/ MonthOf(t) + n \notin AllMonths THEN Beyond
                   ELSE _replace_calendar_date(t, MonthOf(t) + n, DayOf(start))
    IN  {step[k] : k \in DOMAIN step}

Every(from, n, to) == {from + k * n : k \in 0..((to - from) \div n)}

Ordinals(e, from) ==
    UNION {NthWeekday(e.start, i, e.weekday, e.ordinal) : i \in from..Len(MonthLengths)}

(* get_occurrences: daily and weekly events are brought forward to the     *)
(* range first, and those by weekday begin with its month.                 *)
get_occurrences(e, lo, hi) ==
    LET forward(n) == IF e.start < lo THEN e.start + ((lo - e.start) \div n) * n ELSE e.start
        all == CASE e.frequency = "once"    -> {e.start}
                 [] e.frequency = "daily"   -> Every(forward(Slots), Slots, hi)
                 [] e.frequency = "weekly"  -> Every(forward(Slots * Week), Slots * Week, hi)
                 [] e.frequency = "monthly" -> Chain(e.start, 1)
                 [] e.frequency = "yearly"  -> Chain(e.start, Months)
                 [] OTHER -> {t \in Ordinals(e, MonthOf(IF e.start > lo THEN e.start ELSE lo)) :
                                t >= e.start}
    IN  IF hi < lo \/ (e.frequency # "once" /\ e.start > hi) THEN {}
        ELSE {t \in all : lo <= t /\ t <= hi}

(* get_next_occurrence, as a set; the events by weekday begin with the     *)
(* month of today, whenever they start.                                    *)
get_next_occurrence(e, t) ==
    LET coming(ts) == LET later == {x \in ts : t < x /\ x < Beyond}
                      IN  IF later = {} THEN {} ELSE {Min(later)}
    IN  CASE e.frequency = "once"    -> coming({e.start})
          [] e.frequency = "daily"   -> coming(Every(e.start, Slots, Beyond))
          [] e.frequency = "weekly"  -> coming(Every(e.start, Slots * Week, Beyond))
          [] e.frequency = "monthly" -> coming(Chain(e.start, 1))
          [] e.frequency = "yearly"  -> coming(Chain(e.start, Months))
          [] OTHER                   -> coming(Ordinals(e, MonthOf(t)))

-----------------------------------------------------------------------------
(* Saving events, and the job of every minute                              *)

NoEvent == [frequency |-> "none", start |-> 0, ordinal |-> 0, weekday |-> 0, active |-> FALSE]

Frequencies == {"once", "daily", "weekly", "monthly", "yearly"}

(* EventForm: an event by weekday names which one of the month it is.      *)
Saved ==
    [frequency : Frequencies, start : Starts, ordinal : {0}, weekday : {0}, active : BOOLEAN]
    \cup [frequency : {"monthly_ordinal"}, start : Starts, ordinal : {1, 2, -1},
          weekday : 0..(Week - 1), active : BOOLEAN]

Init == event = NoEvent /\ now = 0 /\ reminded = {} /\ saves = 0

(* EventCreateView, EventUpdateView                                        *)
Save ==
    /\ saves < MaxSaves /\ saves' = saves + 1
    /\ event' \in Saved
    /\ UNCHANGED <<now, reminded>>

Delete ==
    /\ event # NoEvent /\ event' = NoEvent
    /\ UNCHANGED <<now, reminded, saves>>

(* The occurrences of this minute: one-time events by their date.          *)
Starting(e, t) == {x \in get_occurrences(e, t, t + 1) : x < t + 1}

(* The job runs, or the minute is missed.                                  *)
run_meeting_notification ==
    /\ now < MaxNow /\ now' = now + 1
    /\ reminded' = {x \in reminded : x[2] > now - 2} \cup
                   (IF event.active THEN {<<now, x>> : x \in Starting(event, now)} ELSE {})
    /\ UNCHANGED <<event, saves>>

Miss == now < MaxNow /\ now' = now + 1 /\ UNCHANGED <<event, reminded, saves>>

Next == Save \/ Delete \/ run_meeting_notification \/ Miss

Spec == Init /\ [][Next]_vars

-----------------------------------------------------------------------------
(* Properties                                                              *)

SameTime(e, t) == t >= e.start /\ t % Slots = e.start % Slots

(* On the day of its start, or on the last of a month that is too short.   *)
OnDay(e, t) ==
    \/ DayOf(t) = DayOf(e.start)
    \/ DayOf(t) = LengthOf(MonthOf(t)) /\ DayOf(t) < DayOf(e.start)

Occurs(e, t) ==
    /\ SameTime(e, t)
    /\ CASE e.frequency = "once"    -> t = e.start
         [] e.frequency = "daily"   -> TRUE
         [] e.frequency = "weekly"  -> (t - e.start) % (Slots * Week) = 0
         [] e.frequency = "monthly" -> OnDay(e, t)
         [] e.frequency = "yearly"  ->
                OnDay(e, t) /\ (MonthOf(t) - MonthOf(e.start)) % Months = 0
         [] OTHER ->
                LET same == {d \in 1..LengthOf(MonthOf(t)) :
                               (First[MonthOf(t)] + d - 1) % Week = e.weekday}
                IN  /\ DayOf(t) \in same
                    /\ IF e.ordinal = -1 THEN \A d \in same : d <= DayOf(t)
                       ELSE Cardinality({d \in same : d <= DayOf(t)}) = e.ordinal

(* The list of a range has exactly the occurrences in it, and the next one *)
(* is the first after now; an event by weekday that has not started yet    *)
(* may be announced earlier.                                               *)
CalendarIsRight ==
    event # NoEvent =>
        /\ \A hi \in now..MaxNow :
             get_occurrences(event, now, hi) = {t \in now..hi : Occurs(event, t)}
        /\ event.frequency # "monthly_ordinal" \/ event.start <= now =>
             LET later == {t \in (now + 1)..(Beyond - 1) : Occurs(event, t)}
             IN  get_next_occurrence(event, now) = IF later = {} THEN {} ELSE {Min(later)}

(* Nobody is reminded twice of one occurrence, nor in another minute.      *)
RemindedOnTime == \A x \in reminded : x[1] = x[2]

EventsInvariant == CalendarIsRight /\ RemindedOnTime
=============================================================================
