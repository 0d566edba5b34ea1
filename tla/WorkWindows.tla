---------------------------- MODULE WorkWindows ----------------------------
(***************************************************************************)
(* When a project may be contacted and worked on: the weekly schedules of  *)
(* an adapter (adapter-contract.mjs, common-policy.mjs) and the mutation   *)
(* window of a participant (mutation-window.mjs).                          *)
(*                                                                         *)
(* An instant is a minute of the week, counted from Monday 00:00 UTC.  A   *)
(* timezone is what the conversion of an instant needs of it: its distance *)
(* from UTC.  A day name is its number.                                    *)
(***************************************************************************)
EXTENDS Integers, SequencesExt

CONSTANT Offset   \* minutes east of UTC, for each timezone of the host

ASSUME OffsetAssumption == \A tz \in DOMAIN Offset : Offset[tz] \in Int

Day  == 24 * 60
Week == 7 * Day

LocalMinute(tz, t) == (t + Offset[tz]) % Week
LocalDay(tz, t)    == LocalMinute(tz, t) \div Day + 1
MinuteOfDay(tz, t) == LocalMinute(tz, t) % Day
LocalHour(tz, t)   == MinuteOfDay(tz, t) \div 60

DaysAreValid(days) ==
    /\ days # <<>>
    /\ ToSet(days) \subseteq 1 .. 7
    /\ IsInjective(days)

\* A schedule is valid.  The end hour is exclusive, 24 is the end of the
\* day, and no schedule goes over midnight.
RequireSchedule(s) ==
    /\ s.timezone \in DOMAIN Offset
    /\ DaysAreValid(s.days)
    /\ s.start_hour \in 0 .. 24
    /\ s.end_hour \in 0 .. 24
    /\ s.end_hour > s.start_hour

\* Faulty variant: the first hour does not count.
ContactWindowAfterStart(s, t) ==
    /\ RequireSchedule(s)
    /\ LocalDay(s.timezone, t) \in ToSet(s.days)
    /\ s.start_hour < LocalHour(s.timezone, t)
    /\ LocalHour(s.timezone, t) < s.end_hour

ContactWindowStatus(s, t) ==
    /\ RequireSchedule(s)
    /\ LocalDay(s.timezone, t) \in ToSet(s.days)
    /\ s.start_hour <= LocalHour(s.timezone, t)
    /\ LocalHour(s.timezone, t) < s.end_hour

\* The mutation window of a participant: at most one, with its start and
\* end in minutes of the day.
NormalizeMutationWindow(w) ==
    /\ w.timezone \in DOMAIN Offset
    /\ DaysAreValid(w.days)
    /\ w.start \in 0 .. Day - 1
    /\ w.end \in 0 .. Day - 1
    /\ w.start < w.end

\* Faulty variant: the day is that of UTC.
MutationWindowOnUtcDay(windows, t) ==
    \A i \in DOMAIN windows :
        /\ NormalizeMutationWindow(windows[i])
        /\ t \div Day + 1 \in ToSet(windows[i].days)
        /\ windows[i].start <= MinuteOfDay(windows[i].timezone, t)
        /\ MinuteOfDay(windows[i].timezone, t) < windows[i].end

\* A participant without a window is not limited.
MutationWindowStatus(windows, t) ==
    \A i \in DOMAIN windows :
        LET w == windows[i] IN
        /\ NormalizeMutationWindow(w)
        /\ LocalDay(w.timezone, t) \in ToSet(w.days)
        /\ w.start <= MinuteOfDay(w.timezone, t)
        /\ MinuteOfDay(w.timezone, t) < w.end
=============================================================================
