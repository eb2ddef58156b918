----------------------------- MODULE QuietHours -----------------------------
(***************************************************************************)
(* The calendar arithmetic of two gates of the dispatcher: the quiet-hours *)
(* window (quiet_hours/window.rs) and the day of a producer's quota        *)
(* (producer_quota/tracker.rs).  Instants are ticks of UTC; a zone has one *)
(* offset before the instant of a clock change and another after it, so    *)
(* that some local times occur twice or never.                             *)
(***************************************************************************)
EXTENDS Integers, FiniteSets, FiniteSetsExt

CONSTANTS
    Minute,         \* ticks in a minute
    Day,            \* ticks in a day
    MAX_GAP_SEARCH, \* how far resolve_local looks for a local time that exists
    None

ASSUME CalendarAssumption ==
    /\ Minute \in Nat \ {0} /\ Day \in Nat \ {0} /\ MAX_GAP_SEARCH \in Nat
    /\ Day % Minute = 0 /\ None \notin Int

\* A zone, and a quiet-hours window: two times of the day.
Zone == [before : (1 - Day)..(Day - 1), after : (1 - Day)..(Day - 1), at : Int]
Policy == [start : 0..(Day - 1), end : 0..(Day - 1)]

Local(z, u) == u + (IF u < z.at THEN z.before ELSE z.after)

Date(l) == l \div Day
TimeOfDay(l) == l % Day

\* chrono-tz: the instants, none, one or two, with a local time.
from_local_datetime(z, l) == {u \in {l - z.before, l - z.after} : Local(z, u) = l}

Skipped(z, l) == from_local_datetime(z, l) = {}

Repeated(z, l) == Cardinality(from_local_datetime(z, l)) = 2

\* A local time that does not exist is moved to the next minute that does.
resolve_local(z, l) ==
    LET tries == {k \in 0..MAX_GAP_SEARCH : k % Minute = 0 /\ ~Skipped(z, l + k)}
    IN  IF tries = {} THEN None ELSE Min(from_local_datetime(z, l + Min(tries)))

\* A policy is a window of the local day, which may wrap midnight.
Wraps(policy) == policy.start > policy.end

InWindow(policy, l) ==
    LET t == TimeOfDay(l)
    IN  IF Wraps(policy) THEN t >= policy.start \/ t < policy.end
        ELSE t >= policy.start /\ t < policy.end

\* Broken variant: the end of a window that wraps is sought on today's date.
EndDateToday(policy, l) == Date(l)

EndDate(policy, l) ==
    IF Wraps(policy) /\ TimeOfDay(l) >= policy.start THEN Date(l) + 1 ELSE Date(l)

\* The instant a row is put off to, before jitter, or None to let it pass.  A zone
\* is None when its name does not parse.
resolve_reschedule(now, customer_tz, tenant_default_tz, policy) ==
    LET z == IF customer_tz # None THEN customer_tz ELSE tenant_default_tz
    IN  IF z = None THEN None
        ELSE IF ~InWindow(policy, Local(z, now)) THEN None
        ELSE resolve_local(z, EndDate(policy, Local(z, now)) * Day + policy.end)

\* Midnight of a local date; one that does not exist is read as a time of UTC.
resolve_local_midnight(z, l) ==
    IF Skipped(z, l) THEN l ELSE Min(from_local_datetime(z, l))

minute_window_start(u) == (u \div Minute) * Minute

day_window_start(z, u) == resolve_local_midnight(z, Date(Local(z, u)) * Day)

\* Broken variant: a day is added to the instant instead of to the local date.
next_day_by_duration(z, u) == day_window_start(z, u) + Day

next_day_window_start(z, u) == resolve_local_midnight(z, (Date(Local(z, u)) + 1) * Day)
=============================================================================
