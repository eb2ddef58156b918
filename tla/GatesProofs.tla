---------------------------- MODULE GatesProofs ----------------------------
(***************************************************************************)
(* Proofs about QuietHours and Gates, for any calendar and zones, any      *)
(* quotas and windows, any rows and tasks and any number of restarts.      *)
(***************************************************************************)
EXTENDS Gates, WellFoundedInduction, FiniteSetTheorems, TLAPS

-----------------------------------------------------------------------------
(* The calendar.                                                           *)

\* A set of naturals has a least element.
LEMMA LeastNatural ==
    ASSUME NEW S \in SUBSET Nat, S # {}
    PROVE  Min(S) \in S /\ \A y \in S : Min(S) <= y
<1> DEFINE R == {p \in Nat \X Nat : p[1] < p[2]}
<1>1. IsWellFoundedOn(R, Nat)
    BY Zenon, NatLessThanWellFounded DEF OpToRel
<1>2. \E x \in S : \A y \in S : ~(<<y, x>> \in R)
    <2> HIDE DEF R
    <2> QED
        BY Zenon, <1>1, WFMin
<1>3. PICK x \in S : \A y \in S : ~(<<y, x>> \in R)
    BY Zenon, <1>2
<1>4. ASSUME NEW y \in S PROVE x <= y
    <2>1. <<y, x>> \in Nat \X Nat /\ <<y, x>>[1] = y /\ <<y, x>>[2] = x
        OBVIOUS
    <2>2. ~(y < x)
        BY Zenon, <1>3, <2>1
    <2> QED
        BY <2>2
<1> QED
    BY Zenon, <1>4 DEF Min

\* A set of limits has a greatest one.
LEMMA GreatestLimit ==
    ASSUME NEW S \in SUBSET Limit, S # {}
    PROVE  Max(S) \in S
<1> DEFINE T == {MAX_INT - x : x \in S}
<1>0. MAX_INT \in Int
    BY SMT DEF MAX_INT
<1>1. T \in SUBSET Nat /\ T # {}
    <2>1. \A x \in S : MAX_INT - x \in Nat
        BY <1>0 DEF Limit
    <2> QED
        BY Zenon, <2>1
<1>2. Min(T) \in T /\ \A y \in T : Min(T) <= y
    <2> HIDE DEF T
    <2> QED
        BY Zenon, <1>1, LeastNatural
<1>3. PICK m \in S : Min(T) = MAX_INT - m
    BY Zenon, <1>2
<1>4. ASSUME NEW y \in S PROVE m >= y
    <2>1. MAX_INT - y \in T
        OBVIOUS
    <2>2. MAX_INT - m <= MAX_INT - y
        BY Zenon, <1>2, <1>3, <2>1
    <2> QED
        BY <1>0, <2>2 DEF Limit
<1> QED
    BY Zenon, <1>4 DEF Max

\* The greatest of two numbers.
LEMMA GreaterOfTwo ==
    ASSUME NEW a \in Int, NEW b \in Int
    PROVE  Max({a, b}) \in {a, b} /\ Max({a, b}) >= a /\ Max({a, b}) >= b
<1>1. \E x \in {a, b} : \A y \in {a, b} : x >= y
    <2>1. CASE a >= b
        BY <2>1
    <2>2. CASE b >= a
        BY <2>2
    <2> QED
        BY <2>1, <2>2
<1>2. Max({a, b}) \in {a, b} /\ \A y \in {a, b} : Max({a, b}) >= y
    BY Zenon, <1>1 DEF Max
<1> QED
    BY Zenon, <1>2

\* A date is the number of whole days.
LEMMA Dates ==
    ASSUME NEW l \in Int
    PROVE  /\ Date(l) \in Int
           /\ Date(l) * Day <= l /\ l < Date(l) * Day + Day
           /\ TimeOfDay(l) = l - Date(l) * Day
BY CalendarAssumption DEF Date, TimeOfDay

\* A time of a given date.
LEMMA DateOf ==
    ASSUME NEW d \in Int, NEW k \in 0..(Day - 1)
    PROVE  /\ d * Day \in Int
           /\ Date(d * Day + k) = d /\ TimeOfDay(d * Day + k) = k
BY CalendarAssumption DEF Date, TimeOfDay

\* Dates that differ, differ by a day.
LEMMA DaysApart ==
    ASSUME NEW c \in Int, NEW d \in Int, c < d
    PROVE  c * Day + Day <= d * Day
BY CalendarAssumption

\* The fields of a zone.
LEMMA ZoneFields ==
    ASSUME NEW z \in Zone
    PROVE  /\ z.before \in Int /\ -Day < z.before /\ z.before < Day
           /\ z.after \in Int /\ -Day < z.after /\ z.after < Day
           /\ z.at \in Int
BY CalendarAssumption DEF Zone

\* Local times are numbers.
LEMMA LocalType ==
    ASSUME NEW z \in Zone, NEW u \in Int
    PROVE  Local(z, u) \in Int
BY ZoneFields DEF Local

\* chrono-tz finds exactly the instants with a local time.
LEMMA InstantsOf ==
    ASSUME NEW z \in Zone, NEW l \in Int
    PROVE  \A u : u \in from_local_datetime(z, l) <=> u \in Int /\ Local(z, u) = l
BY ZoneFields DEF Local, from_local_datetime

\* A local time with two instants is repeated.
LEMMA TwoRepeat ==
    ASSUME NEW z \in Zone, NEW l \in Int, NEW u \in Int, NEW v \in Int,
           u # v, Local(z, u) = l, Local(z, v) = l
    PROVE  Repeated(z, l)
<1>1. u \in from_local_datetime(z, l) /\ v \in from_local_datetime(z, l)
    BY Zenon, InstantsOf
<1>2. from_local_datetime(z, l) = {u} \cup {v}
    <2>1. from_local_datetime(z, l) \subseteq {l - z.before, l - z.after}
        BY Zenon DEF from_local_datetime
    <2> QED
        BY <1>1, <2>1
<1>3. IsFiniteSet({u}) /\ Cardinality({u}) = 1
    BY FS_Singleton
<1>4. Cardinality({u} \cup {v}) = 2
    BY <1>3, FS_AddElement
<1> QED
    BY Zenon, <1>2, <1>4 DEF Repeated

\* The earliest instant of a local time is one of them.
LEMMA EarliestOf ==
    ASSUME NEW z \in Zone, NEW l \in Int, ~Skipped(z, l)
    PROVE  /\ Min(from_local_datetime(z, l)) \in Int
           /\ Local(z, Min(from_local_datetime(z, l))) = l
           /\ \A u \in Int : Local(z, u) = l => Min(from_local_datetime(z, l)) <= u
<1> DEFINE S == from_local_datetime(z, l)
           a == l - z.before
           b == l - z.after
<1>1. a \in Int /\ b \in Int
    BY ZoneFields
<1>2. S # {} /\ S \subseteq {a, b}
    BY Zenon DEF Skipped, from_local_datetime
<1>3. \E x \in S : \A y \in S : x <= y
    <2> HIDE DEF a, b, S
    <2>1. CASE a \in S /\ b \in S
        <3>1. CASE a <= b
            BY <1>1, <1>2, <2>1, <3>1
        <3>2. CASE b <= a
            BY <1>1, <1>2, <2>1, <3>2
        <3> QED
            BY <1>1, <3>1, <3>2
    <2>2. CASE ~(a \in S /\ b \in S)
        <3>1. PICK x \in S : S = {x} /\ x \in Int
            BY Zenon, <1>1, <1>2, <2>2
        <3> QED
            BY <3>1
    <2> QED
        BY Zenon, <2>1, <2>2
<1>4. Min(S) \in S /\ \A y \in S : Min(S) <= y
    BY Zenon, <1>3 DEF Min
<1> QED
    BY Zenon, <1>4, InstantsOf

\* Midnight as resolve_local_midnight reads it.
LEMMA MidnightIs ==
    ASSUME NEW z \in Zone, NEW l \in Int
    PROVE  resolve_local_midnight(z, l) =
             IF l - z.before < z.at THEN l - z.before
             ELSE IF l - z.after >= z.at THEN l - z.after ELSE l
<1>0. /\ z.before \in Int /\ z.after \in Int /\ z.at \in Int
    BY Zenon, ZoneFields
<1>1. CASE Skipped(z, l)
    <2>1. \A u \in Int : Local(z, u) # l
        BY Zenon, <1>1, InstantsOf DEF Skipped
    <2>2. l - z.before \in Int /\ l - z.after \in Int
        BY <1>0
    <2>3. Local(z, l - z.before) # l /\ Local(z, l - z.after) # l
        BY Zenon, <2>1, <2>2
    <2>4. ~(l - z.before < z.at) /\ ~(l - z.after >= z.at)
        BY <1>0, <2>2, <2>3 DEF Local
    <2> QED
        BY Zenon, <1>1, <2>4 DEF resolve_local_midnight
<1>2. CASE ~Skipped(z, l)
    <2> DEFINE m == Min(from_local_datetime(z, l))
    <2>1. /\ m \in Int /\ Local(z, m) = l
          /\ \A u \in Int : Local(z, u) = l => m <= u
        BY Zenon, <1>2, EarliestOf
    <2>2. l - z.before < z.at => m <= l - z.before
        BY <1>0, <2>1 DEF Local
    <2>3. m = IF l - z.before < z.at THEN l - z.before
              ELSE IF l - z.after >= z.at THEN l - z.after ELSE l
        BY <1>0, <2>1, <2>2 DEF Local
    <2> QED
        BY Zenon, <1>2, <2>3 DEF resolve_local_midnight
<1> QED
    BY Zenon, <1>1, <1>2

\* It is an instant.
LEMMA MidnightType ==
    ASSUME NEW z \in Zone, NEW l \in Int
    PROVE  resolve_local_midnight(z, l) \in Int
BY MidnightIs, ZoneFields

\* A later date has a later midnight, also where midnights are skipped.
LEMMA MidnightsAscend ==
    ASSUME NEW z \in Zone, NEW c \in Int, NEW d \in Int, c < d
    PROVE  resolve_local_midnight(z, c * Day) < resolve_local_midnight(z, d * Day)
<1>1. PICK l \in Int : l = c * Day
    BY CalendarAssumption
<1>2. PICK m \in Int : m = d * Day
    BY CalendarAssumption
<1>3. l + Day <= m
    BY Zenon, <1>1, <1>2, DaysApart
<1>4. resolve_local_midnight(z, l) < resolve_local_midnight(z, m)
    BY <1>3, MidnightIs, ZoneFields, CalendarAssumption
<1> QED
    BY Zenon, <1>1, <1>2, <1>4

\* The day of a quota starts at an instant.
LEMMA DayStartType ==
    ASSUME NEW z \in Zone, NEW u \in Int
    PROVE  day_window_start(z, u) \in Int /\ next_day_window_start(z, u) \in Int
<1>1. Date(Local(z, u)) \in Int
    BY Zenon, LocalType, Dates
<1>2. Date(Local(z, u)) * Day \in Int /\ (Date(Local(z, u)) + 1) * Day \in Int
    BY <1>1, CalendarAssumption
<1> QED
    BY Zenon, <1>2, MidnightType DEF day_window_start, next_day_window_start

\* So does its minute, and minutes ascend.
LEMMA MinutesAscend ==
    ASSUME NEW u \in Int, NEW v \in Int, u <= v
    PROVE  /\ minute_window_start(u) \in Int
           /\ minute_window_start(u) <= minute_window_start(v)
<1>1. PICK p \in Int : p = u \div Minute /\ p * Minute <= u /\ u < p * Minute + Minute
    BY CalendarAssumption
<1>2. PICK q \in Int : q = v \div Minute /\ q * Minute <= v /\ v < q * Minute + Minute
    BY CalendarAssumption
<1>3. p <= q
    <2>1. q < p => q * Minute + Minute <= p * Minute
        BY CalendarAssumption
    <2>2. p * Minute \in Int /\ q * Minute \in Int /\ Minute \in Int
        BY CalendarAssumption
    <2> QED
        BY <1>1, <1>2, <2>1, <2>2
<1>4. p * Minute <= q * Minute
    BY <1>3, CalendarAssumption
<1> QED
    BY <1>1, <1>2, <1>4, CalendarAssumption DEF minute_window_start

\* Days ascend from an instant whose date does not begin twice.
LEMMA DaysAscend ==
    ASSUME NEW z \in Zone, NEW u \in Int, NEW v \in Int, u <= v,
           ~Repeated(z, Date(Local(z, u)) * Day)
    PROVE  day_window_start(z, u) <= day_window_start(z, v)
<1> DEFINE c == Date(Local(z, u))
           d == Date(Local(z, v))
<1>1. Local(z, u) \in Int /\ Local(z, v) \in Int
    BY Zenon, LocalType
<1>2. c \in Int /\ d \in Int
    BY Zenon, <1>1, Dates
<1>3. c <= d
    <2>1. SUFFICES ASSUME d < c PROVE FALSE
        BY <1>2
    <2>2. PICK m \in Int : m = c * Day
        BY <1>2, CalendarAssumption
    <2>3. m <= Local(z, u) /\ Local(z, v) < m
        <3>1. m <= Local(z, u)
            BY Zenon, <1>1, <2>2, Dates
        <3>2. Local(z, v) < d * Day + Day /\ d * Day + Day <= m
            BY Zenon, <1>1, <1>2, <2>1, <2>2, Dates, DaysApart
        <3>3. d * Day + Day \in Int
            BY <1>2, CalendarAssumption
        <3> QED
            BY <1>1, <3>1, <3>2, <3>3
    <2>4. /\ m - z.before \in Int /\ m - z.after \in Int /\ m - z.before # m - z.after
          /\ Local(z, m - z.before) = m /\ Local(z, m - z.after) = m
        BY <2>3, ZoneFields DEF Local
    <2> QED
        BY Zenon, <2>2, <2>4, TwoRepeat
<1>4. CASE c = d
    BY <1>4, DayStartType DEF day_window_start
<1>5. CASE c < d
    <2>1. resolve_local_midnight(z, c * Day) < resolve_local_midnight(z, d * Day)
        BY Zenon, <1>2, <1>5, MidnightsAscend
    <2> QED
        BY <2>1, DayStartType DEF day_window_start
<1> QED
    BY <1>2, <1>3, <1>4, <1>5

\* A later local time comes later, unless one of the two comes twice.
LEMMA LaterLocal ==
    ASSUME NEW z \in Zone, NEW u \in Int, NEW v \in Int, Local(z, u) < Local(z, v)
    PROVE  u < v \/ (Repeated(z, Local(z, u)) /\ Repeated(z, Local(z, v)))
<1>1. SUFFICES ASSUME v <= u
               PROVE  Repeated(z, Local(z, u)) /\ Repeated(z, Local(z, v))
    OBVIOUS
<1>2. PICK l \in Int, m \in Int : l = Local(z, u) /\ m = Local(z, v)
    BY LocalType
<1>3. /\ l - z.before \in Int /\ l - z.after \in Int /\ l - z.before # l - z.after
      /\ Local(z, l - z.before) = l /\ Local(z, l - z.after) = l
    BY <1>1, <1>2, ZoneFields DEF Local
<1>4. /\ m - z.before \in Int /\ m - z.after \in Int /\ m - z.before # m - z.after
      /\ Local(z, m - z.before) = m /\ Local(z, m - z.after) = m
    BY <1>1, <1>2, ZoneFields DEF Local
<1>5. Repeated(z, l) /\ Repeated(z, m)
    BY Zenon, <1>3, <1>4, TwoRepeat
<1> QED
    BY Zenon, <1>2, <1>5

\* Tomorrow's window is in the future and starts where it says.
LEMMA NextDayIsNext ==
    ASSUME NEW z \in Zone, NEW u \in Int, NEW m \in Int,
           m = (Date(Local(z, u)) + 1) * Day, ~Skipped(z, m), ~Repeated(z, m)
    PROVE  /\ next_day_window_start(z, u) > u
           /\ day_window_start(z, next_day_window_start(z, u)) = next_day_window_start(z, u)
<1> DEFINE d == Date(Local(z, u))
           n == Min(from_local_datetime(z, m))
<1>1. n \in Int /\ Local(z, n) = m /\ next_day_window_start(z, u) = n
    BY Zenon, EarliestOf DEF next_day_window_start, resolve_local_midnight
<1>2. d \in Int /\ Local(z, u) \in Int /\ Local(z, u) < d * Day + Day
    BY Zenon, LocalType, Dates
<1>3. Local(z, u) < m
    BY <1>2, CalendarAssumption
<1>4. u < n
    BY Zenon, <1>1, <1>3, LaterLocal
<1>5. Date(m) * Day = m
    <2>1. d + 1 \in Int /\ 0 \in 0..(Day - 1) /\ m = (d + 1) * Day + 0
        BY <1>2, CalendarAssumption
    <2>2. Date(m) = d + 1
        BY Zenon, <2>1, DateOf
    <2> QED
        BY Zenon, <2>2
<1>6. day_window_start(z, n) = n
    BY Zenon, <1>1, <1>5 DEF day_window_start, resolve_local_midnight
<1> QED
    BY <1>1, <1>4, <1>6

\* How long sending is allowed between two windows.
LEMMA OpenHours ==
    ASSUME NEW p \in Policy
    PROVE  (p.start - p.end) % Day =
             IF p.start >= p.end THEN p.start - p.end ELSE p.start - p.end + Day
<1>1. p.start \in 0..(Day - 1) /\ p.end \in 0..(Day - 1) /\ Day \in Nat \ {0}
    BY CalendarAssumption DEF Policy
<1>2. CASE p.start >= p.end
    <2>1. p.start - p.end \in 0..(Day - 1)
        BY <1>1, <1>2
    <2>2. TimeOfDay(0 * Day + (p.start - p.end)) = p.start - p.end
        BY <2>1, DateOf
    <2> QED
        BY <1>1, <1>2, <2>2 DEF TimeOfDay
<1>3. CASE p.start < p.end
    <2>1. p.start - p.end + Day \in 0..(Day - 1)
        BY <1>1, <1>3
    <2>2. TimeOfDay((-1) * Day + (p.start - p.end + Day)) = p.start - p.end + Day
        BY <2>1, DateOf
    <2>3. (-1) * Day + (p.start - p.end + Day) = p.start - p.end
        BY <1>1
    <2> QED
        BY <1>1, <1>3, <2>2, <2>3 DEF TimeOfDay
<1> QED
    BY <1>1, <1>2, <1>3

\* Sending is allowed for longer than a clock change skips.
OutlastsGap(z, p) ==
    z.before < z.after /\ p.start # p.end =>
        z.after - z.before + Minute <= (p.start - p.end) % Day

\* A local time is skipped when the clock jumps over it.
LEMMA SkippedIs ==
    ASSUME NEW z \in Zone, NEW l \in Int, Skipped(z, l)
    PROVE  z.at <= l - z.before /\ l - z.after < z.at
<1>1. \A u \in Int : Local(z, u) # l
    BY Zenon, InstantsOf DEF Skipped
<1>2. /\ l - z.before \in Int /\ l - z.after \in Int
      /\ Local(z, l - z.before) # l /\ Local(z, l - z.after) # l
    BY <1>1, ZoneFields
<1> QED
    BY <1>2, ZoneFields DEF Local

\* resolve_local moves a time by less than the gap and a minute.
LEMMA MovedLocal ==
    ASSUME NEW z \in Zone, NEW l \in Int, resolve_local(z, l) # None
    PROVE  \E k \in Nat :
             /\ resolve_local(z, l) \in Int /\ Local(z, resolve_local(z, l)) = l + k
             /\ k # 0 => z.before < z.after /\ k < z.after - z.before + Minute
<1> DEFINE tries == {k \in 0..MAX_GAP_SEARCH : k % Minute = 0 /\ ~Skipped(z, l + k)}
           k == Min(tries)
<1>1. tries # {} /\ resolve_local(z, l) = Min(from_local_datetime(z, l + k))
    BY Zenon DEF resolve_local
<1>2. tries \subseteq Nat
    BY CalendarAssumption
<1>3. k \in tries /\ \A y \in tries : k <= y
    <2> HIDE DEF tries
    <2> QED
        BY Zenon, <1>1, <1>2, LeastNatural
<1>4. k \in 0..MAX_GAP_SEARCH /\ k % Minute = 0 /\ ~Skipped(z, l + k)
    BY Zenon, <1>3
<1> HIDE DEF k
<1>5. k \in Nat /\ l + k \in Int
    BY <1>4, CalendarAssumption
<1>6. resolve_local(z, l) \in Int /\ Local(z, resolve_local(z, l)) = l + k
    BY Zenon, <1>1, <1>4, <1>5, EarliestOf
<1>7. ASSUME k # 0 PROVE z.before < z.after /\ k < z.after - z.before + Minute
    <2>1. k - Minute \in 0..MAX_GAP_SEARCH /\ (k - Minute) % Minute = 0 /\ k - Minute < k
        <3>1. PICK q \in Int : k = q * Minute
            BY <1>4, <1>5, CalendarAssumption
        <3>2. q >= 1
            BY <1>5, <1>7, <3>1, CalendarAssumption
        <3>3. k - Minute = (q - 1) * Minute /\ (q - 1) * Minute >= 0
            BY <3>1, <3>2, CalendarAssumption
        <3>4. ((q - 1) * Minute) % Minute = 0
            BY CalendarAssumption
        <3> QED
            BY <1>4, <1>5, <3>3, <3>4, CalendarAssumption
    <2>2. 0 \in 0..MAX_GAP_SEARCH /\ 0 % Minute = 0 /\ 0 < k
        BY <1>4, <1>7, CalendarAssumption
    <2>3. k - Minute \notin tries /\ 0 \notin tries
        <3> HIDE DEF tries
        <3> QED
            BY <1>2, <1>3, <1>5, <2>1, <2>2
    <2>4. Skipped(z, l + (k - Minute)) /\ Skipped(z, l + 0)
        BY Zenon, <2>1, <2>2, <2>3
    <2>5. PICK m \in Int, n \in Int : m = l + (k - Minute) /\ n = l + 0
        BY <1>5, CalendarAssumption
    <2>6. Skipped(z, m) /\ Skipped(z, n)
        BY Zenon, <2>4, <2>5
    <2>7. z.at <= n - z.before /\ n - z.after < z.at /\ m - z.after < z.at
        BY Zenon, <2>6, SkippedIs
    <2> QED
        BY <1>5, <2>5, <2>7, ZoneFields, CalendarAssumption
<1> QED
    BY Zenon, <1>5, <1>6, <1>7

\* A row put off comes back outside the window and, unless the present local time
\* comes twice, in the future.
LEMMA EndsAfterWindow ==
    ASSUME NEW z \in Zone, NEW p \in Policy, NEW u \in Int, NEW e,
           OutlastsGap(z, p), InWindow(p, Local(z, u)), e # None,
           e = resolve_local(z, EndDate(p, Local(z, u)) * Day + p.end)
    PROVE  /\ e \in Int /\ ~InWindow(p, Local(z, e))
           /\ u < e \/ Repeated(z, Local(z, u))
<1> DEFINE l == Local(z, u)
           d == EndDate(p, l)
<1>1. /\ p.start \in 0..(Day - 1) /\ p.end \in 0..(Day - 1)
      /\ Day \in Nat \ {0} /\ Minute \in Nat \ {0}
    BY CalendarAssumption DEF Policy
<1>2. /\ l \in Int /\ Date(l) \in Int /\ Date(l) * Day <= l /\ l < Date(l) * Day + Day
      /\ TimeOfDay(l) = l - Date(l) * Day
    BY Zenon, LocalType, Dates
<1>3. d \in Int
    BY <1>2 DEF EndDate
<1>4. PICK m \in Int : m = d * Day
    BY <1>1, <1>3
<1>5. p.start # p.end /\ l < m + p.end
    <2>1. PICK q \in Int : q = Date(l) * Day
        BY <1>1, <1>2
    <2>2. (Date(l) + 1) * Day = q + Day
        BY <1>1, <1>2, <2>1
    <2>3. CASE Wraps(p) /\ TimeOfDay(l) >= p.start
        BY <1>1, <1>2, <1>4, <2>1, <2>2, <2>3 DEF EndDate, Wraps
    <2>4. CASE ~(Wraps(p) /\ TimeOfDay(l) >= p.start)
        <3>1. m = q
            BY Zenon, <1>4, <2>1, <2>4 DEF EndDate
        <3>2. TimeOfDay(l) < p.end /\ p.start # p.end
            BY <1>1, <1>2, <2>1, <2>4 DEF InWindow, Wraps
        <3> QED
            BY <1>1, <1>2, <2>1, <3>1, <3>2
    <2> QED
        BY Zenon, <2>3, <2>4
<1>6. m + p.end \in Int /\ e = resolve_local(z, m + p.end)
    BY <1>1, <1>4
<1>7. PICK k \in Nat :
        /\ e \in Int /\ Local(z, e) = m + p.end + k
        /\ k # 0 => z.before < z.after /\ k < z.after - z.before + Minute
    BY Zenon, <1>6, MovedLocal
<1>8. k = 0 \/ k < (p.start - p.end) % Day
    <2>1. k # 0 => z.after - z.before + Minute <= (p.start - p.end) % Day
        BY Zenon, <1>5, <1>7 DEF OutlastsGap
    <2>2. (p.start - p.end) % Day \in Int
        BY <1>1
    <2> QED
        BY <1>1, <1>7, <2>1, <2>2, ZoneFields
<1>9. ~InWindow(p, Local(z, e))
    <2>1. (p.start - p.end) % Day =
            IF p.start >= p.end THEN p.start - p.end ELSE p.start - p.end + Day
        BY Zenon, OpenHours
    <2>2. CASE p.end + k < Day
        <3>1. p.end + k \in 0..(Day - 1) /\ m + p.end + k = d * Day + (p.end + k)
            BY <1>1, <1>3, <1>4, <2>2
        <3>2. TimeOfDay(m + p.end + k) = p.end + k
            BY <1>3, <3>1, DateOf
        <3> QED
            BY <1>1, <1>5, <1>7, <1>8, <2>1, <2>2, <3>2 DEF InWindow, Wraps
    <2>3. CASE p.end + k >= Day
        <3>1. p.start < p.end /\ k < p.start - p.end + Day
            BY <1>1, <1>5, <1>7, <1>8, <2>1, <2>3
        <3>2. /\ p.end + k - Day \in 0..(Day - 1) /\ d + 1 \in Int
              /\ m + p.end + k = (d + 1) * Day + (p.end + k - Day)
            BY <1>1, <1>3, <1>4, <2>3, <3>1
        <3>3. TimeOfDay(m + p.end + k) = p.end + k - Day
            BY <3>2, DateOf
        <3> QED
            BY <1>1, <1>7, <3>1, <3>3 DEF InWindow, Wraps
    <2> QED
        BY <1>1, <2>2, <2>3
<1>10. u < e \/ Repeated(z, Local(z, u))
    <2>1. Local(z, u) < Local(z, e)
        BY <1>1, <1>2, <1>5, <1>7
    <2> QED
        BY Zenon, <1>7, <2>1, LaterLocal
<1> QED
    BY Zenon, <1>7, <1>9, <1>10

-----------------------------------------------------------------------------
(* Types.                                                                  *)

\* What the operators set.
Tables ==
    /\ clock \in 0..Horizon
    /\ tz \in Zone /\ customer_tz \in Zone \cup {None}
    /\ quota \in Quota \cup {None} /\ overrides \subseteq Overrides
    /\ policy \in Policy \cup {None} /\ quiet \in Policy \cup {None}

\* The tracker and what it has stored.
Counters ==
    /\ up \in BOOLEAN
    /\ config \in EffectiveQuota \cup {None}
    /\ start \in [Windows -> Int \cup {None}] /\ sent \in [Windows -> Nat]
    /\ IsTally(usage) /\ (snapshot # None => IsTally(snapshot))

\* The rows and the tasks that hold them.
Held ==
    /\ next_attempt_at \in [Rows -> Int \cup {None}]
    /\ row \in [Tasks -> Rows \cup {None}] /\ at \in [Tasks -> 0..Horizon]
    /\ \A t, u \in Tasks : row[t] = row[u] /\ row[t] # None => t = u
    /\ step \in [Tasks -> {"idle", "quota", "quiet"}]
    /\ effective \in [Tasks -> EffectiveQuota \cup {None}]

\* What is kept for the properties.
Counts ==
    /\ IsTally(admitted) /\ \A x \in DOMAIN admitted : admitted[x] >= 1
    /\ ceiling \in [Windows -> Nat] /\ excused \subseteq Windows \X Int

\* While nobody leads, no task runs and no flush is under way.
Down == ~up => snapshot = None /\ \A t \in Tasks : step[t] = "idle"

Shape == Tables /\ Counters /\ Held /\ Counts /\ Down

\* Shape is TypeOK and a little more.
LEMMA ShapeTypeOK == Shape => TypeOK
BY Zenon DEF Shape, Tables, Counters, Held, Counts, TypeOK

\* There are two kinds of windows, and their starts are instants.
LEMMA WindowStartType ==
    ASSUME tz \in Zone, NEW w, NEW u \in Int
    PROVE  window_start(w, u) \in Int
<1>1. minute_window_start(u) \in Int
    BY CalendarAssumption DEF minute_window_start
<1>2. day_window_start(tz, u) \in Int
    BY Zenon, DayStartType
<1> QED
    BY Zenon, <1>1, <1>2 DEF window_start

\* What refresh_config computes is a pair of limits with an enforcement.
LEMMA MergedType ==
    ASSUME Tables, NEW now
    PROVE  Merged(now) \in EffectiveQuota \cup {None}
<1>1. SUFFICES ASSUME quota # None PROVE Merged(now) \in EffectiveQuota
    BY Zenon DEF Merged
<1> DEFINE A == load_active_overrides(now)
           S == A \cup ({quota.per_day} \ {None})
           d == IF A = {} THEN quota.per_day ELSE Max(S)
<1>2. /\ quota.per_minute \in Limit \cup {None} /\ quota.per_day \in Limit \cup {None}
      /\ quota.enforcement \in {"soft", "hard"}
    BY Zenon, <1>1 DEF Tables, Quota
<1>3. \A o \in overrides : o.per_day \in Limit
    BY Zenon, GatesAssumption DEF Tables, Override
<1>4. S \subseteq Limit
    BY Zenon, <1>2, <1>3 DEF load_active_overrides
<1>5. d \in Limit \cup {None}
    <2>1. A # {} => S # {}
        BY Zenon
    <2>2. A # {} => Max(S) \in Limit
        <3> HIDE DEF S
        <3> QED
            BY Zenon, <1>4, <2>1, GreatestLimit
    <2> QED
        BY Zenon, <1>2, <2>2
<1>6. Merged(now) = [minute |-> quota.per_minute, day |-> d, enforcement |-> quota.enforcement]
    BY Zenon, <1>1 DEF Merged
<1> HIDE DEF d
<1> QED
    BY <1>2, <1>5, <1>6 DEF EffectiveQuota

\* The initial state.
LEMMA InitShape == Init => Shape
<1> SUFFICES ASSUME Init PROVE Shape
    OBVIOUS
<1>1. PICK s \in Settings : /\ tz = s.tz /\ customer_tz = s.customer_tz /\ policy = s.policy
                            /\ quota = s.quota
    BY Zenon DEF Init
<1>2. Tables
    <2>1. clock \in 0..Horizon
        BY GatesAssumption DEF Init
    <2>2. /\ s.tz \in Zone /\ s.customer_tz \in Zone \cup {None}
          /\ s.quota \in Quota \cup {None} /\ s.policy \in Policy \cup {None}
        BY Zenon, GatesAssumption
    <2> QED
        BY Zenon, <1>1, <2>1, <2>2 DEF Tables, Init
<1>3. Counters
    <2>1. IsTally(usage)
        BY DEF Init, IsTally
    <2>2. sent \in [Windows -> Nat]
        BY DEF Init
    <2> QED
        BY Zenon, <2>1, <2>2 DEF Counters, Init
<1>4. Held
    <2>1. next_attempt_at \in [Rows -> Int \cup {None}] /\ at \in [Tasks -> 0..Horizon]
        BY GatesAssumption DEF Init
    <2> QED
        BY Zenon, <2>1 DEF Held, Init
<1>5. Counts
    <2>1. DOMAIN admitted = {}
        BY DEF Init
    <2>2. ceiling \in [Windows -> Nat]
        BY DEF Init
    <2> QED
        BY Zenon, <2>1, <2>2 DEF Counts, IsTally, Init
<1>6. Down
    BY Zenon DEF Down, Init
<1> QED
    BY Zenon, <1>2, <1>3, <1>4, <1>5, <1>6 DEF Shape

-----------------------------------------------------------------------------
(* check_and_record.                                                       *)

\* The windows a task's time falls in, and whether they have a limit for it.
Current(t) == {<<w, window_start(w, at[t])>> : w \in Windows}
Limited(t, w) == effective[t] # None /\ effective[t][w] # None /\ Decision(t) # "soft_breach"

\* The row goes on to the next gate.
Admits(t) ==
    /\ Decision(t) \in {"admit", "soft_breach"}
    /\ sent' = [w \in Windows |-> Rolled(w, at[t]) + 1]
    /\ admitted' = Overlay([x \in Current(t) |-> Tally(admitted, x) + 1], admitted)
    /\ ceiling' = [w \in Windows |->
                     IF Limited(t, w) THEN Max({effective[t][w], ceiling[w]}) ELSE ceiling[w]]
    /\ excused' = excused \cup WentBack(at[t]) \cup {x \in Current(t) : ~Limited(t, x[1])}
    /\ step' = [step EXCEPT ![t] = "quiet"]
    /\ UNCHANGED <<next_attempt_at, row, at, effective>>

\* The row is put off.
Defers(t) ==
    /\ sent' = [w \in Windows |-> Rolled(w, at[t]) + 0]
    /\ \E n \in Int : next_attempt_at' = [next_attempt_at EXCEPT ![row[t]] = n]
    /\ Idle(t)
    /\ excused' = excused \cup WentBack(at[t])
    /\ UNCHANGED <<admitted, ceiling>>

\* It is one of the two, in the windows of the time the task has read.
LEMMA Records ==
    ASSUME Tables, Held, NEW t \in Tasks, check_and_record(t)
    PROVE  /\ step[t] = "quota" /\ at[t] \in Int
           /\ start' = [w \in Windows |-> window_start(w, at[t])]
           /\ Admits(t) \/ Defers(t)
           /\ UNCHANGED <<clock, fixed, tables, usage, up, config, quiet, snapshot>>
<1>1. at[t] \in Int
    BY GatesAssumption DEF Held
<1>2. /\ step[t] = "quota" /\ start' = [w \in Windows |-> window_start(w, at[t])]
      /\ UNCHANGED <<clock, fixed, tables, usage, up, config, quiet, snapshot>>
    BY Zenon DEF check_and_record
<1>3. ASSUME Decision(t) \in {"admit", "soft_breach"} PROVE Admits(t)
    <2>1. sent' = [w \in Windows |-> Rolled(w, at[t]) + 1]
        BY <1>3 DEF check_and_record
    <2>2. /\ admitted' = Overlay([x \in Current(t) |-> Tally(admitted, x) + 1], admitted)
          /\ step' = [step EXCEPT ![t] = "quiet"]
          /\ UNCHANGED <<next_attempt_at, row, at, effective>>
        BY Zenon, <1>3 DEF check_and_record, Current
    <2>3. ceiling' = [w \in Windows |->
                IF Limited(t, w) THEN Max({effective[t][w], ceiling[w]}) ELSE ceiling[w]]
        BY Zenon, <1>3 DEF check_and_record, Limited
    <2>4. excused' = excused \cup WentBack(at[t]) \cup {x \in Current(t) : ~Limited(t, x[1])}
        BY Zenon, <1>3 DEF check_and_record, Current, Limited
    <2> QED
        BY Zenon, <1>3, <2>1, <2>2, <2>3, <2>4 DEF Admits
<1>4. ASSUME Decision(t) \notin {"admit", "soft_breach"} PROVE Defers(t)
    <2>1. next_day_window_start(tz, at[t]) \in Int
        BY Zenon, <1>1, DayStartType DEF Tables
    <2>2. minute_window_start(at[t]) + Minute \in Int
        BY <1>1, CalendarAssumption DEF minute_window_start
    <2>3. sent' = [w \in Windows |-> Rolled(w, at[t]) + 0]
        BY <1>4 DEF check_and_record
    <2>4. \E n \in Int : next_attempt_at' = [next_attempt_at EXCEPT ![row[t]] = n]
        BY Zenon, <1>4, <2>1, <2>2 DEF check_and_record
    <2>5. /\ Idle(t) /\ excused' = excused \cup WentBack(at[t])
          /\ UNCHANGED <<admitted, ceiling>>
        BY Zenon, <1>4 DEF check_and_record
    <2> QED
        BY Zenon, <2>3, <2>4, <2>5 DEF Defers
<1> QED
    BY Zenon, <1>1, <1>2, <1>3, <1>4

\* The numbers of an overlay.
LEMMA OverlayTally ==
    ASSUME NEW f, NEW g, IsTally(f), IsTally(g)
    PROVE  IsTally(Overlay(f, g))
BY Zenon DEF IsTally, Overlay

\* A window without a number has none.
LEMMA TallyType ==
    ASSUME NEW f, IsTally(f), NEW x
    PROVE  Tally(f, x) \in Nat
BY DEF IsTally, Tally

\* So do the counters after roll_window.
LEMMA RolledType ==
    ASSUME Counters, NEW w \in Windows, NEW now
    PROVE  Rolled(w, now) \in Nat
BY DEF Counters, Rolled

\* An admission comes below each limit there is.
LEMMA Admitted ==
    ASSUME Tables, Counters, Held, NEW t \in Tasks, NEW w \in Windows, Limited(t, w),
           Decision(t) \in {"admit", "soft_breach"}
    PROVE  effective[t][w] \in Int /\ Rolled(w, at[t]) < effective[t][w]
<1>1. effective[t] \in EffectiveQuota /\ effective[t][w] # None
    BY Zenon DEF Held, Limited
<1>2. effective[t][w] \in Limit
    <2>1. effective[t].minute \in Limit \cup {None} /\ effective[t].day \in Limit \cup {None}
        BY Zenon, <1>1 DEF EffectiveQuota
    <2>2. w = "minute" \/ w = "day"
        BY Zenon DEF Windows
    <2> QED
        BY Zenon, <1>1, <2>1, <2>2
<1>3. Decision(t) = "admit"
    BY Zenon DEF Limited
<1>4. ~Breach(effective[t][w], Rolled(w, at[t]))
    <2>1. effective[t] # None
        BY Zenon DEF Limited
    <2>2. w = "minute" \/ w = "day"
        BY Zenon DEF Windows
    <2> QED
        BY <1>3, <2>1, <2>2 DEF Decision
<1>5. ~(Rolled(w, at[t]) >= effective[t][w])
    BY Zenon, <1>1, <1>4 DEF Breach
<1> QED
    BY <1>2, <1>5, RolledType DEF Limit

\* The counts after an admission.
LEMMA Overlaid ==
    ASSUME Counts, NEW t \in Tasks, Admits(t)
    PROVE  /\ DOMAIN admitted' = Current(t) \cup DOMAIN admitted
           /\ \A x \in Current(t) : admitted'[x] = Tally(admitted, x) + 1
           /\ \A x \in DOMAIN admitted \ Current(t) : admitted'[x] = admitted[x]
BY Zenon DEF Admits, Overlay

\* A task that is done with its row.
LEMMA IdleHeld ==
    ASSUME Held, NEW t \in Tasks, Idle(t), next_attempt_at' \in [Rows -> Int \cup {None}]
    PROVE  Held'
<1>1. 0 \in 0..Horizon
    BY GatesAssumption
<1>2. /\ row' \in [Tasks -> Rows \cup {None}] /\ at' \in [Tasks -> 0..Horizon]
      /\ step' \in [Tasks -> {"idle", "quota", "quiet"}]
      /\ effective' \in [Tasks -> EffectiveQuota \cup {None}]
    BY Zenon, <1>1 DEF Held, Idle
<1>3. \A v \in Tasks : row'[v] = row[v] \/ row'[v] = None
    BY Zenon DEF Held, Idle
<1> QED
    BY Zenon, <1>2, <1>3 DEF Held

\* The types after check_and_record.
LEMMA RecordShape ==
    ASSUME Shape, NEW t \in Tasks, check_and_record(t)
    PROVE  Shape'
<1>0. Tables /\ Counters /\ Held /\ Counts /\ Down
    BY Zenon DEF Shape
<1>1. /\ step[t] = "quota" /\ at[t] \in Int
      /\ start' = [w \in Windows |-> window_start(w, at[t])]
      /\ Admits(t) \/ Defers(t)
      /\ UNCHANGED <<clock, fixed, tables, usage, up, config, quiet, snapshot>>
    BY Zenon, <1>0, Records
<1>2. Tables'
    BY Zenon, <1>0, <1>1 DEF Tables, fixed, tables
<1>3. \A w \in Windows : window_start(w, at[t]) \in Int /\ Rolled(w, at[t]) \in Nat
    BY Zenon, <1>0, <1>1, WindowStartType, RolledType DEF Tables
<1>4. Counters'
    <2>1. \A w \in Windows : Rolled(w, at[t]) + 0 \in Nat /\ Rolled(w, at[t]) + 1 \in Nat
        BY <1>3
    <2>2. sent' \in [Windows -> Nat]
        BY Zenon, <1>1, <2>1 DEF Admits, Defers
    <2>3. start' \in [Windows -> Int \cup {None}]
        BY Zenon, <1>1, <1>3
    <2> QED
        BY Zenon, <1>0, <1>1, <2>2, <2>3 DEF Counters
<1>5. Held'
    <2>1. CASE Admits(t)
        BY Zenon, <1>0, <2>1 DEF Held, Admits
    <2>2. CASE Defers(t)
        <3>1. PICK n \in Int : next_attempt_at' = [next_attempt_at EXCEPT ![row[t]] = n]
            BY Zenon, <2>2 DEF Defers
        <3>2. next_attempt_at' \in [Rows -> Int \cup {None}]
            BY Zenon, <1>0, <3>1 DEF Held
        <3>3. Idle(t)
            BY Zenon, <2>2 DEF Defers
        <3> QED
            BY Zenon, <1>0, <3>2, <3>3, IdleHeld
    <2> QED
        BY Zenon, <1>1, <2>1, <2>2
<1>6. \A x \in Current(t) : x \in Windows \X Int
    BY <1>3 DEF Current
<1>7. WentBack(at[t]) \subseteq Windows \X Int
    BY Zenon, <1>0 DEF WentBack, Counts, IsTally
<1>8. Counts'
    <2>1. CASE Defers(t)
        BY Zenon, <1>0, <1>7, <2>1 DEF Counts, Defers
    <2>2. CASE Admits(t)
        <3>1. \A x : Tally(admitted, x) \in Nat
            BY Zenon, <1>0, TallyType DEF Counts
        <3>2. \A x : Tally(admitted, x) + 1 \in Nat /\ Tally(admitted, x) + 1 >= 1
            BY <3>1
        <3>3. \A x \in DOMAIN admitted' : x \in Windows \X Int /\ admitted'[x] \in Nat /\ admitted'[x] >= 1
            BY Zenon, <1>0, <1>6, <2>2, <3>2, Overlaid DEF Counts, IsTally
        <3>4. ceiling' \in [Windows -> Nat]
            <4>1. ASSUME NEW w \in Windows, Limited(t, w)
                  PROVE  Max({effective[t][w], ceiling[w]}) \in Nat
                <5>1. effective[t][w] \in Int /\ Rolled(w, at[t]) < effective[t][w]
                    BY Zenon, <1>0, <2>2, <4>1, Admitted DEF Admits
                <5>2. effective[t][w] \in Nat /\ ceiling[w] \in Nat
                    <6>1. ceiling[w] \in Nat
                        BY Zenon, <1>0 DEF Counts
                    <6> QED
                        BY <1>3, <5>1, <6>1
                <5>3. Max({effective[t][w], ceiling[w]}) \in {effective[t][w], ceiling[w]}
                    <6>1. effective[t][w] \in Int /\ ceiling[w] \in Int
                        BY <5>2
                    <6> QED
                        BY Zenon, <6>1, GreaterOfTwo
                <5> QED
                    BY Zenon, <5>2, <5>3
            <4> QED
                BY Zenon, <1>0, <2>2, <4>1 DEF Counts, Admits
        <3>5. excused' \subseteq Windows \X Int
            BY Zenon, <1>0, <1>6, <1>7, <2>2 DEF Counts, Admits
        <3> QED
            BY Zenon, <3>3, <3>4, <3>5 DEF Counts, IsTally
    <2> QED
        BY Zenon, <1>1, <2>1, <2>2
<1>9. Down'
    BY Zenon, <1>0, <1>1 DEF Down
<1> QED
    BY Zenon, <1>2, <1>4, <1>5, <1>8, <1>9 DEF Shape

-----------------------------------------------------------------------------
(* The other steps.                                                        *)

\* What resolve_reschedule returns.
LEMMA RescheduleType ==
    ASSUME Tables, quiet # None
    PROVE  resolve_reschedule(clock, customer_tz, tz, quiet) \in Int \cup {None}
<1>1. PICK z \in Zone : z = IF customer_tz # None THEN customer_tz ELSE tz
    BY Zenon DEF Tables
<1>2. clock \in Int /\ quiet \in Policy /\ quiet.end \in Int
    BY GatesAssumption, CalendarAssumption DEF Tables, Policy
<1>3. EndDate(quiet, Local(z, clock)) \in Int
    <2>1. Date(Local(z, clock)) \in Int
        BY Zenon, <1>2, LocalType, Dates
    <2> QED
        BY <2>1 DEF EndDate
<1>4. EndDate(quiet, Local(z, clock)) * Day + quiet.end \in Int
    BY <1>2, <1>3, CalendarAssumption
<1>5. resolve_local(z, EndDate(quiet, Local(z, clock)) * Day + quiet.end) \in Int \cup {None}
    BY Zenon, <1>4, MovedLocal
<1> QED
    BY Zenon, <1>1, <1>5 DEF resolve_reschedule

\* The types after the quiet-hours gate.
LEMMA QuietShape ==
    ASSUME Shape, NEW t \in Tasks, QuietGate(t)
    PROVE  Shape'
<1>1. /\ step[t] = "quiet" /\ Idle(t)
      /\ UNCHANGED <<clock, fixed, tables, usage, up, memory, passes, used, history>>
    BY Zenon DEF QuietGate
<1>2. next_attempt_at' \in [Rows -> Int \cup {None}]
    <2> DEFINE end == IF quiet = None THEN None
                      ELSE resolve_reschedule(clock, customer_tz, tz, quiet)
    <2>1. next_attempt_at \in [Rows -> Int \cup {None}]
        BY Zenon DEF Shape, Held
    <2>2. end \in Int \cup {None}
        BY Zenon, RescheduleType DEF Shape
    <2>3. \/ next_attempt_at' = [next_attempt_at EXCEPT ![row[t]] = None]
          \/ end # None /\ \E j \in Jitters : next_attempt_at' = [next_attempt_at EXCEPT ![row[t]] = end + j]
        BY Zenon DEF QuietGate
    <2> HIDE DEF end
    <2>4. CASE next_attempt_at' = [next_attempt_at EXCEPT ![row[t]] = None]
        BY Zenon, <2>1, <2>4
    <2>5. CASE end # None /\ \E j \in Jitters : next_attempt_at' = [next_attempt_at EXCEPT ![row[t]] = end + j]
        <3>1. PICK j \in Jitters : next_attempt_at' = [next_attempt_at EXCEPT ![row[t]] = end + j]
            BY Zenon, <2>5
        <3>2. end + j \in Int
            BY <2>2, <2>5, GatesAssumption
        <3> QED
            BY Zenon, <2>1, <3>1, <3>2
    <2> QED
        BY Zenon, <2>3, <2>4, <2>5
<1>3. Held'
    BY Zenon, <1>1, <1>2, IdleHeld DEF Shape
<1>4. Down'
    BY Zenon, <1>1 DEF Shape, Down, memory
<1> QED
    BY Zenon, <1>1, <1>3, <1>4 DEF Shape, Tables, Counters, Counts, fixed, tables, memory, history

\* The types after a task has taken a row.
LEMMA BeginShape ==
    ASSUME Shape, NEW t \in Tasks, NEW r \in Rows, Begin(t, r)
    PROVE  Shape'
<1>1. /\ up /\ \A u \in Tasks : row[u] # r
      /\ step' = [step EXCEPT ![t] = "quota"] /\ row' = [row EXCEPT ![t] = r]
      /\ at' = [at EXCEPT ![t] = clock] /\ effective' = [effective EXCEPT ![t] = config]
      /\ UNCHANGED <<clock, fixed, tables, usage, up, memory, next_attempt_at, used, history>>
    BY Zenon DEF Begin
<1>2. Held'
    <2>1. /\ next_attempt_at' \in [Rows -> Int \cup {None}]
          /\ row' \in [Tasks -> Rows \cup {None}] /\ at' \in [Tasks -> 0..Horizon]
          /\ step' \in [Tasks -> {"idle", "quota", "quiet"}]
          /\ effective' \in [Tasks -> EffectiveQuota \cup {None}]
        BY Zenon, <1>1 DEF Shape, Held, Tables, Counters
    <2>2. row'[t] = r /\ \A v \in Tasks \ {t} : row'[v] = row[v]
        BY Zenon, <1>1 DEF Shape, Held
    <2>3. \A v, u \in Tasks : row'[v] = row'[u] /\ row'[v] # None => v = u
        BY Zenon, <1>1, <2>2 DEF Shape, Held
    <2> QED
        BY Zenon, <2>1, <2>3 DEF Held
<1>3. Down'
    BY Zenon, <1>1 DEF Down
<1> QED
    BY Zenon, <1>1, <1>2, <1>3 DEF Shape, Tables, Counters, Counts, fixed, tables, memory, history

\* The types after the operators' commands.
LEMMA CommandShape ==
    ASSUME Shape,
           \/ \E q \in Quotas : set_producer_quota(q)
           \/ \E o \in Overrides : add_producer_quota_override(o)
           \/ \E p \in Policies : set_quiet_hours_policy(p)
    PROVE  Shape' /\ UNCHANGED <<clock, fixed, usage, up, memory, tasks, history>>
<1>1. UNCHANGED <<clock, fixed, usage, up, memory, next_attempt_at, tasks, passes, history>>
    BY Zenon DEF set_producer_quota, add_producer_quota_override, set_quiet_hours_policy, Change
<1>2. /\ quota' \in Quota \cup {None} /\ overrides' \subseteq Overrides
      /\ policy' \in Policy \cup {None}
    BY Zenon, GatesAssumption DEF Shape, Tables, set_producer_quota,
        add_producer_quota_override, set_quiet_hours_policy
<1>3. Tables'
    BY Zenon, <1>1, <1>2 DEF Shape, Tables, fixed, memory
<1> QED
    BY Zenon, <1>1, <1>3 DEF Shape, Counters, Held, Counts, Down, memory, tasks, history

\* The types after a flush has read the counters.
LEMMA FlushReadShape ==
    ASSUME Shape, FlushRead
    PROVE  Shape'
<1> DEFINE D == {<<w, start[w]>> : w \in {v \in Windows : start[v] # None}}
<1>1. /\ up /\ snapshot' = [x \in D |-> sent[x[1]]]
      /\ UNCHANGED <<clock, fixed, tables, usage, up, config, quiet, start, sent,
                     next_attempt_at, tasks, passes, used, history>>
    BY Zenon DEF FlushRead
<1>2. \A x \in D : x \in Windows \X Int /\ x[1] \in Windows
    BY DEF Shape, Counters
<1> HIDE DEF D
<1>3. IsTally(snapshot')
    BY Zenon, <1>1, <1>2 DEF Shape, Counters, IsTally
<1> QED
    BY Zenon, <1>1, <1>3 DEF Shape, Tables, Counters, Held, Counts, Down, fixed, tables, tasks, history

\* The types after a death.
LEMMA CrashShape ==
    ASSUME Shape, Crash
    PROVE  Shape'
<1>1. 0 \in Nat /\ 0 \in 0..Horizon
    BY GatesAssumption
<1>2. Tables'
    BY Zenon DEF Shape, Tables, Crash, fixed, tables
<1>3. Counters'
    BY Zenon, <1>1 DEF Shape, Counters, Crash
<1>4. Held'
    <2>1. next_attempt_at' \in [Rows -> Int \cup {None}]
        BY Zenon DEF Shape, Held, Crash
    <2>2. /\ row' = [u \in Tasks |-> None] /\ at' = [u \in Tasks |-> 0]
          /\ step' = [u \in Tasks |-> "idle"] /\ effective' = [u \in Tasks |-> None]
        BY Zenon DEF Crash
    <2> QED
        BY Zenon, <1>1, <2>1, <2>2 DEF Held
<1>5. Counts'
    BY Zenon DEF Shape, Counts, IsTally, Crash
<1>6. Down'
    BY Zenon DEF Down, Crash
<1> QED
    BY Zenon, <1>2, <1>3, <1>4, <1>5, <1>6 DEF Shape

\* What a restart loads: the counters of the current windows that were stored.
LEMMA Loads ==
    ASSUME Shape, rebuild_from_db
    PROVE  /\ ~up /\ up' /\ excused' = excused \cup Forgotten
           /\ start' = [w \in Windows |->
                  IF <<w, window_start(w, clock)>> \in DOMAIN usage
                  THEN window_start(w, clock) ELSE None]
           /\ sent' = [w \in Windows |-> Tally(usage, <<w, window_start(w, clock)>>)]
           /\ UNCHANGED <<clock, fixed, tables, usage, config, snapshot, next_attempt_at,
                          tasks, admitted, ceiling>>
           /\ quiet' = policy
<1> DEFINE kept == {<<w, window_start(w, clock)>> : w \in Windows} \cap DOMAIN usage
<1>1. /\ ~up /\ up' = TRUE /\ excused' = excused \cup Forgotten
      /\ start' = [w \in Windows |->
             IF \E x \in kept : x[1] = w THEN window_start(w, clock) ELSE None]
      /\ sent' = [w \in Windows |-> Tally(usage, <<w, window_start(w, clock)>>)]
      /\ UNCHANGED <<clock, fixed, tables, usage, config, snapshot, next_attempt_at,
                     tasks, admitted, ceiling>>
      /\ quiet' = policy
    BY Zenon DEF rebuild_from_db
<1>2. ASSUME NEW w \in Windows
      PROVE  (\E x \in kept : x[1] = w) <=> <<w, window_start(w, clock)>> \in DOMAIN usage
    <2>1. \A v \in Windows : <<v, window_start(v, clock)>>[1] = v
        OBVIOUS
    <2> QED
        BY Zenon, <2>1
<1> HIDE DEF kept
<1>3. start' = [w \in Windows |->
             IF <<w, window_start(w, clock)>> \in DOMAIN usage
             THEN window_start(w, clock) ELSE None]
    BY <1>1, <1>2
<1> QED
    BY Zenon, <1>1, <1>3

\* The types after a restart.
LEMMA RebuildShape ==
    ASSUME Shape, rebuild_from_db
    PROVE  Shape'
<1>1. \A w \in Windows : /\ window_start(w, clock) \in Int
                          /\ Tally(usage, <<w, window_start(w, clock)>>) \in Nat
    <2>1. clock \in Int
        BY GatesAssumption DEF Shape, Tables
    <2> QED
        BY Zenon, <2>1, WindowStartType, TallyType DEF Shape, Tables, Counters
<1>2. Counters'
    <2>1. start' \in [Windows -> Int \cup {None}] /\ sent' \in [Windows -> Nat]
        BY Zenon, <1>1, Loads
    <2> QED
        BY Zenon, <2>1, Loads DEF Shape, Counters
<1>3. Counts'
    BY Zenon, Loads DEF Shape, Counts, IsTally, Forgotten
<1>4. Tables'
    BY Zenon, Loads DEF Shape, Tables, fixed, tables
<1>5. Held' /\ Down'
    BY Zenon, Loads DEF Shape, Held, Down, tasks
<1> QED
    BY Zenon, <1>2, <1>3, <1>4, <1>5 DEF Shape

\* Every step keeps the types.
LEMMA ShapeStep == Shape /\ [Next]_vars => Shape'
<1> SUFFICES ASSUME Shape, [Next]_vars PROVE Shape'
    OBVIOUS
<1>1. CASE Tick
    <2>1. clock' \in 0..Horizon
        BY <1>1, GatesAssumption DEF Tick, Shape, Tables
    <2> QED
        BY Zenon, <1>1, <2>1 DEF Tick, Shape, Tables, Counters, Held, Counts, Down,
            fixed, tables, memory, tasks, history
<1>2. CASE refresh_config
    <2>1. config' \in EffectiveQuota \cup {None}
        BY Zenon, <1>2, MergedType DEF refresh_config, Shape
    <2> QED
        BY Zenon, <1>2, <2>1 DEF refresh_config, Shape, Tables, Counters, Held, Counts, Down,
            fixed, tables, tasks, history
<1>3. CASE FlushWrite
    <2>1. IsTally(usage') /\ snapshot' = None
        BY Zenon, <1>3, OverlayTally DEF FlushWrite, Shape, Counters
    <2> QED
        BY Zenon, <1>3, <2>1 DEF FlushWrite, Shape, Tables, Counters, Held, Counts, Down,
            fixed, tables, tasks, history
<1>4. CASE UNCHANGED vars
    BY Zenon, <1>4 DEF vars, Shape, Tables, Counters, Held, Counts, Down,
        fixed, tables, memory, tasks, history
<1> QED
    BY Zenon, <1>1, <1>2, <1>3, <1>4, CommandShape, FlushReadShape, CrashShape, RebuildShape,
        BeginShape, RecordShape, QuietShape DEF Next

\* Types.
LEMMA ShapeAlways == Spec => []Shape
BY PTL, InitShape, ShapeStep DEF Spec

\* The clock, the tables, the tracker, the tasks and the counts keep their types,
\* and no two tasks hold one row.
THEOREM TypeCorrect == Spec => []TypeOK
BY PTL, ShapeAlways, ShapeTypeOK

-----------------------------------------------------------------------------
(* The hard limit.                                                         *)

\* A window is over for good: no running task and no later time falls in it or
\* in one before it.
Past(w, s) ==
    /\ \A u \in Int : clock <= u => s < window_start(w, u)
    /\ \A t \in Tasks : step[t] # "idle" => s < window_start(w, at[t])

\* Where the count of a window is: stored while nobody leads, otherwise in the
\* counter, unless that has moved on from the window or never saw it.
Kept(x) ==
    IF ~up THEN admitted[x] <= Tally(usage, x)
    ELSE IF start[x[1]] = None THEN Past(x[1], x[2])
    ELSE IF start[x[1]] = x[2] THEN admitted[x] <= sent[x[1]]
    ELSE x[2] < start[x[1]]

Counted == \A x \in DOMAIN admitted \ excused : Kept(x)

\* Together with the types this is inductive.
Inv == Shape /\ Counted /\ HardLimit

\* The parts of a window.
LEMMA Parts ==
    ASSUME Counts, NEW x \in DOMAIN admitted
    PROVE  /\ x[1] \in Windows /\ x[2] \in Int /\ x = <<x[1], x[2]>>
           /\ admitted[x] \in Nat /\ admitted[x] >= 1
BY DEF Counts, IsTally

\* check_and_record finds the count of a window it comes back to, or excuses it.
LEMMA CountFound ==
    ASSUME Shape, Counted, NEW t \in Tasks, step[t] = "quota",
           NEW x \in DOMAIN admitted \ (excused \cup WentBack(at[t]))
    PROVE  IF x[2] = window_start(x[1], at[t])
           THEN admitted[x] <= Rolled(x[1], at[t]) ELSE x[2] < window_start(x[1], at[t])
<1> DEFINE w == x[1]
           n == window_start(x[1], at[t])
<1>1. /\ w \in Windows /\ x[2] \in Int /\ n \in Int /\ up
      /\ start[w] \in Int \cup {None}
    <2>1. at[t] \in Int
        BY GatesAssumption DEF Shape, Held
    <2>2. w \in Windows /\ x[2] \in Int
        BY Zenon, Parts DEF Shape
    <2>3. up
        BY Zenon DEF Shape, Down
    <2> QED
        BY Zenon, <2>1, <2>2, <2>3, WindowStartType DEF Shape, Tables, Counters
<1>2. Kept(x) /\ ~(start[w] # None /\ n < start[w] /\ x[2] >= n)
    BY Zenon DEF Counted, WentBack
<1>3. CASE start[w] = None
    <2>1. x[2] < n
        BY Zenon, <1>1, <1>2, <1>3 DEF Kept, Past
    <2> QED
        BY <1>1, <2>1
<1>4. CASE start[w] # None /\ start[w] = x[2]
    <2>1. admitted[x] <= sent[w]
        BY Zenon, <1>1, <1>2, <1>4 DEF Kept
    <2>2. x[2] = n => admitted[x] <= Rolled(w, at[t])
        BY Zenon, <1>4, <2>1 DEF Rolled
    <2>3. x[2] # n => x[2] < n
        BY <1>1, <1>2, <1>4
    <2> QED
        BY Zenon, <2>2, <2>3
<1>5. CASE start[w] # None /\ start[w] # x[2]
    <2>1. x[2] < start[w]
        BY Zenon, <1>1, <1>2, <1>5 DEF Kept
    <2>2. x[2] < n
        BY <1>1, <1>2, <1>5, <2>1
    <2> QED
        BY <1>1, <2>2
<1> QED
    BY Zenon, <1>3, <1>4, <1>5

\* check_and_record counts what it admits, and admits only below the limits.
LEMMA RecordInv ==
    ASSUME Inv, Shape', NEW t \in Tasks, check_and_record(t)
    PROVE  Inv'
<1>0. Shape /\ Counted /\ HardLimit /\ Tables /\ Counters /\ Held /\ Counts /\ Down
    BY Zenon DEF Inv, Shape
<1>1. /\ step[t] = "quota" /\ at[t] \in Int /\ up /\ up' = up
      /\ start' = [w \in Windows |-> window_start(w, at[t])]
      /\ Admits(t) \/ Defers(t)
    BY Zenon, <1>0, Records DEF Down
<1>2. \A w \in Windows : window_start(w, at[t]) \in Int /\ Rolled(w, at[t]) \in Nat
    BY Zenon, <1>0, <1>1, WindowStartType, RolledType DEF Tables
<1>3. ASSUME NEW x \in DOMAIN admitted' \ excused', x \notin DOMAIN admitted \/ admitted'[x] # admitted[x]
      PROVE  Admits(t) /\ x \in Current(t)
    BY Zenon, <1>0, <1>1, <1>3, Overlaid DEF Defers
<1>4. ASSUME NEW x \in DOMAIN admitted' \ excused'
      PROVE  Kept(x)' /\ admitted'[x] <= ceiling'[x[1]]
    <2>1. x \notin excused /\ x \notin WentBack(at[t])
        BY Zenon, <1>1 DEF Admits, Defers
    <2>2. CASE Admits(t) /\ x \in Current(t)
        <3>1. PICK w \in Windows : x = <<w, window_start(w, at[t])>>
            BY Zenon, <2>2 DEF Current
        <3>2. x[1] = w /\ x[2] = window_start(w, at[t])
            BY <3>1
        <3>3. Tally(admitted, x) \in Nat /\ Tally(admitted, x) <= Rolled(w, at[t])
            <4>1. CASE x \in DOMAIN admitted
                <5>1. admitted[x] <= Rolled(w, at[t])
                    BY Zenon, <1>0, <1>1, <2>1, <3>2, <4>1, CountFound
                <5> QED
                    BY Zenon, <1>0, <4>1, <5>1, TallyType DEF Tally, Counts
            <4>2. CASE x \notin DOMAIN admitted
                BY <1>2, <4>2 DEF Tally
            <4> QED
                BY Zenon, <4>1, <4>2
        <3>4. admitted'[x] = Tally(admitted, x) + 1 /\ sent'[w] = Rolled(w, at[t]) + 1
            BY Zenon, <1>0, <2>2, Overlaid DEF Admits
        <3>5. Limited(t, w)
            BY Zenon, <2>2, <3>2 DEF Admits
        <3>6. effective[t][w] \in Int /\ Rolled(w, at[t]) < effective[t][w]
            BY Zenon, <1>0, <2>2, <3>5, Admitted DEF Admits
        <3>7. ceiling'[w] = Max({effective[t][w], ceiling[w]})
            BY Zenon, <2>2, <3>5 DEF Admits
        <3>8. ceiling[w] \in Int /\ ceiling'[w] \in Int
            <4>1. ceiling[w] \in Nat /\ ceiling'[w] \in Nat
                BY Zenon, <1>0 DEF Shape, Counts
            <4> QED
                BY <4>1
        <3>9. ceiling'[w] >= effective[t][w]
            BY Zenon, <3>6, <3>7, <3>8, GreaterOfTwo
        <3>10. admitted'[x] <= sent'[w] /\ admitted'[x] <= ceiling'[w]
            BY <1>2, <3>3, <3>4, <3>6, <3>8, <3>9
        <3>11. start'[w] = x[2] /\ start'[w] # None
            BY Zenon, <1>1, <1>2, <3>2, CalendarAssumption
        <3> QED
            BY Zenon, <1>1, <3>2, <3>10, <3>11 DEF Kept
    <2>3. CASE ~(Admits(t) /\ x \in Current(t))
        <3>1. x \in DOMAIN admitted /\ admitted'[x] = admitted[x]
            BY Zenon, <1>3, <2>3
        <3>2. x[1] \in Windows /\ x[2] \in Int /\ x = <<x[1], x[2]>> /\ admitted[x] \in Nat
            BY Zenon, <1>0, <3>1, Parts
        <3>3. PICK w \in Windows : w = x[1]
            BY Zenon, <3>2
        <3>4. IF x[2] = window_start(w, at[t])
              THEN admitted[x] <= Rolled(w, at[t]) ELSE x[2] < window_start(w, at[t])
            BY Zenon, <1>0, <1>1, <2>1, <3>1, <3>3, CountFound
        <3>5. start'[w] = window_start(w, at[t]) /\ start'[w] # None
            BY Zenon, <1>1, <1>2, CalendarAssumption
        <3>6. Kept(x)'
            <4>1. CASE x[2] = window_start(w, at[t])
                <5>1. x \in Current(t)
                    BY Zenon, <3>2, <3>3, <4>1 DEF Current
                <5>2. sent'[w] = Rolled(w, at[t]) + 0
                    BY Zenon, <1>1, <2>3, <5>1 DEF Defers
                <5>3. admitted'[x] <= sent'[w]
                    BY <1>2, <3>1, <3>4, <4>1, <5>2
                <5> QED
                    BY Zenon, <1>1, <3>3, <3>5, <4>1, <5>3 DEF Kept
            <4>2. CASE x[2] # window_start(w, at[t])
                BY Zenon, <1>1, <3>3, <3>4, <3>5, <4>2 DEF Kept
            <4> QED
                BY Zenon, <4>1, <4>2
        <3>7. admitted[x] <= ceiling[w]
            BY Zenon, <1>0, <2>1, <3>1, <3>3 DEF HardLimit
        <3>8. ceiling[w] <= ceiling'[w] /\ ceiling[w] \in Int /\ ceiling'[w] \in Int
            <4>1. ceiling[w] \in Nat /\ ceiling'[w] \in Nat
                BY Zenon, <1>0 DEF Shape, Counts
            <4>2. CASE ceiling'[w] = ceiling[w]
                BY <4>1, <4>2
            <4>3. CASE ceiling'[w] # ceiling[w]
                <5>1. Admits(t) /\ Limited(t, w) /\ ceiling'[w] = Max({effective[t][w], ceiling[w]})
                    BY Zenon, <1>1, <4>3 DEF Admits, Defers
                <5>2. effective[t][w] \in Int
                    BY Zenon, <1>0, <5>1, Admitted DEF Admits
                <5>3. ceiling[w] \in Int /\ ceiling'[w] \in Int
                    BY <4>1
                <5>4. ceiling'[w] >= ceiling[w]
                    BY Zenon, <5>1, <5>2, <5>3, GreaterOfTwo
                <5> QED
                    BY <5>3, <5>4
            <4> QED
                BY Zenon, <4>2, <4>3
        <3>9. admitted'[x] <= ceiling'[w]
            BY <3>1, <3>2, <3>7, <3>8
        <3> QED
            BY Zenon, <3>3, <3>6, <3>9
    <2> QED
        BY Zenon, <2>2, <2>3
<1> QED
    BY Zenon, <1>4 DEF Inv, Counted, HardLimit

\* A step that leaves the counters alone, and no window open that was past.
LEMMA CountsStay ==
    ASSUME Inv, Shape', UNCHANGED <<up, start, sent, admitted, ceiling, excused>>,
           up \/ usage' = usage,
           \A x \in DOMAIN admitted : Past(x[1], x[2]) => Past(x[1], x[2])'
    PROVE  Inv'
<1>1. ASSUME NEW x \in DOMAIN admitted \ excused PROVE Kept(x)'
    <2>1. Kept(x)
        BY Zenon DEF Inv, Counted
    <2>2. CASE ~up
        BY Zenon, <2>1, <2>2 DEF Kept, Tally
    <2>3. CASE up
        BY Zenon, <2>1, <2>3 DEF Kept
    <2> QED
        BY Zenon, <2>2, <2>3
<1> QED
    BY Zenon, <1>1 DEF Inv, Counted, HardLimit

\* Time passes, and a task takes the time that it is.
LEMMA PastStays ==
    ASSUME Shape, tz' = tz, clock' \in Int, clock <= clock',
           \A t \in Tasks : step'[t] # "idle" =>
              \/ step[t] # "idle" /\ at'[t] = at[t]
              \/ at'[t] = clock,
           NEW w, NEW s, Past(w, s)
    PROVE  Past(w, s)'
<1>1. clock \in Int
    BY GatesAssumption DEF Shape, Tables
<1>2. \A u : window_start(w, u)' = window_start(w, u)
    BY Zenon DEF window_start
<1>3. \A u \in Int : clock' <= u => s < window_start(w, u)'
    <2>1. \A u \in Int : clock' <= u => clock <= u
        BY <1>1
    <2> QED
        BY Zenon, <1>2, <2>1 DEF Past
<1>4. s < window_start(w, clock)
    <2>1. clock <= clock
        BY <1>1
    <2> QED
        BY Zenon, <1>1, <2>1 DEF Past
<1>5. ASSUME NEW t \in Tasks, step'[t] # "idle" PROVE s < window_start(w, at'[t])
    BY Zenon, <1>4, <1>5 DEF Past
<1>6. \A t \in Tasks : step'[t] # "idle" => s < window_start(w, at[t])'
    BY Zenon, <1>5 DEF window_start
<1> QED
    BY Zenon, <1>3, <1>6 DEF Past

\* A death excuses what was not stored.
LEMMA CrashInv ==
    ASSUME Inv, Shape', Crash
    PROVE  Inv'
<1>1. /\ up' = FALSE /\ usage' = usage /\ admitted' = admitted /\ ceiling' = ceiling
      /\ excused' = excused \cup {x \in DOMAIN admitted : Tally(usage, x) < admitted[x]}
    BY Zenon DEF Crash
<1>2. ASSUME NEW x \in DOMAIN admitted \ excused' PROVE admitted[x] <= Tally(usage, x)
    <2>1. ~(Tally(usage, x) < admitted[x])
        BY Zenon, <1>1
    <2>2. Tally(usage, x) \in Nat /\ admitted[x] \in Nat
        BY Zenon, TallyType, Parts DEF Inv, Shape, Counters
    <2> QED
        BY <2>1, <2>2
<1>3. Counted'
    BY Zenon, <1>1, <1>2 DEF Counted, Kept, Tally
<1>4. HardLimit'
    BY Zenon, <1>1 DEF Inv, HardLimit
<1> QED
    BY Zenon, <1>3, <1>4 DEF Inv

\* A window before the current one does not come again, unless its date does.
LEMMA PastOfNow ==
    ASSUME Shape, NEW w \in Windows, NEW s \in Int, s < window_start(w, clock),
           w = "day" => ~Repeated(tz, Date(Local(tz, clock)) * Day),
           NEW u \in Int, clock <= u
    PROVE  s < window_start(w, u)
<1>1. clock \in Int /\ tz \in Zone
    BY GatesAssumption DEF Shape, Tables
<1>2. window_start(w, clock) \in Int /\ window_start(w, u) \in Int
    BY Zenon, <1>1, WindowStartType
<1>3. CASE w = "minute"
    <2>1. window_start(w, clock) <= window_start(w, u)
        BY Zenon, <1>1, <1>3, MinutesAscend DEF window_start
    <2> QED
        BY <1>2, <2>1
<1>4. CASE w # "minute"
    <2>1. w = "day"
        BY Zenon, <1>4 DEF Windows
    <2>2. window_start(w, clock) <= window_start(w, u)
        BY Zenon, <1>1, <1>4, <2>1, DaysAscend DEF window_start
    <2> QED
        BY <1>2, <2>2
<1> QED
    BY Zenon, <1>3, <1>4

\* A restart finds what was stored, or excuses a day that may come again.
LEMMA RebuildInv ==
    ASSUME Inv, Shape', rebuild_from_db
    PROVE  Inv'
<1>0. Shape /\ Counted /\ HardLimit
    BY Zenon DEF Inv
<1>1. /\ ~up /\ up' /\ excused' = excused \cup Forgotten
      /\ start' = [w \in Windows |->
             IF <<w, window_start(w, clock)>> \in DOMAIN usage
             THEN window_start(w, clock) ELSE None]
      /\ sent' = [w \in Windows |-> Tally(usage, <<w, window_start(w, clock)>>)]
      /\ clock' = clock /\ tz' = tz /\ step' = step /\ at' = at /\ usage' = usage
      /\ admitted' = admitted /\ ceiling' = ceiling
    BY Zenon, <1>0, Loads DEF fixed, tasks
<1>2. ASSUME NEW x \in DOMAIN admitted \ excused' PROVE Kept(x)'
    <2>1. /\ x[1] \in Windows /\ x[2] \in Int /\ x = <<x[1], x[2]>>
          /\ admitted[x] \in Nat /\ admitted[x] >= 1
        BY Zenon, <1>0, Parts DEF Shape
    <2>2. PICK w \in Windows, s \in Int : w = x[1] /\ s = x[2]
        BY Zenon, <2>1
    <2>3. PICK n : n = window_start(w, clock)
        OBVIOUS
    <2>4. n \in Int /\ n # None
        <3>1. clock \in Int
            BY <1>0, GatesAssumption DEF Shape, Tables
        <3>2. n \in Int
            BY Zenon, <1>0, <2>3, <3>1, WindowStartType DEF Shape, Tables
        <3> QED
            BY Zenon, <3>2, CalendarAssumption
    <2>5. /\ start'[w] = IF <<w, n>> \in DOMAIN usage THEN n ELSE None
          /\ sent'[w] = Tally(usage, <<w, n>>)
        BY Zenon, <1>1, <2>3
    <2>6. admitted[x] <= Tally(usage, x)
        BY Zenon, <1>0, <1>1 DEF Counted, Kept
    <2>7. CASE s = n
        <3>1. x \in DOMAIN usage
            BY <2>1, <2>6 DEF Tally
        <3>2. x = <<w, n>>
            BY Zenon, <2>1, <2>2, <2>7
        <3> QED
            BY Zenon, <1>1, <2>2, <2>4, <2>5, <2>6, <2>7, <3>1, <3>2 DEF Kept
    <2>8. CASE s # n
        <3>1. x \notin Forgotten
            BY Zenon, <1>1
        <3>2. ~(s > n) /\ ~(w = "day" /\ s < n /\ Repeated(tz, Date(Local(tz, clock)) * Day))
            BY Zenon, <2>2, <2>3, <3>1 DEF Forgotten
        <3>3. s < n
            BY <2>4, <2>8, <3>2
        <3>4. CASE start'[w] # None
            <4>1. start'[w] = n
                BY Zenon, <2>5, <3>4
            <4> QED
                BY Zenon, <1>1, <2>2, <2>8, <3>3, <3>4, <4>1 DEF Kept
        <3>5. CASE start'[w] = None
            <4>1. \A u \in Int : clock <= u => s < window_start(w, u)
                BY Zenon, <1>0, <2>3, <3>2, <3>3, PastOfNow
            <4>2. \A t \in Tasks : step'[t] = "idle"
                BY Zenon, <1>0, <1>1 DEF Shape, Down
            <4>3. Past(w, s)'
                BY Zenon, <1>1, <4>1, <4>2 DEF Past, window_start
            <4> QED
                BY Zenon, <1>1, <2>2, <3>5, <4>3 DEF Kept
        <3> QED
            BY Zenon, <3>4, <3>5
    <2> QED
        BY Zenon, <2>7, <2>8
<1>3. Counted'
    BY Zenon, <1>1, <1>2 DEF Counted
<1>4. HardLimit'
    BY Zenon, <1>0, <1>1 DEF HardLimit
<1> QED
    BY Zenon, <1>3, <1>4 DEF Inv

\* A step of which the counters see only that time passes, a flush is written, and
\* a task takes a row, passes a gate or drops one.
LEMMA IdleInv ==
    ASSUME Inv, Shape', UNCHANGED <<up, start, sent, admitted, ceiling, excused, tz>>,
           up \/ usage' = usage, clock <= clock',
           \A t \in Tasks : step'[t] # "idle" =>
              \/ step[t] # "idle" /\ at'[t] = at[t]
              \/ at'[t] = clock
    PROVE  Inv'
<1>1. Shape /\ tz' = tz
    BY Zenon DEF Inv
<1>2. clock' \in Int
    BY GatesAssumption DEF Shape, Tables
<1>3. \A x \in DOMAIN admitted : Past(x[1], x[2]) => Past(x[1], x[2])'
    BY Zenon, <1>1, <1>2, PastStays
<1> QED
    BY Zenon, <1>3, CountsStay

\* Nothing is counted at first.
LEMMA InitInv == Init => Inv
<1> SUFFICES ASSUME Init PROVE Inv
    OBVIOUS
<1>1. DOMAIN admitted = {}
    BY DEF Init
<1> QED
    BY Zenon, <1>1, InitShape DEF Inv, Counted, HardLimit

\* Every step keeps the count of every window that is not excused.
LEMMA InvStep == Inv /\ [Next]_vars => Inv'
<1> SUFFICES ASSUME Inv, [Next]_vars PROVE Inv'
    OBVIOUS
<1>1. Shape /\ Shape'
    BY Zenon, ShapeStep DEF Inv
<1>2. clock \in Int /\ clock <= clock
    BY <1>1, GatesAssumption DEF Shape, Tables
<1>3. CASE Tick
    <2>1. clock <= clock'
        BY <1>2, <1>3 DEF Tick
    <2> QED
        BY Zenon, <1>1, <1>3, <2>1, IdleInv DEF Tick, fixed, memory, tasks, history
<1>4. CASE refresh_config
    BY Zenon, <1>1, <1>2, <1>4, IdleInv DEF refresh_config, fixed, tasks, history
<1>5. CASE FlushRead
    BY Zenon, <1>1, <1>2, <1>5, IdleInv DEF FlushRead, fixed, tasks, history
<1>6. CASE FlushWrite
    <2>1. up
        BY Zenon, <1>1, <1>6 DEF FlushWrite, Shape, Down
    <2> QED
        BY Zenon, <1>1, <1>2, <1>6, <2>1, IdleInv DEF FlushWrite, fixed, tasks, history
<1>7. CASE \/ \E q \in Quotas : set_producer_quota(q)
           \/ \E o \in Overrides : add_producer_quota_override(o)
           \/ \E p \in Policies : set_quiet_hours_policy(p)
    <2>1. UNCHANGED <<clock, fixed, usage, up, memory, tasks, history>>
        BY Zenon, <1>1, <1>7, CommandShape
    <2> QED
        BY Zenon, <1>1, <1>2, <2>1, IdleInv DEF fixed, memory, tasks, history
<1>8. ASSUME NEW t \in Tasks, NEW r \in Rows, Begin(t, r) PROVE Inv'
    <2>1. /\ step' = [step EXCEPT ![t] = "quota"] /\ at' = [at EXCEPT ![t] = clock]
          /\ UNCHANGED <<clock, fixed, usage, up, memory, history>>
        BY Zenon, <1>8 DEF Begin
    <2>2. at'[t] = clock /\ \A u \in Tasks \ {t} : step'[u] = step[u] /\ at'[u] = at[u]
        BY Zenon, <1>1, <2>1 DEF Shape, Held
    <2> QED
        BY Zenon, <1>1, <1>2, <2>1, <2>2, IdleInv DEF fixed, memory, history
<1>9. ASSUME NEW t \in Tasks, QuietGate(t) PROVE Inv'
    <2>1. /\ step' = [step EXCEPT ![t] = "idle"] /\ at' = [at EXCEPT ![t] = 0]
          /\ UNCHANGED <<clock, fixed, usage, up, memory, history>>
        BY Zenon, <1>9 DEF QuietGate, Idle
    <2>2. step'[t] = "idle" /\ \A u \in Tasks \ {t} : step'[u] = step[u] /\ at'[u] = at[u]
        BY Zenon, <1>1, <2>1 DEF Shape, Held
    <2> QED
        BY Zenon, <1>1, <1>2, <2>1, <2>2, IdleInv DEF fixed, memory, history
<1>10. CASE UNCHANGED vars
    BY Zenon, <1>1, <1>2, <1>10, IdleInv DEF vars, fixed, memory, tasks, history
<1> QED
    BY Zenon, <1>1, <1>3, <1>4, <1>5, <1>6, <1>7, <1>8, <1>9, <1>10, CrashInv, RebuildInv,
        RecordInv DEF Next

\* In no window that is not excused are more rows let through than the highest
\* limit enforced, for any number of tasks, limits and zones: check_and_record,
\* the flushes and rebuild_from_db lose no count that could come to matter.
THEOREM HardLimitAlways == Spec => []HardLimit
<1>1. Inv => HardLimit
    BY Zenon DEF Inv
<1> QED
    BY PTL, <1>1, InitInv, InvStep DEF Spec

-----------------------------------------------------------------------------
(* Where rows are put off to.                                              *)

\* In every zone, next_day_window_start is the start of a later day, unless a
\* clock change skips or repeats its midnight.
THEOREM DeferredToTheNextDayAlways == Spec => []DeferredToTheNextDay
<1>1. ASSUME Shape PROVE DeferredToTheNextDay
    <2>1. clock \in Int /\ tz \in Zone
        BY <1>1, GatesAssumption DEF Shape, Tables
    <2>2. PICK m \in Int : m = (Date(Local(tz, clock)) + 1) * Day
        <3>1. Date(Local(tz, clock)) \in Int
            BY Zenon, <2>1, LocalType, Dates
        <3> QED
            BY <3>1, CalendarAssumption
    <2> QED
        BY Zenon, <2>1, <2>2, NextDayIsNext DEF DeferredToTheNextDay
<1> QED
    BY PTL, <1>1, ShapeAlways

\* The zones and the quiet hours there can be.
Zones == {s.tz : s \in Settings} \cup ({s.customer_tz : s \in Settings} \ {None})
Periods == Policies \cup ({s.policy : s \in Settings} \ {None})

\* No clock goes forward by as much as the hours outside a quiet-hours window.
GapsAreShort == \A z \in Zones, p \in Periods : OutlastsGap(z, p)

\* What is used is what there is.
InForce ==
    /\ tz \in Zones /\ customer_tz \in Zones \cup {None}
    /\ policy \in Periods \cup {None} /\ quiet \in Periods \cup {None}

\* At first.
LEMMA InitInForce == Init => InForce
<1> SUFFICES ASSUME Init PROVE InForce
    OBVIOUS
<1>1. PICK s \in Settings : tz = s.tz /\ customer_tz = s.customer_tz /\ policy = s.policy
    BY Zenon DEF Init
<1>2. quiet = policy
    BY Zenon DEF Init
<1> QED
    BY Zenon, <1>1, <1>2 DEF InForce, Zones, Periods

\* In every step.
LEMMA InForceStep == InForce /\ [Next]_vars => InForce'
<1> SUFFICES ASSUME InForce, [Next]_vars PROVE InForce'
    OBVIOUS
<1>1. tz' = tz /\ customer_tz' = customer_tz
    BY Zenon DEF Next, vars, fixed, Tick, refresh_config, FlushRead, FlushWrite, Crash,
        rebuild_from_db, set_producer_quota, add_producer_quota_override,
        set_quiet_hours_policy, Change, Begin, check_and_record, QuietGate
<1>2. policy' = policy \/ policy' \in Policies
    BY Zenon DEF Next, vars, tables, Tick, refresh_config, FlushRead, FlushWrite, Crash,
        rebuild_from_db, set_producer_quota, add_producer_quota_override,
        set_quiet_hours_policy, Begin, check_and_record, QuietGate
<1>3. quiet' \in {quiet, policy, None}
    BY Zenon DEF Next, vars, memory, Tick, refresh_config, FlushRead, FlushWrite, Crash,
        rebuild_from_db, set_producer_quota, add_producer_quota_override,
        set_quiet_hours_policy, Change, Begin, check_and_record, QuietGate
<1> QED
    BY Zenon, <1>1, <1>2, <1>3 DEF InForce, Periods

\* In every zone and for every window that a clock change leaves some of the open
\* hours of, resolve_reschedule puts a row off to an instant outside the window,
\* and to a later one unless the present local time comes twice.
THEOREM PutOffPastQuietHoursAlways ==
    ASSUME GapsAreShort
    PROVE  Spec => []PutOffPastQuietHours
<1>1. ASSUME Shape, InForce PROVE PutOffPastQuietHours
    <2> DEFINE end == resolve_reschedule(clock, customer_tz, tz, quiet)
    <2>1. SUFFICES ASSUME quiet # None, NEW z, z = (IF customer_tz # None THEN customer_tz ELSE tz),
                          end # None
                   PROVE  /\ ~InWindow(quiet, Local(z, end))
                          /\ end > clock \/ Repeated(z, Local(z, clock))
        BY Zenon DEF PutOffPastQuietHours
    <2>2. clock \in Int /\ z \in Zone /\ quiet \in Policy
        BY <1>1, <2>1, GatesAssumption DEF Shape, Tables
    <2>3. OutlastsGap(z, quiet)
        BY Zenon, <1>1, <2>1 DEF GapsAreShort, InForce
    <2>4. /\ InWindow(quiet, Local(z, clock))
          /\ end = resolve_local(z, EndDate(quiet, Local(z, clock)) * Day + quiet.end)
        BY Zenon, <2>1 DEF resolve_reschedule
    <2>5. /\ end \in Int /\ ~InWindow(quiet, Local(z, end))
          /\ clock < end \/ Repeated(z, Local(z, clock))
        BY Zenon, <2>1, <2>2, <2>3, <2>4, EndsAfterWindow
    <2> HIDE DEF end
    <2>6. clock < end => end > clock
        BY <2>2, <2>5
    <2> QED
        BY Zenon, <2>5, <2>6
<1> QED
    BY PTL, <1>1, ShapeAlways, InitInForce, InForceStep DEF Spec

=============================================================================
