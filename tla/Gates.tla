-------------------------------- MODULE Gates --------------------------------
(***************************************************************************)
(* The two gates of try_process that put a row off: the producer quota     *)
(* (QuotaTracker, in the memory of the leading dispatcher) and the quiet   *)
(* hours; with the tables they are configured from and the usage table     *)
(* that the tracker is flushed to and rebuilt from.                        *)
(*                                                                         *)
(* One key (producer, channel, class) is followed: the tracker keeps every *)
(* key apart.  The channel's claim loop and a release drain process rows   *)
(* of it at the same time, and the time that a task read may be old when   *)
(* it takes the lock on the counters.  The counters of blocked rows are    *)
(* left out; nothing decides by them.                                      *)
(***************************************************************************)
EXTENDS QuietHours

CONSTANTS
    Rows,           \* outbox rows of the key
    Tasks,          \* tasks of the dispatcher that process rows
    Quotas,         \* producer_quota rows an operator may ask for
    Overrides,      \* producer_quota_override rows an operator may ask for
    Policies,       \* quiet-hours windows an operator may ask for
    Settings,       \* what to begin with: the class of the key, the zones of tenant
                    \* and customer (None: does not parse), quota and quiet hours
    Jitters,        \* jitters that resolve_reschedule may add
    Horizon,        \* bound on the clock
    MaxPasses,      \* bound on passes of rows through the gates
    MaxEvents       \* bound on changes of configuration and deaths of the dispatcher

Windows == {"minute", "day"}

\* Rows of the tables, and the limits of a key as check_and_record sees them.  The
\* columns are of type int, and NULL is no limit.
MAX_INT == 2147483647
Limit == {n \in Int : n <= MAX_INT}
Quota ==
    [per_minute : Limit \cup {None}, per_day : Limit \cup {None}, enforcement : {"soft", "hard"}]
Override == [per_day : Limit, valid_from : Int, valid_to : Int]
EffectiveQuota ==
    [minute : Limit \cup {None}, day : Limit \cup {None}, enforcement : {"soft", "hard"}]

ASSUME GatesAssumption ==
    /\ Horizon \in Nat /\ MaxPasses \in Nat /\ MaxEvents \in Nat
    /\ Jitters \subseteq Nat
    /\ Quotas \subseteq Quota /\ Overrides \subseteq Override /\ Policies \subseteq Policy
    /\ \A s \in Settings :
        /\ s.class \in {"transactional", "marketing"}
        /\ s.tz \in Zone /\ s.customer_tz \in Zone \cup {None}
        /\ s.quota \in Quota \cup {None} /\ s.policy \in Policy \cup {None}
    /\ None \notin Rows /\ None \notin Zone

\* A number for each window that has one: pairs of a kind and a start.
Tally(f, x) == IF x \in DOMAIN f THEN f[x] ELSE 0
IsTally(f) == DOMAIN f \subseteq Windows \X Int /\ \A x \in DOMAIN f : f[x] \in Nat

\* The numbers of f, written over those of g.
Overlay(f, g) == [x \in DOMAIN f \cup DOMAIN g |-> IF x \in DOMAIN f THEN f[x] ELSE g[x]]

VARIABLES
    clock,
    class, tz, customer_tz,     \* of the key, of the tenant, of the customer
    quota, overrides, policy,   \* tables, one row of each but overrides
    usage,                      \* producer_usage: window and start -> sent
    up,                         \* the dispatcher leads
    config,                     \* QuotaTracker.config: limits and enforcement, or None
    quiet,                      \* DispatcherContext.quiet_hours_policy
    start, sent,                \* QuotaTracker.counters, for each window
    snapshot,                   \* what flush has read and not yet written, or None
    next_attempt_at,            \* row -> instant, or None once it is sent
    step, row, at, effective,   \* task -> next gate, its row, the time it read, its config
    passes, used,               \* passes and events so far
    admitted,                   \* window and start -> rows let through (auxiliary)
    ceiling,                    \* window -> highest limit enforced so far (auxiliary)
    excused                     \* windows that may exceed it (auxiliary)

tables  == <<quota, overrides, policy>>
memory  == <<config, quiet, start, sent, snapshot>>
tasks   == <<step, row, at, effective>>
history == <<admitted, ceiling, excused>>
fixed   == <<class, tz, customer_tz>>
vars    == <<clock, fixed, tables, usage, up, memory, next_attempt_at, tasks, passes, used, history>>

TypeOK ==
    /\ clock \in 0..Horizon /\ up \in BOOLEAN
    /\ tz \in Zone /\ customer_tz \in Zone \cup {None}
    /\ quota \in Quota \cup {None} /\ overrides \subseteq Overrides
    /\ {policy, quiet} \subseteq Policy \cup {None}
    /\ IsTally(usage) /\ IsTally(admitted) /\ (snapshot # None => IsTally(snapshot))
    /\ config \in EffectiveQuota \cup {None}
    /\ start \in [Windows -> Int \cup {None}] /\ sent \in [Windows -> Nat]
    /\ next_attempt_at \in [Rows -> Int \cup {None}]
    /\ row \in [Tasks -> Rows \cup {None}] /\ at \in [Tasks -> 0..Horizon]
    /\ \A t, u \in Tasks : row[t] = row[u] /\ row[t] # None => t = u
    /\ step \in [Tasks -> {"idle", "quota", "quiet"}]
    /\ effective \in [Tasks -> EffectiveQuota \cup {None}]
    /\ ceiling \in [Windows -> Nat] /\ excused \subseteq Windows \X Int

Init ==
    /\ clock = 0
    /\ \E s \in Settings : /\ class = s.class /\ tz = s.tz
                          /\ customer_tz = s.customer_tz /\ policy = s.policy
                          /\ quota = s.quota
    /\ overrides = {}
    /\ usage = <<>> /\ admitted = <<>>
    /\ up = TRUE /\ config = None /\ quiet = policy
    /\ start = [w \in Windows |-> None] /\ sent = [w \in Windows |-> 0] /\ snapshot = None
    /\ next_attempt_at = [r \in Rows |-> 0]
    /\ step = [t \in Tasks |-> "idle"] /\ row = [t \in Tasks |-> None]
    /\ at = [t \in Tasks |-> 0]
    /\ effective = [t \in Tasks |-> None]
    /\ passes = 0 /\ used = 0
    /\ ceiling = [w \in Windows |-> 0] /\ excused = {}

Tick ==
    /\ clock < Horizon /\ clock' = clock + 1
    /\ UNCHANGED <<fixed, tables, usage, up, memory, next_attempt_at, tasks, passes, used, history>>

-----------------------------------------------------------------------------
(* The operators' commands.                                                *)

Change ==
    /\ used < MaxEvents /\ used' = used + 1
    /\ UNCHANGED <<clock, fixed, usage, up, memory, next_attempt_at, tasks, passes, history>>

\* Hard enforcement is refused for transactional traffic.
set_producer_quota(q) ==
    /\ ~(class = "transactional" /\ q.enforcement = "hard")
    /\ Change
    /\ quota' = q
    /\ UNCHANGED <<overrides, policy>>

add_producer_quota_override(o) ==
    /\ o.valid_to > o.valid_from /\ o.per_day > 0
    /\ Change
    /\ overrides' = overrides \cup {o}
    /\ UNCHANGED <<quota, policy>>

set_quiet_hours_policy(p) ==
    /\ Change
    /\ policy' = p
    /\ UNCHANGED <<quota, overrides>>

-----------------------------------------------------------------------------
(* QuotaTracker.                                                           *)

load_active_overrides(now) ==
    {o.per_day : o \in {x \in overrides : x.valid_from <= now /\ x.valid_to > now}}

\* An override only raises a limit, and only that of a key with a quota.
Merged(now) ==
    IF quota = None THEN None
    ELSE [minute      |-> quota.per_minute,
          day         |-> IF load_active_overrides(now) = {} THEN quota.per_day
                          ELSE Max(load_active_overrides(now) \cup ({quota.per_day} \ {None})),
          enforcement |-> quota.enforcement]

refresh_config ==
    /\ up /\ config # Merged(clock)
    /\ config' = Merged(clock)
    /\ UNCHANGED <<clock, fixed, tables, usage, up, quiet, start, sent, snapshot,
                   next_attempt_at, tasks, passes, used, history>>

window_start(w, now) ==
    IF w = "minute" THEN minute_window_start(now) ELSE day_window_start(tz, now)

\* The counter of a window after roll_window.
Rolled(w, now) == IF start[w] = window_start(w, now) THEN sent[w] ELSE 0

\* The windows whose counts are lost because roll_window goes backwards, the one it
\* goes back to and the later ones: a task comes with a time it read before the
\* window moved on, or a local date repeats.
WentBack(now) ==
    {x \in DOMAIN admitted :
        /\ start[x[1]] # None /\ window_start(x[1], now) < start[x[1]]
        /\ x[2] >= window_start(x[1], now)}

Breach(limit, n) == limit # None /\ n >= limit

\* A day breach comes before a minute breach.
Decision(t) ==
    LET e == effective[t]
        Over(w) == e # None /\ Breach(e[w], Rolled(w, at[t]))
    IN  IF ~Over("day") /\ ~Over("minute") THEN "admit"
        ELSE IF e.enforcement = "soft" THEN "soft_breach"
        ELSE IF Over("day") THEN "next_day" ELSE "next_minute"

Idle(t) ==
    /\ step' = [step EXCEPT ![t] = "idle"] /\ row' = [row EXCEPT ![t] = None]
    /\ at' = [at EXCEPT ![t] = 0] /\ effective' = [effective EXCEPT ![t] = None]

\* A task takes a due row up to the quota gate, reads the time and the config.
Begin(t, r) ==
    /\ up /\ step[t] = "idle"
    /\ next_attempt_at[r] # None /\ next_attempt_at[r] <= clock
    /\ \A u \in Tasks : row[u] # r
    /\ passes < MaxPasses /\ passes' = passes + 1
    /\ step' = [step EXCEPT ![t] = "quota"] /\ row' = [row EXCEPT ![t] = r]
    /\ at' = [at EXCEPT ![t] = clock] /\ effective' = [effective EXCEPT ![t] = config]
    /\ UNCHANGED <<clock, fixed, tables, usage, up, memory, next_attempt_at, used, history>>

\* check_and_record under its lock, and the reschedule of a deferred row.
check_and_record(t) ==
    LET now == at[t]
        e == effective[t]
        through == Decision(t) \in {"admit", "soft_breach"}
        current == {<<w, window_start(w, now)>> : w \in Windows}
        limits(w) == e # None /\ e[w] # None /\ Decision(t) # "soft_breach"
    IN  /\ step[t] = "quota"
        /\ start' = [w \in Windows |-> window_start(w, now)]
        /\ sent' = [w \in Windows |-> Rolled(w, now) + (IF through THEN 1 ELSE 0)]
        /\ IF through
           THEN /\ step' = [step EXCEPT ![t] = "quiet"]
                /\ admitted' = Overlay([x \in current |-> Tally(admitted, x) + 1], admitted)
                /\ ceiling' = [w \in Windows |->
                                 IF limits(w) THEN Max({e[w], ceiling[w]}) ELSE ceiling[w]]
                /\ excused' = excused \cup WentBack(now) \cup {x \in current : ~limits(x[1])}
                /\ UNCHANGED <<next_attempt_at, row, at, effective>>
           ELSE /\ next_attempt_at' = [next_attempt_at EXCEPT ![row[t]] =
                      IF Decision(t) = "next_day" THEN next_day_window_start(tz, now)
                      ELSE minute_window_start(now) + Minute]
                /\ Idle(t)
                /\ excused' = excused \cup WentBack(now)
                /\ UNCHANGED <<admitted, ceiling>>
        /\ UNCHANGED <<clock, fixed, tables, usage, up, config, quiet, snapshot,
                       passes, used>>

\* The quiet-hours gate; a row that passes it is sent.
QuietGate(t) ==
    LET end == IF quiet = None THEN None ELSE resolve_reschedule(clock, customer_tz, tz, quiet)
    IN  /\ step[t] = "quiet"
        /\ \/ /\ end = None
              /\ next_attempt_at' = [next_attempt_at EXCEPT ![row[t]] = None]
           \/ /\ end # None
              /\ \E j \in Jitters : next_attempt_at' = [next_attempt_at EXCEPT ![row[t]] = end + j]
        /\ Idle(t)
        /\ UNCHANGED <<clock, fixed, tables, usage, up, memory, passes, used, history>>

\* flush reads the counters under their lock, then writes them in a transaction.
\* One that would write what is stored already is left out.
FlushRead ==
    /\ up /\ snapshot = None
    /\ \E w \in Windows : start[w] # None /\ sent[w] # Tally(usage, <<w, start[w]>>)
    /\ snapshot' = [x \in {<<w, start[w]>> : w \in {v \in Windows : start[v] # None}} |->
                      sent[x[1]]]
    /\ UNCHANGED <<clock, fixed, tables, usage, up, config, quiet, start, sent,
                   next_attempt_at, tasks, passes, used, history>>

FlushWrite ==
    /\ snapshot # None
    /\ usage' = Overlay(snapshot, usage)
    /\ snapshot' = None
    /\ UNCHANGED <<clock, fixed, tables, up, config, quiet, start, sent,
                   next_attempt_at, tasks, passes, used, history>>

\* The dispatcher dies; its leases are cleared by the next leader, so its rows are
\* due again.  Counts that were never flushed are gone.
Crash ==
    /\ up /\ used < MaxEvents /\ used' = used + 1
    /\ up' = FALSE
    /\ config' = None /\ quiet' = None /\ snapshot' = None
    /\ start' = [w \in Windows |-> None] /\ sent' = [w \in Windows |-> 0]
    /\ step' = [t \in Tasks |-> "idle"] /\ row' = [t \in Tasks |-> None]
    /\ at' = [t \in Tasks |-> 0] /\ effective' = [t \in Tasks |-> None]
    /\ excused' = excused \cup {x \in DOMAIN admitted : Tally(usage, x) < admitted[x]}
    /\ UNCHANGED <<clock, fixed, tables, usage, next_attempt_at, passes, admitted,
                   ceiling>>

\* Days that may come again, where local dates repeat, after a restart that loads
\* the counters of the current day only.
Forgotten ==
    {x \in DOMAIN admitted :
        \/ x[2] > window_start(x[1], clock)
        \/ /\ x[1] = "day" /\ x[2] < window_start(x[1], clock)
           /\ Repeated(tz, Date(Local(tz, clock)) * Day)}

\* Broken variant: the counters of the day start from nothing.
rebuild_from_db_minutes ==
    /\ ~up /\ up' = TRUE
    /\ quiet' = policy
    /\ LET kept == {<<"minute", window_start("minute", clock)>>} \cap DOMAIN usage
       IN  /\ start' = [w \in Windows |->
                          IF \E x \in kept : x[1] = w THEN window_start(w, clock) ELSE None]
           /\ sent' = [w \in Windows |-> Tally(usage, <<w, window_start(w, clock)>>)]
    /\ excused' = excused \cup Forgotten
    /\ UNCHANGED <<clock, fixed, tables, usage, config, snapshot, next_attempt_at, tasks,
                   passes, used, admitted, ceiling>>

\* The next leader: the policy is loaded, and the counters of the current windows.
rebuild_from_db ==
    /\ ~up /\ up' = TRUE
    /\ quiet' = policy
    /\ LET kept == {<<w, window_start(w, clock)>> : w \in Windows} \cap DOMAIN usage
       IN  /\ start' = [w \in Windows |->
                          IF \E x \in kept : x[1] = w THEN window_start(w, clock) ELSE None]
           /\ sent' = [w \in Windows |-> Tally(usage, <<w, window_start(w, clock)>>)]
    /\ excused' = excused \cup Forgotten
    /\ UNCHANGED <<clock, fixed, tables, usage, config, snapshot, next_attempt_at, tasks,
                   passes, used, admitted, ceiling>>

Next ==
    \/ Tick \/ refresh_config \/ FlushRead \/ FlushWrite \/ Crash \/ rebuild_from_db
    \/ \E q \in Quotas : set_producer_quota(q)
    \/ \E o \in Overrides : add_producer_quota_override(o)
    \/ \E p \in Policies : set_quiet_hours_policy(p)
    \/ \E t \in Tasks, r \in Rows : Begin(t, r)
    \/ \E t \in Tasks : check_and_record(t) \/ QuietGate(t)

Spec == Init /\ [][Next]_vars

-----------------------------------------------------------------------------
(* Properties.                                                             *)

\* In a minute or a day, the tracker lets no more rows through than the highest
\* limit it enforced, whatever tasks, flushes and restarts do in between; only a
\* window is excused in which it had no hard limit, whose counts died unflushed
\* with the process, or which was rolled back over or not loaded by a restart and
\* came again, for a late task or on a repeated date.
HardLimit ==
    \A x \in DOMAIN admitted : x \notin excused => admitted[x] <= ceiling[x[1]]

\* A row that breached the day's limit comes back in the next window, not in the
\* one that is full, unless a clock change skips or repeats that midnight.
DeferredToTheNextDay ==
    LET midnight == (Date(Local(tz, clock)) + 1) * Day
        next == next_day_window_start(tz, clock)
    IN  Skipped(tz, midnight) \/ Repeated(tz, midnight)
          \/ (next > clock /\ day_window_start(tz, next) = next)

\* A row put off by quiet hours comes back when they are over, and not before the
\* present, unless the present local time is one that comes twice.
PutOffPastQuietHours ==
    LET z == IF customer_tz # None THEN customer_tz ELSE tz
        end == resolve_reschedule(clock, customer_tz, tz, quiet)
    IN  quiet # None =>
          (end = None \/ (/\ ~InWindow(quiet, Local(z, end))
                          /\ end > clock \/ Repeated(z, Local(z, clock))))
=============================================================================
