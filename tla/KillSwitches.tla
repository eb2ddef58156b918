---------------------------- MODULE KillSwitches ----------------------------
(***************************************************************************)
(* Kill switches of one tenant, from the tables to the sends: operators    *)
(* engage and release switches of the tenant and of the platform tier; the *)
(* dispatcher and ingest each keep a cache that a refresh loop re-reads;   *)
(* the dispatcher's claim loops exclude what the cache and the draining    *)
(* map cover; a newly engaged discard switch starts a sweep, a released    *)
(* hold switch starts one drain per channel.                               *)
(*                                                                         *)
(* NOTIFY only wakes a refresh loop before its poll does, so a refresh is  *)
(* simply always possible.  What process_one does with a leased row is in  *)
(* Dispatcher; here it is reduced to its outcome.  There is one dispatcher *)
(* process at a time, which may crash and start again.                     *)
(***************************************************************************)
EXTENDS KillSwitchScope, FiniteSets

CONSTANTS
    Switches,       \* switch ids: each is engaged at most once
    Platform,       \* of those, rows of platform_kill_switch
    Reaches,        \* platform switch: "region", this "tenant" or an "other" one
    Row,            \* tenant switch: its kill_switch row
    Requests,       \* outbox rows
    Of,             \* request: the columns a scope looks at
    BatchLimit,     \* rows per claim (CLAIM_BATCH_SIZE, release_rate)
    Refreshing,     \* the processes whose refresh loop takes steps
    Limit           \* bound on each kind of fault or deferral

Faults == {"crash", "platform", "error", "skip", "defer", "audit"}

Loops    == {<<"loop", c>> : c \in Channels}
Drains   == {<<"drain", c, s>> : c \in Channels, s \in Switches}
Discards == {<<"discard", None, s>> : s \in Switches}
Tasks    == Loops \cup Drains \cup Discards

Procs == {"dispatcher", "ingest"}

Closed == {"sent", "closed", "discarded"}

ASSUME SwitchesAssumption ==
    /\ IsFiniteSet(Switches) /\ IsFiniteSet(Requests) /\ IsFiniteSet(Channels)
    /\ Platform \subseteq Switches
    /\ Reaches \in [Platform -> {"region", "tenant", "other"}]
    /\ Row \in [Switches \ Platform -> SwitchRow]
    /\ Of \in [Requests -> Target]
    /\ BatchLimit \in Nat \ {0}
    /\ Refreshing \subseteq Procs
    /\ Limit \in [Faults -> Nat]

VARIABLES
    engaged,    \* switches with released_at IS NULL
    released,   \* switches with released_at set
    audited,    \* engages and releases with a platform_audit row
    cache,      \* ActiveSet.switches of each process
    refresh,    \* where its refresh loop is
    fresh,      \* the rows that refresh has read
    delta,      \* RefreshDelta of the dispatcher, not yet handled by on_delta
    draining,   \* released switches still ramping in
    phase,      \* the dispatcher: "down", "standby" or "leading"
    step,       \* where each task is
    seen,       \* the switches its exclusion is built from
    batch,      \* the rows it has leased and not yet finished
    outbox,     \* request: "absent", "checked", "queued", "leased" or closed
    due,        \* rows with next_attempt_at <= now()
    used,       \* faults and deferrals so far
    cover       \* switches in force ever since the task began its exclusion (auxiliary)

tables  == <<engaged, released, audited>>
caches  == <<cache, refresh, fresh, delta>>
tasks   == <<step, seen, batch>>
rows    == <<outbox, due>>
vars    == <<tables, caches, draining, phase, tasks, rows, used, cover>>

\* The row KillSwitchCache holds for s: a platform switch is global and hold.
as_kill_switch(s) ==
    IF s \in Platform THEN [scope |-> "global", key |-> None, on_queued |-> "hold"]
    ELSE Row[s]

Rows(S) == {as_kill_switch(s) : s \in S}

Holding(S)    == {s \in S : as_kill_switch(s).on_queued = "hold"}
Discarding(S) == {s \in S : as_kill_switch(s).on_queued = "discard"}

Matches(s, r) == matches(as_kill_switch(s), Of[r])

applies_to(s) == Reaches[s] \in {"region", "tenant"}

TypeOK ==
    /\ engaged \subseteq Switches /\ released \subseteq Switches
    /\ engaged \cap released = {}
    /\ audited \subseteq Switches \X {"engage", "release"}
    /\ cache \in [Procs -> SUBSET Switches]
    /\ refresh \in [Procs -> {"idle", "tenant", "read", "blind", "swapped"}]
    /\ fresh \in [Procs -> SUBSET Switches]
    /\ delta \in [engaged : SUBSET Switches, released : SUBSET Switches]
    /\ draining \subseteq Switches
    /\ phase \in {"down", "standby", "leading"}
    /\ step \in [Tasks -> {"off", "idle", "snapped", "claim", "work", "done"}]
    /\ seen \in [Tasks -> SUBSET Switches]
    /\ batch \in [Tasks -> SUBSET Requests]
    /\ \A t \in Tasks : step[t] = "work" <=> batch[t] # {}
    /\ outbox \in [Requests -> {"absent", "checked", "queued", "leased"} \cup Closed]
    /\ due \subseteq Requests
    /\ used \in [Faults -> Nat]
    /\ cover \in [Tasks -> SUBSET Switches]

Spend(k) ==
    /\ used[k] < Limit[k]
    /\ used' = [used EXCEPT ![k] = @ + 1]

Init ==
    /\ engaged = {} /\ released = {} /\ audited = {}
    /\ cache = [p \in Procs |-> {}]
    /\ refresh = [p \in Procs |-> "idle"]
    /\ fresh = [p \in Procs |-> {}]
    /\ delta = [engaged |-> {}, released |-> {}]
    /\ draining = {}
    /\ phase = "standby"
    /\ step = [t \in Tasks |-> "off"]
    /\ seen = [t \in Tasks |-> {}]
    /\ batch = [t \in Tasks |-> {}]
    /\ outbox = [r \in Requests |-> "absent"]
    /\ due = {}
    /\ used = [k \in Faults |-> 0]
    /\ cover = [t \in Tasks |-> {}]

-----------------------------------------------------------------------------
(* Operators: kill_switch::configure and platform_kill_switch::configure.  *)

\* The unique indexes on live switches: (scope, scope_key), (scope, tenant_id).
Conflict(s, o) ==
    IF s \in Platform THEN o \in Platform /\ Reaches[o] = Reaches[s]
    ELSE o \notin Platform /\ Row[o].scope = Row[s].scope /\ Row[o].key = Row[s].key

\* The audit row.  A platform switch's is written in the switch's transaction;
\* a tenant switch's in the other database after the switch is committed, and
\* when that insert fails the caller gets the error and the switch stays.
Audit(s, op) ==
    \/ audited' = audited \cup {<<s, op>>} /\ UNCHANGED used
    \/ s \notin Platform /\ Spend("audit") /\ UNCHANGED audited

engage(s) ==
    /\ s \notin engaged \cup released
    /\ \A o \in engaged : ~ Conflict(s, o)
    /\ engaged' = engaged \cup {s}
    /\ Audit(s, "engage")
    /\ UNCHANGED <<released, caches, draining, phase, tasks, rows, cover>>

release(s) ==
    /\ s \in engaged
    /\ engaged' = engaged \ {s}
    /\ released' = released \cup {s}
    /\ Audit(s, "release")
    /\ UNCHANGED <<caches, draining, phase, tasks, rows, cover>>

-----------------------------------------------------------------------------
(* KillSwitchCache::refresh_with_platform and the loop around it.          *)

\* list_active of the tenant's table.  A failed read ends the refresh and
\* changes nothing.
ReadTenant(p) ==
    /\ p \in Refreshing /\ refresh[p] = "idle"
    /\ p = "dispatcher" => phase # "down"
    /\ fresh' = [fresh EXCEPT ![p] = engaged \ Platform]
    /\ refresh' = [refresh EXCEPT ![p] = "tenant"]
    /\ UNCHANGED <<tables, cache, delta, draining, phase, tasks, rows, used, cover>>

\* list_active_for_tenant, in the control database.
ReadPlatform(p) ==
    /\ refresh[p] = "tenant"
    /\ fresh' = [fresh EXCEPT ![p] = @ \cup {s \in engaged \cap Platform : applies_to(s)}]
    /\ refresh' = [refresh EXCEPT ![p] = "read"]
    /\ UNCHANGED <<tables, cache, delta, draining, phase, tasks, rows, used, cover>>

PlatformReadFails(p) ==
    /\ refresh[p] = "tenant"
    /\ Spend("platform")
    /\ refresh' = [refresh EXCEPT ![p] = "blind"]
    /\ UNCHANGED <<tables, cache, fresh, delta, draining, phase, tasks, rows, cover>>

\* Broken variant: a failed control-database read counts as no platform switches.
ActiveSetWithoutCarryOver(p) == fresh[p]

\* The set a refresh swaps in: after a failed control-database read the cached
\* platform switches are carried over.
ActiveSet(p) ==
    IF refresh[p] = "blind" THEN fresh[p] \cup (cache[p] \cap Platform) ELSE fresh[p]

\* Auxiliary: in-force sets are only ever cut down while a task uses them.
Covering(c, d, dr) ==
    [t \in Tasks |->
        cover[t] \cap IF t \in Loops THEN c \cup d \cup Holding(dr) ELSE c]

\* Under the write lock: compare with the cached set, then replace it.
Swap(p) ==
    /\ refresh[p] \in {"read", "blind"}
    /\ cache' = [cache EXCEPT ![p] = ActiveSet(p)]
    /\ fresh' = [fresh EXCEPT ![p] = {}]
    /\ \/ /\ p = "dispatcher"
          /\ refresh' = [refresh EXCEPT ![p] = "swapped"]
          /\ delta' = [engaged  |-> ActiveSet(p) \ cache[p],
                       released |-> cache[p] \ ActiveSet(p)]
          /\ cover' = Covering(ActiveSet(p), draining, cache[p] \ ActiveSet(p))
       \/ /\ p = "ingest"
          /\ refresh' = [refresh EXCEPT ![p] = "idle"]
          /\ UNCHANGED <<delta, cover>>
    /\ UNCHANGED <<tables, draining, phase, tasks, rows, used>>

\* Broken variant: the sweep starts for hold switches as well.
on_delta_discards_all ==
    /\ refresh["dispatcher"] = "swapped"
    /\ refresh' = [refresh EXCEPT !["dispatcher"] = "idle"]
    /\ delta' = [engaged |-> {}, released |-> {}]
    /\ draining' = draining \cup Holding(delta.released)
    /\ step' = [t \in Tasks |->
                  CASE t \in Drains /\ t[3] \in Holding(delta.released) -> "idle"
                    [] t \in Discards /\ t[3] \in delta.engaged -> "claim"
                    [] OTHER -> step[t]]
    /\ cover' = Covering(cache["dispatcher"], draining', {})
    /\ UNCHANGED <<tables, cache, fresh, phase, seen, batch, rows, used>>

\* The dispatcher's on_delta: spawn the sweep of each newly engaged discard
\* switch; enter each released hold switch in draining and spawn its drains.
\* A released discard switch needs nothing.
on_delta ==
    /\ refresh["dispatcher"] = "swapped"
    /\ refresh' = [refresh EXCEPT !["dispatcher"] = "idle"]
    /\ delta' = [engaged |-> {}, released |-> {}]
    /\ draining' = draining \cup Holding(delta.released)
    /\ step' = [t \in Tasks |->
                  CASE t \in Drains /\ t[3] \in Holding(delta.released) -> "idle"
                    [] t \in Discards /\ t[3] \in Discarding(delta.engaged) -> "claim"
                    [] OTHER -> step[t]]
    /\ cover' = Covering(cache["dispatcher"], draining', {})
    /\ UNCHANGED <<tables, cache, fresh, phase, seen, batch, rows, used>>

-----------------------------------------------------------------------------
(* Ingest: create_comms checks its cache, resolves, renders, encrypts, and *)
(* only then inserts the outbox row.                                       *)

blocking_scope(r) ==
    \E s \in cache["ingest"] : s \in Platform \/ Matches(s, r)

CheckRequest(r) ==
    /\ outbox[r] = "absent"
    /\ ~ blocking_scope(r)
    /\ outbox' = [outbox EXCEPT ![r] = "checked"]
    /\ UNCHANGED <<tables, caches, draining, phase, tasks, due, used, cover>>

\* next_attempt_at is scheduled_for, or now.
InsertRequest(r) ==
    /\ outbox[r] = "checked"
    /\ outbox' = [outbox EXCEPT ![r] = "queued"]
    /\ due' \in {due, due \cup {r}}
    /\ UNCHANGED <<tables, caches, draining, phase, tasks, used, cover>>

BecomeDue(r) ==
    /\ outbox[r] \in {"queued", "leased"} /\ r \notin due
    /\ due' = due \cup {r}
    /\ UNCHANGED <<tables, caches, draining, phase, tasks, outbox, used, cover>>

-----------------------------------------------------------------------------
(* The dispatcher's tasks.                                                 *)

\* Broken variant: the ramping scopes are not excluded.
claim_exclusion_engaged_only(t) ==
    /\ t \in Loops
    /\ step[t] = "idle"
    /\ step' = [step EXCEPT ![t] = "claim"]
    /\ seen' = [seen EXCEPT ![t] = cache["dispatcher"]]
    /\ cover' = [cover EXCEPT ![t] = cache["dispatcher"] \cup draining]
    /\ UNCHANGED <<tables, caches, draining, phase, batch, rows, used>>

\* DispatcherContext::claim_exclusion awaits the cache's snapshot, then reads
\* the draining map.  Another thread may run between the two.
claim_exclusion(t) ==
    /\ t \in Loops
    /\ \/ /\ step[t] = "idle"
          /\ step' = [step EXCEPT ![t] = "snapped"]
          /\ seen' = [seen EXCEPT ![t] = cache["dispatcher"]]
          /\ cover' = [cover EXCEPT ![t] = cache["dispatcher"] \cup draining]
       \/ /\ step[t] = "snapped"
          /\ step' = [step EXCEPT ![t] = "claim"]
          /\ seen' = [seen EXCEPT ![t] = @ \cup draining]
          /\ UNCHANGED cover
    /\ UNCHANGED <<tables, caches, draining, phase, batch, rows, used>>

\* A drain rebuilds its exclusion before every batch, from the cache alone.
drain_exclusion(t) ==
    /\ t \in Drains
    /\ step[t] = "idle"
    /\ step' = [step EXCEPT ![t] = "claim"]
    /\ seen' = [seen EXCEPT ![t] = cache["dispatcher"]]
    /\ cover' = [cover EXCEPT ![t] = cache["dispatcher"]]
    /\ UNCHANGED <<tables, caches, draining, phase, batch, rows, used>>

\* The rows repo::claim (loops) or repo::claim_for_scope is about, and those of
\* them its exclusion lets through.
InReach(t) ==
    {r \in due :
        /\ outbox[r] = "queued"
        /\ IF t \in Loops THEN Of[r].channel = t[2]
           ELSE in_scope(as_kill_switch(t[3]), t[2], Of[r])}

Candidates(t) ==
    {r \in InReach(t) : claimable(exclusion_for_channel(Rows(seen[t]), t[2]), Of[r])}

\* Where a task goes on an empty claim.
Rest(t) == IF t \in Loops THEN "idle" ELSE IF t \in Drains THEN "done" ELSE "off"

Lease(t, B) ==
    /\ batch' = [batch EXCEPT ![t] = B]
    /\ outbox' = [r \in Requests |-> IF r \in B THEN "leased" ELSE outbox[r]]
    /\ step' = [step EXCEPT ![t] = IF B = {} THEN Rest(t) ELSE "work"]
    /\ seen' = [seen EXCEPT ![t] = {}]
    /\ cover' = [cover EXCEPT ![t] = {}]

\* LIMIT takes as many as there are, unless SKIP LOCKED passes over rows that
\* another transaction holds at that moment.
Claim(t) ==
    /\ step[t] = "claim"
    /\ \E B \in SUBSET Candidates(t) :
        /\ Cardinality(B) <= BatchLimit
        /\ \/ (Cardinality(B) = BatchLimit \/ B = Candidates(t)) /\ UNCHANGED used
           \/ Cardinality(B) < BatchLimit /\ B # Candidates(t) /\ Spend("skip")
        /\ Lease(t, B)
    /\ UNCHANGED <<tables, caches, draining, phase, due>>

\* A failed claim query: the drain computes its exclusion again.  A claim loop
\* and a sweep repeat the query as it was, which is no step.
ClaimFails(t) ==
    /\ t \in Drains
    /\ step[t] = "claim"
    /\ Spend("error")
    /\ step' = [step EXCEPT ![t] = "idle"]
    /\ UNCHANGED <<tables, caches, draining, phase, seen, batch, rows, cover>>

Finish(t, r) ==
    /\ step[t] = "work" /\ r \in batch[t]
    /\ batch' = [batch EXCEPT ![t] = @ \ {r}]
    /\ step' = IF batch[t] # {r} THEN step
               ELSE [step EXCEPT ![t] = IF t \in Discards THEN "claim" ELSE "idle"]
    /\ UNCHANGED <<tables, caches, draining, phase, seen, cover>>

\* Only an unfinished row changes: a terminal write removes the outbox row.
Becomes(r, status) ==
    outbox' = IF outbox[r] \in Closed THEN outbox ELSE [outbox EXCEPT ![r] = status]

\* process_one reaches a terminal state, or the drain writes `expired'.
Process(t, r) ==
    /\ t \notin Discards
    /\ Finish(t, r)
    /\ \E status \in {"sent", "closed"} : Becomes(r, status)
    /\ UNCHANGED <<due, used>>

write_discarded(t, r) ==
    /\ t \in Discards
    /\ Finish(t, r)
    /\ Becomes(r, "discarded")
    /\ UNCHANGED <<due, used>>

\* A retry or a deferral: the lease is cleared, next_attempt_at moves on.
Defer(t, r) ==
    /\ t \notin Discards
    /\ Spend("defer")
    /\ Finish(t, r)
    /\ Becomes(r, "queued")
    /\ due' = due \ {r}

\* An error leaves the row leased.
GiveUp(t, r) ==
    /\ Spend("error")
    /\ Finish(t, r)
    /\ UNCHANGED rows

\* Broken variant: the exclusion is lifted when the first channel is done.
run_release_drain_first(s) ==
    /\ s \in draining
    /\ \E c \in Channels :
        /\ step[<<"drain", c, s>>] = "done"
        /\ step' = [step EXCEPT ![<<"drain", c, s>>] = "off"]
    /\ draining' = draining \ {s}
    /\ cover' = Covering(cache["dispatcher"], draining', delta.released)
    /\ UNCHANGED <<tables, caches, phase, seen, batch, rows, used>>

\* Broken variant: the switch is never taken out of draining.
run_release_drain_keeps(s) ==
    /\ s \in draining
    /\ \A c \in Channels : step[<<"drain", c, s>>] = "done"
    /\ step' = [t \in Tasks |-> IF t \in Drains /\ t[3] = s THEN "off" ELSE step[t]]
    /\ UNCHANGED <<tables, caches, draining, phase, seen, batch, rows, used, cover>>

\* run_release_drain has joined every channel's task.
run_release_drain(s) ==
    /\ s \in draining
    /\ \A c \in Channels : step[<<"drain", c, s>>] = "done"
    /\ draining' = draining \ {s}
    /\ step' = [t \in Tasks |-> IF t \in Drains /\ t[3] = s THEN "off" ELSE step[t]]
    /\ cover' = Covering(cache["dispatcher"], draining', delta.released)
    /\ UNCHANGED <<tables, caches, phase, seen, batch, rows, used>>

-----------------------------------------------------------------------------
(* The process.                                                            *)

\* Leadership acquired: clear_stale_leases, then the claim loops start.
Lead ==
    /\ phase = "standby"
    /\ phase' = "leading"
    /\ outbox' = [r \in Requests |-> IF outbox[r] = "leased" THEN "queued" ELSE outbox[r]]
    /\ step' = [t \in Tasks |-> IF t \in Loops THEN "idle" ELSE step[t]]
    /\ UNCHANGED <<tables, caches, draining, seen, batch, due, used, cover>>

\* Everything but the tables is memory of the process.
Crash ==
    /\ phase # "down"
    /\ Spend("crash")
    /\ phase' = "down"
    /\ cache' = [cache EXCEPT !["dispatcher"] = {}]
    /\ refresh' = [refresh EXCEPT !["dispatcher"] = "idle"]
    /\ fresh' = [fresh EXCEPT !["dispatcher"] = {}]
    /\ delta' = [engaged |-> {}, released |-> {}]
    /\ draining' = {}
    /\ step' = [t \in Tasks |-> "off"]
    /\ seen' = [t \in Tasks |-> {}]
    /\ batch' = [t \in Tasks |-> {}]
    /\ cover' = [t \in Tasks |-> {}]
    /\ UNCHANGED <<tables, rows>>

Restart ==
    /\ phase = "down"
    /\ phase' = "standby"
    /\ UNCHANGED <<tables, caches, draining, tasks, rows, used, cover>>

RefreshStep(p) ==
    ReadTenant(p) \/ ReadPlatform(p) \/ PlatformReadFails(p) \/ Swap(p)

TaskStep(t) ==
    \/ claim_exclusion(t) \/ drain_exclusion(t) \/ Claim(t)
    \/ \E r \in Requests : Process(t, r) \/ write_discarded(t, r)

Next ==
    \/ \E s \in Switches : engage(s) \/ release(s) \/ run_release_drain(s)
    \/ \E p \in Procs : RefreshStep(p)
    \/ on_delta
    \/ \E r \in Requests : CheckRequest(r) \/ InsertRequest(r) \/ BecomeDue(r)
    \/ \E t \in Tasks : TaskStep(t) \/ ClaimFails(t)
    \/ \E t \in Tasks, r \in Requests : Defer(t, r) \/ GiveUp(t, r)
    \/ Lead \/ Crash \/ Restart

Spec == Init /\ [][Next]_vars

\* Every process and task keeps going; operators and producers need not, and no
\* fault has to happen.
FairSpec ==
    /\ Spec
    /\ \A p \in Procs : WF_vars(RefreshStep(p))
    /\ WF_vars(on_delta)
    /\ \A t \in Tasks : WF_vars(TaskStep(t))
    /\ \A s \in Switches : WF_vars(run_release_drain(s))
    /\ \A r \in Requests : WF_vars(BecomeDue(r))
    /\ WF_vars(Lead) /\ WF_vars(Restart)

-----------------------------------------------------------------------------
(* Properties.                                                             *)

Leases(t, r) == r \in batch'[t] \ batch[t]

\* The answers agree: over the switches a process has cached, ingest rejects a
\* request exactly when the claim loops exclude its row (exclusion_for_channel
\* against KillSwitch::matches), and for each one a drain pinned to the row's
\* channel, a sweep and the blast radius select exactly the rows it matches.
ScopesAgree ==
    \A p \in Procs, t \in Target :
        LET S == Rows(cache[p])
        IN  /\ claimable(exclusion_for_channel(S, t.channel), t)
                    <=> ~ \E s \in S : matches(s, t)
            /\ \A s \in S :
                /\ in_scope(s, t.channel, t) <=> matches(s, t)
                /\ in_scope(s, None, t) <=> matches(s, t)
                /\ blast_radius(s, t) <=> matches(s, t)

\* A claim loop never leases a row of a switch that was in the cache or in
\* draining when the loop began to build its exclusion and that has been engaged
\* or ramping ever since; a drain never leases a row of another switch that has
\* been in the cache since the drain began to build its own.
ClaimsHonourSwitches ==
    [][\A t \in Loops \cup Drains, r \in Requests :
            Leases(t, r) => \A s \in cover[t] : ~ Matches(s, r)]_vars

\* A ramp starts only for a switch that was released in its table: neither a
\* control-database failure nor a restart looks like a release.
RampsOnlyReleased ==
    draining \cup delta.released \subseteq released

\* While any channel of a released switch still drains, the switch is in
\* draining, so the claim loops of the faster channels keep excluding it.
DrainsStayExcluded ==
    \A t \in Drains : step[t] # "off" => t[3] \in draining

\* A discarded row was matched by a discard switch some tenant operator engaged;
\* a platform suspension never discards.
DiscardsAreAskedFor ==
    \A r \in Requests : outbox[r] = "discarded" =>
        \E s \in Discarding(engaged \cup released) : s \notin Platform /\ Matches(s, r)

\* A queued row that no engaged switch covers is eventually finished: a release
\* leaves no row behind an exclusion that nobody lifts.
ReleasedRowsFlow ==
    \A r \in Requests :
        outbox[r] = "queued" ~>
            outbox[r] \in Closed \/ \E s \in engaged : Matches(s, r)
=============================================================================
