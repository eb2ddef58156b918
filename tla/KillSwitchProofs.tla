-------------------------- MODULE KillSwitchProofs --------------------------
(***************************************************************************)
(* Proofs about kill switches, for every set of channels, producers,       *)
(* campaigns, switches and requests, and every bound on faults.            *)
(***************************************************************************)
EXTENDS KillSwitches, TLAPS

-----------------------------------------------------------------------------
(* Scopes.                                                                 *)

\* exclusion_for_channel with the claim query's WHERE lets a row through exactly
\* when no switch matches it.
LEMMA ExclusionAgrees ==
    ASSUME NEW S \in SUBSET SwitchRow, NEW t \in Target
    PROVE  claimable(exclusion_for_channel(S, t.channel), t) <=> ~ \E s \in S : matches(s, t)
<1> USE ScopeAssumption
<1> DEFINE ex == exclusion_for_channel(S, t.channel)
<1>t. /\ t.channel \in Channels /\ t.producer \in Producers
      /\ t.campaign \in Campaigns \cup {None}
    BY Zenon DEF Target
<1>s. \A s \in S : s.scope \in Scopes /\ s.key \in Keys
    BY Zenon DEF SwitchRow
<1>1. ex.blocked_entirely <=> \E s \in S : matches(s, t) /\ s.scope \in {"global", "channel"}
    BY ZenonT(60) DEF exclusion_for_channel, matches
<1>2. t.producer \in ex.blocked_producer_ids
        <=> \E s \in S : matches(s, t) /\ s.scope \in {"producer", "producer_channel"}
    <2>1. t.producer \in ex.blocked_producer_ids <=>
            \/ \E s \in S : /\ s.scope = "producer" /\ producer_id(s) # None
                           /\ t.producer = producer_id(s)
            \/ \E s \in S : /\ s.scope = "producer_channel" /\ producer_channel_parts(s) # None
                           /\ producer_channel_parts(s)[2] = t.channel
                           /\ t.producer = producer_channel_parts(s)[1]
        BY Zenon DEF exclusion_for_channel
    <2>2. ASSUME NEW s \in S, producer_channel_parts(s) # None
          PROVE  producer_channel_parts(s) = <<t.producer, t.channel>> <=>
                    /\ t.producer = producer_channel_parts(s)[1]
                    /\ producer_channel_parts(s)[2] = t.channel
        <3>1. producer_channel_parts(s) \in Producers \X Channels
            BY Zenon, <2>2 DEF producer_channel_parts
        <3> QED
            BY <3>1
    <2>3. \A s \in S : s.scope = "producer" =>
            (matches(s, t) <=> producer_id(s) # None /\ producer_id(s) = t.producer)
        BY Zenon DEF matches
    <2>4. \A s \in S : s.scope = "producer_channel" =>
            (matches(s, t) <=> /\ producer_channel_parts(s) # None
                               /\ producer_channel_parts(s) = <<t.producer, t.channel>>)
        BY Zenon DEF matches
    <2> HIDE DEF ex
    <2> QED
        BY Zenon, <2>1, <2>2, <2>3, <2>4
<1>3. (t.campaign # None /\ t.campaign \in ex.blocked_campaign_ids)
        <=> \E s \in S : matches(s, t) /\ s.scope = "campaign"
    BY ZenonT(60), <1>t, <1>s DEF exclusion_for_channel, matches
<1>4. claimable(ex, t) <=> /\ ~ ex.blocked_entirely
                           /\ t.producer \notin ex.blocked_producer_ids
                           /\ ~ (t.campaign # None /\ t.campaign \in ex.blocked_campaign_ids)
    BY Zenon DEF claimable
<1> QED
    BY Zenon, <1>1, <1>2, <1>3, <1>4, <1>s DEF Scopes

\* claim_for_scope, pinned to the row's channel or not, and blast_radius select
\* the rows KillSwitch::matches.
LEMMA SelectionAgrees ==
    ASSUME NEW s \in SwitchRow, NEW t \in Target
    PROVE  /\ in_scope(s, t.channel, t) <=> matches(s, t)
           /\ in_scope(s, None, t) <=> matches(s, t)
           /\ blast_radius(s, t) <=> matches(s, t)
<1> USE ScopeAssumption
<1>t. /\ t.channel \in Channels /\ t.producer \in Producers
      /\ t.campaign \in Campaigns \cup {None}
    BY Zenon DEF Target
<1>s. s.scope \in Scopes /\ s.key \in Keys
    BY Zenon DEF SwitchRow
<1> QED
    BY <1>t, <1>s DEF in_scope, blast_radius, matches, OnChannel, producer_id,
                      producer_channel_parts, Scopes

\* The rows of any switches, tenant or platform, are rows of the table.
LEMMA RowsTyped ==
    ASSUME NEW S \in SUBSET Switches
    PROVE  Rows(S) \in SUBSET SwitchRow
BY SwitchesAssumption DEF Rows, as_kill_switch, SwitchRow, Scopes, Keys

-----------------------------------------------------------------------------
(* Types.                                                                  *)

\* TypeOK without what it says of batches.
Types ==
    /\ engaged \subseteq Switches /\ released \subseteq Switches
    /\ engaged \cap released = {}
    /\ audited \subseteq Switches \X {"engage", "release"}
    /\ cache \in [Procs -> SUBSET Switches]
    /\ refresh \in [Procs -> {"idle", "tenant", "read", "blind", "swapped"}]
    /\ fresh \in [Procs -> SUBSET Switches]
    /\ delta \in [engaged : SUBSET Switches, released : SUBSET Switches]
    /\ draining \subseteq Switches
    /\ phase \in {"down", "standby", "leading"}
    /\ step \in [Tasks -> {"off", "idle", "snapped", "claim", "work", "done"}]
    /\ seen \in [Tasks -> SUBSET Switches]
    /\ batch \in [Tasks -> SUBSET Requests]
    /\ outbox \in [Requests -> {"absent", "checked", "queued", "leased"} \cup Closed]
    /\ due \subseteq Requests
    /\ used \in [Faults -> Nat]
    /\ cover \in [Tasks -> SUBSET Switches]

\* Init establishes the types.
LEMMA InitTypes == Init => Types
BY SwitchesAssumption DEF Init, Types, Procs, Closed

\* Counting a fault keeps the counters' type.
LEMMA SpendTypes ==
    ASSUME Types, NEW k \in Faults, Spend(k)
    PROVE  used' \in [Faults -> Nat]
BY DEF Spend, Types

\* Steps of operators and producers preserve the types.
LEMMA TableTypes ==
    ASSUME Types, NEW s, NEW r,
           \/ s \in Switches /\ (engage(s) \/ release(s))
           \/ r \in Requests /\ (CheckRequest(r) \/ InsertRequest(r) \/ BecomeDue(r))
    PROVE  Types'
<1>1. CASE s \in Switches /\ (engage(s) \/ release(s))
    <2>1. /\ engaged' \subseteq Switches /\ released' \subseteq Switches
          /\ engaged' \cap released' = {}
        BY <1>1 DEF engage, release, Types
    <2>2. audited' \subseteq Switches \X {"engage", "release"} /\ used' \in [Faults -> Nat]
        BY <1>1 DEF engage, release, Audit, Spend, Types
    <2>3. UNCHANGED <<caches, draining, phase, tasks, rows, cover>>
        BY Zenon, <1>1 DEF engage, release
    <2> QED
        BY Zenon, <2>1, <2>2, <2>3 DEF Types, caches, tasks, rows
<1>2. CASE r \in Requests /\ (CheckRequest(r) \/ BecomeDue(r))
    BY Zenon, <1>2 DEF CheckRequest, BecomeDue, Types, tables, caches, tasks
<1>3. CASE r \in Requests /\ InsertRequest(r)
    <2>1. /\ outbox' \in [Requests -> {"absent", "checked", "queued", "leased"} \cup Closed]
          /\ due' \subseteq Requests
        BY Zenon, <1>3 DEF InsertRequest, Types
    <2>3. UNCHANGED <<tables, caches, draining, phase, tasks, used, cover>>
        BY Zenon, <1>3 DEF InsertRequest
    <2> QED
        BY Zenon, <2>1, <2>3 DEF Types, tables, caches, tasks
<1> QED
    BY Zenon, <1>1, <1>2, <1>3

\* Steps of the refresh loops preserve the types.
LEMMA RefreshTypes ==
    ASSUME Types, NEW p \in Procs, RefreshStep(p) \/ on_delta
    PROVE  Types'
<1>1. CASE ReadTenant(p) \/ ReadPlatform(p) \/ PlatformReadFails(p)
    <2>1. /\ refresh' \in [Procs -> {"idle", "tenant", "read", "blind", "swapped"}]
          /\ fresh' \in [Procs -> SUBSET Switches]
        BY <1>1 DEF ReadTenant, ReadPlatform, PlatformReadFails, Types
    <2>2. used' \in [Faults -> Nat]
        BY <1>1 DEF ReadTenant, ReadPlatform, PlatformReadFails, Spend, Types
    <2>3. UNCHANGED <<tables, cache, delta, draining, phase, tasks, rows, cover>>
        BY Zenon, <1>1 DEF ReadTenant, ReadPlatform, PlatformReadFails
    <2> QED
        BY Zenon, <2>1, <2>2, <2>3 DEF Types, tables, tasks, rows
<1>c. ASSUME NEW c, NEW d, NEW dr
      PROVE  Covering(c, d, dr) \in [Tasks -> SUBSET Switches]
    BY Zenon DEF Covering, Types
<1>2. CASE Swap(p)
    <2>1. ActiveSet(p) \subseteq Switches
        BY Zenon DEF ActiveSet, Types
    <2>2. /\ cache' \in [Procs -> SUBSET Switches] /\ fresh' \in [Procs -> SUBSET Switches]
          /\ refresh' \in [Procs -> {"idle", "tenant", "read", "blind", "swapped"}]
        BY Zenon, <1>2, <2>1 DEF Swap, Types
    <2>3. delta' \in [engaged : SUBSET Switches, released : SUBSET Switches]
        BY <1>2, <2>1 DEF Swap, Types
    <2>4. cover' \in [Tasks -> SUBSET Switches]
        <3>1. CASE p = "dispatcher"
            BY <1>2, <1>c, <3>1 DEF Swap
        <3>2. CASE p = "ingest"
            BY Zenon, <1>2, <3>2 DEF Swap, Types
        <3> QED
            BY Zenon, <3>1, <3>2 DEF Procs
    <2>6. UNCHANGED <<tables, draining, phase, tasks, rows, used>>
        BY Zenon, <1>2 DEF Swap
    <2> QED
        BY Zenon, <2>2, <2>3, <2>4, <2>6 DEF Types, tables, tasks, rows
<1>3. CASE on_delta
    <2>1. /\ refresh' \in [Procs -> {"idle", "tenant", "read", "blind", "swapped"}]
          /\ delta' \in [engaged : SUBSET Switches, released : SUBSET Switches]
        BY ZenonT(60), <1>3 DEF on_delta, Types
    <2>2. draining' \subseteq Switches
        BY Zenon, <1>3 DEF on_delta, Types, Holding
    <2>3. step' \in [Tasks -> {"off", "idle", "snapped", "claim", "work", "done"}]
        BY Zenon, <1>3 DEF on_delta, Types
    <2>4. cover' \in [Tasks -> SUBSET Switches]
        BY Zenon, <1>3, <1>c DEF on_delta
    <2>6. UNCHANGED <<tables, cache, fresh, phase, seen, batch, rows, used>>
        BY Zenon, <1>3 DEF on_delta
    <2> QED
        BY Zenon, <2>1, <2>2, <2>3, <2>4, <2>6 DEF Types, tables, rows
<1> QED
    BY Zenon, <1>1, <1>2, <1>3 DEF RefreshStep

\* Finishing a row: one of the four outcomes of a leased row.
RowStep(t, r) == Process(t, r) \/ write_discarded(t, r) \/ Defer(t, r) \/ GiveUp(t, r)

\* Finishing a row preserves the types.
LEMMA RowTypes ==
    ASSUME Types, NEW t \in Tasks, NEW r \in Requests, RowStep(t, r)
    PROVE  Types'
<1>1. Finish(t, r)
    BY Zenon DEF RowStep, Process, write_discarded, Defer, GiveUp
<1>2. /\ step' \in [Tasks -> {"off", "idle", "snapped", "claim", "work", "done"}]
      /\ batch' \in [Tasks -> SUBSET Requests]
    BY Zenon, <1>1 DEF Finish, Types
<1>3. outbox' \in [Requests -> {"absent", "checked", "queued", "leased"} \cup Closed]
    <2>1. \/ \E status \in {"sent", "closed", "discarded", "queued"} : Becomes(r, status)
          \/ outbox' = outbox
        BY Zenon DEF RowStep, Process, write_discarded, Defer, GiveUp, rows
    <2> QED
        BY Zenon, <2>1 DEF Becomes, Types, Closed
<1>4. due' \subseteq Requests
    BY Zenon DEF RowStep, Process, write_discarded, Defer, GiveUp, rows, Types
<1>5. used' \in [Faults -> Nat]
    BY DEF RowStep, Process, write_discarded, Defer, GiveUp, Spend, Types
<1>6. UNCHANGED <<tables, caches, draining, phase, seen, cover>>
    BY Zenon, <1>1 DEF Finish
<1> QED
    BY Zenon, <1>2, <1>3, <1>4, <1>5, <1>6 DEF Types, tables, caches

\* Steps of the dispatcher's tasks preserve the types.
LEMMA TaskTypes ==
    ASSUME Types, NEW t \in Tasks, TaskStep(t) \/ ClaimFails(t)
    PROVE  Types'
<1>1. CASE claim_exclusion(t) \/ drain_exclusion(t)
    <2>1. /\ step' \in [Tasks -> {"off", "idle", "snapped", "claim", "work", "done"}]
          /\ seen' \in [Tasks -> SUBSET Switches]
        BY <1>1 DEF claim_exclusion, drain_exclusion, Types, Procs
    <2>2. cover' \in [Tasks -> SUBSET Switches]
        BY <1>1 DEF claim_exclusion, drain_exclusion, Types, Procs
    <2>3. UNCHANGED <<tables, caches, draining, phase, batch, rows, used>>
        BY Zenon, <1>1 DEF claim_exclusion, drain_exclusion
    <2> QED
        BY Zenon, <2>1, <2>2, <2>3 DEF Types, tables, caches, rows
<1>2. CASE Claim(t)
    <2>1. PICK B \in SUBSET Candidates(t) :
            /\ UNCHANGED used \/ Spend("skip")
            /\ Lease(t, B)
        BY ZenonT(60), <1>2 DEF Claim
    <2>2. InReach(t) \subseteq Requests /\ B \subseteq Requests
        BY Zenon, <2>1 DEF InReach, Candidates, Types
    <2>3. /\ step' \in [Tasks -> {"off", "idle", "snapped", "claim", "work", "done"}]
          /\ seen' \in [Tasks -> SUBSET Switches]
          /\ batch' \in [Tasks -> SUBSET Requests]
          /\ cover' \in [Tasks -> SUBSET Switches]
        <3>1. (IF B = {} THEN Rest(t) ELSE "work")
                \in {"off", "idle", "snapped", "claim", "work", "done"}
            BY Zenon DEF Rest
        <3> QED
            BY Zenon, <2>1, <2>2, <3>1 DEF Lease, Types
    <2>4. outbox' \in [Requests -> {"absent", "checked", "queued", "leased"} \cup Closed]
        BY Zenon, <2>1 DEF Lease, Types
    <2>6. used' \in [Faults -> Nat]
        BY <2>1 DEF Spend, Types
    <2>7. UNCHANGED <<tables, caches, draining, phase, due>>
        BY Zenon, <1>2 DEF Claim
    <2> QED
        BY Zenon, <2>3, <2>4, <2>6, <2>7 DEF Types, tables, caches
<1>3. CASE ClaimFails(t)
    <2>1. /\ step' \in [Tasks -> {"off", "idle", "snapped", "claim", "work", "done"}]
          /\ used' \in [Faults -> Nat]
        <3>1. step' \in [Tasks -> {"off", "idle", "snapped", "claim", "work", "done"}]
            BY Zenon, <1>3 DEF ClaimFails, Types
        <3>2. used' \in [Faults -> Nat]
            BY Zenon, <1>3, SpendTypes DEF ClaimFails, Faults
        <3> QED
            BY Zenon, <3>1, <3>2
    <2>2. UNCHANGED <<tables, caches, draining, phase, seen, batch, rows, cover>>
        BY Zenon, <1>3 DEF ClaimFails
    <2> QED
        BY Zenon, <2>1, <2>2 DEF Types, tables, caches, rows
<1>4. ASSUME NEW r \in Requests, Process(t, r) \/ write_discarded(t, r)
      PROVE  Types'
    BY Zenon, <1>4, RowTypes DEF RowStep
<1> QED
    BY Zenon, <1>1, <1>2, <1>3, <1>4 DEF TaskStep

\* The end of a ramp and the steps of the process preserve the types.
LEMMA ProcessTypes ==
    ASSUME Types, NEW s, run_release_drain(s) \/ Lead \/ Crash \/ Restart
    PROVE  Types'
<1>1. CASE run_release_drain(s)
    <2>1. /\ draining' \subseteq Switches
          /\ step' \in [Tasks -> {"off", "idle", "snapped", "claim", "work", "done"}]
        BY Zenon, <1>1 DEF run_release_drain, Types
    <2>2. cover' \in [Tasks -> SUBSET Switches]
        BY Zenon, <1>1 DEF run_release_drain, Covering, Types
    <2>3. UNCHANGED <<tables, caches, phase, seen, batch, rows, used>>
        BY Zenon, <1>1 DEF run_release_drain
    <2> QED
        BY Zenon, <2>1, <2>2, <2>3 DEF Types, tables, caches, rows
<1>2. CASE Lead
    <2>1. /\ phase' \in {"down", "standby", "leading"}
          /\ outbox' \in [Requests -> {"absent", "checked", "queued", "leased"} \cup Closed]
          /\ step' \in [Tasks -> {"off", "idle", "snapped", "claim", "work", "done"}]
        <3>1. phase' \in {"down", "standby", "leading"}
            BY Zenon, <1>2 DEF Lead
        <3>2. outbox' \in [Requests -> {"absent", "checked", "queued", "leased"} \cup Closed]
            BY Zenon, <1>2 DEF Lead, Types
        <3>3. step' \in [Tasks -> {"off", "idle", "snapped", "claim", "work", "done"}]
            BY Zenon, <1>2 DEF Lead, Types
        <3> QED
            BY Zenon, <3>1, <3>2, <3>3
    <2>2. UNCHANGED <<tables, caches, draining, seen, batch, due, used, cover>>
        BY Zenon, <1>2 DEF Lead
    <2> QED
        BY Zenon, <2>1, <2>2 DEF Types, tables, caches
<1>3. CASE Crash
    <2>1. /\ phase' \in {"down", "standby", "leading"}
          /\ cache' \in [Procs -> SUBSET Switches]
          /\ refresh' \in [Procs -> {"idle", "tenant", "read", "blind", "swapped"}]
          /\ fresh' \in [Procs -> SUBSET Switches]
          /\ delta' \in [engaged : SUBSET Switches, released : SUBSET Switches]
          /\ draining' \subseteq Switches
        BY ZenonT(60), <1>3 DEF Crash, Types
    <2>2. /\ step' \in [Tasks -> {"off", "idle", "snapped", "claim", "work", "done"}]
          /\ seen' \in [Tasks -> SUBSET Switches]
          /\ batch' \in [Tasks -> SUBSET Requests]
          /\ cover' \in [Tasks -> SUBSET Switches]
        BY Zenon, <1>3 DEF Crash, Types
    <2>u. used' \in [Faults -> Nat]
        BY Zenon, <1>3, SpendTypes DEF Crash, Faults
    <2>3. UNCHANGED <<tables, rows>>
        BY Zenon, <1>3 DEF Crash
    <2> QED
        BY Zenon, <2>1, <2>2, <2>3, <2>u DEF Types, tables, rows
<1>4. CASE Restart
    BY Zenon, <1>4 DEF Restart, Types, tables, caches, tasks, rows
<1> QED
    BY Zenon, <1>1, <1>2, <1>3, <1>4

\* Every step preserves the types.
LEMMA StepTypes == Types /\ [Next]_vars => Types'
<1> SUFFICES ASSUME Types, [Next]_vars PROVE Types'
    OBVIOUS
<1>1. ASSUME NEW s \in Switches, engage(s) \/ release(s) PROVE Types'
    BY Zenon, <1>1, TableTypes
<1>2. ASSUME NEW r \in Requests, CheckRequest(r) \/ InsertRequest(r) \/ BecomeDue(r)
      PROVE  Types'
    BY Zenon, <1>2, TableTypes
<1>3. ASSUME NEW s \in Switches, run_release_drain(s) PROVE Types'
    BY Zenon, <1>3, ProcessTypes
<1>4. ASSUME Lead \/ Crash \/ Restart PROVE Types'
    BY Zenon, <1>4, ProcessTypes
<1>5. ASSUME NEW p \in Procs, RefreshStep(p) PROVE Types'
    BY Zenon, <1>5, RefreshTypes
<1>6. CASE on_delta
    BY Zenon, <1>6, RefreshTypes DEF Procs
<1>7. ASSUME NEW t \in Tasks, TaskStep(t) \/ ClaimFails(t) PROVE Types'
    BY Zenon, <1>7, TaskTypes
<1>8. ASSUME NEW t \in Tasks, NEW r \in Requests, Defer(t, r) \/ GiveUp(t, r) PROVE Types'
    BY Zenon, <1>8, RowTypes DEF RowStep
<1>9. CASE UNCHANGED vars
    BY Zenon, <1>9 DEF vars, Types, tables, caches, tasks, rows
<1> QED
    BY Zenon, <1>1, <1>2, <1>3, <1>4, <1>5, <1>6, <1>7, <1>8, <1>9 DEF Next

\* The types hold throughout.
LEMMA TypesAlways == Spec => []Types
BY InitTypes, StepTypes, PTL DEF Spec

\* ScopesAgree: over whatever switches a process has cached, ingest's matches,
\* the claim loops' exclusion, the drains' and sweeps' scope arms and the blast
\* radius answer alike for every row.
THEOREM ScopesAgreeAlways == Spec => []ScopesAgree
<1>1. ASSUME Types PROVE ScopesAgree
    <2> SUFFICES ASSUME NEW p \in Procs, NEW t \in Target
                 PROVE  LET S == Rows(cache[p])
                        IN  /\ claimable(exclusion_for_channel(S, t.channel), t)
                                    <=> ~ \E s \in S : matches(s, t)
                            /\ \A s \in S :
                                /\ in_scope(s, t.channel, t) <=> matches(s, t)
                                /\ in_scope(s, None, t) <=> matches(s, t)
                                /\ blast_radius(s, t) <=> matches(s, t)
        BY Zenon DEF ScopesAgree
    <2>1. cache[p] \subseteq Switches
        BY Zenon, <1>1 DEF Types
    <2>2. Rows(cache[p]) \in SUBSET SwitchRow
        BY Zenon, <2>1, RowsTyped
    <2> QED
        BY Zenon, <2>2, ExclusionAgrees, SelectionAgrees
<1> QED
    BY <1>1, TypesAlways, PTL

-----------------------------------------------------------------------------
(***************************************************************************)
(* What the caches, the draining map and the dispatcher's tasks keep in    *)
(* step, by induction over every interleaving of operators, refreshes,     *)
(* tasks and crashes.                                                      *)
(***************************************************************************)

-----------------------------------------------------------------------------
(* Caches.                                                                *)

\* A refresh never forgets an engaged switch: the caches hold what was once in
\* the tables, and what a refresh is about to drop has been released.
CacheInv ==
    \A p \in Procs :
        /\ cache[p] \cup fresh[p] \subseteq engaged \cup released
        /\ refresh[p] \in {"tenant", "read", "blind"} =>
                cache[p] \ Platform \subseteq fresh[p] \cup released
        /\ refresh[p] = "read" => cache[p] \cap Platform \subseteq fresh[p] \cup released
        /\ \A s \in (cache[p] \cup fresh[p]) \cap Platform : applies_to(s)

\* Between Swap and on_delta a switch is in delta; a switch that ramps has left
\* the cache for good.
DeltaInv ==
    /\ refresh["dispatcher"] # "swapped" => delta.engaged = {} /\ delta.released = {}
    /\ refresh["dispatcher"] \in {"idle", "swapped"} => fresh["dispatcher"] = {}
    /\ delta.engaged \subseteq cache["dispatcher"]
    /\ delta.released \cup draining \subseteq released
    /\ (delta.released \cup draining) \cap (cache["dispatcher"] \cup fresh["dispatcher"]) = {}
    /\ delta.released \cap draining = {}

\* Init establishes both.
LEMMA InitCache == Init => CacheInv /\ DeltaInv
BY DEF Init, CacheInv, DeltaInv, Procs

\* A step that only adds to the tables, or only moves switches from engaged to
\* released, preserves both.
LEMMA TableCache ==
    ASSUME CacheInv, DeltaInv, UNCHANGED <<caches, draining>>,
           engaged \cup released \subseteq engaged' \cup released', released \subseteq released'
    PROVE  CacheInv' /\ DeltaInv'
BY Zenon DEF CacheInv, DeltaInv, caches

\* What the dispatcher's or ingest's refresh drops has been released.
LEMMA DroppedReleased ==
    ASSUME Types, CacheInv, NEW p \in Procs, refresh[p] \in {"read", "blind"}
    PROVE  /\ cache[p] \ ActiveSet(p) \subseteq released
           /\ ActiveSet(p) \subseteq cache[p] \cup fresh[p]
           /\ fresh[p] \subseteq ActiveSet(p)
BY Zenon DEF Types, CacheInv, ActiveSet

\* The refresh loop preserves both.
LEMMA RefreshCache ==
    ASSUME Types, CacheInv, DeltaInv, NEW p \in Procs, RefreshStep(p)
    PROVE  CacheInv' /\ DeltaInv'
<1>1. CASE ReadTenant(p)
    <2>1. UNCHANGED <<engaged, released, cache, delta, draining>>
        BY Zenon, <1>1 DEF ReadTenant, tables
    <2>2. \A q \in Procs : /\ fresh'[q] = IF q = p THEN engaged \ Platform ELSE fresh[q]
                           /\ refresh'[q] = IF q = p THEN "tenant" ELSE refresh[q]
        BY Zenon, <1>1 DEF ReadTenant, Types
    <2>3. refresh[p] = "idle"
        BY Zenon, <1>1 DEF ReadTenant
    <2>4. CacheInv'
        BY <2>1, <2>2 DEF CacheInv, Types
    <2>5. DeltaInv'
        BY Zenon, <2>1, <2>2, <2>3 DEF DeltaInv, Types, Procs
    <2> QED
        BY Zenon, <2>4, <2>5
<1>2. CASE ReadPlatform(p)
    <2>1. UNCHANGED <<engaged, released, cache, delta, draining>> /\ refresh[p] = "tenant"
        BY Zenon, <1>2 DEF ReadPlatform, tables
    <2>2. PICK X : X = {s \in engaged \cap Platform : applies_to(s)}
        BY ZenonT(60)
    <2>3. \A q \in Procs : /\ fresh'[q] = IF q = p THEN fresh[q] \cup X ELSE fresh[q]
                           /\ refresh'[q] = IF q = p THEN "read" ELSE refresh[q]
        BY ZenonT(60), <1>2, <2>2 DEF ReadPlatform, Types
    <2>4. /\ X \subseteq engaged /\ \A s \in X : applies_to(s)
          /\ cache[p] \cap Platform \subseteq X \cup released
        BY Zenon, <2>2 DEF CacheInv
    <2>5. CacheInv'
        BY ZenonT(60), <2>1, <2>3, <2>4 DEF CacheInv
    <2>6. DeltaInv'
        BY Zenon, <2>1, <2>3, <2>4 DEF DeltaInv, Types, Procs
    <2> QED
        BY Zenon, <2>5, <2>6
<1>4. CASE PlatformReadFails(p)
    <2>1. UNCHANGED <<engaged, released, cache, fresh, delta, draining>> /\ refresh[p] = "tenant"
        BY Zenon, <1>4 DEF PlatformReadFails, tables
    <2>2. \A q \in Procs : refresh'[q] = IF q = p THEN "blind" ELSE refresh[q]
        BY Zenon, <1>4 DEF PlatformReadFails, Types
    <2>3. CacheInv'
        BY Zenon, <2>1, <2>2 DEF CacheInv
    <2>4. DeltaInv'
        BY Zenon, <2>1, <2>2 DEF DeltaInv, Procs
    <2> QED
        BY Zenon, <2>3, <2>4
<1>3. CASE Swap(p)
    <2>1. UNCHANGED <<engaged, released, draining>> /\ refresh[p] \in {"read", "blind"}
        BY Zenon, <1>3 DEF Swap, tables
    <2>2. PICK A : /\ A = ActiveSet(p)
                   /\ cache[p] \ A \subseteq released /\ A \subseteq cache[p] \cup fresh[p]
        BY Zenon, <2>1, DroppedReleased
    <2>3. \A q \in Procs : /\ cache'[q] = IF q = p THEN A ELSE cache[q]
                           /\ fresh'[q] = IF q = p THEN {} ELSE fresh[q]
        BY Zenon, <1>3, <2>2 DEF Swap, Types
    <2>4. /\ \A q \in Procs : q # p => refresh'[q] = refresh[q]
          /\ refresh'[p] = IF p = "dispatcher" THEN "swapped" ELSE "idle"
        <3>1. CASE p = "dispatcher"
            BY Zenon, <1>3, <3>1 DEF Swap, Types
        <3>2. CASE p = "ingest"
            BY Zenon, <1>3, <3>2 DEF Swap, Types
        <3> QED
            BY Zenon, <3>1, <3>2 DEF Procs
    <2>5. delta' = IF p = "dispatcher" THEN [engaged |-> A \ cache[p], released |-> cache[p] \ A]
                   ELSE delta
        BY Zenon, <1>3, <2>2 DEF Swap
    <2>6. CacheInv'
        BY <2>1, <2>2, <2>3, <2>4 DEF CacheInv
    <2>7. DeltaInv'
        <3>1. CASE p = "dispatcher"
            BY Zenon, <2>1, <2>2, <2>3, <2>4, <2>5, <3>1 DEF DeltaInv
        <3>2. CASE p # "dispatcher"
            BY Zenon, <2>1, <2>3, <2>4, <2>5, <3>2 DEF DeltaInv, Procs
        <3> QED
            BY Zenon, <3>1, <3>2
    <2> QED
        BY Zenon, <2>6, <2>7
<1> QED
    BY Zenon, <1>1, <1>2, <1>3, <1>4 DEF RefreshStep

\* Every step preserves both.
LEMMA StepCache == Types /\ CacheInv /\ DeltaInv /\ [Next]_vars => CacheInv' /\ DeltaInv'
<1> SUFFICES ASSUME Types, CacheInv, DeltaInv, [Next]_vars PROVE CacheInv' /\ DeltaInv'
    OBVIOUS
<1>1. ASSUME NEW s \in Switches, engage(s) \/ release(s) PROVE CacheInv' /\ DeltaInv'
    BY Zenon, <1>1, TableCache DEF engage, release
<1>2. ASSUME NEW s \in Switches, run_release_drain(s) PROVE CacheInv' /\ DeltaInv'
    BY Zenon, <1>2 DEF run_release_drain, CacheInv, DeltaInv, tables, caches
<1>3. ASSUME NEW p \in Procs, RefreshStep(p) PROVE CacheInv' /\ DeltaInv'
    BY Zenon, <1>3, RefreshCache
<1>4. CASE on_delta
    <2>1. UNCHANGED <<engaged, released, cache, fresh>>
        BY Zenon, <1>4 DEF on_delta, tables
    <2>2. /\ refresh["dispatcher"] = "swapped" /\ refresh'["dispatcher"] = "idle"
          /\ \A q \in Procs : q # "dispatcher" => refresh'[q] = refresh[q]
        BY Zenon, <1>4 DEF on_delta, Types, Procs
    <2>3. /\ draining' \subseteq draining \cup delta.released
          /\ delta' = [engaged |-> {}, released |-> {}]
        BY Zenon, <1>4 DEF on_delta, Holding
    <2>4. CacheInv'
        BY Zenon, <2>1, <2>2 DEF CacheInv
    <2>5. DeltaInv'
        BY Zenon, <2>1, <2>2, <2>3 DEF DeltaInv
    <2> QED
        BY Zenon, <2>4, <2>5
<1>5. CASE Crash
    <2>1. UNCHANGED <<engaged, released>>
        BY Zenon, <1>5 DEF Crash, tables
    <2>2. \A q \in Procs : /\ cache'[q] = IF q = "dispatcher" THEN {} ELSE cache[q]
                           /\ fresh'[q] = IF q = "dispatcher" THEN {} ELSE fresh[q]
                           /\ refresh'[q] = IF q = "dispatcher" THEN "idle" ELSE refresh[q]
        BY Zenon, <1>5 DEF Crash, Types
    <2>3. draining' = {} /\ delta' = [engaged |-> {}, released |-> {}]
        BY Zenon, <1>5 DEF Crash
    <2>4. CacheInv'
        BY Zenon, <2>1, <2>2 DEF CacheInv
    <2>5. DeltaInv'
        BY Zenon, <2>1, <2>2, <2>3 DEF DeltaInv, Procs
    <2> QED
        BY Zenon, <2>4, <2>5
<1>6. ASSUME UNCHANGED <<tables, caches, draining>> PROVE CacheInv' /\ DeltaInv'
    BY Zenon, <1>6, TableCache DEF tables
<1>7. ASSUME NEW r \in Requests, CheckRequest(r) \/ InsertRequest(r) \/ BecomeDue(r)
      PROVE  UNCHANGED <<tables, caches, draining>>
    BY Zenon, <1>7 DEF CheckRequest, InsertRequest, BecomeDue
<1>8. ASSUME NEW t \in Tasks, TaskStep(t) \/ ClaimFails(t)
      PROVE  UNCHANGED <<tables, caches, draining>>
    BY Zenon, <1>8 DEF TaskStep, ClaimFails, claim_exclusion, drain_exclusion, Claim, Process,
                write_discarded, Finish
<1>9. ASSUME NEW t \in Tasks, NEW r \in Requests, Defer(t, r) \/ GiveUp(t, r)
      PROVE  UNCHANGED <<tables, caches, draining>>
    BY Zenon, <1>9 DEF Defer, GiveUp, Finish
<1>10. CASE Lead \/ Restart \/ UNCHANGED vars
    BY Zenon, <1>6, <1>10 DEF Lead, Restart, vars
<1> QED
    BY Zenon, <1>1, <1>2, <1>3, <1>4, <1>5, <1>6, <1>7, <1>8, <1>9, <1>10 DEF Next

\* The types, and what the caches may forget, hold throughout.
LEMMA CacheAlways == Spec => [](Types /\ CacheInv /\ DeltaInv)
BY TypesAlways, InitCache, StepCache, PTL DEF Spec

\* RampsOnlyReleased: on_delta's released set and the draining map only ever hold
\* switches released in their table, whatever refreshes fail and whenever the
\* dispatcher restarts.
THEOREM RampsOnlyReleasedAlways == Spec => []RampsOnlyReleased
<1>1. DeltaInv => RampsOnlyReleased
    BY Zenon DEF DeltaInv, RampsOnlyReleased
<1> QED
    BY <1>1, CacheAlways, PTL

-----------------------------------------------------------------------------
(* Tasks.                                                                  *)

\* A task holds rows exactly while it works.
BatchInv == \A t \in Tasks : step[t] = "work" <=> batch[t] # {}

\* The claim loops run only under leadership.
LoopInv == phase # "leading" => \A t \in Loops : step[t] = "off"

\* A running sweep is of a discard switch of the tenant that is still cached, or
\* that has been released and cannot come back; so no switch is swept twice at once.
SweepInv ==
    \A t \in Discards : step[t] # "off" =>
        /\ t[3] \in engaged \cup released
        /\ t[3] \in Discarding(Switches) \ Platform
        /\ t[3] \notin delta.engaged
        /\ t[3] \in cache["dispatcher"] \/ t[3] \in released \ fresh["dispatcher"]

TaskInv == BatchInv /\ LoopInv /\ DrainsStayExcluded /\ SweepInv

\* The three kinds of task are told apart by their first component.
LEMMA TaskKinds ==
    /\ \A t \in Loops : t[1] = "loop" /\ t[2] \in Channels
    /\ \A t \in Drains : t[1] = "drain" /\ t[2] \in Channels /\ t[3] \in Switches
    /\ \A t \in Discards : t[1] = "discard" /\ t[2] = None /\ t[3] \in Switches
    /\ Loops \cap Drains = {} /\ Loops \cap Discards = {} /\ Drains \cap Discards = {}
    /\ Tasks = Loops \cup Drains \cup Discards
<1>1. /\ \A t \in Loops : t[1] = "loop" /\ t[2] \in Channels
      /\ \A t \in Drains : t[1] = "drain" /\ t[2] \in Channels /\ t[3] \in Switches
      /\ \A t \in Discards : t[1] = "discard" /\ t[2] = None /\ t[3] \in Switches
    BY DEF Loops, Drains, Discards
<1> QED
    BY Zenon, <1>1 DEF Tasks

\* Finishing a row touches only the task that leased it.
LEMMA RowFrame ==
    ASSUME Types, BatchInv, NEW t \in Tasks, NEW r \in Requests, RowStep(t, r)
    PROVE  /\ UNCHANGED <<tables, caches, draining, phase, seen, cover>>
           /\ \A u \in Tasks \ {t} : step'[u] = step[u] /\ batch'[u] = batch[u]
           /\ step[t] = "work" /\ (step'[t] = "work" <=> batch'[t] # {})
           /\ batch'[t] \subseteq batch[t] /\ r \in batch[t]
           /\ step'[t] \in {"work", "idle", "claim"}
           /\ step'[t] = "claim" => t \in Discards
<1>1. Finish(t, r)
    BY Zenon DEF RowStep, Process, write_discarded, Defer, GiveUp
<1>2. /\ UNCHANGED <<tables, caches, draining, phase, seen, cover>>
      /\ step[t] = "work" /\ r \in batch[t]
    BY Zenon, <1>1 DEF Finish
<1>3. batch'[t] = batch[t] \ {r} /\ \A u \in Tasks \ {t} : batch'[u] = batch[u]
    BY Zenon, <1>1 DEF Finish, Types
<1>4. CASE batch[t] # {r}
    BY Zenon, <1>1, <1>2, <1>3, <1>4 DEF Finish, Types
<1>5. CASE batch[t] = {r}
    BY Zenon, <1>1, <1>2, <1>3, <1>5 DEF Finish, Types
<1> QED
    BY Zenon, <1>4, <1>5

\* Any other step of a task touches only that task, which was running.
LEMMA TaskFrame ==
    ASSUME Types, BatchInv, NEW t \in Tasks,
           claim_exclusion(t) \/ drain_exclusion(t) \/ Claim(t) \/ ClaimFails(t)
    PROVE  /\ UNCHANGED <<tables, caches, draining, phase>>
           /\ \A u \in Tasks \ {t} : step'[u] = step[u] /\ batch'[u] = batch[u]
           /\ step[t] # "off" /\ (step'[t] = "work" <=> batch'[t] # {})
<1>1. CASE claim_exclusion(t) \/ drain_exclusion(t) \/ ClaimFails(t)
    BY Zenon, <1>1 DEF claim_exclusion, drain_exclusion, ClaimFails, Types, BatchInv, rows
<1>2. CASE Claim(t)
    <2>1. PICK B \in SUBSET Candidates(t) : Lease(t, B)
        BY Zenon, <1>2 DEF Claim
    <2>2. UNCHANGED <<tables, caches, draining, phase>> /\ step[t] = "claim"
        BY Zenon, <1>2 DEF Claim
    <2>3. Rest(t) # "work"
        BY Zenon DEF Rest
    <2> QED
        BY Zenon, <2>1, <2>2, <2>3 DEF Lease, Types
<1> QED
    BY Zenon, <1>1, <1>2

\* A step of one running task preserves TaskInv.
LEMMA OneTask ==
    ASSUME TaskInv, NEW t \in Tasks, UNCHANGED <<tables, caches, draining, phase>>,
           \A u \in Tasks \ {t} : step'[u] = step[u] /\ batch'[u] = batch[u],
           step[t] # "off", step'[t] = "work" <=> batch'[t] # {}
    PROVE  TaskInv'
<1>1. BatchInv'
    BY Zenon DEF TaskInv, BatchInv
<1>2. LoopInv'
    BY Zenon DEF TaskInv, LoopInv, Tasks
<1>3. DrainsStayExcluded'
    BY Zenon DEF TaskInv, DrainsStayExcluded, Tasks
<1>4. SweepInv'
    <2>1. \A u \in Discards : step'[u] # "off" => step[u] # "off"
        BY Zenon DEF Tasks
    <2>2. UNCHANGED <<engaged, released, cache, fresh, delta>>
        BY Zenon DEF tables, caches
    <2> QED
        BY Zenon, <2>1, <2>2 DEF TaskInv, SweepInv, Discarding
<1> QED
    BY Zenon, <1>1, <1>2, <1>3, <1>4 DEF TaskInv

\* A refresh step preserves TaskInv: what leaves the cache has been released.
LEMMA RefreshTask ==
    ASSUME Types, CacheInv, DeltaInv, TaskInv, NEW p \in Procs, RefreshStep(p)
    PROVE  TaskInv'
<1>1. UNCHANGED <<tables, draining, phase, tasks>>
    BY Zenon DEF RefreshStep, ReadTenant, ReadPlatform, PlatformReadFails, Swap
<1>2. BatchInv' /\ LoopInv' /\ DrainsStayExcluded'
    BY Zenon, <1>1 DEF TaskInv, BatchInv, LoopInv, DrainsStayExcluded, tasks
<1>3. ASSUME NEW s \in engaged \cup released, s \notin delta.engaged,
             s \in cache["dispatcher"] \/ s \in released \ fresh["dispatcher"]
      PROVE  /\ s \notin delta'.engaged
             /\ s \in cache'["dispatcher"] \/ s \in released \ fresh'["dispatcher"]
    <2>1. CASE ReadTenant(p) \/ ReadPlatform(p) \/ PlatformReadFails(p)
        <3>1. UNCHANGED <<cache, delta>>
            BY Zenon, <2>1 DEF ReadTenant, ReadPlatform, PlatformReadFails
        <3>2. fresh'["dispatcher"] \subseteq fresh["dispatcher"] \cup engaged
            BY <2>1 DEF ReadTenant, ReadPlatform, PlatformReadFails, Types, Procs
        <3>3. engaged \cap released = {}
            BY Zenon DEF Types
        <3> QED
            BY Zenon, <1>3, <3>1, <3>2, <3>3
    <2>2. CASE Swap(p) /\ p = "dispatcher"
        <3>1. /\ cache'[p] = ActiveSet(p) /\ fresh'[p] = {}
              /\ delta'.engaged = ActiveSet(p) \ cache[p]
            BY <2>2 DEF Swap, Types
        <3>2. /\ cache[p] \ ActiveSet(p) \subseteq released
              /\ ActiveSet(p) \subseteq cache[p] \cup fresh[p]
            BY Zenon, <2>2, DroppedReleased DEF Swap
        <3> QED
            BY Zenon, <1>3, <2>2, <3>1, <3>2
    <2>3. CASE Swap(p) /\ p = "ingest"
        <3>1. /\ cache'["dispatcher"] = cache["dispatcher"] /\ delta' = delta
              /\ fresh'["dispatcher"] = fresh["dispatcher"]
            BY Zenon, <2>3 DEF Swap, Types, Procs
        <3> QED
            BY Zenon, <1>3, <3>1
    <2> QED
        BY Zenon, <2>1, <2>2, <2>3 DEF RefreshStep, Procs
<1>4. SweepInv'
    <2>1. UNCHANGED <<engaged, released, step>>
        BY Zenon, <1>1 DEF tables, tasks
    <2> QED
        BY Zenon, <1>3, <2>1 DEF TaskInv, SweepInv, Discarding
<1> QED
    BY Zenon, <1>2, <1>4 DEF TaskInv

\* on_delta starts only tasks that are off: a sweep because its switch has just
\* entered the cache, a drain because its switch is not in draining.
LEMMA DeltaTask ==
    ASSUME Types, CacheInv, DeltaInv, TaskInv, on_delta
    PROVE  TaskInv'
<1>1. UNCHANGED <<engaged, released, cache, fresh, phase, batch>>
    BY Zenon DEF on_delta, tables
<1>2. /\ draining' = draining \cup Holding(delta.released)
      /\ delta' = [engaged |-> {}, released |-> {}]
    BY Zenon DEF on_delta
<1>3. ASSUME NEW t \in Tasks
      PROVE  /\ t \in Drains /\ t[3] \in Holding(delta.released) => step'[t] = "idle"
             /\ t \in Discards /\ t[3] \in Discarding(delta.engaged) => step'[t] = "claim"
             /\ \/ t \in Drains /\ t[3] \in Holding(delta.released)
                \/ t \in Discards /\ t[3] \in Discarding(delta.engaged)
                \/ step'[t] = step[t]
    BY ZenonT(60), TaskKinds DEF on_delta
<1>4. ASSUME NEW t \in Tasks, step'[t] # step[t] PROVE step[t] = "off" /\ step'[t] # "work"
    <2>1. CASE t \in Drains /\ t[3] \in Holding(delta.released)
        BY Zenon, <1>3, <2>1 DEF Holding, DeltaInv, TaskInv, DrainsStayExcluded
    <2>2. CASE t \in Discards /\ t[3] \in Discarding(delta.engaged)
        BY Zenon, <1>3, <2>2 DEF Discarding, TaskInv, SweepInv
    <2> QED
        BY Zenon, <1>3, <1>4, <2>1, <2>2
<1>5. BatchInv'
    BY Zenon, <1>1, <1>4 DEF TaskInv, BatchInv
<1>6. LoopInv'
    BY Zenon, <1>1, <1>3, TaskKinds DEF TaskInv, LoopInv
<1>7. DrainsStayExcluded'
    BY Zenon, <1>2, <1>3, TaskKinds DEF TaskInv, DrainsStayExcluded
<1>8. SweepInv'
    <2>1. \A s \in Discarding(delta.engaged) :
            s \in cache["dispatcher"] /\ s \in engaged \cup released
        BY Zenon DEF Discarding, DeltaInv, CacheInv, Procs
    <2>2. Discarding(delta.engaged) \subseteq Discarding(Switches) \ Platform
        BY Zenon DEF Discarding, as_kill_switch, Types
    <2>3. \A t \in Discards : t \in Tasks /\ t \notin Drains
        BY Zenon, TaskKinds
    <2> QED
        BY Zenon, <1>1, <1>2, <1>3, <2>1, <2>2, <2>3 DEF TaskInv, SweepInv, Discarding
<1> QED
    BY Zenon, <1>5, <1>6, <1>7, <1>8 DEF TaskInv

\* The end of a ramp and the steps of the process preserve TaskInv.
LEMMA ProcessTask ==
    ASSUME Types, TaskInv, NEW s, run_release_drain(s) \/ Lead \/ Crash \/ Restart
    PROVE  TaskInv'
<1>1. CASE run_release_drain(s)
    <2>1. UNCHANGED <<engaged, released, cache, fresh, delta, phase, batch>>
        BY Zenon, <1>1 DEF run_release_drain, tables, caches
    <2>2. \A t \in Tasks : step'[t] = IF t \in Drains /\ t[3] = s THEN "off" ELSE step[t]
        BY Zenon, <1>1 DEF run_release_drain
    <2>3. draining' = draining \ {s}
        BY Zenon, <1>1 DEF run_release_drain
    <2>4. \A t \in Drains : t[3] = s => step[t] = "done"
        BY <1>1 DEF run_release_drain, Drains
    <2>5. BatchInv'
        BY Zenon, <2>1, <2>2, <2>4 DEF TaskInv, BatchInv
    <2>6. LoopInv'
        BY Zenon, <2>1, <2>2, TaskKinds DEF TaskInv, LoopInv
    <2>7. DrainsStayExcluded'
        BY Zenon, <2>2, <2>3, TaskKinds DEF TaskInv, DrainsStayExcluded
    <2>8. SweepInv'
        BY Zenon, <2>1, <2>2, TaskKinds DEF TaskInv, SweepInv, Discarding
    <2> QED
        BY Zenon, <2>5, <2>6, <2>7, <2>8 DEF TaskInv
<1>2. CASE Lead
    <2>1. UNCHANGED <<engaged, released, cache, fresh, delta, draining, batch>>
        BY Zenon, <1>2 DEF Lead, tables, caches
    <2>2. \A t \in Tasks : step'[t] = IF t \in Loops THEN "idle" ELSE step[t]
        BY Zenon, <1>2 DEF Lead
    <2>3. phase = "standby" /\ phase' = "leading"
        BY Zenon, <1>2 DEF Lead
    <2>4. BatchInv' /\ LoopInv'
        BY Zenon, <2>1, <2>2, <2>3 DEF TaskInv, BatchInv, LoopInv
    <2>5. DrainsStayExcluded'
        BY Zenon, <2>1, <2>2, TaskKinds DEF TaskInv, DrainsStayExcluded
    <2>6. SweepInv'
        BY Zenon, <2>1, <2>2, TaskKinds DEF TaskInv, SweepInv, Discarding
    <2> QED
        BY Zenon, <2>4, <2>5, <2>6 DEF TaskInv
<1>3. CASE Crash
    <2>1. \A t \in Tasks : step'[t] = "off" /\ batch'[t] = {}
        BY Zenon, <1>3 DEF Crash
    <2> QED
        BY Zenon, <2>1, TaskKinds DEF TaskInv, BatchInv, LoopInv, DrainsStayExcluded, SweepInv
<1>4. CASE Restart
    BY Zenon, <1>4 DEF Restart, TaskInv, BatchInv, LoopInv, DrainsStayExcluded, SweepInv, Discarding,
                tables, caches, tasks
<1> QED
    BY Zenon, <1>1, <1>2, <1>3, <1>4

-----------------------------------------------------------------------------
(***************************************************************************)
(* The tasks' invariant put together, and what claims lease: rows that no  *)
(* switch in force covers for the loops and the drains, rows of its own    *)
(* switch for a sweep.                                                     *)
(***************************************************************************)

-----------------------------------------------------------------------------
(* Tasks.                                                                  *)

\* Every step preserves TaskInv.
LEMMA StepTask == Types /\ CacheInv /\ DeltaInv /\ TaskInv /\ [Next]_vars => TaskInv'
<1> SUFFICES ASSUME Types, CacheInv, DeltaInv, TaskInv, [Next]_vars PROVE TaskInv'
    OBVIOUS
<1>b. BatchInv
    BY Zenon DEF TaskInv
<1>1. ASSUME NEW s \in Switches, engage(s) \/ release(s) PROVE TaskInv'
    <2>1. UNCHANGED <<cache, fresh, delta, draining, phase, step, batch>>
        BY Zenon, <1>1 DEF engage, release, caches, tasks
    <2>2. /\ engaged \cup released \subseteq engaged' \cup released'
          /\ released \subseteq released'
        BY Zenon, <1>1 DEF engage, release
    <2> QED
        BY Zenon, <2>1, <2>2 DEF TaskInv, BatchInv, LoopInv, DrainsStayExcluded, SweepInv, Discarding
<1>2. ASSUME NEW s \in Switches, run_release_drain(s) PROVE TaskInv'
    BY Zenon, <1>2, ProcessTask
<1>3. CASE Lead \/ Crash \/ Restart
    BY Zenon, <1>3, ProcessTask
<1>4. ASSUME NEW p \in Procs, RefreshStep(p) PROVE TaskInv'
    BY Zenon, <1>4, RefreshTask
<1>5. CASE on_delta
    BY Zenon, <1>5, DeltaTask
<1>6. ASSUME NEW t \in Tasks, NEW r \in Requests, RowStep(t, r) PROVE TaskInv'
    <2>1. step[t] # "off"
        BY Zenon, <1>6, <1>b, RowFrame
    <2> QED
        BY Zenon, <1>6, <1>b, <2>1, RowFrame, OneTask
<1>7. ASSUME NEW t \in Tasks,
             claim_exclusion(t) \/ drain_exclusion(t) \/ Claim(t) \/ ClaimFails(t)
      PROVE  TaskInv'
    BY Zenon, <1>7, <1>b, TaskFrame, OneTask
<1>8. ASSUME NEW r \in Requests, CheckRequest(r) \/ InsertRequest(r) \/ BecomeDue(r)
      PROVE  UNCHANGED <<tables, caches, draining, phase, tasks>>
    BY Zenon, <1>8 DEF CheckRequest, InsertRequest, BecomeDue
<1>9. ASSUME UNCHANGED <<tables, caches, draining, phase, tasks>> PROVE TaskInv'
    BY Zenon, <1>9 DEF TaskInv, BatchInv, LoopInv, DrainsStayExcluded, SweepInv, Discarding, tables,
                caches, tasks
<1>10. CASE UNCHANGED vars
    BY Zenon, <1>9, <1>10 DEF vars
<1> QED
    BY Zenon, <1>1, <1>2, <1>3, <1>4, <1>5, <1>6, <1>7, <1>8, <1>9, <1>10 DEF Next, TaskStep, RowStep

\* All of it holds throughout.
LEMMA TaskAlways == Spec => [](Types /\ CacheInv /\ DeltaInv /\ TaskInv)
<1>1. Init => TaskInv
    BY TaskKinds DEF Init, TaskInv, BatchInv, LoopInv, DrainsStayExcluded, SweepInv
<1> QED
    BY <1>1, CacheAlways, StepTask, PTL DEF Spec

\* TypeOK: the types, and that a task of the dispatcher holds leased rows exactly
\* while it works on them, although on_delta and Lead restart tasks.
THEOREM TypeOKAlways == Spec => []TypeOK
<1>1. Types /\ TaskInv => TypeOK
    BY Zenon DEF Types, TaskInv, BatchInv, TypeOK
<1> QED
    BY <1>1, TaskAlways, PTL

\* DrainsStayExcluded: the draining map keeps a released switch until the drain of
\* its last channel has been joined by run_release_drain.
THEOREM DrainsStayExcludedAlways == Spec => []DrainsStayExcluded
<1>1. TaskInv => DrainsStayExcluded
    BY Zenon DEF TaskInv
<1> QED
    BY <1>1, TaskAlways, PTL

-----------------------------------------------------------------------------
(* Claims.                                                                 *)

\* A sweep holds rows of its own switch.
SweepRows == \A t \in Discards : \A r \in batch[t] : Matches(t[3], r)

\* The switches in force since a task began its exclusion are in what it has read,
\* or in the map it is about to read.
CoverInv ==
    /\ \A t \in Loops : step[t] = "snapped" => cover[t] \subseteq seen[t] \cup draining
    /\ \A t \in Loops \cup Drains : step[t] = "claim" => cover[t] \subseteq seen[t]

\* Rows leased by a claim: the switches the exclusion was built from match none of
\* them, and a sweep leases only rows its switch matches.
LEMMA LeasedRows ==
    ASSUME Types, NEW t \in Tasks, NEW r \in Candidates(t)
    PROVE  /\ t \in Loops \cup Drains => \A s \in seen[t] : ~ Matches(s, r)
           /\ t \in Discards => Matches(t[3], r)
<1>1. /\ r \in Requests /\ Of[r] \in Target /\ Of[r].channel \in Channels
      /\ claimable(exclusion_for_channel(Rows(seen[t]), t[2]), Of[r])
    BY Zenon, SwitchesAssumption DEF Candidates, InReach, Types, Target
<1>2. Rows(seen[t]) \in SUBSET SwitchRow
    BY Zenon, RowsTyped DEF Types
<1>3. ASSUME t \in Loops \cup Drains PROVE \A s \in seen[t] : ~ Matches(s, r)
    <2>1. Of[r].channel = t[2]
        BY ZenonT(60), <1>3, TaskKinds, ScopeAssumption DEF Candidates, InReach, in_scope
    <2>2. ~ \E x \in Rows(seen[t]) : matches(x, Of[r])
        BY Zenon, <1>1, <1>2, <2>1, ExclusionAgrees
    <2> QED
        BY Zenon, <2>2 DEF Rows, Matches
<1>4. ASSUME t \in Discards PROVE Matches(t[3], r)
    <2>1. t \notin Loops /\ t[2] = None /\ t[3] \in Switches
        BY Zenon, <1>4, TaskKinds
    <2>2. in_scope(as_kill_switch(t[3]), None, Of[r])
        BY Zenon, <2>1 DEF Candidates, InReach
    <2>3. as_kill_switch(t[3]) \in SwitchRow
        BY Zenon, <2>1, RowsTyped DEF Rows
    <2> QED
        BY Zenon, <1>1, <2>2, <2>3, SelectionAgrees DEF Matches
<1> QED
    BY Zenon, <1>3, <1>4

\* Only a claim adds a row to a batch.
LEMMA OnlyClaimsLease ==
    ASSUME Types, BatchInv, [Next]_vars, NEW t \in Tasks, NEW r, Leases(t, r)
    PROVE  step[t] = "claim" /\ r \in Candidates(t)
<1>1. ASSUME batch'[t] \subseteq batch[t] PROVE FALSE
    BY Zenon, <1>1 DEF Leases
<1>2. ASSUME UNCHANGED batch PROVE FALSE
    BY Zenon, <1>1, <1>2
<1>3. ASSUME NEW s \in Switches, engage(s) \/ release(s) \/ run_release_drain(s) PROVE FALSE
    BY Zenon, <1>2, <1>3 DEF engage, release, run_release_drain, tasks
<1>4. ASSUME NEW p \in Procs, RefreshStep(p) PROVE FALSE
    BY Zenon, <1>2, <1>4 DEF RefreshStep, ReadTenant, ReadPlatform, PlatformReadFails, Swap, tasks
<1>5. CASE on_delta \/ Lead \/ Restart \/ UNCHANGED vars
    BY Zenon, <1>2, <1>5 DEF on_delta, Lead, Restart, vars, tasks
<1>6. CASE Crash
    BY Zenon, <1>1, <1>6 DEF Crash
<1>7. ASSUME NEW q \in Requests, CheckRequest(q) \/ InsertRequest(q) \/ BecomeDue(q) PROVE FALSE
    BY Zenon, <1>2, <1>7 DEF CheckRequest, InsertRequest, BecomeDue, tasks
<1>8. ASSUME NEW u \in Tasks, NEW q \in Requests, RowStep(u, q) PROVE FALSE
    BY Zenon, <1>1, <1>8, RowFrame
<1>9. ASSUME NEW u \in Tasks, claim_exclusion(u) \/ drain_exclusion(u) \/ ClaimFails(u)
      PROVE  FALSE
    BY Zenon, <1>2, <1>9 DEF claim_exclusion, drain_exclusion, ClaimFails
<1>10. ASSUME NEW u \in Tasks, Claim(u) PROVE step[t] = "claim" /\ r \in Candidates(t)
    <2>1. PICK B \in SUBSET Candidates(u) : batch' = [batch EXCEPT ![u] = B]
        BY ZenonT(60), <1>10 DEF Claim, Lease
    <2>2. u = t /\ r \in B
        BY Zenon, <2>1 DEF Leases, Types
    <2> QED
        BY Zenon, <1>10, <2>1, <2>2 DEF Claim
<1> QED
    BY Zenon, <1>3, <1>4, <1>5, <1>6, <1>7, <1>8, <1>9, <1>10 DEF Next, TaskStep, RowStep

\* The steps of tasks preserve CoverInv.
LEMMA TaskCover ==
    ASSUME Types, CoverInv, NEW t \in Tasks,
           claim_exclusion(t) \/ drain_exclusion(t) \/ Claim(t) \/ ClaimFails(t)
    PROVE  CoverInv'
<1>1. UNCHANGED draining
    BY Zenon DEF claim_exclusion, drain_exclusion, Claim, ClaimFails
<1>2. \A u \in Tasks \ {t} : step'[u] = step[u] /\ seen'[u] = seen[u] /\ cover'[u] = cover[u]
    BY ZenonT(60) DEF claim_exclusion, drain_exclusion, Claim, Lease, ClaimFails, Types
<1>3. \/ step'[t] \notin {"snapped", "claim"}
      \/ step'[t] = "snapped" /\ cover'[t] \subseteq seen'[t] \cup draining /\ t \in Loops
      \/ step'[t] = "claim" /\ cover'[t] \subseteq seen'[t]
    <2>1. CASE claim_exclusion(t) /\ step[t] = "idle"
        BY <2>1 DEF claim_exclusion, Types
    <2>2. CASE claim_exclusion(t) /\ step[t] = "snapped"
        BY <2>2 DEF claim_exclusion, Types, CoverInv
    <2>3. CASE drain_exclusion(t)
        BY Zenon, <2>3 DEF drain_exclusion, Types
    <2>4. CASE Claim(t)
        BY Zenon, <2>4 DEF Claim, Lease, Rest, Types
    <2>5. CASE ClaimFails(t)
        BY Zenon, <2>5 DEF ClaimFails, Types
    <2> QED
        BY Zenon, <2>1, <2>2, <2>3, <2>4, <2>5 DEF claim_exclusion
<1> QED
    BY Zenon, <1>1, <1>2, <1>3, TaskKinds DEF CoverInv

\* A step that starts no exclusion, keeps what tasks have read and only cuts down
\* their in-force sets preserves CoverInv, if what leaves draining leaves those too.
LEMMA CutCover ==
    ASSUME CoverInv, UNCHANGED seen,
           \A t \in Loops \cup Drains :
                /\ step'[t] \in {"snapped", "claim"} => step'[t] = step[t]
                /\ cover'[t] \subseteq cover[t],
           \A t \in Loops : cover'[t] \cap (draining \ draining') = {}
    PROVE  CoverInv'
BY Zenon DEF CoverInv

\* Every step preserves CoverInv.
LEMMA StepCover ==
    Types /\ DeltaInv /\ TaskInv /\ CoverInv /\ [Next]_vars => CoverInv'
<1> SUFFICES ASSUME Types, DeltaInv, TaskInv, CoverInv, [Next]_vars PROVE CoverInv'
    OBVIOUS
<1>b. BatchInv
    BY Zenon DEF TaskInv
<1>k. Loops \subseteq Tasks /\ Drains \subseteq Tasks
    BY Zenon DEF Tasks
<1>1. ASSUME UNCHANGED <<draining, step, seen, cover>> PROVE CoverInv'
    BY Zenon, <1>1 DEF CoverInv
<1>2. ASSUME NEW s \in Switches, engage(s) \/ release(s) PROVE CoverInv'
    BY Zenon, <1>1, <1>2 DEF engage, release, tasks
<1>3. ASSUME NEW s \in Switches, run_release_drain(s) PROVE CoverInv'
    <2>1. UNCHANGED <<seen, cache, delta>> /\ draining' = draining \ {s} /\ s \in draining
        BY Zenon, <1>3 DEF run_release_drain, caches
    <2>2. \A t \in Tasks : step'[t] = step[t] \/ step'[t] = "off"
        BY Zenon, <1>3 DEF run_release_drain
    <2>3. \A t \in Tasks : cover'[t] \subseteq cover[t]
        BY Zenon, <1>3 DEF run_release_drain, Covering
    <2>4. \A t \in Loops :
            cover'[t] \subseteq cache["dispatcher"] \cup draining' \cup Holding(delta.released)
        BY Zenon, <1>3, <1>k DEF run_release_drain, Covering
    <2>5. s \notin cache["dispatcher"] \cup draining' \cup Holding(delta.released)
        BY Zenon, <2>1 DEF DeltaInv, Holding
    <2> QED
        BY Zenon, <1>k, <2>1, <2>2, <2>3, <2>4, <2>5, CutCover
<1>4. ASSUME NEW p \in Procs, ReadTenant(p) \/ ReadPlatform(p) \/ PlatformReadFails(p)
      PROVE  CoverInv'
    BY Zenon, <1>1, <1>4 DEF ReadTenant, ReadPlatform, PlatformReadFails, tasks
<1>5. ASSUME NEW p \in Procs, Swap(p) PROVE CoverInv'
    <2>1. UNCHANGED <<draining, seen, step>>
        BY Zenon, <1>5 DEF Swap, tasks
    <2>2. \A t \in Tasks : cover'[t] \subseteq cover[t]
        BY Zenon, <1>5 DEF Swap, Covering
    <2> QED
        BY Zenon, <1>k, <2>1, <2>2, CutCover
<1>6. CASE on_delta
    <2>1. UNCHANGED seen /\ draining \subseteq draining'
        BY Zenon, <1>6 DEF on_delta
    <2>2. \A t \in Tasks : t \notin Discards => step'[t] = step[t] \/ step'[t] = "idle"
        BY ZenonT(60), <1>6 DEF on_delta
    <2>3. \A t \in Tasks : cover'[t] \subseteq cover[t]
        BY Zenon, <1>6 DEF on_delta, Covering
    <2> QED
        BY Zenon, <1>k, <2>1, <2>2, <2>3, CutCover, TaskKinds
<1>7. CASE Lead
    <2>1. UNCHANGED <<draining, seen, cover>>
        BY Zenon, <1>7 DEF Lead
    <2>2. \A t \in Tasks : step'[t] = step[t] \/ step'[t] = "idle"
        BY Zenon, <1>7 DEF Lead
    <2> QED
        BY Zenon, <1>k, <2>1, <2>2, CutCover
<1>8. CASE Crash
    <2>1. \A t \in Tasks : step'[t] = "off"
        BY Zenon, <1>8 DEF Crash
    <2> QED
        BY Zenon, <1>k, <2>1 DEF CoverInv
<1>9. CASE Restart \/ UNCHANGED vars
    BY Zenon, <1>1, <1>9 DEF Restart, vars, tasks
<1>10. ASSUME NEW r \in Requests, CheckRequest(r) \/ InsertRequest(r) \/ BecomeDue(r)
       PROVE  CoverInv'
    BY Zenon, <1>1, <1>10 DEF CheckRequest, InsertRequest, BecomeDue, tasks
<1>11. ASSUME NEW t \in Tasks, NEW r \in Requests, RowStep(t, r) PROVE CoverInv'
    <2>1. UNCHANGED <<draining, seen, cover>>
        BY Zenon, <1>b, <1>11, RowFrame
    <2>2. \A u \in Loops \cup Drains : step'[u] \in {"snapped", "claim"} => step'[u] = step[u]
        BY Zenon, <1>b, <1>k, <1>11, RowFrame, TaskKinds
    <2> QED
        BY Zenon, <2>1, <2>2, CutCover
<1>12. ASSUME NEW t \in Tasks,
              claim_exclusion(t) \/ drain_exclusion(t) \/ Claim(t) \/ ClaimFails(t)
       PROVE  CoverInv'
    BY Zenon, <1>12, TaskCover
<1> QED
    BY Zenon, <1>2, <1>3, <1>4, <1>5, <1>6, <1>7, <1>8, <1>9, <1>10, <1>11, <1>12
    DEF Next, RefreshStep, TaskStep, RowStep

\* ClaimsHonourSwitches: a claim loop leases no row of a switch that was cached or
\* ramping when claim_exclusion began and has been one or the other ever since, and
\* a drain none of another switch cached since it built its exclusion.
THEOREM ClaimsHonourSwitchesAlways == Spec => ClaimsHonourSwitches
<1>1. ASSUME Types, TaskInv, CoverInv, [Next]_vars
      PROVE  [\A t \in Loops \cup Drains, r \in Requests :
                Leases(t, r) => \A s \in cover[t] : ~ Matches(s, r)]_vars
    <2>1. ASSUME NEW t \in Loops \cup Drains, NEW r \in Requests, Leases(t, r),
                 NEW s \in cover[t]
          PROVE  ~ Matches(s, r)
        <3>1. t \in Tasks
            BY Zenon, TaskKinds
        <3>2. step[t] = "claim" /\ r \in Candidates(t)
            BY Zenon, <1>1, <2>1, <3>1, OnlyClaimsLease DEF TaskInv
        <3>3. s \in seen[t]
            BY Zenon, <1>1, <3>2 DEF CoverInv
        <3> QED
            BY Zenon, <1>1, <3>1, <3>2, <3>3, LeasedRows
    <2> QED
        BY Zenon, <2>1
<1>2. Init => CoverInv
    BY Zenon, TaskKinds DEF Init, CoverInv
<1> QED
    BY <1>1, <1>2, TaskAlways, StepCover, PTL DEF Spec, ClaimsHonourSwitches

\* The rows a sweep holds stay rows of its switch.
LEMMA StepSweep == Types /\ TaskInv /\ SweepRows /\ [Next]_vars => SweepRows'
<1> SUFFICES ASSUME Types, TaskInv, SweepRows, [Next]_vars,
                    NEW t \in Discards, NEW r \in batch'[t]
             PROVE  Matches(t[3], r)
    BY Zenon DEF SweepRows, Matches
<1>1. t \in Tasks
    BY Zenon, TaskKinds
<1>2. CASE r \in batch[t]
    BY Zenon, <1>2 DEF SweepRows
<1>3. CASE r \notin batch[t]
    <2>1. r \in Candidates(t)
        BY Zenon, <1>1, <1>3, OnlyClaimsLease DEF Leases, TaskInv
    <2> QED
        BY Zenon, <1>1, <2>1, LeasedRows
<1> QED
    BY Zenon, <1>2, <1>3

\* Only a sweep writes `discarded'.
LEMMA OnlySweepsDiscard ==
    ASSUME Types, [Next]_vars, NEW r \in Requests,
           outbox'[r] = "discarded", outbox[r] # "discarded"
    PROVE  \E t \in Discards : write_discarded(t, r)
<1>1. ASSUME UNCHANGED outbox PROVE FALSE
    BY Zenon, <1>1
<1>2. ASSUME NEW s \in Switches, engage(s) \/ release(s) \/ run_release_drain(s) PROVE FALSE
    BY Zenon, <1>1, <1>2 DEF engage, release, run_release_drain, rows
<1>3. ASSUME NEW p \in Procs, RefreshStep(p) PROVE FALSE
    BY Zenon, <1>1, <1>3 DEF RefreshStep, ReadTenant, ReadPlatform, PlatformReadFails, Swap, rows
<1>4. CASE on_delta \/ Crash \/ Restart \/ UNCHANGED vars
    BY Zenon, <1>1, <1>4 DEF on_delta, Crash, Restart, vars, rows
<1>5. CASE Lead
    BY Zenon, <1>5 DEF Lead, Types
<1>6. ASSUME NEW q \in Requests, CheckRequest(q) \/ InsertRequest(q) \/ BecomeDue(q) PROVE FALSE
    BY Zenon, <1>6 DEF CheckRequest, InsertRequest, BecomeDue, Types
<1>7. ASSUME NEW t \in Tasks, claim_exclusion(t) \/ drain_exclusion(t) \/ ClaimFails(t)
      PROVE  FALSE
    BY ZenonT(60), <1>1, <1>7 DEF claim_exclusion, drain_exclusion, ClaimFails, rows
<1>8. ASSUME NEW t \in Tasks, Claim(t) PROVE FALSE
    BY <1>8 DEF Claim, Lease, Types
<1>9. ASSUME NEW t \in Tasks, NEW q \in Requests, Process(t, q) \/ Defer(t, q) \/ GiveUp(t, q)
      PROVE  FALSE
    BY Zenon, <1>9 DEF Process, Defer, GiveUp, Becomes, rows, Types
<1>10. ASSUME NEW t \in Tasks, NEW q \in Requests, write_discarded(t, q)
       PROVE  t \in Discards /\ write_discarded(t, r)
    <2>1. q = r
        BY Zenon, <1>10 DEF write_discarded, Becomes, Types
    <2> QED
        BY Zenon, <1>10, <2>1 DEF write_discarded
<1> QED
    BY Zenon, <1>2, <1>3, <1>4, <1>5, <1>6, <1>7, <1>8, <1>9, <1>10 DEF Next, TaskStep

\* No step takes a switch out of both tables' histories.
LEMMA TablesGrow ==
    ASSUME [Next]_vars
    PROVE  engaged \cup released \subseteq engaged' \cup released'
<1>1. ASSUME NEW s \in Switches, engage(s) \/ release(s)
      PROVE  engaged \cup released \subseteq engaged' \cup released'
    BY Zenon, <1>1 DEF engage, release
<1>2. ASSUME NEW s \in Switches, run_release_drain(s) PROVE UNCHANGED tables
    BY Zenon, <1>2 DEF run_release_drain
<1>3. ASSUME NEW p \in Procs, RefreshStep(p) PROVE UNCHANGED tables
    BY Zenon, <1>3 DEF RefreshStep, ReadTenant, ReadPlatform, PlatformReadFails, Swap
<1>4. CASE on_delta \/ Lead \/ Crash \/ Restart \/ UNCHANGED vars
    BY Zenon, <1>4 DEF on_delta, Lead, Crash, Restart, vars, tables
<1>5. ASSUME NEW r \in Requests, CheckRequest(r) \/ InsertRequest(r) \/ BecomeDue(r)
      PROVE  UNCHANGED tables
    BY Zenon, <1>5 DEF CheckRequest, InsertRequest, BecomeDue
<1>6. ASSUME NEW t \in Tasks, claim_exclusion(t) \/ drain_exclusion(t) \/ Claim(t) \/ ClaimFails(t)
      PROVE  UNCHANGED tables
    BY ZenonT(60), <1>6 DEF claim_exclusion, drain_exclusion, Claim, ClaimFails
<1>7. ASSUME NEW t \in Tasks, NEW r \in Requests, RowStep(t, r) PROVE UNCHANGED tables
    BY Zenon, <1>7 DEF RowStep, Process, write_discarded, Defer, GiveUp, Finish
<1> QED
    BY Zenon, <1>1, <1>2, <1>3, <1>4, <1>5, <1>6, <1>7 DEF Next, TaskStep, RowStep, tables

\* DiscardsAreAskedFor: discard_engaged_scope writes `discarded' only to rows that
\* a discard switch engaged by an operator of the tenant matches.
THEOREM DiscardsAreAskedForAlways == Spec => []DiscardsAreAskedFor
<1>1. Init => SweepRows /\ DiscardsAreAskedFor
    BY Zenon, TaskKinds DEF Init, SweepRows, DiscardsAreAskedFor
<1>2. ASSUME Types, TaskInv, SweepRows, DiscardsAreAskedFor, [Next]_vars
      PROVE  DiscardsAreAskedFor'
    <2> SUFFICES ASSUME NEW r \in Requests, outbox'[r] = "discarded"
                 PROVE  \E s \in Discarding(engaged' \cup released') :
                            s \notin Platform /\ Matches(s, r)
        BY Zenon DEF DiscardsAreAskedFor, Discarding, Matches
    <2>1. engaged \cup released \subseteq engaged' \cup released'
        BY Zenon, <1>2, TablesGrow
    <2>2. \E s \in Discarding(engaged \cup released) : s \notin Platform /\ Matches(s, r)
        <3>1. CASE outbox[r] = "discarded"
            BY ZenonT(60), <1>2, <3>1 DEF DiscardsAreAskedFor
        <3>2. CASE outbox[r] # "discarded"
            <4>1. PICK t \in Discards : step[t] = "work" /\ r \in batch[t]
                BY Zenon, <1>2, <3>2, OnlySweepsDiscard DEF write_discarded, Finish
            <4> QED
                BY Zenon, <1>2, <4>1 DEF TaskInv, SweepInv, SweepRows, Discarding
        <3> QED
            BY Zenon, <3>1, <3>2
    <2> QED
        BY Zenon, <2>1, <2>2 DEF Discarding
<1> QED
    BY <1>1, <1>2, TaskAlways, StepSweep, PTL DEF Spec
=============================================================================
