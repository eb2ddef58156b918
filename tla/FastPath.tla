------------------------------ MODULE FastPath ------------------------------
(***************************************************************************)
(* The synchronous OTP path: one process of messgr-otp or of its on-prem   *)
(* twin messgr-sms-sender, for one tenant.  A request is handed to a       *)
(* provider first; only then is its audit record encrypted and written,    *)
(* and what Vault or Postgres refuses goes to one of two files:  "pending" *)
(* for a record whose crypto failed, "buffer" for one whose write failed.  *)
(* Two background loops read a file, retry its records and write back what *)
(* is left.  The two services differ only in how they learn the provider   *)
(* credentials.                                                            *)
(*                                                                         *)
(* Every call to Vault, to either database and to the disk fails while     *)
(* that dependency is down.  A step ends where the code awaits.            *)
(***************************************************************************)
EXTENDS Naturals, FiniteSets

CONSTANTS
    Requests,       \* OTP requests
    Providers,      \* provider_config rows for channel sms
    Services,       \* a subset of {"otp", "sms"}
    MaxFaults,      \* bound on outages, crashes, evictions and changes of the flag
    None

Dependencies == {"control", "db", "vault", "disk"}
Drains == {"buffer", "pending"}
Outcomes == {"discarded", "sent", "failed"}

ASSUME FastPathAssumption ==
    /\ IsFiniteSet(Requests) /\ IsFiniteSet(Providers) /\ Providers # {}
    /\ Services \subseteq {"otp", "sms"}
    /\ MaxFaults \in Nat
    /\ None \notin Requests /\ None \notin Outcomes

VARIABLES
    service,    \* which of the two programs this is
    up,         \* dependencies that answer
    enabled,    \* tenant.auth_enabled in the control database
    \* in memory
    flag,       \* AuthEnabledCache; a missing entry reads as TRUE
    open,       \* the registry holds the tenant's context
    dek,        \* the customer's DEK is in the dek cache
    entries,    \* otp: OtpProviderCache, None before the tenant is first seen
    rows,       \* sms: ProviderConfigCache.rows
    creds,      \* sms: ProviderConfigCache.credentials
    pc,         \* where a request is
    plan,       \* providers it can try
    outcome,    \* its final_status
    stage,      \* a drain: "sleep", "walk", "crypto" (pending only), "fill"
    seen,       \* the contents it read
    todo,       \* records of it that it has not retried yet
    hand,       \* the record it is at, once its crypto is done
    keep,       \* records for the next pass
    \* durable
    file,       \* records in the buffer and the pending file
    ledger,     \* comms_request and comms_event: final_status
    used,       \* faults so far
    lost        \* records lost to a dead disk, a crash or an overwritten append (auxiliary)

memory  == <<flag, open, dek, entries, rows, creds>>
serving == <<pc, plan, outcome>>
drains  == <<stage, seen, todo, hand, keep>>
durable == <<file, ledger>>
world   == <<service, up, enabled, used>>
vars    == <<world, memory, serving, drains, durable, lost>>

TypeOK ==
    /\ service \in {"otp", "sms"} /\ up \subseteq Dependencies
    /\ {enabled, flag, open, dek} \subseteq BOOLEAN
    /\ entries \in (SUBSET Providers) \cup {None}
    /\ rows \subseteq Providers /\ creds \subseteq Providers
    /\ pc \in [Requests -> {"new", "gate", "fetch", "send", "crypto", "pend", "write", "done", "gone"}]
    /\ plan \in [Requests -> SUBSET Providers]
    /\ outcome \in [Requests -> Outcomes \cup {None}]
    /\ stage \in [Drains -> {"sleep", "walk", "crypto", "fill"}]
    /\ {seen, todo, keep} \subseteq [Drains -> SUBSET Requests]
    /\ hand \in Requests \cup {None}
    /\ hand # None <=> stage["pending"] = "crypto"
    /\ file \in [Drains -> SUBSET Requests]
    /\ ledger \in [Requests -> Outcomes \cup {None}]
    /\ used \in Nat /\ lost \subseteq Requests

Spend == used < MaxFaults /\ used' = used + 1

Init ==
    /\ service \in Services
    /\ up = Dependencies /\ enabled = TRUE
    /\ flag = TRUE /\ open = FALSE /\ dek = FALSE
    /\ entries = None /\ rows = {} /\ creds = {}
    /\ pc = [q \in Requests |-> "new"]
    /\ plan = [q \in Requests |-> {}]
    /\ outcome = [q \in Requests |-> None]
    /\ stage = [d \in Drains |-> "sleep"]
    /\ seen = [d \in Drains |-> {}] /\ todo = seen /\ keep = seen
    /\ hand = None
    /\ file = [d \in Drains |-> {}]
    /\ ledger = [q \in Requests |-> None]
    /\ used = 0 /\ lost = {}

-----------------------------------------------------------------------------
(* Dependencies.                                                           *)

\* get_or_open: a cached context needs nothing; opening one reads the tenant
\* row, the pepper in the tenant's database and unwraps it in Vault.
CanOpen == open \/ {"control", "db", "vault"} \subseteq up

\* get_or_create_dek: the cache, or the wrapped DEK's row and Vault.
CanDek == dek \/ {"db", "vault"} \subseteq up

Outage(s) ==
    /\ s \in up /\ up' = up \ {s} /\ Spend
    /\ UNCHANGED <<service, enabled, memory, serving, drains, durable, lost>>

Recover(s) ==
    /\ s \notin up /\ up' = up \cup {s}
    /\ UNCHANGED <<service, enabled, used, memory, serving, drains, durable, lost>>

\* tenant set-auth-enabled.
SetAuthEnabled ==
    /\ enabled' = ~enabled /\ Spend
    /\ UNCHANGED <<service, up, memory, serving, drains, durable, lost>>

\* AuthEnabledCache::refresh; a failed one keeps the snapshot.
RefreshFlag ==
    /\ "control" \in up
    /\ flag # enabled /\ flag' = enabled
    /\ UNCHANGED <<world, open, dek, entries, rows, creds, serving, drains, durable, lost>>

\* The idle sweep drops the tenant's context, and its dek cache with it.
Evict ==
    /\ open /\ Spend
    /\ open' = FALSE /\ dek' = FALSE
    /\ UNCHANGED <<service, up, enabled, flag, entries, rows, creds, serving, drains, durable, lost>>

-----------------------------------------------------------------------------
(* A request: send_otp and what it calls.                                  *)

Goto(q, p) == pc' = [pc EXCEPT ![q] = p]

\* ProducerContext: resolve_producer reads the control database every time, and
\* the tenant must be opened; otherwise the request is refused unsent.
Arrive(q) ==
    /\ pc[q] = "new"
    /\ IF "control" \in up /\ CanOpen
       THEN Goto(q, "gate") /\ open' = TRUE
       ELSE Goto(q, "gone") /\ UNCHANGED open
    /\ UNCHANGED <<world, flag, dek, entries, rows, creds, plan, outcome, drains, durable, lost>>

\* A disabled tenant's request is only recorded, as discarded and without crypto.
AuthGate(q) ==
    /\ pc[q] = "gate"
    /\ IF flag
       THEN Goto(q, "fetch") /\ UNCHANGED outcome
       ELSE Goto(q, "write") /\ outcome' = [outcome EXCEPT ![q] = "discarded"]
    /\ UNCHANGED <<world, memory, plan, drains, durable, lost>>

\* resolve_all: Err when the rows cannot be read; a row whose credential cannot
\* be read is skipped.
resolve_all == IF "vault" \in up THEN Providers ELSE {}

\* get_or_fetch: the cached list; on first sight resolve_all's, or an empty one.
get_or_fetch(q) ==
    /\ service = "otp" /\ pc[q] = "fetch"
    /\ LET list == IF entries # None THEN entries
                   ELSE IF "db" \in up THEN resolve_all ELSE {}
       IN  entries' = list /\ plan' = [plan EXCEPT ![q] = list]
    /\ Goto(q, "send")
    /\ UNCHANGED <<world, flag, open, dek, rows, creds, outcome, drains, durable, lost>>

\* The on-prem twin: load and read_credential try afresh and fall back to the
\* last rows and the last credential of each.
load(q) ==
    /\ service = "sms" /\ pc[q] = "fetch"
    /\ rows' = IF "db" \in up THEN Providers ELSE rows
    /\ creds' = IF "vault" \in up THEN creds \cup rows' ELSE creds
    /\ plan' = [plan EXCEPT ![q] = rows' \cap creds']
    /\ Goto(q, "send")
    /\ UNCHANGED <<world, flag, open, dek, entries, outcome, drains, durable, lost>>

\* The walk over the providers: one accepts, or all of them fail.
send(q) ==
    /\ pc[q] = "send"
    /\ \/ plan[q] # {} /\ outcome' = [outcome EXCEPT ![q] = "sent"]
       \/ outcome' = [outcome EXCEPT ![q] = "failed"]
    /\ Goto(q, "crypto")
    /\ UNCHANGED <<world, memory, plan, drains, durable, lost>>

\* Broken variant: the answer waits for Vault.
compute_destination_crypto_waits(q) ==
    /\ pc[q] = "crypto" /\ CanDek
    /\ dek' = TRUE
    /\ Goto(q, "write")
    /\ UNCHANGED <<world, flag, open, entries, rows, creds, plan, outcome, drains, durable, lost>>

compute_destination_crypto(q) ==
    /\ pc[q] = "crypto"
    /\ Goto(q, IF CanDek THEN "write" ELSE "pend")
    /\ dek' = (dek \/ CanDek)
    /\ UNCHANGED <<world, flag, open, entries, rows, creds, plan, outcome, drains, durable, lost>>

\* append to a file, which a dead disk loses.
append(d, q) ==
    IF "disk" \in up
    THEN file' = [file EXCEPT ![d] = @ \cup {q}] /\ UNCHANGED lost
    ELSE lost' = lost \cup {q} /\ UNCHANGED file

\* persist_send_outcome without the DEK.
AppendPending(q) ==
    /\ pc[q] = "pend"
    /\ append("pending", q)
    /\ Goto(q, "done")
    /\ UNCHANGED <<world, memory, plan, outcome, drains, ledger>>

\* write_audit_record: ON CONFLICT DO NOTHING keeps the first.
write_audit_record(q) ==
    ledger' = IF ledger[q] = None THEN [ledger EXCEPT ![q] = outcome[q]] ELSE ledger

persist_or_buffer(q) ==
    /\ pc[q] = "write"
    /\ IF "db" \in up THEN write_audit_record(q) /\ UNCHANGED <<file, lost>>
       ELSE append("buffer", q) /\ UNCHANGED ledger
    /\ Goto(q, "done")
    /\ UNCHANGED <<world, memory, plan, outcome, drains>>

Serve(q) ==
    \/ Arrive(q) \/ AuthGate(q) \/ get_or_fetch(q) \/ load(q) \/ send(q)
    \/ compute_destination_crypto(q) \/ AppendPending(q) \/ persist_or_buffer(q)

-----------------------------------------------------------------------------
(* The background loops.                                                   *)

\* refresh_once, for a tenant that has been seen: the list resolve_all gives
\* replaces the cached one, and only an error of its query keeps that.
refresh_once ==
    /\ service = "otp" /\ entries # None
    /\ CanOpen /\ open' = TRUE
    /\ entries' = IF "db" \in up THEN resolve_all ELSE entries
    /\ UNCHANGED <<world, flag, dek, rows, creds, serving, drains, durable, lost>>

\* drain: read the whole file; an unreadable or missing one ends the pass.
ReadFile(d) ==
    /\ stage[d] = "sleep" /\ file[d] # {} /\ "disk" \in up
    /\ stage' = [stage EXCEPT ![d] = "walk"]
    /\ seen' = [seen EXCEPT ![d] = file[d]]
    /\ todo' = [todo EXCEPT ![d] = file[d]]
    /\ UNCHANGED <<world, memory, serving, hand, keep, durable, lost>>

\* Broken variant: a record whose tenant cannot be opened is not kept.
DrainBufferDrops(q) ==
    /\ stage["buffer"] = "walk" /\ q \in todo["buffer"]
    /\ todo' = [todo EXCEPT !["buffer"] = @ \ {q}]
    /\ open' = (open \/ CanOpen)
    /\ IF CanOpen /\ "db" \in up
       THEN write_audit_record(q) /\ UNCHANGED keep
       ELSE /\ keep' = [keep EXCEPT !["buffer"] = IF CanOpen THEN @ \cup {q} ELSE @]
            /\ UNCHANGED ledger
    /\ UNCHANGED <<world, flag, dek, entries, rows, creds, serving, stage, seen, hand, file, lost>>

\* buffer::drain, one record.
DrainBuffer(q) ==
    /\ stage["buffer"] = "walk" /\ q \in todo["buffer"]
    /\ todo' = [todo EXCEPT !["buffer"] = @ \ {q}]
    /\ open' = (open \/ CanOpen)
    /\ IF CanOpen /\ "db" \in up
       THEN write_audit_record(q) /\ UNCHANGED keep
       ELSE keep' = [keep EXCEPT !["buffer"] = @ \cup {q}] /\ UNCHANGED ledger
    /\ UNCHANGED <<world, flag, dek, entries, rows, creds, serving, stage, seen, hand, file, lost>>

\* pending::drain, one record up to its encryption under the DEK.
DrainPending(q) ==
    /\ stage["pending"] = "walk" /\ q \in todo["pending"]
    /\ todo' = [todo EXCEPT !["pending"] = @ \ {q}]
    /\ open' = (open \/ CanOpen)
    /\ dek' = (dek \/ (CanOpen /\ CanDek))
    /\ IF CanOpen /\ CanDek
       THEN /\ stage' = [stage EXCEPT !["pending"] = "crypto"]
            /\ hand' = q /\ UNCHANGED keep
       ELSE keep' = [keep EXCEPT !["pending"] = @ \cup {q}] /\ UNCHANGED <<stage, hand>>
    /\ UNCHANGED <<world, flag, entries, rows, creds, serving, seen, durable, lost>>

\* and its write: what the database refuses goes to the other file.
WriteRecovered ==
    /\ stage["pending"] = "crypto"
    /\ IF "db" \in up THEN write_audit_record(hand) /\ UNCHANGED <<file, lost>>
       ELSE append("buffer", hand) /\ UNCHANGED ledger
    /\ stage' = [stage EXCEPT !["pending"] = "walk"]
    /\ hand' = None
    /\ UNCHANGED <<world, memory, serving, seen, todo, keep>>

\* Broken variant: the file is rewritten only after a pass that kept nothing.
TruncateWhenClean(d) ==
    /\ stage[d] = "walk" /\ todo[d] = {} /\ keep[d] = {}
    /\ file' = [file EXCEPT ![d] = {}]
    /\ lost' = lost \cup (file[d] \ seen[d])
    /\ stage' = [stage EXCEPT ![d] = "fill"]
    /\ seen' = [seen EXCEPT ![d] = {}]
    /\ UNCHANGED <<world, memory, serving, todo, hand, keep, ledger>>

\* fs::write truncates the file, with whatever was appended to it since ReadFile.
Truncate(d) ==
    /\ stage[d] = "walk" /\ todo[d] = {}
    /\ IF "disk" \in up
       THEN /\ file' = [file EXCEPT ![d] = {}]
            /\ lost' = lost \cup (file[d] \ seen[d])
            /\ stage' = [stage EXCEPT ![d] = "fill"]
            /\ UNCHANGED keep
       ELSE /\ stage' = [stage EXCEPT ![d] = "sleep"]
            /\ keep' = [keep EXCEPT ![d] = {}]
            /\ UNCHANGED <<file, lost>>
    /\ seen' = [seen EXCEPT ![d] = {}]
    /\ UNCHANGED <<world, memory, serving, todo, hand, ledger>>

\* and writes the kept records from its start, over what another thread appended
\* in between.
Fill(d) ==
    /\ stage[d] = "fill"
    /\ IF "disk" \in up
       THEN /\ file' = [file EXCEPT ![d] = IF keep[d] = {} THEN @ ELSE keep[d]]
            /\ lost' = lost \cup (IF keep[d] = {} THEN {} ELSE file[d] \ keep[d])
       ELSE lost' = lost \cup keep[d] /\ UNCHANGED file
    /\ stage' = [stage EXCEPT ![d] = "sleep"]
    /\ keep' = [keep EXCEPT ![d] = {}]
    /\ UNCHANGED <<world, memory, serving, seen, todo, hand, ledger>>

Drain(d) ==
    \/ ReadFile(d) \/ Truncate(d) \/ Fill(d)
    \/ d = "buffer" /\ \E q \in Requests : DrainBuffer(q)
    \/ d = "pending" /\ (WriteRecovered \/ \E q \in Requests : DrainPending(q))

InFlight(q) == pc[q] \notin {"new", "done", "gone"}

\* The process dies and is started again, with its first refresh of the flag.
\* Requests in flight go unanswered and unrecorded; so do records between the
\* two halves of fs::write.
Crash ==
    /\ Spend
    /\ flag' = ("control" \in up => enabled)
    /\ open' = FALSE /\ dek' = FALSE
    /\ entries' = None /\ rows' = {} /\ creds' = {}
    /\ pc' = [q \in Requests |-> IF InFlight(q) THEN "gone" ELSE pc[q]]
    /\ stage' = [d \in Drains |-> "sleep"]
    /\ hand' = None
    /\ seen' = [d \in Drains |-> {}] /\ todo' = seen' /\ keep' = seen'
    /\ lost' = lost \cup {q \in Requests : InFlight(q)}
                    \cup UNION {keep[d] : d \in {e \in Drains : stage[e] = "fill"}}
    /\ UNCHANGED <<service, up, enabled, plan, outcome, durable>>

Next ==
    \/ \E s \in Dependencies : Outage(s) \/ Recover(s)
    \/ SetAuthEnabled \/ RefreshFlag \/ Evict \/ refresh_once \/ Crash
    \/ \E q \in Requests : Serve(q)
    \/ \E d \in Drains : Drain(d)

Spec == Init /\ [][Next]_vars

\* A request in flight and the two loops keep going, and every outage ends.
FairSpec ==
    /\ Spec
    /\ \A q \in Requests : WF_vars(pc[q] # "new" /\ Serve(q))
    /\ \A d \in Drains : WF_vars(Drain(d))
    /\ \A s \in Dependencies : WF_vars(Recover(s))

-----------------------------------------------------------------------------
(* Properties.                                                             *)

\* Every outcome that was answered is on record with that status, or its record
\* is in one of the two files or about to be written back to it, or it fell to
\* one of the three causes of loss the code has: no disk to append to, a crash,
\* an append that fs::write overwrote.
Accounted ==
    \A q \in Requests : pc[q] = "done" =>
        \/ ledger[q] = outcome[q]
        \/ \E d \in Drains : q \in file[d] \/ (stage[d] = "fill" /\ q \in keep[d])
        \/ q \in lost

\* Whatever is down, a request past authentication has a step to take: the OTP
\* and its answer never wait for Vault, a database or the disk.
NeverWaits == \A q \in Requests : InFlight(q) => ENABLED Serve(q)

\* A buffered record is written in the end, or lost to one of those causes.
BuffersDrain ==
    \A q \in Requests :
        q \in file["buffer"] \cup file["pending"] ~> ledger[q] # None \/ q \in lost
=============================================================================
