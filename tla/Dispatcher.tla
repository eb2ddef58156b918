----------------------------- MODULE Dispatcher -----------------------------
(***************************************************************************)
(* messgr-dispatcher against one tenant database: the outbox and ledger    *)
(* tables, the producers' ingest and cancel calls, the processes competing *)
(* for the tenant's leader lock, and the tasks that lease outbox rows and  *)
(* take them through the gate chain to the provider and to a terminal      *)
(* write.                                                                  *)
(*                                                                         *)
(* Every awaited statement or provider call of a task is a step of its     *)
(* own, so the tasks, the producers, the operators who change consent or   *)
(* suppression, crashes and lost database sessions interleave between any  *)
(* two of them.  Timestamps are reduced to what the code compares: a row   *)
(* is due or not, a request has expired or not, a lease is NULL or not     *)
(* (leased_until is written but never compared with the clock).            *)
(***************************************************************************)
EXTENDS Integers, FiniteSets

CONSTANTS
    Requests,           \* comms_request ids
    Dispatchers,        \* messgr-dispatcher processes of this tenant
    Workers,            \* their tasks: claim loops, release drains, discards
    Home,               \* the process a task runs in
    Kind,               \* "claim", "drain" or "discard"
    Reach,              \* rows the task's claim query can select (channel, scope)
    BatchLimit,         \* CLAIM_BATCH_SIZE, or the release rate of a drain
    Class,              \* class of each request
    Expiring,           \* requests that carry an expires_at
    Fickle,             \* requests whose address's policy rows may change
    Enforce,            \* tenant_config.verification_mode = 'enforce'
    MaxSendAttempts,    \* MAX_SEND_ATTEMPTS
    Limit,              \* bound on each kind of fault or deferral
    None                \* SQL NULL / no row / no lock holder

Faults == {"crash", "loss", "error", "defer"}

Blocking == {"expired", "suppressed_list", "unverified_address",
             "suppressed_consent", "cancelled", "discarded"}

Final == Blocking \cup {"sent", "failed"}

Claimed == [id : Requests, attempts : Nat]

Gates == {"expiry", "suppression", "verification", "consent", "cancel"}

Steps == Gates \cup {"idle", "quota", "quiet", "decrypt", "send", "write", "defer"}

Phases == {"down", "electing", "sweeping", "leading"}

ASSUME ConstantsAssumption ==
    /\ IsFiniteSet(Requests) /\ IsFiniteSet(Workers)
    /\ Home \in [Workers -> Dispatchers]
    /\ Kind \in [Workers -> {"claim", "drain", "discard"}]
    /\ Reach \in [Workers -> SUBSET Requests]
    /\ BatchLimit \in [Workers -> Nat \ {0}]
    /\ Class \in [Requests -> {"transactional", "marketing"}]
    /\ Expiring \subseteq Requests
    /\ Fickle \subseteq Requests
    /\ Enforce \in BOOLEAN
    /\ MaxSendAttempts \in Nat \ {0}
    /\ Limit \in [Faults -> Nat]
    /\ None \notin Requests /\ None \notin Dispatchers /\ None \notin Claimed
    /\ None \notin Final

VARIABLES
    outbox,     \* requests that have an outbox row
    due,        \* of those, next_attempt_at <= now()
    leased,     \* of those, leased_until IS NOT NULL
    cancelled,  \* of those, cancelled_at IS NOT NULL
    attempts,   \* outbox.attempts
    ledger,     \* comms_request.final_status; "inflight" is a row with NULL
    events,     \* event types in comms_event
    expired,    \* expires_at <= now()
    suppressed, \* a suppression row with review_at > now() matches
    verified,   \* customer_address.verified_at IS NOT NULL
    consented,  \* consent.opted_in for the marketing class
    phase,      \* where each process is in main()
    lock,       \* the process whose session holds pg_try_advisory_lock(1)
    batch,      \* rows a task has leased and not yet started
    row,        \* the row a task is processing
    step,       \* the await it is at
    verdict,    \* the status it is about to write
    used,       \* faults and deferrals so far
    calls,      \* provider calls made for a request (auxiliary)
    accepted,   \* calls the provider accepted (auxiliary)
    excuses,    \* sweeps of its lease and lost responses (auxiliary)
    torn,       \* requests whose lease a sweep took from a live task (auxiliary)
    doomed      \* blocks that arose before any task passed the gate (auxiliary)

rows    == <<outbox, due, leased, cancelled, attempts>>
policy  == <<expired, suppressed, verified, consented>>
process == <<phase, lock>>
tasks   == <<batch, row, step, verdict>>
history == <<calls, accepted, excuses, torn, doomed>>
vars    == <<rows, ledger, events, policy, process, tasks, used, history>>

TypeOK ==
    /\ outbox \subseteq Requests
    /\ due \subseteq outbox /\ leased \subseteq outbox /\ cancelled \subseteq outbox
    /\ attempts \in [Requests -> Nat]
    /\ ledger \in [Requests -> Final \cup {"absent", "inflight"}]
    /\ events \in [Requests -> SUBSET Final]
    /\ expired \subseteq Expiring
    /\ suppressed \subseteq Requests /\ verified \subseteq Requests
    /\ consented \subseteq Requests
    /\ phase \in [Dispatchers -> Phases]
    /\ lock \in Dispatchers \cup {None}
    /\ batch \in [Workers -> SUBSET Claimed]
    /\ row \in [Workers -> Claimed \cup {None}]
    /\ step \in [Workers -> Steps]
    /\ \A w \in Workers : step[w] = "idle" <=> row[w] = None
    /\ verdict \in [Workers -> Final \cup {None}]
    /\ \A w \in Workers : step[w] = "write" <=> verdict[w] # None
    /\ used \in [Faults -> Nat]
    /\ calls \in [Requests -> Nat] /\ accepted \in [Requests -> Nat]
    /\ excuses \in [Requests -> Nat] /\ torn \subseteq Requests
    /\ doomed \subseteq Requests \X Gates

-----------------------------------------------------------------------------
(* The gate chain's conditions.                                            *)

\* What the gate's own read finds, for the request r at this moment.
Blocked(r, g) ==
    CASE g = "expiry"       -> r \in expired
      [] g = "suppression"  -> r \in suppressed
      [] g = "verification" -> Enforce /\ r \notin verified
      [] g = "consent"      -> Class[r] = "marketing" /\ r \notin consented
      [] g = "cancel"       -> r \in cancelled \/ r \notin outbox

\* The awaits between a gate and the provider call, in the order of try_process.
After(g) ==
    CASE g = "expiry"       -> {"suppression", "verification", "consent", "quota",
                                "quiet", "decrypt", "cancel", "send"}
      [] g = "suppression"  -> {"verification", "consent", "quota", "quiet",
                                "decrypt", "cancel", "send"}
      [] g = "verification" -> {"consent", "quota", "quiet", "decrypt", "cancel", "send"}
      [] g = "consent"      -> {"quota", "quiet", "decrypt", "cancel", "send"}
      [] g = "cancel"       -> {"send"}

Processing(w, r) == row[w] # None /\ row[w].id = r

PastGate(r, g) == \E w \in Workers : Processing(w, r) /\ step[w] \in After(g)

\* A block that nobody can have overtaken: the auxiliary record of it.
Doom(r, g) == IF PastGate(r, g) THEN doomed ELSE doomed \cup {<<r, g>>}

Holds(w, r) == Processing(w, r) \/ \E b \in batch[w] : b.id = r

Spend(k) ==
    /\ used[k] < Limit[k]
    /\ used' = [used EXCEPT ![k] = @ + 1]

Init ==
    /\ outbox = {} /\ due = {} /\ leased = {} /\ cancelled = {}
    /\ attempts = [r \in Requests |-> 0]
    /\ ledger = [r \in Requests |-> "absent"]
    /\ events = [r \in Requests |-> {}]
    /\ expired = {} /\ suppressed = {} /\ verified = {} /\ consented = {}
    /\ phase = [d \in Dispatchers |-> "electing"]
    /\ lock = None
    /\ batch = [w \in Workers |-> {}]
    /\ row = [w \in Workers |-> None]
    /\ step = [w \in Workers |-> "idle"]
    /\ verdict = [w \in Workers |-> None]
    /\ used = [k \in Faults |-> 0]
    /\ calls = [r \in Requests |-> 0]
    /\ accepted = [r \in Requests |-> 0]
    /\ excuses = [r \in Requests |-> 0]
    /\ torn = {}
    /\ doomed = {p \in Requests \X {"verification", "consent"} :
                    IF p[2] = "consent" THEN Class[p[1]] = "marketing" ELSE Enforce}

-----------------------------------------------------------------------------
(* Producers, operators and the passage of time.                           *)

\* insert_transactional: ledger and outbox rows in one transaction; a
\* scheduled_for in the future makes the row not yet due.
Ingest(r) ==
    /\ ledger[r] = "absent"
    /\ ledger' = [ledger EXCEPT ![r] = "inflight"]
    /\ outbox' = outbox \cup {r}
    /\ due' \in {due, due \cup {r}}
    /\ attempts' = [attempts EXCEPT ![r] = 0]
    /\ UNCHANGED <<leased, cancelled, events, policy, process, tasks, used, history>>

\* cancel marks the row while it is still in the outbox.  The other answers (204
\* for a request that already ended as cancelled, 409, 404) change nothing.
Cancel(r) ==
    /\ r \in outbox
    /\ cancelled' = cancelled \cup {r}
    /\ doomed' = Doom(r, "cancel")
    /\ UNCHANGED <<outbox, due, leased, attempts, ledger, events, policy, process,
                   tasks, used, calls, accepted, excuses, torn>>

\* next_attempt_at passes.
BecomeDue(r) ==
    /\ r \in outbox \ due
    /\ due' = due \cup {r}
    /\ UNCHANGED <<outbox, leased, cancelled, attempts, ledger, events, policy,
                   process, tasks, used, history>>

\* expires_at passes.
Expire(r) ==
    /\ r \in Expiring \ expired
    /\ expired' = expired \cup {r}
    /\ doomed' = Doom(r, "expiry")
    /\ UNCHANGED <<rows, ledger, events, suppressed, verified, consented, process,
                   tasks, used, calls, accepted, excuses, torn>>

\* suppression add.
Suppress(r) ==
    /\ r \in Fickle \ suppressed
    /\ suppressed' = suppressed \cup {r}
    /\ doomed' = Doom(r, "suppression")
    /\ UNCHANGED <<rows, ledger, events, expired, verified, consented, process,
                   tasks, used, calls, accepted, excuses, torn>>

\* suppression remove (retire_now), or review_at passing.
Unsuppress(r) ==
    /\ r \in Fickle \cap suppressed
    /\ suppressed' = suppressed \ {r}
    /\ doomed' = doomed \ {<<r, "suppression">>}
    /\ UNCHANGED <<rows, ledger, events, expired, verified, consented, process,
                   tasks, used, calls, accepted, excuses, torn>>

\* consent set --opted-in true.
OptIn(r) ==
    /\ r \in Fickle \ consented
    /\ Class[r] = "marketing"
    /\ consented' = consented \cup {r}
    /\ doomed' = doomed \ {<<r, "consent">>}
    /\ UNCHANGED <<rows, ledger, events, expired, suppressed, verified, process,
                   tasks, used, calls, accepted, excuses, torn>>

\* consent set --opted-in false.
OptOut(r) ==
    /\ r \in Fickle \cap consented
    /\ Class[r] = "marketing"
    /\ consented' = consented \ {r}
    /\ doomed' = Doom(r, "consent")
    /\ UNCHANGED <<rows, ledger, events, expired, suppressed, verified, process,
                   tasks, used, calls, accepted, excuses, torn>>

\* customer_address.verified_at is filled in, never cleared.
Verify(r) ==
    /\ r \in Fickle \ verified
    /\ verified' = verified \cup {r}
    /\ doomed' = doomed \ {<<r, "verification">>}
    /\ UNCHANGED <<rows, ledger, events, expired, suppressed, consented, process,
                   tasks, used, calls, accepted, excuses, torn>>

-----------------------------------------------------------------------------
(* Leader election and the life of a process.                              *)

\* Broken variant: leads without holding the lock.
AcquireWithoutLock(d) ==
    /\ phase[d] = "electing"
    /\ lock' = d
    /\ phase' = [phase EXCEPT ![d] = "sweeping"]
    /\ UNCHANGED <<rows, ledger, events, policy, tasks, used, history>>

\* leader::acquire: pg_try_advisory_lock succeeds only when no session holds it.
Acquire(d) ==
    /\ phase[d] = "electing"
    /\ lock = None
    /\ lock' = d
    /\ phase' = [phase EXCEPT ![d] = "sweeping"]
    /\ UNCHANGED <<rows, ledger, events, policy, tasks, used, history>>

\* Broken variant: the new leader starts claiming without the sweep.
LeadWithoutSweep(d) ==
    /\ phase[d] = "sweeping"
    /\ phase' = [phase EXCEPT ![d] = "leading"]
    /\ UNCHANGED <<rows, ledger, events, policy, lock, tasks, used, history>>

\* clear_stale_leases: every lease of the tenant, whoever took it; then the
\* claim loops are spawned.
ClearStaleLeases(d) ==
    /\ phase[d] = "sweeping"
    /\ leased' = {}
    /\ excuses' = [r \in Requests |-> IF r \in leased THEN excuses[r] + 1 ELSE excuses[r]]
    /\ torn' = torn \cup {r \in leased : \E w \in Workers : Holds(w, r)}
    /\ phase' = [phase EXCEPT ![d] = "leading"]
    /\ UNCHANGED <<outbox, due, cancelled, attempts, ledger, events, policy, lock,
                   tasks, used, calls, accepted, doomed>>

\* The dedicated lock connection drops while the process lives: Postgres frees
\* the lock, and the Leadership value is never looked at again.
LoseSession(d) ==
    /\ lock = d
    /\ Spend("loss")
    /\ lock' = None
    /\ UNCHANGED <<rows, ledger, events, policy, phase, tasks, history>>

Crash(d) ==
    /\ phase[d] # "down"
    /\ Spend("crash")
    /\ phase' = [phase EXCEPT ![d] = "down"]
    /\ lock' = IF lock = d THEN None ELSE lock
    /\ batch' = [w \in Workers |-> IF Home[w] = d THEN {} ELSE batch[w]]
    /\ row' = [w \in Workers |-> IF Home[w] = d THEN None ELSE row[w]]
    /\ step' = [w \in Workers |-> IF Home[w] = d THEN "idle" ELSE step[w]]
    /\ verdict' = [w \in Workers |-> IF Home[w] = d THEN None ELSE verdict[w]]
    /\ UNCHANGED <<rows, ledger, events, policy, history>>

Restart(d) ==
    /\ phase[d] = "down"
    /\ phase' = [phase EXCEPT ![d] = "electing"]
    /\ UNCHANGED <<rows, ledger, events, policy, lock, tasks, used, history>>

-----------------------------------------------------------------------------
(* The tasks that lease rows and process them.                             *)

\* A claim loop is spawned only after the sweep; the kill-switch drain and
\* discard tasks are spawned by the refresh loop, which runs on standbys too.
Spawned(w) ==
    IF Kind[w] = "claim" THEN phase[Home[w]] = "leading" ELSE phase[Home[w]] # "down"

\* Broken variant: the claim query without leased_until IS NULL.
ClaimableIgnoringLeases(w) == Reach[w] \cap due

Claimable(w) == (Reach[w] \cap due) \ leased

\* claim and claim_for_scope: lease due, unleased rows and bump attempts in one
\* UPDATE.  Locked rows are skipped and excluded ones left out, so any nonempty
\* part of the candidates within the limit may come back.
Claim(w) ==
    /\ Spawned(w)
    /\ step[w] = "idle" /\ batch[w] = {}
    /\ \E S \in SUBSET Claimable(w) :
        /\ S # {} /\ Cardinality(S) <= BatchLimit[w]
        /\ leased' = leased \cup S
        /\ attempts' = [r \in Requests |-> IF r \in S THEN attempts[r] + 1 ELSE attempts[r]]
        /\ batch' = [batch EXCEPT ![w] = {[id |-> r, attempts |-> attempts[r] + 1] : r \in S}]
    /\ UNCHANGED <<outbox, due, cancelled, ledger, events, policy, process, row, step,
                   verdict, used, history>>

\* The for loop over the batch, in whatever order RETURNING gave.  A discard
\* task writes at once; the others enter try_process.
StartRow(w) ==
    /\ step[w] = "idle"
    /\ \E b \in batch[w] :
        /\ batch' = [batch EXCEPT ![w] = @ \ {b}]
        /\ row' = [row EXCEPT ![w] = b]
    /\ IF Kind[w] = "discard"
       THEN /\ step' = [step EXCEPT ![w] = "write"]
            /\ verdict' = [verdict EXCEPT ![w] = "discarded"]
       ELSE /\ step' = [step EXCEPT ![w] = "expiry"]
            /\ UNCHANGED verdict
    /\ UNCHANGED <<rows, ledger, events, policy, process, used, history>>

Proceed(w, next) ==
    /\ step' = [step EXCEPT ![w] = next]
    /\ UNCHANGED <<batch, row, verdict>>

Decide(w, status) ==
    /\ step' = [step EXCEPT ![w] = "write"]
    /\ verdict' = [verdict EXCEPT ![w] = status]
    /\ UNCHANGED <<batch, row>>

Release(w) ==
    /\ step' = [step EXCEPT ![w] = "idle"]
    /\ row' = [row EXCEPT ![w] = None]
    /\ verdict' = [verdict EXCEPT ![w] = None]
    /\ UNCHANGED batch

\* One gate: its read either decides the row's fate or lets it proceed.
Gate(w, g, status, next) ==
    /\ step[w] = g
    /\ IF Blocked(row[w].id, g) THEN Decide(w, status) ELSE Proceed(w, next)
    /\ UNCHANGED <<rows, ledger, policy, process, used, history>>

ExpiryGate(w) ==
    Gate(w, "expiry", "expired", "suppression") /\ UNCHANGED events

SuppressionGate(w) ==
    Gate(w, "suppression", "suppressed_list", "verification") /\ UNCHANGED events

\* In observe mode an unverified address is recorded and the send goes on.
VerificationGate(w) ==
    /\ Gate(w, "verification", "unverified_address", "consent")
    /\ LET r == row[w].id IN
       events' = IF ~Enforce /\ r \notin verified
                 THEN [events EXCEPT ![r] = @ \cup {"unverified_address"}]
                 ELSE events

ConsentGate(w) ==
    Gate(w, "consent", "suppressed_consent", "quota") /\ UNCHANGED events

\* check_and_record defers a producer over its hard quota, and admits otherwise.
QuotaGate(w) ==
    /\ step[w] = "quota"
    /\ \/ Proceed(w, "quiet") /\ UNCHANGED used
       \/ Proceed(w, "defer") /\ Spend("defer")
    /\ UNCHANGED <<rows, ledger, events, policy, process, history>>

\* resolve_reschedule defers a row that falls in the customer's quiet hours.
QuietHoursGate(w) ==
    /\ step[w] = "quiet"
    /\ \/ Proceed(w, "decrypt") /\ UNCHANGED used
       \/ Proceed(w, "defer") /\ Spend("defer")
    /\ UNCHANGED <<rows, ledger, events, policy, process, history>>

\* load_ciphertexts, get_or_create_dek and both decrypts.
Decrypt(w) ==
    /\ step[w] = "decrypt"
    /\ Proceed(w, "cancel")
    /\ UNCHANGED <<rows, ledger, events, policy, process, used, history>>

\* Broken variant: cancelled_at is not read again before the send.
SkipCancellationCheck(w) ==
    /\ step[w] = "cancel"
    /\ IF row[w].id \notin outbox THEN Release(w) ELSE Proceed(w, "send")
    /\ UNCHANGED <<rows, ledger, events, policy, process, used, history>>

\* is_cancelled: the last gate.  fetch_one fails when the row is gone, and the
\* task drops it.
CancellationCheck(w) ==
    /\ step[w] = "cancel"
    /\ IF row[w].id \notin outbox
       THEN Release(w)
       ELSE IF row[w].id \in cancelled THEN Decide(w, "cancelled") ELSE Proceed(w, "send")
    /\ UNCHANGED <<rows, ledger, events, policy, process, used, history>>

\* Broken variant: one retry too many.
SendFailedOffByOne(w, retryable) ==
    IF retryable /\ row[w].attempts <= MaxSendAttempts
    THEN Proceed(w, "defer")
    ELSE Decide(w, "failed")

\* A retryable failure goes back to the outbox while the attempts that the
\* claim returned stay below the cap; any other failure is final.
SendFailed(w, retryable) ==
    IF retryable /\ row[w].attempts < MaxSendAttempts
    THEN Proceed(w, "defer")
    ELSE Decide(w, "failed")

\* sender.send: accepted and answered; accepted but the answer was lost (a
\* transport error, retryable); refused with a 5xx or unreachable (retryable);
\* refused with a 4xx.
Send(w) ==
    LET r == row[w].id IN
    /\ step[w] = "send"
    /\ calls' = [calls EXCEPT ![r] = @ + 1]
    /\ \/ /\ Decide(w, "sent")
          /\ accepted' = [accepted EXCEPT ![r] = @ + 1]
          /\ UNCHANGED excuses
       \/ /\ SendFailed(w, TRUE)
          /\ accepted' = [accepted EXCEPT ![r] = @ + 1]
          /\ excuses' = [excuses EXCEPT ![r] = @ + 1]
       \/ /\ \E retryable \in BOOLEAN : SendFailed(w, retryable)
          /\ UNCHANGED <<accepted, excuses>>
    /\ UNCHANGED <<rows, ledger, events, policy, process, used, torn, doomed>>

\* Broken variant: the outbox row survives the terminal write.
WriteTerminalKeepsRow(w) ==
    LET r == row[w].id IN
    /\ step[w] = "write"
    /\ events' = [events EXCEPT ![r] = @ \cup {verdict[w]}]
    /\ ledger' = [ledger EXCEPT ![r] = verdict[w]]
    /\ Release(w)
    /\ UNCHANGED <<rows, policy, process, used, history>>

\* write_terminal: event, final_status and the outbox delete in one transaction,
\* none of them conditional on the row still being there.
WriteTerminal(w) ==
    LET r == row[w].id IN
    /\ step[w] = "write"
    /\ events' = [events EXCEPT ![r] = @ \cup {verdict[w]}]
    /\ ledger' = [ledger EXCEPT ![r] = verdict[w]]
    /\ outbox' = outbox \ {r}
    /\ due' = due \ {r} /\ leased' = leased \ {r} /\ cancelled' = cancelled \ {r}
    /\ Release(w)
    /\ UNCHANGED <<attempts, policy, process, used, history>>

\* reschedule_retry: the lease is dropped and next_attempt_at moves to the future.
RescheduleRetry(w) ==
    /\ step[w] = "defer"
    /\ leased' = leased \ {row[w].id}
    /\ due' = due \ {row[w].id}
    /\ Release(w)
    /\ UNCHANGED <<outbox, cancelled, attempts, ledger, events, policy, process, used,
                   history>>

\* A database, Vault or decryption error anywhere in try_process, or the drains'
\* five failed terminal writes: logged, and the row stays leased.
ProcessError(w) ==
    /\ step[w] \in {"suppression", "verification", "consent", "quiet", "decrypt",
                    "cancel", "write", "defer"}
    /\ Spend("error")
    /\ Release(w)
    /\ UNCHANGED <<rows, ledger, events, policy, process, history>>

-----------------------------------------------------------------------------

Environment ==
    \E r \in Requests :
        \/ Ingest(r) \/ Cancel(r) \/ BecomeDue(r) \/ Expire(r) \/ Verify(r)
        \/ Suppress(r) \/ Unsuppress(r) \/ OptIn(r) \/ OptOut(r)

Process ==
    \E d \in Dispatchers :
        \/ Acquire(d) \/ ClearStaleLeases(d) \/ Restart(d) \/ Crash(d) \/ LoseSession(d)

\* The steps of a task that nothing but the scheduler decides.
Work(w) ==
    \/ Claim(w) \/ StartRow(w)
    \/ ExpiryGate(w) \/ SuppressionGate(w) \/ VerificationGate(w) \/ ConsentGate(w)
    \/ QuotaGate(w) \/ QuietHoursGate(w) \/ Decrypt(w) \/ CancellationCheck(w)
    \/ Send(w) \/ WriteTerminal(w) \/ RescheduleRetry(w)

Next ==
    \/ Environment
    \/ Process
    \/ \E w \in Workers : Work(w) \/ ProcessError(w)

Spec == Init /\ [][Next]_vars

\* Tokio keeps polling every runnable task, acquire retries every 3 s, the
\* supervisor restarts a dead process, and the clock reaches next_attempt_at.
\* Nothing is assumed of faults, operators or producers.
Fairness ==
    /\ \A w \in Workers : WF_vars(Work(w))
    /\ \A d \in Dispatchers :
        WF_vars(Acquire(d)) /\ WF_vars(ClearStaleLeases(d)) /\ WF_vars(Restart(d))
    /\ \A r \in Requests : WF_vars(BecomeDue(r))

FairSpec == Spec /\ Fairness

-----------------------------------------------------------------------------
(* Properties.                                                             *)

\* The outbox and the ledger never disagree: a request has an outbox row
\* exactly while its final_status is NULL, and a final status is always backed
\* by an event of that type (write_terminal's single transaction, under crashes
\* and under two tasks finishing the same row).
LedgerOutboxAgree ==
    \A r \in Requests :
        /\ r \in outbox <=> ledger[r] = "inflight"
        /\ ledger[r] \in Final => ledger[r] \in events[r]

\* A request cancelled, expired, suppressed, opted out or unverified before any
\* task had passed the corresponding gate is not handed to the provider while
\* that lasts, whatever the tasks had already read about it.
DoomedNeverSent ==
    [][\A r \in Requests :
        calls'[r] # calls[r] => \A g \in Gates : <<r, g>> \notin doomed]_vars

\* At-least-once with a reason: the provider accepts a request a second time
\* only if a sweep dropped its lease or a response was lost in between.
DuplicatesExcused == \A r \in Requests : accepted[r] <= 1 + excuses[r]

\* MAX_SEND_ATTEMPTS caps the provider calls of a request; only sweeps and lost
\* responses add to it, however often the gates deferred it.
RetryCap == \A r \in Requests : calls[r] <= MaxSendAttempts + excuses[r]

\* Until a sweep takes a lease from under a task that is still running, a row is
\* worked on by one task at a time, and that task's lease on it stands: the claim
\* query, reschedule_retry and write_terminal, over any number of processes and
\* tasks, crashes and restarts, and lost lock sessions.
ExclusiveLease ==
    \A r \in Requests \ torn, v, w \in Workers :
        Holds(v, r) /\ Holds(w, r) => v = w /\ r \in leased

\* clear_stale_leases only ever clears the leases of dead tasks.  This is what the
\* advisory lock is for, and it holds while claim loops alone lease rows and no
\* leader outlives its lock session.
SweepsFindNoOne == torn = {}

Promise ==
    INSTANCE Delivery WITH status <- ledger, handoffs <- accepted, waived <- torn

\* The dispatcher keeps Delivery's promise: through write_terminal a request ends
\* once, is not handed over after it ended, and is "sent" only if the provider
\* accepted it.  The first two are waived for the requests whose lease a sweep took
\* from a live task.
ImplementsDelivery == Promise!Spec

\* Every accepted request reaches a terminal status.
EventuallyFinal == \A r \in Requests : ledger[r] = "inflight" ~> ledger[r] \in Final

-----------------------------------------------------------------------------
(* A statement of the source that the model refutes.                       *)

\* drain.rs on a row given up on: it "stays leased until its lease naturally
\* expires, at which point it becomes an ordinary outbox row again".
LeaseEnds == \A r \in Requests : r \in leased ~> r \notin leased
=============================================================================
