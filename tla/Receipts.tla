------------------------------ MODULE Receipts ------------------------------
(***************************************************************************)
(* Delivery receipts of one tenant: messgr-webhook stages what a provider  *)
(* posts; the cron jobs webhook-promote and orphan-reconcile turn staged   *)
(* and orphaned receipts into comms_event rows, advance the request's      *)
(* final_status and feed the suppression list; the dispatcher's terminal   *)
(* write creates the event whose provider_ref a receipt is matched with.   *)
(*                                                                         *)
(* A job reads its list, the match of each row, and writes each row in a   *)
(* transaction of its own, so jobs that overlap, the provider's retries    *)
(* and the dispatcher interleave between any two of these.  An error ends  *)
(* the whole job, as a crash of its process does; cron starts it again.    *)
(***************************************************************************)
EXTENDS Integers, Sequences, FiniteSets

CONSTANTS
    Requests,       \* comms_request ids
    RefOf,          \* request: the provider_ref its send is given
    Dest,           \* request: its destination_hmac
    Posts,          \* receipts: what (provider, provider_ref, type, time) identifies
    Ref,            \* receipt: its provider_ref
    Type,           \* receipt: its event_type
    At,             \* receipt: its occurred_at
    Jobs,           \* runs of the two subcommands that may overlap
    Work,           \* job: "promote" or "reconcile"
    Cap,            \* tenant_config.reconcile_attempts_cap
    Limit,          \* bound on each kind of fault
    None            \* SQL NULL, no match, the empty provider_ref

Faults == {"resend", "error", "rewrite"}

STATUS_ORDER == <<"queued", "sent", "delivered", "read">>

ABSORBING_STATUSES ==
    {"failed", "bounced", "complaint", "expired", "cancelled", "suppressed_consent",
     "suppressed_list", "unverified_address"}

Ordered == {STATUS_ORDER[i] : i \in DOMAIN STATUS_ORDER}

Status == Ordered \cup ABSORBING_STATUSES

is_recognized_event_type(t) == t \in Status

Position(s) == CHOOSE i \in DOMAIN STATUS_ORDER : STATUS_ORDER[i] = s

\* Broken variant: the latest receipt wins.
should_advance_latest(current, new) == TRUE

should_advance(current, new) ==
    \/ current = None
    \/ new \in ABSORBING_STATUSES
    \/ current \in Ordered /\ new \in Ordered /\ Position(new) > Position(current)

\* Broken variant: a hard bounce is no reason to suppress.
auto_suppress_complaints == {"complaint"}

\* Receipts with one of these types put the destination on the suppression list.
auto_suppress == {"bounced", "complaint"}

Event == [request : Requests, type : Status, at : Nat, ref : {Ref[x] : x \in Posts}
                \cup {RefOf[r] : r \in Requests} \cup {None}]

\* A row as a job listed it: a staging row by its id, an orphan also with its attempts.
Staged == [post : Posts, id : Nat]
Orphan == [post : Posts, id : Nat, by : Jobs, attempts : Nat]

Match == [request : Requests, status : Status \cup {None}]

ASSUME ReceiptsAssumption ==
    /\ IsFiniteSet(Posts)
    /\ Type \in [Posts -> STRING]
    /\ At \in [Posts -> Nat]
    /\ DOMAIN Ref = Posts /\ DOMAIN RefOf = Requests /\ DOMAIN Dest = Requests
    /\ Work \in [Jobs -> {"promote", "reconcile"}]
    /\ Cap \in Nat \ {0}
    /\ Limit \in [Faults -> Nat]
    /\ None \notin Status /\ None \notin Match /\ None \notin Staged \cup Orphan
    /\ \A r \in Requests : RefOf[r] # None

VARIABLES
    final,      \* comms_request.final_status
    events,     \* comms_event
    staging,    \* webhook_receipt_staging: the id of a receipt's row, 0 for none
    orphans,    \* orphan_event
    listed,     \* suppression: "none", "year" (review_at in a year), "hold" (later), "lapsed"
    todo,       \* rows of a job's list it has not come to yet
    row,        \* the row it is at
    match,      \* what find_match returned for it
    step,       \* "idle", "next", "matched" or "counted"
    posted,     \* deliveries of a receipt that were answered 200
    used,       \* faults so far
    aged,       \* receipts whose orphan row was deleted at the cap (auxiliary)
    raced       \* requests whose final_status was rewritten, or moved after a job read it (auxiliary)

tables == <<final, events, staging, orphans, listed>>
jobs   == <<todo, row, match, step>>
vars   == <<tables, jobs, posted, used, aged, raced>>

TypeOK ==
    /\ final \in [Requests -> Status \cup {None}]
    /\ events \subseteq Event
    /\ staging \in [Posts -> Nat]
    /\ orphans \subseteq Orphan
    /\ listed \in [{Dest[r] : r \in Requests} -> {"none", "year", "hold", "lapsed"}]
    /\ todo \in [Jobs -> SUBSET (Staged \cup Orphan)]
    /\ row \in [Jobs -> Staged \cup Orphan \cup {None}]
    /\ match \in [Jobs -> Match \cup {None}]
    /\ step \in [Jobs -> {"idle", "next", "matched", "counted"}]
    /\ \A j \in Jobs : row[j] # None <=> step[j] \in {"matched", "counted"}
    /\ \A j \in Jobs : todo[j] \cup ({row[j]} \ {None}) \subseteq
            IF Work[j] = "promote" THEN Staged ELSE Orphan
    /\ posted \in [Posts -> Nat]
    /\ used \in [Faults -> Nat]
    /\ aged \subseteq Posts /\ raced \subseteq Requests

Spend(k) ==
    /\ used[k] < Limit[k]
    /\ used' = [used EXCEPT ![k] = @ + 1]

Init ==
    /\ final = [r \in Requests |-> None]
    /\ events = {}
    /\ staging = [x \in Posts |-> 0]
    /\ orphans = {}
    /\ listed = [d \in {Dest[r] : r \in Requests} |-> "none"]
    /\ todo = [j \in Jobs |-> {}]
    /\ row = [j \in Jobs |-> None]
    /\ match = [j \in Jobs |-> None]
    /\ step = [j \in Jobs |-> "idle"]
    /\ posted = [x \in Posts |-> 0]
    /\ used = [k \in Faults |-> 0]
    /\ aged = {} /\ raced = {}

-----------------------------------------------------------------------------
(* The dispatcher, the operators and the providers.                        *)

\* Broken variant: only a send leaves an event.
WriteTerminalSentOnly(r, status) ==
    /\ \/ final[r] = None /\ UNCHANGED used
       \/ final[r] # None /\ Spend("rewrite")
    /\ final' = [final EXCEPT ![r] = status]
    /\ events' = IF status = "sent"
                 THEN events \cup {[request |-> r, type |-> status, at |-> 0, ref |-> RefOf[r]]}
                 ELSE events
    /\ raced' = IF final[r] = None THEN raced ELSE raced \cup {r}
    /\ UNCHANGED <<staging, orphans, listed, jobs, posted, aged>>

\* write_terminal: only a send has a provider_ref.  It is not conditional on
\* final_status, so a deposed leader's can come after receipts.
WriteTerminal(r, status) ==
    /\ \/ final[r] = None /\ UNCHANGED used
       \/ final[r] # None /\ Spend("rewrite")
    /\ final' = [final EXCEPT ![r] = status]
    /\ events' = events \cup {[request |-> r, type |-> status, at |-> 0,
                               ref |-> IF status = "sent" THEN RefOf[r] ELSE None]}
    /\ raced' = IF final[r] = None THEN raced ELSE raced \cup {r}
    /\ UNCHANGED <<staging, orphans, listed, jobs, posted, aged>>

\* suppression add with a review_at beyond a year, and review_at passing.
Hold(d) ==
    /\ listed[d] # "hold"
    /\ listed' = [listed EXCEPT ![d] = "hold"]
    /\ UNCHANGED <<final, events, staging, orphans, jobs, posted, used, aged, raced>>

Lapse(d) ==
    /\ listed[d] \in {"year", "hold"}
    /\ listed' = [listed EXCEPT ![d] = "lapsed"]
    /\ UNCHANGED <<final, events, staging, orphans, jobs, posted, used, aged, raced>>

\* Broken variant: the unique key is the provider_ref alone.
insert_staging_by_ref(x) ==
    IF \E y \in Posts : Ref[y] = Ref[x] /\ staging[y] # 0 THEN staging
    ELSE [staging EXCEPT ![x] = posted[x] + 1]

\* ON CONFLICT (provider, provider_ref, event_type, occurred_at) DO NOTHING.
insert_staging(x) ==
    IF staging[x] # 0 THEN staging ELSE [staging EXCEPT ![x] = posted[x] + 1]

\* A delivery the handler answers 200.  An unknown token, an unreadable secret, a
\* wrong signature, an unparsable body or a failed insert changes nothing, and
\* the provider may post the receipt again, whatever the answer was.
receive_webhook(x) ==
    /\ \/ posted[x] = 0 /\ UNCHANGED used
       \/ posted[x] > 0 /\ Spend("resend")
    /\ posted' = [posted EXCEPT ![x] = @ + 1]
    /\ staging' = insert_staging(x)
    /\ UNCHANGED <<final, events, orphans, listed, jobs, aged, raced>>

-----------------------------------------------------------------------------
(* The two jobs.                                                           *)

\* list_pending of each job: rows by their ids.
PendingStaged == {[post |-> x, id |-> staging[x]] : x \in {y \in Posts : staging[y] # 0}}

PendingOrphans == orphans

Start(j, list) ==
    /\ step[j] = "idle"
    /\ step' = [step EXCEPT ![j] = "next"]
    /\ todo' = [todo EXCEPT ![j] = list]
    /\ UNCHANGED <<tables, row, match, posted, used, aged, raced>>

\* run_for_tenant of webhook-promote and of orphan-reconcile, up to the list.
StartPromote(j) == Work[j] = "promote" /\ Start(j, PendingStaged)

StartReconcile(j) == Work[j] = "reconcile" /\ Start(j, PendingOrphans)

\* The comms_event rows find_match's ORDER BY can put first: the latest with
\* this provider_ref, which is never the empty one.
Latest(ref) ==
    {e \in events :
        /\ e.ref = ref /\ ref # None
        /\ \A f \in events : f.ref = ref => f.at <= e.at}

find_match(ref) ==
    IF Latest(ref) = {} THEN {None}
    ELSE {[request |-> e.request, status |-> final[e.request]] : e \in Latest(ref)}

\* Each row in turn: find_match, unless its event type is not one of ours.
MatchRow(j) ==
    /\ step[j] = "next"
    /\ \E w \in todo[j] :
        /\ todo' = [todo EXCEPT ![j] = @ \ {w}]
        /\ row' = [row EXCEPT ![j] = w]
        /\ \E m \in IF is_recognized_event_type(Type[w.post])
                    THEN find_match(Ref[w.post]) ELSE {None} :
            match' = [match EXCEPT ![j] = m]
    /\ step' = [step EXCEPT ![j] = "matched"]
    /\ UNCHANGED <<tables, posted, used, aged, raced>>

\* On to the next row.
Done(j) ==
    /\ step' = [step EXCEPT ![j] = "next"]
    /\ row' = [row EXCEPT ![j] = None]
    /\ match' = [match EXCEPT ![j] = None]
    /\ UNCHANGED todo

\* DELETE ... WHERE id = $1, which may find nothing.
DeleteStaged(w) ==
    staging' = IF staging[w.post] = w.id THEN [staging EXCEPT ![w.post] = 0] ELSE staging

Same(o, w) == o.post = w.post /\ o.id = w.id /\ o.by = w.by

DeleteOrphan(w) == orphans' = {o \in orphans : ~Same(o, w)}

\* Auxiliary: one of these jobs is between its find_match of r and its write.
Deciding(r, J) == \E j \in J : match[j] # None /\ match[j].request = r

\* The event (a conflict is one already there), final_status as the caller
\* decided, and the suppression entry, whose review_at is only ever extended.
insert_comms_event(j, advance) ==
    LET r == match[j].request
        x == row[j].post
        t == Type[x]
    IN  /\ events' = events \cup {[request |-> r, type |-> t, at |-> At[x], ref |-> Ref[x]]}
        /\ final' = IF advance THEN [final EXCEPT ![r] = t] ELSE final
        /\ listed' = IF t \in auto_suppress /\ listed[Dest[r]] # "hold"
                     THEN [listed EXCEPT ![Dest[r]] = "year"] ELSE listed
        /\ raced' = IF final' # final /\ Deciding(r, Jobs \ {j}) THEN raced \cup {r} ELSE raced

\* promote_match: the verdict is on the final_status that find_match read.
promote_match(j) ==
    /\ step[j] = "matched" /\ match[j] # None
    /\ insert_comms_event(j, should_advance(match[j].status, Type[row[j].post]))
    /\ Done(j)
    /\ UNCHANGED <<posted, used, aged>>

promote_staged(j) ==
    /\ Work[j] = "promote"
    /\ promote_match(j)
    /\ DeleteStaged(row[j]) /\ UNCHANGED orphans

promote_orphan(j) ==
    /\ Work[j] = "reconcile"
    /\ promote_match(j)
    /\ DeleteOrphan(row[j]) /\ UNCHANGED staging

\* to_orphan: insert and delete in one transaction.
to_orphan(j) ==
    /\ step[j] = "matched" /\ match[j] = None /\ Work[j] = "promote"
    /\ orphans' = orphans \cup {[post |-> row[j].post, id |-> row[j].id, by |-> j, attempts |-> 0]}
    /\ DeleteStaged(row[j])
    /\ Done(j)
    /\ UNCHANGED <<final, events, listed, posted, used, aged, raced>>

\* Broken variant: the attempts are set, not added to.
CountFirstMiss(j) ==
    /\ step[j] = "matched" /\ match[j] = None /\ Work[j] = "reconcile"
    /\ orphans' = {IF Same(o, row[j]) THEN [o EXCEPT !.attempts = 1] ELSE o : o \in orphans}
    /\ step' = [step EXCEPT ![j] = "counted"]
    /\ UNCHANGED <<final, events, staging, listed, todo, row, match, posted, used, aged, raced>>

\* record_miss, first statement: reconcile_attempts + 1.
CountMiss(j) ==
    /\ step[j] = "matched" /\ match[j] = None /\ Work[j] = "reconcile"
    /\ orphans' = {IF Same(o, row[j]) THEN [o EXCEPT !.attempts = @ + 1] ELSE o : o \in orphans}
    /\ step' = [step EXCEPT ![j] = "counted"]
    /\ UNCHANGED <<final, events, staging, listed, todo, row, match, posted, used, aged, raced>>

\* record_miss, second statement: delete it at the cap.
DropAtCap(j) ==
    /\ step[j] = "counted"
    /\ LET gone == {o \in orphans : Same(o, row[j]) /\ o.attempts >= Cap}
       IN  orphans' = orphans \ gone /\ aged' = aged \cup {o.post : o \in gone}
    /\ Done(j)
    /\ UNCHANGED <<final, events, staging, listed, posted, used, raced>>

\* The end of the list.
Finish(j) ==
    /\ step[j] = "next" /\ todo[j] = {}
    /\ step' = [step EXCEPT ![j] = "idle"]
    /\ UNCHANGED <<tables, todo, row, match, posted, used, aged, raced>>

\* Any error (database, Vault, encryption) and any crash: the rest of the list is
\* left to the next run.
Abort(j) ==
    /\ step[j] # "idle"
    /\ Spend("error")
    /\ step' = [step EXCEPT ![j] = "idle"]
    /\ todo' = [todo EXCEPT ![j] = {}]
    /\ row' = [row EXCEPT ![j] = None]
    /\ match' = [match EXCEPT ![j] = None]
    /\ UNCHANGED <<tables, posted, aged, raced>>

Run(j) ==
    \/ StartPromote(j) \/ StartReconcile(j) \/ MatchRow(j) \/ promote_staged(j)
    \/ promote_orphan(j) \/ to_orphan(j) \/ CountMiss(j) \/ DropAtCap(j) \/ Finish(j)

Next ==
    \/ \E r \in Requests : WriteTerminal(r, "sent") \/ WriteTerminal(r, "failed")
    \/ \E d \in DOMAIN listed : Hold(d) \/ Lapse(d)
    \/ \E x \in Posts : receive_webhook(x)
    \/ \E j \in Jobs : Run(j) \/ Abort(j)

Spec == Init /\ [][Next]_vars

\* Cron keeps starting both jobs and a started job keeps going; nothing is
\* assumed of providers, operators, the dispatcher or faults.
FairSpec == Spec /\ \A j \in Jobs : WF_vars(Run(j))

-----------------------------------------------------------------------------
(* Properties.                                                             *)

EventOf(x) == \E e \in events : e.type = Type[x] /\ e.at = At[x] /\ e.ref = Ref[x]

\* A receipt that was answered 200 is never lost: it is staged, orphaned, an
\* event, or was deleted at reconcile_attempts_cap, through overlapping jobs,
\* retries of the provider and aborted runs.
NeverLost ==
    \A x \in Posts : posted[x] > 0 =>
        \/ staging[x] # 0
        \/ \E o \in orphans : o.post = x
        \/ EventOf(x)
        \/ x \in aged

\* final_status always has an event of its request and type behind it, whoever
\* wrote it last (insert_comms_event and write_terminal are transactions).
StatusBacked ==
    \A r \in Requests : final[r] # None =>
        \E e \in events : e.request = r /\ e.type = final[r]

Outranks(t, s) ==
    \/ t \in ABSORBING_STATUSES /\ s \notin ABSORBING_STATUSES
    \/ t \in Ordered /\ s \in Ordered /\ Position(t) > Position(s)

\* Receipts may come in any order, twice, or before the send is on record: no event
\* of a request outranks its final_status ("final_status only ever advances"),
\* unless write_terminal wrote it again, or another job wrote it between the
\* find_match and the write of one that decided on what it had read.
FinalIsFurthest ==
    \A e \in events : e.request \notin raced =>
        final[e.request] # None /\ ~Outranks(e.type, final[e.request])

\* A destination with a bounce or complaint event has been on the suppression
\* list: auto_suppress_reason applies whether or not final_status advances.
BouncesListed ==
    \A e \in events : e.type \in {"bounced", "complaint"} => listed[Dest[e.request]] # "none"

\* Every receipt settles: it becomes an event, or it is given up at the cap.
ReceiptsSettle == \A x \in Posts : posted[x] > 0 ~> EventOf(x) \/ x \in aged
=============================================================================
