--------------------------- MODULE FastPathProofs ---------------------------
(***************************************************************************)
(* Proofs about FastPath, for either service, every number of requests and *)
(* providers and every bound on faults.                                    *)
(***************************************************************************)
EXTENDS FastPath, TLAPS

\* The types of the caches, of the requests, of the drains and of what is durable.
Memory ==
    /\ service \in {"otp", "sms"} /\ up \subseteq Dependencies
    /\ enabled \in BOOLEAN /\ flag \in BOOLEAN /\ open \in BOOLEAN /\ dek \in BOOLEAN
    /\ entries \in (SUBSET Providers) \cup {None}
    /\ rows \subseteq Providers /\ creds \subseteq Providers
    /\ used \in Nat

Labels == {"new", "gate", "fetch", "send", "crypto", "pend", "write", "done", "gone"}

Serving ==
    /\ pc \in [Requests -> Labels]
    /\ plan \in [Requests -> SUBSET Providers]
    /\ outcome \in [Requests -> Outcomes \cup {None}]

Draining ==
    /\ stage \in [Drains -> {"sleep", "walk", "crypto", "fill"}]
    /\ seen \in [Drains -> SUBSET Requests]
    /\ todo \in [Drains -> SUBSET Requests]
    /\ keep \in [Drains -> SUBSET Requests]
    /\ hand \in Requests \cup {None}
    /\ hand # None <=> stage["pending"] = "crypto"
    /\ stage["buffer"] # "crypto"

Durable ==
    /\ file \in [Drains -> SUBSET Requests]
    /\ ledger \in [Requests -> Outcomes \cup {None}]
    /\ lost \subseteq Requests

Shape == Memory /\ Serving /\ Draining /\ Durable

\* Shape says what TypeOK says, and that only the pending drain does crypto.
LEMMA ShapeTypeOK == Shape => TypeOK
BY Zenon DEF Shape, Memory, Serving, Draining, Durable, TypeOK, Labels

\* NULL is no request and no outcome, and there are two drains.
LEMMA Constants ==
    /\ None \notin Requests /\ None \notin Outcomes
    /\ "buffer" \in Drains /\ "pending" \in Drains /\ \A d \in Drains : d = "buffer" \/ d = "pending"
    /\ {"discarded", "sent", "failed"} = Outcomes
BY Zenon, FastPathAssumption DEF Drains, Outcomes

\* What runs beside requests and drains: outages, the flag, the idle sweep, refreshes.
Beside ==
    \/ \E s \in Dependencies : Outage(s) \/ Recover(s)
    \/ SetAuthEnabled \/ RefreshFlag \/ Evict \/ refresh_once \/ UNCHANGED vars

\* It touches neither requests nor drains nor files.
LEMMA BesideOnly == Beside => UNCHANGED <<serving, drains, durable, lost>>
BY Zenon DEF Beside, Outage, Recover, SetAuthEnabled, RefreshFlag, Evict, refresh_once, vars

\* Every step is one of these, of a request, of a drain, or a crash.
LEMMA Cases ==
    ASSUME [Next]_vars
    PROVE  \/ Beside \/ Crash
           \/ \E q \in Requests : Serve(q)
           \/ \E d \in Drains : Drain(d)
BY Zenon DEF Next, Beside

\* Nothing has been read, sent or written.
LEMMA InitShape == Init => Shape
<1> SUFFICES ASSUME Init PROVE Shape
    OBVIOUS
<1>1. Memory
    <2>1. service \in {"otp", "sms"}
        BY Zenon, FastPathAssumption DEF Init
    <2>2. used \in Nat
        BY DEF Init
    <2>3. enabled \in BOOLEAN /\ flag \in BOOLEAN /\ open \in BOOLEAN /\ dek \in BOOLEAN
        BY Zenon DEF Init
    <2>4. up \subseteq Dependencies /\ entries \in (SUBSET Providers) \cup {None}
          /\ rows \subseteq Providers /\ creds \subseteq Providers
        BY Zenon DEF Init
    <2> QED
        BY Zenon, <2>1, <2>2, <2>3, <2>4 DEF Memory
<1>2. Serving
    BY Zenon DEF Init, Serving, Labels
<1>3. Draining
    BY Zenon, Constants DEF Init, Draining
<1>4. Durable
    BY Zenon DEF Init, Durable
<1> QED
    BY Zenon, <1>1, <1>2, <1>3, <1>4 DEF Shape

-----------------------------------------------------------------------------
(* Types.                                                                  *)

\* The caches hold providers, whatever answers and whatever does not.
LEMMA MemoryStep == Shape /\ [Next]_vars => Memory'
<1> SUFFICES ASSUME Shape, [Next]_vars PROVE Memory'
    OBVIOUS
<1>0. Memory
    BY DEF Shape
<1>5. Spend => used' \in Nat
    BY <1>0 DEF Spend, Memory
<1>1. CASE Beside
    <2>1. ASSUME NEW s \in Dependencies, Outage(s) \/ Recover(s) PROVE Memory'
        BY Zenon, <1>0, <1>5, <2>1 DEF Memory, Outage, Recover, memory
    <2>2. CASE SetAuthEnabled \/ RefreshFlag \/ Evict
        BY Zenon, <1>0, <1>5, <2>2 DEF Memory, SetAuthEnabled, RefreshFlag, Evict, memory, world
    <2>3. CASE refresh_once
        BY Zenon, <1>0, <2>3 DEF Memory, refresh_once, resolve_all, world
    <2>4. CASE UNCHANGED vars
        BY Zenon, <1>0, <2>4 DEF Memory, vars, world, memory
    <2> QED
        BY Zenon, <1>1, <2>1, <2>2, <2>3, <2>4 DEF Beside
<1>2. CASE Crash
    <2>1. service' = service /\ up' = up /\ enabled' = enabled /\ used' \in Nat
        BY Zenon, <1>2, <1>5 DEF Crash
    <2>2. flag' \in BOOLEAN /\ open' \in BOOLEAN /\ dek' \in BOOLEAN
        BY Zenon, <1>0, <1>2 DEF Memory, Crash
    <2>3. entries' = None /\ rows' = {} /\ creds' = {}
        BY Zenon, <1>2 DEF Crash
    <2> QED
        BY Zenon, <1>0, <2>1, <2>2, <2>3 DEF Memory
<1>3. ASSUME NEW q \in Requests, Serve(q) PROVE Memory'
    <2>1. CASE Arrive(q) \/ AuthGate(q) \/ send(q) \/ AppendPending(q) \/ persist_or_buffer(q)
        BY Zenon, <1>0, <2>1 DEF Memory, Arrive, AuthGate, send, AppendPending,
            persist_or_buffer, world, memory
    <2>2. CASE compute_destination_crypto(q)
        BY Zenon, <1>0, <2>2 DEF Memory, compute_destination_crypto, CanDek, world
    <2>3. CASE get_or_fetch(q)
        BY Zenon, <1>0, <2>3 DEF Memory, get_or_fetch, resolve_all, world
    <2>4. CASE load(q)
        BY Zenon, <1>0, <2>4 DEF Memory, load, world
    <2> QED
        BY Zenon, <1>3, <2>1, <2>2, <2>3, <2>4 DEF Serve
<1>4. ASSUME NEW d \in Drains, Drain(d) PROVE Memory'
    BY Zenon, <1>0, <1>4 DEF Memory, Drain, ReadFile, Truncate, Fill, DrainBuffer, DrainPending,
        WriteRecovered, CanOpen, CanDek, world, memory
<1> QED
    BY Zenon, <1>1, <1>2, <1>3, <1>4, Cases

\* A request is at one of its steps, with providers to try and an outcome.
LEMMA ServingStep == Shape /\ [Next]_vars => Serving'
<1> SUFFICES ASSUME Shape, [Next]_vars PROVE Serving'
    OBVIOUS
<1>0. Memory /\ Serving
    BY DEF Shape
<1>1. ASSUME NEW q \in Requests, NEW p \in Labels, Goto(q, p) PROVE pc' \in [Requests -> Labels]
    BY Zenon, <1>0, <1>1 DEF Goto, Serving
<1>2. {"new", "gate", "fetch", "send", "crypto", "pend", "write", "done", "gone"} = Labels
    BY DEF Labels
<1>3. ASSUME NEW q \in Requests, Serve(q) PROVE Serving'
    <2>1. pc' \in [Requests -> Labels]
        BY Zenon, <1>1, <1>2, <1>3 DEF Serve, Arrive, AuthGate, get_or_fetch, load, send,
            compute_destination_crypto, AppendPending, persist_or_buffer
    <2>2. outcome' \in [Requests -> Outcomes \cup {None}]
        BY Zenon, <1>0, <1>3, Constants DEF Serve, Arrive, AuthGate, get_or_fetch, load, send,
            compute_destination_crypto, AppendPending, persist_or_buffer, Serving
    <2>3. plan' \in [Requests -> SUBSET Providers]
        <3>1. CASE get_or_fetch(q)
            <4>1. \E list \in SUBSET Providers : plan' = [plan EXCEPT ![q] = list]
                BY Zenon, <1>0, <3>1 DEF get_or_fetch, resolve_all, Memory
            <4> QED
                BY Zenon, <1>0, <4>1 DEF Serving
        <3>2. CASE load(q)
            <4>1. \E list \in SUBSET Providers : plan' = [plan EXCEPT ![q] = list]
                <5>1. rows' \subseteq Providers
                    BY Zenon, <1>0, <3>2 DEF load, Memory
                <5>2. rows' \cap creds' \in SUBSET Providers
                    BY Zenon, <5>1
                <5> QED
                    BY Zenon, <3>2, <5>2 DEF load
            <4> QED
                BY Zenon, <1>0, <4>1 DEF Serving
        <3>3. CASE plan' = plan
            BY Zenon, <1>0, <3>3 DEF Serving
        <3> QED
            BY Zenon, <1>3, <3>1, <3>2, <3>3 DEF Serve, Arrive, AuthGate, send,
                compute_destination_crypto, AppendPending, persist_or_buffer
    <2> QED
        BY Zenon, <2>1, <2>2, <2>3 DEF Serving
<1>4. CASE Crash
    <2>1. pc' \in [Requests -> Labels]
        BY Zenon, <1>0, <1>2, <1>4 DEF Crash, Serving
    <2> QED
        BY Zenon, <1>0, <1>4, <2>1 DEF Crash, Serving
<1>5. CASE UNCHANGED serving
    BY Zenon, <1>0, <1>5 DEF serving, Serving
<1>6. \A d \in Drains : Drain(d) => UNCHANGED serving
    BY Zenon DEF Drain, ReadFile, Truncate, Fill, DrainBuffer, DrainPending, WriteRecovered
<1> QED
    BY Zenon, <1>3, <1>4, <1>5, <1>6, Cases, BesideOnly

\* A step of a request leaves the drains alone.
LEMMA ServeDrains == \A q \in Requests : Serve(q) => UNCHANGED drains
BY Zenon DEF Serve, Arrive, AuthGate, get_or_fetch, load, send, compute_destination_crypto,
    AppendPending, persist_or_buffer

\* The steps of a drain, one by one.
LEMMA DrainCases ==
    ASSUME NEW d \in Drains, Drain(d)
    PROVE  \/ ReadFile(d) \/ Truncate(d) \/ Fill(d) \/ WriteRecovered
           \/ \E q \in Requests : DrainBuffer(q) \/ DrainPending(q)
BY Zenon DEF Drain

\* A drain has a record in hand exactly while its crypto is done and its write is not.
LEMMA DrainingStep == Shape /\ [Next]_vars => Draining'
<1> SUFFICES ASSUME Shape, [Next]_vars PROVE Draining'
    OBVIOUS
<1>0. Draining /\ Durable
    BY DEF Shape
<1> USE <1>0, Constants
<1>1. CASE UNCHANGED drains
    BY Zenon, <1>1 DEF drains, Draining
<1>2. ASSUME NEW d \in Drains, ReadFile(d) PROVE Draining'
    BY <1>2 DEF ReadFile, Draining, Durable
<1>3. ASSUME NEW d \in Drains, Truncate(d) PROVE Draining'
    BY <1>3 DEF Truncate, Draining
<1>4. ASSUME NEW d \in Drains, Fill(d) PROVE Draining'
    BY <1>4 DEF Fill, Draining
<1>5. ASSUME NEW q \in Requests, DrainBuffer(q) PROVE Draining'
    BY <1>5 DEF DrainBuffer, Draining
<1>6. ASSUME NEW q \in Requests, DrainPending(q) PROVE Draining'
    BY <1>6 DEF DrainPending, Draining
<1>7. CASE WriteRecovered
    BY <1>7 DEF WriteRecovered, Draining
<1>8. CASE Crash
    BY Zenon, <1>8 DEF Crash, Draining
<1> QED
    BY Zenon, <1>1, <1>2, <1>3, <1>4, <1>5, <1>6, <1>7, <1>8, Cases, DrainCases, BesideOnly, ServeDrains

\* append puts the record into the file or, without a disk, among the lost.
LEMMA Appended ==
    ASSUME Durable, NEW d \in Drains, NEW q \in Requests, append(d, q)
    PROVE  /\ file' \in [Drains -> SUBSET Requests] /\ lost' \subseteq Requests
           /\ lost \subseteq lost' /\ q \in file'[d] \cup lost'
           /\ \A e \in Drains : file[e] \subseteq file'[e] /\ file'[e] \subseteq file[e] \cup {q}
<1>1. CASE "disk" \in up
    BY <1>1 DEF append, Durable
<1>2. CASE "disk" \notin up
    BY <1>2 DEF append, Durable
<1> QED
    BY Zenon, <1>1, <1>2

\* write_audit_record fills a record that is empty and leaves every other one.
LEMMA Written ==
    ASSUME Durable, Serving, NEW q \in Requests, write_audit_record(q)
    PROVE  /\ ledger' \in [Requests -> Outcomes \cup {None}]
           /\ \A p \in Requests : ledger'[p] = IF p = q /\ ledger[p] = None THEN outcome[p] ELSE ledger[p]
BY Zenon DEF write_audit_record, Durable, Serving

\* Records are those of requests, and what is lost are requests.
LEMMA DurableStep == Shape /\ [Next]_vars => Durable'
<1> SUFFICES ASSUME Shape, [Next]_vars PROVE Durable'
    OBVIOUS
<1>0. Durable /\ Serving /\ Draining
    BY DEF Shape
<1> USE <1>0, Constants
<1>1. CASE UNCHANGED <<durable, lost>>
    BY Zenon, <1>1 DEF durable, Durable
<1>2. ASSUME NEW d \in Drains, ReadFile(d) PROVE Durable'
    BY Zenon, <1>1, <1>2 DEF ReadFile
<1>3. ASSUME NEW d \in Drains, Truncate(d) PROVE Durable'
    BY <1>3 DEF Truncate, Durable
<1>4. ASSUME NEW d \in Drains, Fill(d) PROVE Durable'
    BY <1>4 DEF Fill, Durable, Draining
<1>5. ASSUME NEW q \in Requests, DrainBuffer(q) PROVE Durable'
    BY Zenon, <1>5, Written DEF DrainBuffer, Durable
<1>6. ASSUME NEW q \in Requests, DrainPending(q) PROVE Durable'
    BY Zenon, <1>1, <1>6 DEF DrainPending
<1>7. CASE WriteRecovered
    <2>1. hand \in Requests
        BY Zenon, <1>7 DEF WriteRecovered, Draining
    <2> QED
        BY Zenon, <1>7, <2>1, Written, Appended DEF WriteRecovered, Durable
<1>8. CASE Crash
    <2>1. lost' \subseteq Requests
        <3>1. \A d \in Drains : keep[d] \subseteq Requests
            BY Zenon DEF Draining
        <3>2. UNION {keep[d] : d \in {e \in Drains : stage[e] = "fill"}} \subseteq Requests
            BY Zenon, <3>1
        <3> QED
            BY Zenon, <1>8, <3>2 DEF Crash, Durable
    <2> QED
        BY Zenon, <1>8, <2>1 DEF Crash, Durable, durable
<1>9. ASSUME NEW q \in Requests, Serve(q) PROVE Durable'
    <2>1. CASE AppendPending(q)
        BY Zenon, <2>1, Appended DEF AppendPending, Durable
    <2>2. CASE persist_or_buffer(q)
        BY Zenon, <2>2, Written, Appended DEF persist_or_buffer, Durable
    <2> QED
        BY Zenon, <1>1, <1>9, <2>1, <2>2 DEF Serve, Arrive, AuthGate, get_or_fetch, load, send,
            compute_destination_crypto
<1> QED
    BY Zenon, <1>1, <1>2, <1>3, <1>4, <1>5, <1>6, <1>7, <1>8, <1>9, Cases, DrainCases, BesideOnly

\* Shape always holds.
LEMMA ShapeAlways == Spec => []Shape
<1>1. Shape /\ [Next]_vars => Shape'
    BY Zenon, MemoryStep, ServingStep, DrainingStep, DurableStep DEF Shape
<1> QED
    BY <1>1, InitShape, PTL DEF Spec

\* Caches, requests, drains and files keep their types through every outage and
\* crash; the pending drain has a record in hand exactly between crypto and write.
THEOREM TypeCorrect == Spec => []TypeOK
BY ShapeAlways, ShapeTypeOK, PTL

-----------------------------------------------------------------------------
(* Records.                                                                *)

\* What a drain carries, and what is stored.
Carried(q) ==
    \/ ledger[q] # None \/ hand = q
    \/ \E d \in Drains : q \in file[d] \/ q \in seen[d] \/ q \in todo[d] \/ q \in keep[d]

\* A request has an outcome before its record is made, and a record only when it
\* has been answered, so that its outcome does not change any more.
Answered ==
    \A q \in Requests :
        /\ pc[q] \in {"crypto", "pend", "write", "done"} => outcome[q] # None
        /\ Carried(q) => pc[q] = "done"
        /\ ledger[q] # None => ledger[q] = outcome[q]

\* Where the record of the pending file may be once its drain has dealt with it.
Safe(q) ==
    \/ ledger[q] = outcome[q] \/ q \in file["buffer"] \/ q \in lost
    \/ stage["buffer"] = "fill" /\ q \in keep["buffer"]

\* Until a drain truncates its file, what it read is still in there, and it has
\* dealt with, kept or not yet come to each record of it.
Walks ==
    /\ \A d \in Drains : stage[d] \in {"walk", "crypto"} => seen[d] \subseteq file[d]
    /\ stage["buffer"] = "walk" => \A q \in seen["buffer"] :
          q \in todo["buffer"] \/ q \in keep["buffer"] \/ ledger[q] = outcome[q]
    /\ stage["pending"] \in {"walk", "crypto"} => \A q \in seen["pending"] :
          q \in todo["pending"] \/ q \in keep["pending"] \/ hand = q \/ Safe(q)

Inv == Shape /\ Answered /\ Walks /\ Accounted

\* Initially there are no records.
LEMMA InitInv == Init => Inv
<1> SUFFICES ASSUME Init PROVE Inv
    OBVIOUS
<1>1. Answered
    BY Zenon, Constants DEF Init, Answered, Carried
<1>2. Walks /\ Accounted
    BY Zenon, Constants DEF Init, Walks, Accounted
<1> QED
    BY Zenon, <1>1, <1>2, InitShape DEF Inv

\* The outcome of a request that has been answered is final.
LEMMA OutcomeStays ==
    ASSUME Inv, [Next]_vars, NEW q \in Requests, pc[q] = "done"
    PROVE  pc'[q] = "done" /\ outcome'[q] = outcome[q]
<1>0. Serving
    BY Zenon DEF Inv, Shape
<1>1. ASSUME NEW p \in Requests, Serve(p) PROVE pc'[q] = "done" /\ outcome'[q] = outcome[q]
    <2>1. p # q
        BY Zenon, <1>1 DEF Serve, Arrive, AuthGate, get_or_fetch, load, send,
            compute_destination_crypto, AppendPending, persist_or_buffer
    <2>2. pc'[q] = pc[q]
        BY Zenon, <1>0, <1>1, <2>1 DEF Serve, Arrive, AuthGate, get_or_fetch, load, send,
            compute_destination_crypto, AppendPending, persist_or_buffer, Goto, Serving
    <2>3. outcome'[q] = outcome[q]
        BY Zenon, <1>0, <1>1, <2>1 DEF Serve, Arrive, AuthGate, get_or_fetch, load, send,
            compute_destination_crypto, AppendPending, persist_or_buffer, Serving
    <2> QED
        BY Zenon, <2>2, <2>3
<1>2. CASE Crash
    BY Zenon, <1>0, <1>2 DEF Crash, InFlight, Serving
<1>3. CASE UNCHANGED serving
    BY Zenon, <1>3 DEF serving
<1>4. \A d \in Drains : Drain(d) => UNCHANGED serving
    BY Zenon DEF Drain, ReadFile, Truncate, Fill, DrainBuffer, DrainPending, WriteRecovered
<1> QED
    BY Zenon, <1>1, <1>2, <1>3, <1>4, Cases, BesideOnly

\* A step of a request that makes no record.
LEMMA ServeInv ==
    ASSUME Inv, NEW q \in Requests,
           \/ Arrive(q) \/ AuthGate(q) \/ get_or_fetch(q) \/ load(q) \/ send(q)
           \/ compute_destination_crypto(q)
    PROVE  Answered' /\ Walks' /\ Accounted'
<1>0. Serving
    BY Zenon DEF Inv, Shape
<1>1. UNCHANGED <<drains, durable, lost>> /\ pc[q] \notin {"done", "pend", "write"}
    BY Zenon DEF Arrive, AuthGate, get_or_fetch, load, send, compute_destination_crypto
<1>2. pc'[q] # "done" /\ \A p \in Requests \ {q} : pc'[p] = pc[p]
    BY Zenon, <1>0 DEF Arrive, AuthGate, get_or_fetch, load, send, compute_destination_crypto,
        Goto, Serving
<1>3. \A p \in Requests \ {q} : outcome'[p] = outcome[p]
    BY Zenon, <1>0 DEF Arrive, AuthGate, get_or_fetch, load, send, compute_destination_crypto, Serving
<1>4. pc'[q] \in {"crypto", "pend", "write"} => outcome'[q] # None
    BY Zenon, <1>0, Constants DEF Arrive, AuthGate, get_or_fetch, load, send, compute_destination_crypto,
        Goto, Serving, Inv, Answered
<1>5. ~Carried(q) /\ ledger[q] = None
    BY Zenon, <1>1 DEF Inv, Answered, Carried
<1>6. UNCHANGED <<stage, seen, todo, hand, keep, file, ledger, lost>>
    BY Zenon, <1>1 DEF drains, durable
<1>7. \A p \in Requests : Carried(p)' <=> Carried(p)
    BY Zenon, <1>6 DEF Carried
<1>8. Answered'
    BY Zenon, <1>2, <1>3, <1>4, <1>5, <1>6, <1>7 DEF Inv, Answered
<1>9. \A p \in Requests : Carried(p) => Safe(p)' = Safe(p) /\ outcome'[p] = outcome[p]
    BY Zenon, <1>3, <1>5, <1>6 DEF Safe
<1>10. \A d \in Drains : \A p \in seen[d] : Carried(p) /\ p \in Requests
    BY Zenon DEF Carried, Inv, Shape, Draining
<1>11. Walks'
    BY Zenon, <1>6, <1>9, <1>10, Constants DEF Inv, Walks
<1>12. Accounted'
    BY Zenon, <1>2, <1>3, <1>6 DEF Inv, Accounted
<1> QED
    BY Zenon, <1>8, <1>11, <1>12

\* A record of q is written or appended: the ledger or a file has it, or it is lost,
\* and every other record stays where it is.
Recorded(q) ==
    /\ \A e \in Drains : file[e] \subseteq file'[e] /\ file'[e] \subseteq file[e] \cup {q}
    /\ lost \subseteq lost'
    /\ \A p \in Requests \ {q} : ledger'[p] = ledger[p]
    /\ ledger'[q] = outcome[q] \/ (ledger'[q] = ledger[q] /\ q \in file'["buffer"] \cup file'["pending"] \cup lost')

\* write_audit_record and append record.
LEMMA Records ==
    ASSUME Inv, NEW q \in Requests, outcome[q] # None, NEW d \in Drains,
           \/ write_audit_record(q) /\ UNCHANGED <<file, lost>>
           \/ append(d, q) /\ UNCHANGED ledger
    PROVE  Recorded(q) /\ (ledger'[q] # outcome[q] => q \in file'[d] \cup lost')
<1>1. Durable /\ Serving /\ (ledger[q] # None => ledger[q] = outcome[q])
    BY Zenon DEF Inv, Shape, Answered
<1>2. CASE write_audit_record(q) /\ UNCHANGED <<file, lost>>
    BY Zenon, <1>1, <1>2, Written DEF Recorded
<1>3. CASE append(d, q) /\ UNCHANGED ledger
    BY Zenon, <1>1, <1>3, Appended, Constants DEF Recorded
<1> QED
    BY Zenon, <1>2, <1>3

\* Recording q for a request that is answered in this step, or was before, keeps
\* everything that is known of the other records.
LEMMA RecordedKeeps ==
    ASSUME Inv, NEW q \in Requests, outcome[q] # None, Recorded(q), outcome' = outcome
    PROVE  /\ \A p \in Requests : ledger[p] = outcome[p] => ledger'[p] = outcome'[p]
           /\ \A p \in Requests : ledger'[p] # None => ledger'[p] = outcome'[p]
           /\ \A p \in Requests \ {q} : ledger'[p] # None <=> ledger[p] # None
           /\ stage'["buffer"] = stage["buffer"] /\ keep'["buffer"] = keep["buffer"] =>
                 \A p \in Requests : Safe(p) => Safe(p)'
<1>1. \A p \in Requests : ledger[p] = outcome[p] => ledger'[p] = outcome'[p]
    BY Zenon DEF Recorded
<1>2. \A p \in Requests : ledger'[p] # None => ledger'[p] = outcome'[p]
    BY Zenon DEF Recorded, Inv, Answered
<1>3. stage'["buffer"] = stage["buffer"] /\ keep'["buffer"] = keep["buffer"] =>
                 \A p \in Requests : Safe(p) => Safe(p)'
    BY Zenon, <1>1, Constants DEF Recorded, Safe
<1> QED
    BY Zenon, <1>1, <1>2, <1>3 DEF Recorded

\* A request whose record is made: persist_send_outcome or persist_or_buffer.
LEMMA PersistInv ==
    ASSUME Inv, NEW q \in Requests, AppendPending(q) \/ persist_or_buffer(q)
    PROVE  Answered' /\ Walks' /\ Accounted'
<1>0. Serving /\ Draining
    BY Zenon DEF Inv, Shape
<1>1. outcome[q] # None
    BY Zenon DEF AppendPending, persist_or_buffer, Inv, Answered
<1>2. Recorded(q) /\ outcome' = outcome /\ UNCHANGED <<stage, seen, todo, hand, keep>>
    <2>1. CASE AppendPending(q)
        BY Zenon, <1>1, <2>1, Records, Constants DEF AppendPending, drains
    <2>2. CASE persist_or_buffer(q)
        BY Zenon, <1>1, <2>2, Records, Constants DEF persist_or_buffer, drains
    <2> QED
        BY Zenon, <2>1, <2>2
<1>3. pc' = [pc EXCEPT ![q] = "done"]
    BY Zenon DEF AppendPending, persist_or_buffer, Goto
<1>4. pc'[q] = "done" /\ \A p \in Requests \ {q} : pc'[p] = pc[p]
    BY Zenon, <1>0, <1>3 DEF Serving
<1>5. \A p \in Requests \ {q} : Carried(p)' => Carried(p)
    BY Zenon, <1>2 DEF Carried, Recorded
<1>6. Answered'
    BY Zenon, <1>1, <1>2, <1>4, <1>5, RecordedKeeps DEF Inv, Answered
<1>7. \A p \in Requests : Safe(p) => Safe(p)'
    BY Zenon, <1>1, <1>2, RecordedKeeps
<1>8. \A p \in Requests : ledger[p] = outcome[p] => ledger'[p] = outcome'[p]
    BY Zenon, <1>1, <1>2, RecordedKeeps
<1>9. Walks'
    <2>1. \A d \in Drains : seen[d] \subseteq Requests /\ file[d] \subseteq file'[d]
        BY Zenon, <1>0, <1>2 DEF Draining, Recorded
    <2> QED
        BY Zenon, <1>2, <1>7, <1>8, <2>1, Constants DEF Inv, Walks
<1>10. Accounted'
    <2>1. \A p \in Requests \ {q} : pc'[p] = "done" =>
                \/ ledger'[p] = outcome'[p]
                \/ \E d \in Drains : p \in file'[d] \/ (stage'[d] = "fill" /\ p \in keep'[d])
                \/ p \in lost'
        BY Zenon, <1>2, <1>4, <1>8 DEF Inv, Accounted, Recorded
    <2>2. ledger'[q] = outcome'[q] \/ q \in lost' \/ \E d \in Drains : q \in file'[d]
        BY Zenon, <1>2, Constants DEF Recorded
    <2> QED
        BY Zenon, <2>1, <2>2 DEF Accounted
<1> QED
    BY Zenon, <1>6, <1>9, <1>10

\* What pending::drain does with one record before its write.
LEMMA PendingMoves ==
    ASSUME Draining, NEW q \in Requests, DrainPending(q)
    PROVE  /\ seen' = seen /\ q \in todo["pending"] /\ stage["pending"] = "walk"
           /\ todo'["buffer"] = todo["buffer"] /\ todo'["pending"] = todo["pending"] \ {q}
           /\ stage'["buffer"] = stage["buffer"] /\ keep'["buffer"] = keep["buffer"]
           /\ \/ hand' = q /\ keep' = keep
              \/ hand' = hand /\ keep'["pending"] = keep["pending"] \cup {q}
           /\ \A d \in Drains : todo'[d] \subseteq todo[d] /\ keep'[d] \subseteq keep[d] \cup {q}
<1>1. /\ seen' = seen /\ q \in todo["pending"] /\ stage["pending"] = "walk"
      /\ todo' = [todo EXCEPT !["pending"] = @ \ {q}]
    BY Zenon DEF DrainPending
<1>2. \/ stage' = [stage EXCEPT !["pending"] = "crypto"] /\ hand' = q /\ keep' = keep
      \/ keep' = [keep EXCEPT !["pending"] = @ \cup {q}] /\ stage' = stage /\ hand' = hand
    BY Zenon DEF DrainPending
<1>3. stage'["buffer"] = stage["buffer"] /\ keep'["buffer"] = keep["buffer"]
    BY Zenon, <1>2, Constants DEF Draining
<1>4. todo'["buffer"] = todo["buffer"] /\ todo'["pending"] = todo["pending"] \ {q}
    BY Zenon, <1>1, Constants DEF Draining
<1>5. \/ hand' = q /\ keep' = keep
      \/ hand' = hand /\ keep'["pending"] = keep["pending"] \cup {q}
    BY Zenon, <1>2, Constants DEF Draining
<1>6. \A d \in Drains : todo'[d] \subseteq todo[d] /\ keep'[d] \subseteq keep[d] \cup {q}
    BY Zenon, <1>3, <1>4, <1>5, Constants
<1> QED
    BY Zenon, <1>1, <1>3, <1>4, <1>5, <1>6

\* The start of a pass, and a record that is kept or goes on to the write.
LEMMA WalkInv ==
    ASSUME Inv, \/ \E d \in Drains : ReadFile(d)
                \/ \E q \in Requests : DrainPending(q)
    PROVE  Answered' /\ Walks' /\ Accounted'
<1>0. Draining /\ Durable
    BY Zenon DEF Inv, Shape
<1>1. UNCHANGED <<pc, outcome, file, ledger, lost>>
    BY Zenon DEF ReadFile, DrainPending, serving, durable
<1>2. \A p \in Requests : Carried(p)' => Carried(p)
    <2>1. ASSUME NEW d \in Drains, ReadFile(d), NEW p \in Requests, Carried(p)' PROVE Carried(p)
        BY Zenon, <1>0, <1>1, <2>1 DEF ReadFile, Carried, Draining
    <2>2. ASSUME NEW q \in Requests, DrainPending(q), NEW p \in Requests, Carried(p)' PROVE Carried(p)
        <3>1. seen' = seen /\ q \in todo["pending"] /\ (hand' = hand \/ hand' = q)
              /\ \A d \in Drains : todo'[d] \subseteq todo[d] /\ keep'[d] \subseteq keep[d] \cup {q}
            BY Zenon, <1>0, <2>2, PendingMoves
        <3>2. Carried(q)
            BY Zenon, <3>1, Constants DEF Carried
        <3>3. CASE p # q
            BY Zenon, <1>1, <2>2, <3>1, <3>3 DEF Carried
        <3> QED
            BY Zenon, <3>2, <3>3
    <2> QED
        BY Zenon, <2>1, <2>2
<1>3. Answered'
    BY Zenon, <1>1, <1>2 DEF Inv, Answered
<1>4. \A d \in Drains : stage[d] = "fill" => stage'[d] = "fill" /\ keep'[d] = keep[d]
    BY <1>0, Constants DEF ReadFile, DrainPending, Draining
<1>5. Accounted'
    BY Zenon, <1>1, <1>4 DEF Inv, Accounted
<1>6. \A p \in Requests : Safe(p) => Safe(p)'
    BY Zenon, <1>1, <1>4, Constants DEF Safe
<1>7. ASSUME NEW d \in Drains, ReadFile(d) PROVE Walks'
    <2>1. /\ seen'[d] = file[d] /\ todo'[d] = file[d] /\ stage'[d] = "walk" /\ hand' = hand /\ keep' = keep
          /\ \A e \in Drains \ {d} : seen'[e] = seen[e] /\ todo'[e] = todo[e] /\ stage'[e] = stage[e]
        BY Zenon, <1>0, <1>7 DEF ReadFile, Draining
    <2>2. \A e \in Drains : seen[e] \subseteq Requests
        BY Zenon, <1>0 DEF Draining
    <2>3. \A e \in Drains : stage'[e] \in {"walk", "crypto"} => seen'[e] \subseteq file'[e]
        BY Zenon, <1>1, <2>1 DEF Inv, Walks
    <2>4. stage'["buffer"] = "walk" => \A q \in seen'["buffer"] :
              q \in todo'["buffer"] \/ q \in keep'["buffer"] \/ ledger'[q] = outcome'[q]
        BY Zenon, <1>1, <2>1, Constants DEF Inv, Walks
    <2>5. stage'["pending"] \in {"walk", "crypto"} => \A q \in seen'["pending"] :
              q \in todo'["pending"] \/ q \in keep'["pending"] \/ hand' = q \/ Safe(q)'
        BY Zenon, <1>1, <1>6, <2>1, <2>2, Constants DEF Inv, Walks
    <2> QED
        BY Zenon, <2>3, <2>4, <2>5 DEF Walks
<1>8. ASSUME NEW q \in Requests, DrainPending(q) PROVE Walks'
    <2>1. /\ seen' = seen /\ stage["pending"] = "walk" /\ stage'["buffer"] = stage["buffer"]
          /\ todo'["buffer"] = todo["buffer"] /\ todo'["pending"] = todo["pending"] \ {q}
          /\ keep'["buffer"] = keep["buffer"] /\ keep["pending"] \subseteq keep'["pending"]
          /\ hand' = q \/ q \in keep'["pending"]
        <3>1. \/ hand' = q /\ keep' = keep
              \/ hand' = hand /\ keep'["pending"] = keep["pending"] \cup {q}
            BY Zenon, <1>0, <1>8, PendingMoves
        <3>2. /\ seen' = seen /\ stage["pending"] = "walk" /\ stage'["buffer"] = stage["buffer"]
              /\ todo'["buffer"] = todo["buffer"] /\ todo'["pending"] = todo["pending"] \ {q}
              /\ keep'["buffer"] = keep["buffer"]
            BY Zenon, <1>0, <1>8, PendingMoves
        <3>3. keep["pending"] \subseteq keep'["pending"] /\ (hand' = q \/ q \in keep'["pending"])
            BY Zenon, <3>1
        <3> QED
            BY Zenon, <3>2, <3>3
    <2>2. hand = None
        BY Zenon, <1>0, <2>1 DEF Draining
    <2>3. \A e \in Drains : seen[e] \subseteq Requests
        BY Zenon, <1>0 DEF Draining
    <2>4. \A d \in Drains : stage'[d] \in {"walk", "crypto"} => seen'[d] \subseteq file'[d]
        BY Zenon, <1>1, <2>1, Constants DEF Inv, Walks
    <2>5. \A p \in seen["pending"] : p \in todo["pending"] \/ p \in keep["pending"] \/ Safe(p)
        BY Zenon, <2>1, <2>2, <2>3, Constants DEF Inv, Walks
    <2>6. \A p \in seen'["pending"] :
              p \in todo'["pending"] \/ p \in keep'["pending"] \/ hand' = p \/ Safe(p)'
        BY Zenon, <1>6, <2>1, <2>3, <2>5, Constants
    <2>7. stage'["buffer"] = "walk" => \A p \in seen'["buffer"] :
              p \in todo'["buffer"] \/ p \in keep'["buffer"] \/ ledger'[p] = outcome'[p]
        BY Zenon, <1>1, <2>1 DEF Inv, Walks
    <2> QED
        BY Zenon, <2>4, <2>6, <2>7 DEF Walks
<1> QED
    BY Zenon, <1>3, <1>5, <1>7, <1>8

\* A buffered record is written or kept.
LEMMA DrainBufferInv ==
    ASSUME Inv, NEW q \in Requests, DrainBuffer(q)
    PROVE  Answered' /\ Walks' /\ Accounted'
<1>0. Draining /\ Durable /\ Serving
    BY Zenon DEF Inv, Shape
<1>1. /\ UNCHANGED <<pc, outcome, file, lost, stage, seen, hand>>
      /\ stage["buffer"] = "walk" /\ q \in todo["buffer"]
      /\ todo' = [todo EXCEPT !["buffer"] = @ \ {q}]
      /\ \/ write_audit_record(q) /\ UNCHANGED keep
         \/ keep' = [keep EXCEPT !["buffer"] = @ \cup {q}] /\ UNCHANGED ledger
    BY Zenon DEF DrainBuffer, serving
<1>2. pc[q] = "done" /\ outcome[q] # None /\ (ledger[q] # None => ledger[q] = outcome[q])
    BY Zenon, <1>1, Constants DEF Inv, Answered, Carried
<1>3. /\ \A p \in Requests \ {q} : ledger'[p] = ledger[p]
      /\ keep'["pending"] = keep["pending"] /\ keep["buffer"] \subseteq keep'["buffer"]
      /\ keep'["buffer"] \subseteq keep["buffer"] \cup {q}
      /\ ledger'[q] = outcome[q] \/ (q \in keep'["buffer"] /\ ledger'[q] = ledger[q])
      /\ todo'["pending"] = todo["pending"] /\ todo'["buffer"] = todo["buffer"] \ {q}
    <2>1. CASE write_audit_record(q) /\ UNCHANGED keep
        BY Zenon, <1>0, <1>1, <1>2, <2>1, Written, Constants DEF Draining
    <2>2. CASE keep' = [keep EXCEPT !["buffer"] = @ \cup {q}] /\ UNCHANGED ledger
        BY Zenon, <1>0, <1>1, <2>2, Constants DEF Draining
    <2> QED
        BY Zenon, <1>1, <2>1, <2>2
<1>4. \A p \in Requests \ {q} : Carried(p)' => Carried(p)
    BY Zenon, <1>1, <1>3, Constants DEF Carried
<1>5. Answered'
    BY Zenon, <1>1, <1>2, <1>3, <1>4 DEF Inv, Answered
<1>6. \A p \in Requests : ledger[p] = outcome[p] => ledger'[p] = outcome'[p]
    BY Zenon, <1>1, <1>3
<1>7. \A p \in Requests : Safe(p) => Safe(p)'
    BY Zenon, <1>1, <1>6 DEF Safe
<1>8. Walks'
    <2>1. \A e \in Drains : seen[e] \subseteq Requests
        BY Zenon, <1>0 DEF Draining
    <2> QED
        BY Zenon, <1>1, <1>2, <1>3, <1>6, <1>7, <2>1, Constants DEF Inv, Walks
<1>9. Accounted'
    <2>1. \A d \in Drains : stage[d] = "fill" => keep'[d] = keep[d]
        BY Zenon, <1>1, <1>3, Constants
    <2> QED
        BY Zenon, <1>1, <1>6, <2>1 DEF Inv, Accounted
<1> QED
    BY Zenon, <1>5, <1>8, <1>9

\* A record of the pending file is written, or appended to the other file.
LEMMA WriteRecoveredInv ==
    ASSUME Inv, WriteRecovered
    PROVE  Answered' /\ Walks' /\ Accounted'
<1>0. Draining /\ Durable /\ Serving
    BY Zenon DEF Inv, Shape
<1>11. PICK q \in Requests : q = hand
    BY Zenon, <1>0 DEF WriteRecovered, Draining
<1>1. /\ UNCHANGED <<pc, outcome, seen, todo, keep>> /\ hand' = None
      /\ stage["pending"] = "crypto" /\ stage'["pending"] = "walk"
      /\ stage'["buffer"] = stage["buffer"]
    BY Zenon, <1>0, Constants DEF WriteRecovered, serving, Draining
<1>2. pc[q] = "done" /\ outcome[q] # None
    BY Zenon, <1>11, Constants DEF Inv, Answered, Carried
<1>3. Recorded(q) /\ (ledger'[q] # outcome[q] => q \in file'["buffer"] \cup lost')
    BY Zenon, <1>11, <1>2, Records, Constants DEF WriteRecovered
<1>4. \A p \in Requests \ {q} : Carried(p)' => Carried(p)
    BY Zenon, <1>1, <1>3, Constants DEF Carried, Recorded
<1>5. Answered'
    BY Zenon, <1>1, <1>2, <1>3, <1>4, RecordedKeeps DEF Inv, Answered
<1>6. \A p \in Requests : Safe(p) => Safe(p)'
    BY Zenon, <1>1, <1>2, <1>3, RecordedKeeps
<1>7. \A p \in Requests : ledger[p] = outcome[p] => ledger'[p] = outcome'[p]
    BY Zenon, <1>1, <1>2, <1>3, RecordedKeeps
<1>8. Safe(q)'
    BY Zenon, <1>1, <1>3 DEF Safe
<1>9. Walks'
    <2>1. \A d \in Drains : seen[d] \subseteq Requests /\ file[d] \subseteq file'[d]
        BY Zenon, <1>0, <1>3 DEF Draining, Recorded
    <2>2. \A d \in Drains : stage'[d] \in {"walk", "crypto"} => seen'[d] \subseteq file'[d]
        BY Zenon, <1>1, <2>1, Constants DEF Inv, Walks
    <2>3. \A p \in seen'["pending"] : p \in todo'["pending"] \/ p \in keep'["pending"] \/ Safe(p)'
        <3>1. \A p \in seen["pending"] : p \in todo["pending"] \/ p \in keep["pending"] \/ p = q \/ Safe(p)
            BY Zenon, <1>1, <1>11 DEF Inv, Walks
        <3> QED
            BY Zenon, <1>1, <1>6, <1>8, <2>1, <3>1, Constants
    <2> QED
        BY Zenon, <1>1, <1>7, <2>1, <2>2, <2>3, Constants DEF Inv, Walks
<1>10. Accounted'
    <2>1. \A d \in Drains : file[d] \subseteq file'[d] /\ (stage[d] = "fill" => stage'[d] = "fill")
        BY Zenon, <1>1, <1>3, Constants DEF Recorded
    <2> QED
        BY Zenon, <1>1, <1>3, <1>7, <2>1 DEF Inv, Accounted, Recorded
<1> QED
    BY Zenon, <1>5, <1>9, <1>10

\* fs::write, first or second half: only the file of drain d and what that drain
\* holds change, and a record in them is on record elsewhere, kept, or lost.
Rewritten(d) ==
    /\ UNCHANGED <<pc, outcome, ledger, todo, hand>>
    /\ \A e \in Drains \ {d} :
          stage'[e] = stage[e] /\ seen'[e] = seen[e] /\ keep'[e] = keep[e] /\ file'[e] = file[e]
    /\ stage'[d] \in {"sleep", "fill"} /\ seen'[d] \subseteq seen[d]
    /\ keep'[d] \subseteq keep[d] /\ file'[d] \subseteq file[d] \cup keep[d]
    /\ lost \subseteq lost'
    /\ \A q \in Requests : q \in file[d] \/ (stage[d] = "fill" /\ q \in keep[d]) =>
          \/ ledger[q] = outcome[q] \/ q \in file'[d] \/ q \in lost'
          \/ stage'[d] = "fill" /\ q \in keep'[d]
          \/ d = "pending" /\ Safe(q)

\* Such a step keeps the invariant.
LEMMA RewrittenInv ==
    ASSUME Inv, NEW d \in Drains, Rewritten(d)
    PROVE  Answered' /\ Walks' /\ Accounted'
<1>0. Draining
    BY Zenon DEF Inv, Shape
<1>1. \A q \in Requests : Carried(q)' => Carried(q)
    BY Zenon DEF Rewritten, Carried
<1>2. Answered'
    BY Zenon, <1>1 DEF Inv, Answered, Rewritten
<1>3. \A q \in Requests : Safe(q) => Safe(q)'
    <2>1. CASE d = "buffer"
        BY Zenon, <2>1 DEF Safe, Rewritten
    <2>2. CASE d = "pending"
        BY Zenon, <2>2, Constants DEF Safe, Rewritten
    <2> QED
        BY Zenon, <2>1, <2>2, Constants
<1>4. Walks'
    <2>1. stage'[d] \notin {"walk", "crypto"} /\ \A e \in Drains : seen[e] \subseteq Requests
        BY Zenon, <1>0 DEF Rewritten, Draining
    <2>2. \A e \in Drains : stage'[e] \in {"walk", "crypto"} => seen'[e] \subseteq file'[e]
        BY Zenon, <2>1 DEF Inv, Walks, Rewritten
    <2>3. stage'["buffer"] = "walk" => \A q \in seen'["buffer"] :
              q \in todo'["buffer"] \/ q \in keep'["buffer"] \/ ledger'[q] = outcome'[q]
        BY Zenon, <2>1, Constants DEF Inv, Walks, Rewritten
    <2>4. stage'["pending"] \in {"walk", "crypto"} => \A q \in seen'["pending"] :
              q \in todo'["pending"] \/ q \in keep'["pending"] \/ hand' = q \/ Safe(q)'
        <3>1. CASE d = "pending"
            BY Zenon, <2>1, <3>1
        <3>2. CASE d # "pending"
            BY Zenon, <1>3, <2>1, <3>2, Constants DEF Inv, Walks, Rewritten
        <3> QED
            BY Zenon, <3>1, <3>2
    <2> QED
        BY Zenon, <2>2, <2>3, <2>4 DEF Walks
<1>5. Accounted'
    <2> SUFFICES ASSUME NEW q \in Requests, pc'[q] = "done"
                 PROVE  \/ ledger'[q] = outcome'[q] \/ q \in lost'
                        \/ \E e \in Drains : q \in file'[e] \/ (stage'[e] = "fill" /\ q \in keep'[e])
        BY Zenon DEF Accounted
    <2>1. Safe(q)' => \/ ledger'[q] = outcome'[q] \/ q \in lost'
                      \/ \E e \in Drains : q \in file'[e] \/ (stage'[e] = "fill" /\ q \in keep'[e])
        BY Zenon, Constants DEF Safe
    <2>2. \/ ledger[q] = outcome[q] \/ q \in lost
          \/ \E e \in Drains : q \in file[e] \/ (stage[e] = "fill" /\ q \in keep[e])
        BY Zenon DEF Inv, Accounted, Rewritten
    <2>3. CASE q \in file[d] \/ (stage[d] = "fill" /\ q \in keep[d])
        BY Zenon, <1>3, <2>1, <2>3 DEF Rewritten
    <2>4. CASE ~(q \in file[d] \/ (stage[d] = "fill" /\ q \in keep[d]))
        BY Zenon, <2>2, <2>4 DEF Rewritten
    <2> QED
        BY Zenon, <2>3, <2>4
<1> QED
    BY Zenon, <1>2, <1>4, <1>5

\* fs::write drops what it read only when that is on record, kept or in the other
\* file, and what was appended since is counted as lost.
LEMMA TruncateInv ==
    ASSUME Inv, NEW d \in Drains, Truncate(d)
    PROVE  Rewritten(d)
<1>0. Draining
    BY Zenon DEF Inv, Shape
<1>1. stage[d] = "walk" /\ todo[d] = {} /\ UNCHANGED <<pc, outcome, ledger, todo, hand>>
    BY Zenon DEF Truncate, serving
<1>2. \/ /\ file' = [file EXCEPT ![d] = {}] /\ lost' = lost \cup (file[d] \ seen[d])
         /\ stage' = [stage EXCEPT ![d] = "fill"] /\ keep' = keep
      \/ /\ stage' = [stage EXCEPT ![d] = "sleep"] /\ keep' = [keep EXCEPT ![d] = {}]
         /\ file' = file /\ lost' = lost
    BY Zenon DEF Truncate
<1>3. seen' = [seen EXCEPT ![d] = {}]
    BY Zenon DEF Truncate
<1>4. stage \in [Drains -> {"sleep", "walk", "crypto", "fill"}]
      /\ seen \in [Drains -> SUBSET Requests] /\ keep \in [Drains -> SUBSET Requests]
      /\ file \in [Drains -> SUBSET Requests]
    BY Zenon, <1>0 DEF Draining, Inv, Shape, Durable
<1>5. \A e \in Drains \ {d} :
          stage'[e] = stage[e] /\ seen'[e] = seen[e] /\ keep'[e] = keep[e] /\ file'[e] = file[e]
    BY Zenon, <1>2, <1>3, <1>4
<1>6. /\ stage'[d] \in {"sleep", "fill"} /\ seen'[d] \subseteq seen[d]
      /\ keep'[d] \subseteq keep[d] /\ file'[d] \subseteq file[d] \cup keep[d]
      /\ lost \subseteq lost'
    BY Zenon, <1>2, <1>3, <1>4
<1>7. \/ stage'[d] = "fill" /\ keep'[d] = keep[d] /\ lost' = lost \cup (file[d] \ seen[d])
      \/ file' = file
    BY Zenon, <1>2, <1>4
<1>8. \A q \in seen[d] : q \in keep[d] \/ ledger[q] = outcome[q] \/ (d = "pending" /\ Safe(q))
    <2>1. CASE d = "buffer"
        BY Zenon, <1>1, <2>1 DEF Inv, Walks
    <2>2. CASE d = "pending"
        <3>1. hand = None
            BY Zenon, <1>0, <1>1, <2>2 DEF Draining
        <3>2. \A q \in seen["pending"] :
                  q \in todo["pending"] \/ q \in keep["pending"] \/ hand = q \/ Safe(q)
            BY Zenon, <1>1, <2>2 DEF Inv, Walks
        <3>3. \A q \in seen["pending"] : q \in Requests /\ q \notin todo["pending"]
            BY Zenon, <1>1, <1>4, <2>2
        <3> QED
            BY Zenon, <2>2, <3>1, <3>2, <3>3, Constants
    <2> QED
        BY Zenon, <2>1, <2>2, Constants
<1>9. \A q \in Requests : q \in file[d] \/ (stage[d] = "fill" /\ q \in keep[d]) =>
          \/ ledger[q] = outcome[q] \/ q \in file'[d] \/ q \in lost'
          \/ stage'[d] = "fill" /\ q \in keep'[d]
          \/ d = "pending" /\ Safe(q)
    BY Zenon, <1>1, <1>7, <1>8
<1> QED
    BY Zenon, <1>1, <1>5, <1>6, <1>9 DEF Rewritten

\* The second half of fs::write puts the kept records back, or loses them.
LEMMA FillInv ==
    ASSUME Inv, NEW d \in Drains, Fill(d)
    PROVE  Rewritten(d)
<1>1. stage[d] = "fill" /\ UNCHANGED <<pc, outcome, ledger, seen, todo, hand>>
    BY Zenon DEF Fill, serving
<1>2. \/ /\ file' = [file EXCEPT ![d] = IF keep[d] = {} THEN @ ELSE keep[d]]
         /\ lost' = lost \cup (IF keep[d] = {} THEN {} ELSE file[d] \ keep[d])
      \/ lost' = lost \cup keep[d] /\ file' = file
    BY Zenon DEF Fill
<1>3. stage' = [stage EXCEPT ![d] = "sleep"] /\ keep' = [keep EXCEPT ![d] = {}]
    BY Zenon DEF Fill
<1>4. stage \in [Drains -> {"sleep", "walk", "crypto", "fill"}]
      /\ keep \in [Drains -> SUBSET Requests] /\ file \in [Drains -> SUBSET Requests]
    BY Zenon DEF Draining, Inv, Shape, Durable
<1>5. \A e \in Drains \ {d} :
          stage'[e] = stage[e] /\ seen'[e] = seen[e] /\ keep'[e] = keep[e] /\ file'[e] = file[e]
    BY Zenon, <1>1, <1>2, <1>3, <1>4
<1>6. stage'[d] = "sleep" /\ keep'[d] = {} /\ lost \subseteq lost'
    BY Zenon, <1>2, <1>3, <1>4
<1>7. \/ file'[d] = file[d] /\ (keep[d] = {} \/ keep[d] \subseteq lost')
      \/ file'[d] = keep[d] /\ file[d] \ keep[d] \subseteq lost'
    <2>1. CASE keep[d] = {}
        BY Zenon, <1>2, <1>4, <2>1
    <2>2. CASE keep[d] # {}
        BY Zenon, <1>2, <1>4, <2>2
    <2> QED
        BY Zenon, <2>1, <2>2
<1>8. \A q \in Requests : q \in file[d] \/ (stage[d] = "fill" /\ q \in keep[d]) =>
          q \in file'[d] \/ q \in lost'
    BY Zenon, <1>7
<1>9. file'[d] \subseteq file[d] \cup keep[d] /\ seen'[d] \subseteq seen[d] /\ keep'[d] \subseteq keep[d]
    BY Zenon, <1>1, <1>6, <1>7
<1> QED
    BY Zenon, <1>1, <1>5, <1>6, <1>8, <1>9 DEF Rewritten

\* A crash loses what was in flight and what fs::write had not put back, and no more.
LEMMA CrashInv ==
    ASSUME Inv, Crash
    PROVE  Answered' /\ Walks' /\ Accounted'
<1>1. UNCHANGED <<outcome, file, ledger>>
    BY Zenon DEF Crash, durable
<1>2. \A q \in Requests : pc'[q] = IF pc[q] \notin {"new", "done", "gone"} THEN "gone" ELSE pc[q]
    BY Zenon DEF Crash, InFlight
<1>3. \A q \in Requests : (pc'[q] = "done" <=> pc[q] = "done")
          /\ pc'[q] \notin {"crypto", "pend", "write"}
    BY Zenon, <1>2
<1>4. /\ \A d \in Drains : stage'[d] = "sleep" /\ seen'[d] = {} /\ todo'[d] = {} /\ keep'[d] = {}
      /\ hand' = None
    BY Zenon DEF Crash
<1>5. \A q \in Requests : Carried(q)' => Carried(q)
    BY Zenon, <1>1, <1>4, Constants DEF Carried
<1>6. Answered'
    BY Zenon, <1>1, <1>3, <1>5 DEF Inv, Answered
<1>7. Walks'
    BY Zenon, <1>4, Constants DEF Walks
<1>8. lost \subseteq lost' /\ \A d \in Drains : stage[d] = "fill" => keep[d] \subseteq lost'
    BY Zenon DEF Crash
<1>9. Accounted'
    BY Zenon, <1>1, <1>3, <1>8 DEF Inv, Accounted
<1> QED
    BY Zenon, <1>6, <1>7, <1>9

\* Every step keeps the invariant.
LEMMA InvStep == Inv /\ [Next]_vars => Inv'
<1> SUFFICES ASSUME Inv, [Next]_vars PROVE Inv'
    OBVIOUS
<1>0. Shape'
    BY Zenon, MemoryStep, ServingStep, DrainingStep, DurableStep DEF Inv, Shape
<1> SUFFICES Answered' /\ Walks' /\ Accounted'
    BY Zenon, <1>0 DEF Inv
<1>1. CASE Beside
    <2>1. UNCHANGED <<serving, drains, durable, lost>>
        BY Zenon, <1>1, BesideOnly
    <2>2. UNCHANGED <<pc, outcome, stage, seen, todo, hand, keep, file, ledger, lost>>
        BY Zenon, <2>1 DEF serving, drains, durable
    <2> QED
        BY Zenon, <2>2 DEF Inv, Answered, Walks, Accounted, Carried, Safe
<1>2. CASE Crash
    BY Zenon, <1>2, CrashInv
<1>3. ASSUME NEW q \in Requests, Serve(q) PROVE Answered' /\ Walks' /\ Accounted'
    BY Zenon, <1>3, ServeInv, PersistInv DEF Serve
<1>4. ASSUME NEW d \in Drains, Drain(d) PROVE Answered' /\ Walks' /\ Accounted'
    <2>1. CASE Truncate(d) \/ Fill(d)
        BY Zenon, <2>1, TruncateInv, FillInv, RewrittenInv
    <2>2. CASE ReadFile(d) \/ (\E q \in Requests : DrainPending(q))
        BY Zenon, <2>2, WalkInv
    <2>3. CASE WriteRecovered
        BY Zenon, <2>3, WriteRecoveredInv
    <2>4. ASSUME NEW q \in Requests, DrainBuffer(q) PROVE Answered' /\ Walks' /\ Accounted'
        BY Zenon, <2>4, DrainBufferInv
    <2> QED
        BY Zenon, <1>4, <2>1, <2>2, <2>3, <2>4 DEF Drain
<1> QED
    BY Zenon, <1>1, <1>2, <1>3, <1>4, Cases

\* Every answered request is on record with the status it was answered with, or
\* its record is in a file or about to be, or it fell to one of the causes of loss.
THEOREM AccountedAlways == Spec => []Accounted
<1>1. Inv => Accounted
    BY DEF Inv
<1> QED
    BY InitInv, InvStep, <1>1, PTL DEF Spec

=============================================================================
