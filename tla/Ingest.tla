------------------------------- MODULE Ingest -------------------------------
(***************************************************************************)
(* POST /v1/comms in one tenant's database: concurrent calls of            *)
(* create_comms, in any number of messgr-ingest processes, from the        *)
(* idempotency pre-check to insert_transactional, with customer and        *)
(* address resolution, the customer's data encryption key (DEK) and the    *)
(* template lookup in between; and what runs beside them: the nightly      *)
(* idempotency sweep, the batch that creates DEKs, template approval, and  *)
(* the expiry of cached keys.                                              *)
(*                                                                         *)
(* A step ends at each statement that is not inside a transaction; a       *)
(* transaction is one step, and one that loses a uniqueness race is rolled *)
(* back.  The names minted by a call (customer, address, request, DEK) are *)
(* fresh UUIDs in the code and are named after the call here.              *)
(***************************************************************************)
EXTENDS Naturals, FiniteSets

CONSTANTS
    Calls,          \* HTTP calls
    Key,            \* call: its Idempotency-Key (of one producer)
    Processes,      \* messgr-ingest processes
    At,             \* call: the process that serves it
    Keys,           \* idempotency keys
    Shapes,         \* forms of input to choose from: "explicit", "external", "address"
    Known,          \* the customer id an explicit call names, aliases expanded
    MaxErrors,      \* bound on failing statements and Vault calls
    MaxSweeps,      \* bound on sweeps that delete a key
    MaxExpiries,    \* bound on expiries of a cached DEK
    None

Customers == Calls \cup {Known}         \* minted by a call, or named by the caller
Deks == (Calls \cup {None}) \X Customers  \* minted by a call, or (None) by the batch

ASSUME IngestAssumption ==
    /\ IsFiniteSet(Calls)
    /\ Key \in [Calls -> Keys] /\ At \in [Calls -> Processes]
    /\ Shapes \subseteq {"explicit", "external", "address"}
    /\ Known \notin Calls /\ None \notin Calls \cup {Known} \cup Deks
    /\ {MaxErrors, MaxSweeps, MaxExpiries} \subseteq Nat

VARIABLES
    shape,      \* key: how its calls name the customer
    \* tables
    customers,  \* customer
    external,   \* customer_external_id: the customer of the one external id
    addresses,  \* customer_address, of the one destination all calls share
    deks,       \* customer_dek
    idem,       \* idempotency: the request of a key
    old,        \* keys whose row is past its expires_at
    ledger,     \* comms_request, with an outbox row each
    template,   \* the template is approved
    cache,      \* dek_cache of each process
    \* the calls
    pc,         \* the next step of a call
    who,        \* resolved customer
    where,      \* resolved address
    dek,        \* DEK that get_or_create_dek returned
    reply,      \* the request id a 200 or 201 carries
    used,       \* errors, sweeps and expiries so far
    swept       \* key: sweeps that deleted it (auxiliary)

tables == <<customers, external, addresses, deks, idem, old, ledger, template>>
calls  == <<pc, who, where, dek, reply>>
vars   == <<shape, tables, cache, calls, used, swept>>

Steps == {"new", "switch", "find", "mint", "again", "address", "place", "winner", "template",
          "dek", "newdek", "olddek", "write", "lost", "done", "panic", "gone"}

TypeOK ==
    /\ shape \in [Keys -> Shapes]
    /\ customers \subseteq Customers
    /\ external \in Customers \cup {None}
    /\ addresses \subseteq [id : Calls, customer : Customers, key : Deks]
    /\ deks \in [Customers -> Deks \cup {None}]
    /\ idem \in [Keys -> Calls \cup {None}] /\ old \subseteq Keys
    /\ ledger \subseteq [id : Calls, customer : Customers, address : Calls, key : Deks]
    /\ template \in BOOLEAN
    /\ cache \in [Processes -> [Customers -> Deks \cup {None}]]
    /\ pc \in [Calls -> Steps]
    /\ who \in [Calls -> Customers \cup {None}]
    /\ where \in [Calls -> Calls \cup {None}]
    /\ dek \in [Calls -> Deks \cup {None}]
    /\ reply \in [Calls -> Calls \cup {None}]
    /\ used \in [{"error", "sweep", "expiry"} -> Nat] /\ swept \in [Keys -> Nat]
    /\ \A c \in Calls : pc[c] \in {"dek", "newdek", "olddek", "write"} => who[c] # None
    /\ \A c \in Calls : pc[c] = "write" => dek[c] # None /\ where[c] # None

Init ==
    /\ shape \in [Keys -> Shapes]
    /\ customers = {} /\ external = None /\ addresses = {}
    /\ deks = [u \in Customers |-> None]
    /\ idem = [k \in Keys |-> None] /\ old = {}
    /\ ledger = {} /\ template = FALSE
    /\ cache = [p \in Processes |-> [u \in Customers |-> None]]
    /\ pc = [c \in Calls |-> "new"]
    /\ who = [c \in Calls |-> None] /\ where = [c \in Calls |-> None]
    /\ dek = [c \in Calls |-> None] /\ reply = [c \in Calls |-> None]
    /\ used = [k \in {"error", "sweep", "expiry"} |-> 0]
    /\ swept = [k \in Keys |-> 0]

Goto(c, p) == pc' = [pc EXCEPT ![c] = p]

Input(c) == shape[Key[c]]

\* The tables of customers and addresses; a destination is one customer's only.
insert_customer(u) == customers' = customers \cup {u}

insert_address(a, u, key) == addresses' = addresses \cup {[id |-> a, customer |-> u, key |-> key]}

find_active_address_by_hmac == addresses

find_active_address_for_customer(u) == {a \in addresses : a.customer = u}

\* insert_if_absent of customer_dek; the caller has seen that there is none.
insert_dek(u, key) == deks' = [deks EXCEPT ![u] = key]

-----------------------------------------------------------------------------
(* The first checks of create_comms.                                       *)

\* find_idempotent_reply: a known key is answered 200 at once.
PreCheck(c) ==
    /\ pc[c] = "new"
    /\ IF idem[Key[c]] # None
       THEN Goto(c, "done") /\ reply' = [reply EXCEPT ![c] = idem[Key[c]]]
       ELSE Goto(c, "switch") /\ UNCHANGED reply
    /\ UNCHANGED <<shape, tables, cache, who, where, dek, used, swept>>

\* blocking_scope: whether a switch covers the call is modelled in KillSwitches.
SwitchCheck(c) ==
    /\ pc[c] = "switch"
    /\ Goto(c, "find") \/ Goto(c, "done")
    /\ UNCHANGED <<shape, tables, cache, who, where, dek, reply, used, swept>>

-----------------------------------------------------------------------------
(* resolve.                                                                *)

Resolved(c, u, a) ==
    /\ who' = [who EXCEPT ![c] = u]
    /\ where' = [where EXCEPT ![c] = a]

\* find_by_id, find_customer_by_external_id or find_active_address_by_hmac,
\* whichever the input calls for; all calls have the same destination.
FindCustomer(c) ==
    /\ pc[c] = "find"
    /\ \/ /\ Input(c) = "explicit"
          /\ Resolved(c, Known, None)
          /\ Goto(c, IF Known \in customers THEN "address" ELSE "mint")
       \/ /\ Input(c) = "external"
          /\ Resolved(c, external, None)
          /\ Goto(c, IF external # None THEN "address" ELSE "mint")
       \/ /\ Input(c) = "address" /\ addresses = {}
          /\ Goto(c, "mint")
          /\ UNCHANGED <<who, where>>
       \/ /\ Input(c) = "address"
          /\ \E a \in find_active_address_by_hmac : Resolved(c, a.customer, a.id)
          /\ Goto(c, "template")
    /\ UNCHANGED <<shape, tables, cache, dek, reply, used, swept>>

\* mint_provisional_customer: ON CONFLICT (id) DO NOTHING.
MintExplicit(c) ==
    /\ pc[c] = "mint" /\ Input(c) = "explicit"
    /\ insert_customer(Known)
    /\ Goto(c, "address")
    /\ UNCHANGED <<shape, external, addresses, deks, idem, old, ledger, template, cache,
                   who, where, dek, reply, used, swept>>

\* Broken variant: the customer row is committed before the external id.
MintExternalFirst(c) ==
    /\ pc[c] = "mint" /\ Input(c) = "external"
    /\ insert_customer(c)
    /\ IF external = None
       THEN /\ external' = c
            /\ who' = [who EXCEPT ![c] = c] /\ Goto(c, "address")
       ELSE Goto(c, "again") /\ UNCHANGED <<external, who>>
    /\ UNCHANGED <<shape, addresses, deks, idem, old, ledger, template, cache,
                   where, dek, reply, used, swept>>

\* mint_provisional_customer_with_external_id; a lost race leaves no customer.
MintExternal(c) ==
    /\ pc[c] = "mint" /\ Input(c) = "external"
    /\ IF external = None
       THEN /\ insert_customer(c) /\ external' = c
            /\ who' = [who EXCEPT ![c] = c] /\ Goto(c, "address")
       ELSE Goto(c, "again") /\ UNCHANGED <<customers, external, who>>
    /\ UNCHANGED <<shape, addresses, deks, idem, old, ledger, template, cache,
                   where, dek, reply, used, swept>>

\* mint_provisional_customer_and_address: customer, address and DEK in one
\* transaction, under a DEK created for it alone.
MintAddress(c) ==
    /\ pc[c] = "mint" /\ Input(c) = "address"
    /\ IF addresses = {}
       THEN /\ insert_customer(c) /\ insert_address(c, c, <<c, c>>)
            /\ insert_dek(c, <<c, c>>)
            /\ cache' = [cache EXCEPT ![At[c]][c] = <<c, c>>]
            /\ Resolved(c, c, c) /\ Goto(c, "template")
       ELSE Goto(c, "again") /\ UNCHANGED <<customers, addresses, deks, cache, who, where>>
    /\ UNCHANGED <<shape, external, idem, old, ledger, template, dek, reply, used, swept>>

\* The winner of a lost mint; `expect` panics if there is none.
FindWinner(c) ==
    /\ pc[c] = "again"
    /\ \/ /\ Input(c) = "external" /\ external # None
          /\ who' = [who EXCEPT ![c] = external] /\ UNCHANGED where
          /\ Goto(c, "address")
       \/ /\ Input(c) = "address"
          /\ \E a \in find_active_address_by_hmac : Resolved(c, a.customer, a.id)
          /\ Goto(c, "template")
       \/ /\ \/ Input(c) = "external" /\ external = None
             \/ Input(c) = "address" /\ addresses = {}
          /\ Goto(c, "panic") /\ UNCHANGED <<who, where>>
    /\ UNCHANGED <<shape, tables, cache, dek, reply, used, swept>>

\* find_active_address_for_customer, of the explicit and external inputs.
FindAddress(c) ==
    /\ pc[c] = "address"
    /\ \/ /\ \E a \in find_active_address_for_customer(who[c]) : Resolved(c, who[c], a.id)
          /\ Goto(c, "template")
       \/ /\ find_active_address_for_customer(who[c]) = {}
          /\ Goto(c, "dek") /\ UNCHANGED <<who, where>>
    /\ UNCHANGED <<shape, tables, cache, dek, reply, used, swept>>

\* The transaction of next_rank_for_update and insert_address, under the DEK.
PlaceAddress(c) ==
    /\ pc[c] = "place"
    /\ IF addresses = {}
       THEN /\ insert_address(c, who[c], dek[c])
            /\ where' = [where EXCEPT ![c] = c] /\ Goto(c, "template")
       ELSE Goto(c, "winner") /\ UNCHANGED <<addresses, where>>
    /\ UNCHANGED <<shape, customers, external, deks, idem, old, ledger, template, cache,
                   who, dek, reply, used, swept>>

\* Broken variant: the call keeps its own customer and takes the winner's address.
FindHolderAddressOnly(c) ==
    /\ pc[c] = "winner"
    /\ \/ (\E a \in addresses : Resolved(c, who[c], a.id)) /\ Goto(c, "template")
       \/ addresses = {} /\ Goto(c, "panic") /\ UNCHANGED <<who, where>>
    /\ UNCHANGED <<shape, tables, cache, dek, reply, used, swept>>

\* Broken variant: the winner is looked for among the customer's own addresses.
FindHolderOfCustomer(c) ==
    /\ pc[c] = "winner"
    /\ LET own == find_active_address_for_customer(who[c])
       IN  \/ (\E a \in own : Resolved(c, who[c], a.id)) /\ Goto(c, "template")
           \/ own = {} /\ Goto(c, "panic") /\ UNCHANGED <<who, where>>
    /\ UNCHANGED <<shape, tables, cache, dek, reply, used, swept>>

\* The destination belongs to someone already: the call resolves to them.
FindHolder(c) ==
    /\ pc[c] = "winner"
    /\ \/ /\ \E a \in find_active_address_by_hmac : Resolved(c, a.customer, a.id)
          /\ Goto(c, "template")
       \/ addresses = {} /\ Goto(c, "panic") /\ UNCHANGED <<who, where>>
    /\ UNCHANGED <<shape, tables, cache, dek, reply, used, swept>>

\* template_repo::find: an unknown template is answered 404.
FindTemplate(c) ==
    /\ pc[c] = "template"
    /\ Goto(c, IF template THEN "dek" ELSE "done")
    /\ UNCHANGED <<shape, tables, cache, who, where, dek, reply, used, swept>>

-----------------------------------------------------------------------------
(* get_or_create_dek, for the address of a call and then for its payload.  *)

HaveDek(c, key) ==
    /\ dek' = [dek EXCEPT ![c] = key]
    /\ cache' = [cache EXCEPT ![At[c]][who[c]] = key]
    /\ Goto(c, IF where[c] = None THEN "place" ELSE "write")

\* The cache, then the stored row.
FindDek(c) ==
    /\ pc[c] = "dek"
    /\ LET key == IF cache[At[c]][who[c]] # None THEN cache[At[c]][who[c]] ELSE deks[who[c]]
       IN  \/ key # None /\ HaveDek(c, key)
           \/ key = None /\ Goto(c, "newdek") /\ UNCHANGED <<dek, cache>>
    /\ UNCHANGED <<shape, tables, who, where, reply, used, swept>>

\* Broken variant: the call uses the DEK it created whether or not it was stored.
CreateDekRegardless(c) ==
    /\ pc[c] = "newdek"
    /\ deks' = [deks EXCEPT ![who[c]] = IF @ = None THEN <<c, who[c]>> ELSE @]
    /\ HaveDek(c, <<c, who[c]>>)
    /\ UNCHANGED <<shape, customers, external, addresses, idem, old, ledger, template,
                   who, where, reply, used, swept>>

\* create_dek in Vault and insert_if_absent.
CreateDek(c) ==
    /\ pc[c] = "newdek"
    /\ IF deks[who[c]] = None
       THEN insert_dek(who[c], <<c, who[c]>>) /\ HaveDek(c, <<c, who[c]>>)
       ELSE Goto(c, "olddek") /\ UNCHANGED <<deks, dek, cache>>
    /\ UNCHANGED <<shape, customers, external, addresses, idem, old, ledger, template,
                   who, where, reply, used, swept>>

\* The winner's row, after a lost insert.
ReadWinnersDek(c) ==
    /\ pc[c] = "olddek"
    /\ IF deks[who[c]] # None THEN HaveDek(c, deks[who[c]])
       ELSE Goto(c, "panic") /\ UNCHANGED <<dek, cache>>
    /\ UNCHANGED <<shape, tables, who, where, reply, used, swept>>

\* pre_provision_deks, one customer: any id the operator can know of.
PreProvision(u) ==
    /\ u \in customers \cup {Known}
    /\ deks[u] = None
    /\ insert_dek(u, <<None, u>>)
    /\ UNCHANGED <<shape, customers, external, addresses, idem, old, ledger, template,
                   cache, calls, used, swept>>

\* KeyCache: an entry passes its TTL or is the least recently used of a full cache.
ForgetDek(p, u) ==
    /\ cache[p][u] # None
    /\ used["expiry"] < MaxExpiries /\ used' = [used EXCEPT !["expiry"] = @ + 1]
    /\ cache' = [cache EXCEPT ![p][u] = None]
    /\ UNCHANGED <<shape, tables, calls, swept>>

-----------------------------------------------------------------------------
(* insert_transactional.                                                   *)

Row(c) == [id |-> c, customer |-> who[c], address |-> where[c], key |-> dek[c]]

\* Broken variant: the pre-check is trusted and the key simply written.
insert_transactional_unclaimed(c) ==
    /\ pc[c] = "write"
    /\ idem' = [idem EXCEPT ![Key[c]] = c] /\ old' = old \ {Key[c]}
    /\ ledger' = ledger \cup {Row(c)}
    /\ reply' = [reply EXCEPT ![c] = c] /\ Goto(c, "done")
    /\ UNCHANGED <<shape, customers, external, addresses, deks, template, cache,
                   who, where, dek, used, swept>>

\* Broken variant: the loser answers with the id it made up itself.
insert_transactional_own_id(c) ==
    /\ pc[c] = "write"
    /\ IF idem[Key[c]] = None
       THEN /\ idem' = [idem EXCEPT ![Key[c]] = c] /\ old' = old \ {Key[c]}
            /\ ledger' = ledger \cup {Row(c)}
       ELSE UNCHANGED <<idem, old, ledger>>
    /\ reply' = [reply EXCEPT ![c] = c] /\ Goto(c, "done")
    /\ UNCHANGED <<shape, customers, external, addresses, deks, template, cache,
                   who, where, dek, used, swept>>

\* The claim on the key, the ledger row and the outbox row, or a rollback.
insert_transactional(c) ==
    /\ pc[c] = "write"
    /\ IF idem[Key[c]] = None
       THEN /\ idem' = [idem EXCEPT ![Key[c]] = c] /\ old' = old \ {Key[c]}
            /\ ledger' = ledger \cup {Row(c)}
            /\ reply' = [reply EXCEPT ![c] = c] /\ Goto(c, "done")
       ELSE Goto(c, "lost") /\ UNCHANGED <<idem, old, ledger, reply>>
    /\ UNCHANGED <<shape, customers, external, addresses, deks, template, cache,
                   who, where, dek, used, swept>>

\* The reply of the claim that won, read outside the transaction; when the sweep
\* was faster, `expect` panics and the connection is closed.
ReadClaim(c) ==
    /\ pc[c] = "lost"
    /\ reply' = [reply EXCEPT ![c] = idem[Key[c]]]
    /\ Goto(c, IF idem[Key[c]] # None THEN "done" ELSE "gone")
    /\ UNCHANGED <<shape, tables, cache, who, where, dek, used, swept>>

\* Thirty days pass, and the nightly sweep deletes what is past them.
Age(k) ==
    /\ idem[k] # None /\ k \notin old /\ used["sweep"] < MaxSweeps
    /\ old' = old \cup {k}
    /\ UNCHANGED <<shape, customers, external, addresses, deks, idem, ledger, template,
                   cache, calls, used, swept>>

Sweep ==
    /\ old # {}
    /\ used["sweep"] < MaxSweeps /\ used' = [used EXCEPT !["sweep"] = @ + 1]
    /\ idem' = [k \in Keys |-> IF k \in old THEN None ELSE idem[k]]
    /\ swept' = [k \in Keys |-> IF k \in old THEN swept[k] + 1 ELSE swept[k]]
    /\ old' = {}
    /\ UNCHANGED <<shape, customers, external, addresses, deks, ledger, template, cache, calls>>

\* approve_template; a template that is approved is never replaced.
approve_template ==
    /\ ~template /\ template' = TRUE
    /\ UNCHANGED <<shape, customers, external, addresses, deks, idem, old, ledger, cache,
                   calls, used, swept>>

\* A failing statement, Vault call or process: the call ends with a 5xx, and what
\* its earlier steps committed stays.
Fail(c) ==
    /\ pc[c] \notin {"done", "panic", "gone"}
    /\ used["error"] < MaxErrors /\ used' = [used EXCEPT !["error"] = @ + 1]
    /\ Goto(c, "done")
    /\ UNCHANGED <<shape, tables, cache, who, where, dek, reply, swept>>

create_comms(c) ==
    \/ PreCheck(c) \/ SwitchCheck(c) \/ FindCustomer(c) \/ MintExplicit(c) \/ MintExternal(c)
    \/ MintAddress(c) \/ FindWinner(c) \/ FindAddress(c) \/ PlaceAddress(c) \/ FindHolder(c)
    \/ FindTemplate(c) \/ FindDek(c) \/ CreateDek(c) \/ ReadWinnersDek(c)
    \/ insert_transactional(c) \/ ReadClaim(c)

Next ==
    \/ \E c \in Calls : create_comms(c) \/ Fail(c)
    \/ \E u \in Customers : PreProvision(u)
    \/ \E p \in Processes, u \in Customers : ForgetDek(p, u)
    \/ \E k \in Keys : Age(k)
    \/ Sweep \/ approve_template

Spec == Init /\ [][Next]_vars

-----------------------------------------------------------------------------
(* Properties.                                                             *)

\* Calls with one idempotency key make one request between two sweeps of the
\* key, however many run at once and whatever the pre-check saw.
OneRequestPerKey ==
    \A k \in Keys : Cardinality({l \in ledger : Key[l.id] = k}) <= 1 + swept[k]

\* A 200 or 201 names a request of the caller's own key that is in the ledger.
RepliesAreReal ==
    \A c \in Calls : reply[c] # None =>
        \E l \in ledger : l.id = reply[c] /\ Key[l.id] = Key[c]

Requested == {l.id : l \in ledger}

Atomic == INSTANCE Idempotency WITH claim <- idem, made <- Requested, answer <- reply

\* Seen by its callers, create_comms is one atomic step: the pre-check, the claim
\* inside insert_transactional and the read after a lost one, of any number of
\* calls and processes at once and with the sweep beside them, make and answer
\* exactly what Idempotency allows.
ImplementsIdempotency == Atomic!Spec

\* What is stored can be decrypted: every address and payload is encrypted under
\* the DEK that is stored for its customer, never under one that lost the race
\* of insert_if_absent and exists nowhere.
Decryptable ==
    /\ \A a \in addresses : a.key = deks[a.customer]
    /\ \A l \in ledger : l.key = deks[l.customer]

\* A request goes to an address of its own customer, also when the destination
\* turned out to be someone else's.
AddressedToItsCustomer ==
    \A l \in ledger : \E a \in addresses : a.id = l.address /\ a.customer = l.customer

\* No lost race leaves a customer nobody can find: a minted one has the external
\* id or an address.
NoStrayCustomers ==
    \A u \in customers \cap Calls : external = u \/ \E a \in addresses : a.customer = u

\* The winner that a loser reads back is there: none of the `expect`s of resolve
\* and get_or_create_dek panics, and that of insert_transactional only after a
\* sweep deleted the claim.
LosersFindTheWinner ==
    \A c \in Calls : pc[c] # "panic" /\ (pc[c] = "gone" => swept[Key[c]] > 0)
=============================================================================
