---------------------------- MODULE IngestProofs ----------------------------
(***************************************************************************)
(* Proofs about Ingest, for every number of calls, keys and processes and  *)
(* every bound on errors, sweeps and expiries.                             *)
(***************************************************************************)
EXTENDS Ingest, FiniteSetTheorems, TLAPS

\* The types of the tables and caches, and of what the calls hold.
Tables ==
    /\ customers \subseteq Customers
    /\ external \in Customers \cup {None}
    /\ addresses \subseteq [id : Calls, customer : Customers, key : Deks]
    /\ deks \in [Customers -> Deks \cup {None}]
    /\ idem \in [Keys -> Calls \cup {None}] /\ old \subseteq Keys
    /\ ledger \subseteq [id : Calls, customer : Customers, address : Calls, key : Deks]
    /\ template \in BOOLEAN
    /\ cache \in [Processes -> [Customers -> Deks \cup {None}]]

Locals ==
    /\ shape \in [Keys -> Shapes]
    /\ pc \in [Calls -> Steps]
    /\ who \in [Calls -> Customers \cup {None}]
    /\ where \in [Calls -> Calls \cup {None}]
    /\ dek \in [Calls -> Deks \cup {None}]
    /\ reply \in [Calls -> Calls \cup {None}]

Counts ==
    /\ used \in [{"error", "sweep", "expiry"} -> Nat]
    /\ swept \in [Keys -> Nat]

\* Where a call is decides what it has resolved.
Flow ==
    \A c \in Calls :
        /\ pc[c] \in {"new", "switch", "find", "mint"} => c \notin customers
        /\ pc[c] \in {"new", "switch", "find", "mint", "again", "address", "place", "winner"}
              => where[c] = None
        /\ pc[c] \in {"address", "place", "winner", "template", "dek", "newdek", "olddek", "write"}
              => who[c] # None
        /\ pc[c] \in {"place", "write"} => dek[c] # None
        /\ pc[c] \in {"template", "write"} => where[c] # None
        /\ pc[c] = "mint" /\ Input(c) = "explicit" => who[c] # None
        /\ who[c] # None => who[c] \in customers \cup {Known}

\* What the lookups find is a customer.
Found ==
    /\ external # None => external \in customers
    /\ \A a \in addresses : a.customer \in customers \cup {Known}

Shape == Tables /\ Locals /\ Counts /\ Flow /\ Found

\* What IngestAssumption says of the constants, in the form the steps use it.
LEMMA Constants ==
    /\ Key \in [Calls -> Keys] /\ At \in [Calls -> Processes]
    /\ Known \notin Calls /\ None \notin Customers /\ None \notin Calls /\ None \notin Deks
    /\ Calls \subseteq Customers /\ Known \in Customers
    /\ \A c \in Calls \cup {None}, u \in Customers : <<c, u>> \in Deks
BY Zenon, IngestAssumption DEF Customers, Deks

\* No call has started and every table is empty.
LEMMA InitShape == Init => Shape
<1> SUFFICES ASSUME Init PROVE Shape
    OBVIOUS
<1>1. Tables
    <2>1. /\ deks = [u \in Customers |-> None] /\ deks \in [Customers -> Deks \cup {None}]
          /\ cache \in [Processes -> [Customers -> Deks \cup {None}]]
        BY Zenon DEF Init
    <2> QED
        BY ZenonT(60), <2>1 DEF Init, Tables
<1>2. Locals
    BY Zenon DEF Init, Locals, Steps
<1>3. Counts
    BY Zenon DEF Init, Counts
<1>4. Flow /\ Found
    BY Zenon, Constants DEF Init, Flow, Found
<1> QED
    BY Zenon, <1>1, <1>2, <1>3, <1>4 DEF Shape

\* The columns that resolve and the idempotency pre-check read.
LEMMA Columns ==
    ASSUME Tables
    PROVE  /\ external \in Customers \cup {None} /\ idem \in [Keys -> Calls \cup {None}]
           /\ \A a \in addresses : a.id \in Calls /\ a.customer \in Customers /\ a.key \in Deks
BY Zenon DEF Tables

\* The stored and the cached DEKs.
LEMMA KeyColumns ==
    ASSUME Tables
    PROVE  /\ deks \in [Customers -> Deks \cup {None}]
           /\ cache \in [Processes -> [Customers -> Deks \cup {None}]]
BY Zenon DEF Tables

\* The steps of create_comms, one by one.
LEMMA Labels ==
    {"new", "switch", "find", "mint", "again", "address", "place", "winner", "template",
     "dek", "newdek", "olddek", "write", "lost", "done", "panic", "gone"} \subseteq Steps
BY Zenon DEF Steps

\* The steps of a call that only read the tables.
Reads(c) ==
    \/ PreCheck(c) \/ SwitchCheck(c) \/ FindCustomer(c) \/ FindWinner(c) \/ FindAddress(c)
    \/ FindHolder(c) \/ FindTemplate(c) \/ ReadClaim(c) \/ Fail(c)

Deking(c) == FindDek(c) \/ CreateDek(c) \/ ReadWinnersDek(c)

\* A step of create_comms that looks something up leaves every table and cache alone.
LEMMA ReadsOnly == \A c \in Calls : Reads(c) => UNCHANGED <<shape, tables, cache, dek, swept>>
BY Zenon DEF Reads, PreCheck, SwitchCheck, FindCustomer, FindWinner, FindAddress, FindHolder,
       FindTemplate, ReadClaim, Fail, Resolved, Goto

\* What runs beside the calls touches neither them nor the rows they made.
Beside ==
    \/ \E u \in Customers : PreProvision(u)
    \/ \E p \in Processes, u \in Customers : ForgetDek(p, u)
    \/ \E k \in Keys : Age(k)
    \/ Sweep \/ approve_template \/ UNCHANGED vars

\* The batch, the expiry, the sweep and the approval make no customer, address or request.
LEMMA BesideOnly == Beside => UNCHANGED <<shape, customers, external, addresses, ledger, calls>>
BY Zenon DEF Beside, PreProvision, ForgetDek, Age, Sweep, approve_template, tables, vars

\* A step of get_or_create_dek ends with a DEK, or goes on to make or to read one.
LEMMA DekingCases ==
    ASSUME Shape, NEW c \in Calls, Deking(c)
    PROVE  /\ who[c] \in Customers
           /\ UNCHANGED <<shape, customers, external, addresses, idem, old, ledger, template,
                          who, where, reply, used, swept>>
           /\ \/ \E key \in Deks : HaveDek(c, key)
              \/ /\ Goto(c, "newdek") \/ Goto(c, "olddek") \/ Goto(c, "panic")
                 /\ UNCHANGED <<dek, cache>>
<1>1. who[c] \in Customers
    BY Zenon DEF Deking, FindDek, CreateDek, ReadWinnersDek, Shape, Locals, Flow
<1>2. CASE FindDek(c)
    BY SMTT(30), <1>1, <1>2, Constants, KeyColumns DEF FindDek, Shape, tables
<1>3. CASE CreateDek(c)
    BY Zenon, <1>1, <1>3, Constants DEF CreateDek
<1>4. CASE ReadWinnersDek(c)
    BY Zenon, <1>1, <1>4, KeyColumns DEF ReadWinnersDek, Shape, tables
<1> QED
    BY Zenon, <1>1, <1>2, <1>3, <1>4 DEF Deking

\* A call keeps ids of customers, addresses and requests, and DEKs, in every step.
LEMMA LocalsStep == Shape /\ [Next]_vars => Locals'
<1> SUFFICES ASSUME Shape, [Next]_vars PROVE Locals'
    OBVIOUS
<1> USE Constants, Columns, Labels
    DEF Shape, Locals, Goto, Resolved,
        find_active_address_by_hmac, find_active_address_for_customer
<1>1. ASSUME NEW c \in Calls, Reads(c) PROVE Locals'
    <2>1. CASE PreCheck(c) \/ SwitchCheck(c)
        BY SMTT(30), <2>1 DEF PreCheck, SwitchCheck
    <2>2. CASE FindCustomer(c)
        BY SMTT(30), <2>2 DEF FindCustomer
    <2>3. CASE FindWinner(c)
        BY SMTT(30), <2>3 DEF FindWinner
    <2>4. CASE FindAddress(c) \/ FindHolder(c)
        BY SMTT(30), <2>4 DEF FindAddress, FindHolder
    <2>5. CASE FindTemplate(c) \/ ReadClaim(c) \/ Fail(c)
        BY SMTT(30), <2>5 DEF FindTemplate, ReadClaim, Fail
    <2> QED
        BY Zenon, <1>1, <2>1, <2>2, <2>3, <2>4, <2>5 DEF Reads
<1>2. ASSUME NEW c \in Calls, MintExplicit(c) \/ MintExternal(c) \/ MintAddress(c) PROVE Locals'
    BY SMTT(30), <1>2 DEF MintExplicit, MintExternal, MintAddress
<1>3. ASSUME NEW c \in Calls, PlaceAddress(c) PROVE Locals'
    BY SMTT(30), <1>3 DEF PlaceAddress
<1>4. ASSUME NEW c \in Calls, Deking(c) PROVE Locals'
    BY SMTT(30), <1>4, DekingCases DEF HaveDek
<1>5. ASSUME NEW c \in Calls, insert_transactional(c) PROVE Locals'
    BY SMTT(30), <1>5 DEF insert_transactional
<1>6. CASE Beside
    BY Zenon, <1>6, BesideOnly DEF calls
<1> QED
    BY Zenon, <1>1, <1>2, <1>3, <1>4, <1>5, <1>6 DEF Next, create_comms, Reads, Deking, Beside

\* The bounds on faults and the sweeps of a key stay numbers.
LEMMA CountsStep == Shape /\ [Next]_vars => Counts'
<1> SUFFICES ASSUME Shape, [Next]_vars PROVE Counts'
    OBVIOUS
<1> USE DEF Shape, Counts
<1>1. ASSUME NEW c \in Calls, Fail(c) PROVE Counts'
    BY <1>1 DEF Fail
<1>2. ASSUME NEW p \in Processes, NEW u \in Customers, ForgetDek(p, u) PROVE Counts'
    BY <1>2 DEF ForgetDek
<1>3. CASE Sweep
    BY <1>3 DEF Sweep
<1>4. CASE UNCHANGED <<used, swept>>
    BY Zenon, <1>4
<1> QED
    BY ZenonT(60), <1>1, <1>2, <1>3, <1>4
       DEF Next, create_comms, PreCheck, SwitchCheck, FindCustomer, FindWinner, FindAddress,
           FindHolder, FindTemplate, ReadClaim, MintExplicit, MintExternal, MintAddress,
           PlaceAddress, FindDek, CreateDek, ReadWinnersDek, insert_transactional,
           PreProvision, Age, approve_template, vars

\* get_or_create_dek stores and caches DEKs only.
LEMMA DekingTyped ==
    ASSUME Shape, NEW c \in Calls, Deking(c)
    PROVE  /\ deks' \in [Customers -> Deks \cup {None}]
           /\ cache' \in [Processes -> [Customers -> Deks \cup {None}]]
<1>1. who[c] \in Customers /\ <<c, who[c]>> \in Deks /\ At[c] \in Processes
    BY Zenon, DekingCases, Constants
<1>2. /\ deks \in [Customers -> Deks \cup {None}]
      /\ cache \in [Processes -> [Customers -> Deks \cup {None}]]
    BY Zenon, KeyColumns DEF Shape
<1>3. deks' = deks \/ \E key \in Deks : deks' = [deks EXCEPT ![who[c]] = key]
    BY Zenon, <1>1 DEF Deking, FindDek, CreateDek, ReadWinnersDek, insert_dek, tables
<1>4. cache' = cache \/ \E key \in Deks : cache' = [cache EXCEPT ![At[c]][who[c]] = key]
    BY Zenon, DekingCases DEF HaveDek
<1>5. deks' \in [Customers -> Deks \cup {None}]
    BY <1>1, <1>2, <1>3
<1>6. ASSUME NEW key \in Deks, cache' = [cache EXCEPT ![At[c]][who[c]] = key]
      PROVE  cache' \in [Processes -> [Customers -> Deks \cup {None}]]
    <2>1. cache[At[c]] \in [Customers -> Deks \cup {None}]
        BY <1>1, <1>2
    <2>2. [cache[At[c]] EXCEPT ![who[c]] = key] \in [Customers -> Deks \cup {None}]
        BY <1>1, <2>1
    <2>3. cache' = [cache EXCEPT ![At[c]] = [cache[At[c]] EXCEPT ![who[c]] = key]]
        BY <1>1, <1>2, <1>6
    <2> QED
        BY <1>1, <1>2, <2>2, <2>3
<1> QED
    BY Zenon, <1>2, <1>4, <1>5, <1>6

\* Every statement of create_comms and of what runs beside it writes well-typed rows.
LEMMA TablesStep == Shape /\ [Next]_vars => Tables'
<1> SUFFICES ASSUME Shape, [Next]_vars PROVE Tables'
    OBVIOUS
<1> USE Constants DEF Shape, Tables
<1>1. CASE UNCHANGED <<tables, cache>>
    BY Zenon, <1>1 DEF tables
<1>2. ASSUME NEW c \in Calls, MintExplicit(c) \/ MintExternal(c) PROVE Tables'
    BY Zenon, <1>2 DEF MintExplicit, MintExternal, insert_customer
<1>3. ASSUME NEW c \in Calls, MintAddress(c) PROVE Tables'
    BY SMTT(30), <1>3 DEF MintAddress, insert_customer, insert_address, insert_dek
<1>4. ASSUME NEW c \in Calls, PlaceAddress(c) PROVE Tables'
    BY SMTT(30), <1>4 DEF PlaceAddress, insert_address, Flow, Locals
<1>5. ASSUME NEW c \in Calls, Deking(c) PROVE Tables'
    BY Zenon, <1>5, DekingTyped, DekingCases
<1>6. ASSUME NEW c \in Calls, insert_transactional(c) PROVE Tables'
    <2>1. Row(c) \in [id : Calls, customer : Customers, address : Calls, key : Deks]
        BY Zenon, <1>6 DEF insert_transactional, Row, Flow, Locals
    <2> QED
        BY ZenonT(60), <1>6, <2>1 DEF insert_transactional
<1>7. ASSUME NEW u \in Customers, PreProvision(u) PROVE Tables'
    BY Zenon, <1>7 DEF PreProvision, insert_dek
<1>8. ASSUME NEW p \in Processes, NEW u \in Customers, ForgetDek(p, u) PROVE Tables'
    BY Zenon, <1>8 DEF ForgetDek, tables
<1>9. ASSUME NEW k \in Keys, Age(k) PROVE Tables'
    BY Zenon, <1>9 DEF Age
<1>10. CASE Sweep
    BY Zenon, <1>10 DEF Sweep
<1>11. CASE approve_template
    BY Zenon, <1>11 DEF approve_template
<1> QED
    BY Zenon, ReadsOnly, <1>1, <1>2, <1>3, <1>4, <1>5, <1>6, <1>7, <1>8, <1>9, <1>10,
       <1>11
       DEF Next, create_comms, Reads, Deking, vars

\* Every early return and every goto of create_comms keeps what Flow says.
LEMMA FlowStep == Shape /\ [Next]_vars => Flow'
<1> SUFFICES ASSUME Shape, [Next]_vars PROVE Flow'
    OBVIOUS
<1> USE Constants, Columns
    DEF Shape, Locals, Flow, Found, Goto, Resolved, Input, tables,
        find_active_address_by_hmac, find_active_address_for_customer
<1>1. ASSUME NEW c \in Calls, Reads(c) PROVE Flow'
    <2>1. CASE PreCheck(c) \/ SwitchCheck(c)
        BY SMTT(30), <2>1 DEF PreCheck, SwitchCheck
    <2>2. CASE FindCustomer(c)
        BY SMTT(30), <2>2 DEF FindCustomer
    <2>3. CASE FindWinner(c)
        BY SMTT(30), <2>3 DEF FindWinner
    <2>4. CASE FindAddress(c) \/ FindHolder(c)
        BY SMTT(30), <2>4 DEF FindAddress, FindHolder
    <2>5. CASE FindTemplate(c) \/ ReadClaim(c) \/ Fail(c)
        BY SMTT(30), <2>5 DEF FindTemplate, ReadClaim, Fail
    <2> QED
        BY Zenon, <1>1, <2>1, <2>2, <2>3, <2>4, <2>5 DEF Reads
<1>2. ASSUME NEW c \in Calls, MintExplicit(c) PROVE Flow'
    BY Zenon, <1>2 DEF MintExplicit, insert_customer
<1>3. ASSUME NEW c \in Calls, MintExternal(c) PROVE Flow'
    BY SMTT(30), <1>3 DEF MintExternal, insert_customer
<1>4. ASSUME NEW c \in Calls, MintAddress(c) PROVE Flow'
    BY SMTT(30), <1>4 DEF MintAddress, insert_customer
<1>5. ASSUME NEW c \in Calls, PlaceAddress(c) PROVE Flow'
    BY SMTT(30), <1>5 DEF PlaceAddress
<1>6. ASSUME NEW c \in Calls, Deking(c) PROVE Flow'
    BY SMTT(30), <1>6, DekingCases DEF HaveDek
<1>7. ASSUME NEW c \in Calls, insert_transactional(c) PROVE Flow'
    BY SMTT(30), <1>7 DEF insert_transactional
<1>8. CASE Beside
    BY Zenon, <1>8, BesideOnly DEF calls
<1> QED
    BY Zenon, <1>1, <1>2, <1>3, <1>4, <1>5, <1>6, <1>7, <1>8 DEF Next, create_comms, Reads, Deking, Beside

\* A customer is inserted before, or with, what refers to them.
LEMMA FoundStep == Shape /\ [Next]_vars => Found'
<1> SUFFICES ASSUME Shape, [Next]_vars PROVE Found'
    OBVIOUS
<1> USE Constants DEF Shape, Found
<1>1. CASE UNCHANGED <<customers, external, addresses>>
    BY Zenon, <1>1
<1>2. ASSUME NEW c \in Calls, MintExplicit(c) \/ MintExternal(c) PROVE Found'
    BY SMTT(30), <1>2 DEF MintExplicit, MintExternal, insert_customer
<1>3. ASSUME NEW c \in Calls, MintAddress(c) PROVE Found'
    BY SMTT(30), <1>3 DEF MintAddress, insert_customer, insert_address
<1>4. ASSUME NEW c \in Calls, PlaceAddress(c) PROVE Found'
    BY SMTT(30), <1>4 DEF PlaceAddress, insert_address, Flow
<1>5. ASSUME NEW c \in Calls, Reads(c) \/ Deking(c) \/ insert_transactional(c)
      PROVE  UNCHANGED <<customers, external, addresses>>
    BY Zenon, <1>5, ReadsOnly DEF Deking, FindDek, CreateDek, ReadWinnersDek,
                                  insert_transactional, tables
<1> QED
    BY Zenon, BesideOnly, <1>1, <1>2, <1>3, <1>4, <1>5
       DEF Next, create_comms, Reads, Deking, Beside

\* Shape is inductive.
LEMMA ShapeAlways == Spec => []Shape
<1>1. Init => Shape
    BY Zenon, InitShape
<1>2. Shape /\ [Next]_vars => Shape'
    BY Zenon, TablesStep, LocalsStep, CountsStep, FlowStep, FoundStep DEF Shape
<1> QED
    BY <1>1, <1>2, PTL DEF Spec

\* The types of the tables, the caches and the calls, and that a call that writes
\* has a customer, an address and a DEK, hold in every state of create_comms.
THEOREM TypeCorrect == Spec => []TypeOK
<1>1. Shape => TypeOK
    BY Zenon DEF Shape, Tables, Locals, Counts, Flow, TypeOK
<1> QED
    BY <1>1, ShapeAlways, PTL

-----------------------------------------------------------------------------
(* Keys.                                                                   *)

\* A customer who does not exist has no DEK; a cached DEK is the stored one, and so
\* is the one a call is about to encrypt with.
Keyed ==
    /\ \A u \in Calls : u \notin customers => deks[u] = None
    /\ \A p \in Processes, u \in Customers : cache[p][u] # None => cache[p][u] = deks[u]
    /\ \A c \in Calls : pc[c] \in {"place", "write"} => dek[c] = deks[who[c]]

KeyInv == Keyed /\ Decryptable

\* What HaveDek changes, for the call and for the others.
LEMMA HaveDekChanges ==
    ASSUME Shape, NEW c \in Calls, who[c] \in Customers, NEW key \in Deks, HaveDek(c, key)
    PROVE  /\ dek'[c] = key /\ cache'[At[c]][who[c]] = key
           /\ \A d \in Calls \ {c} : pc'[d] = pc[d] /\ dek'[d] = dek[d]
           /\ \A q \in Processes, v \in Customers :
                 q # At[c] \/ v # who[c] => cache'[q][v] = cache[q][v]
<1>1. /\ dek'[c] = key
      /\ \A d \in Calls \ {c} : pc'[d] = pc[d] /\ dek'[d] = dek[d]
    BY Zenon DEF Shape, Locals, HaveDek, Goto
<1>2. At[c] \in Processes /\ cache' = [cache EXCEPT ![At[c]][who[c]] = key]
    BY Zenon, Constants DEF HaveDek
<1>3. /\ cache'[At[c]][who[c]] = key
      /\ \A q \in Processes, v \in Customers :
            q # At[c] \/ v # who[c] => cache'[q][v] = cache[q][v]
    BY Zenon, <1>2, KeyColumns DEF Shape
<1> QED
    BY Zenon, <1>1, <1>3

\* A DEK that is stored stays, so what is encrypted under it stays readable.
LEMMA StoredKeysStay ==
    ASSUME Shape, KeyInv, NEW u \in Customers, NEW key \in Deks,
           deks[u] = None, insert_dek(u, key)
    PROVE  /\ deks'[u] = key
           /\ \A v \in Customers : v # u \/ deks[v] # None => deks'[v] = deks[v]
           /\ \A a \in addresses : a.key = deks'[a.customer]
           /\ \A l \in ledger : l.key = deks'[l.customer]
<1>1. /\ deks'[u] = key
      /\ \A v \in Customers : v # u \/ deks[v] # None => deks'[v] = deks[v]
    BY Zenon, KeyColumns DEF Shape, insert_dek
<1>2. /\ \A a \in addresses : a.customer \in Customers /\ a.key \in Deks
      /\ \A l \in ledger : l.customer \in Customers /\ l.key \in Deks
    BY Zenon DEF Shape, Tables
<1> QED
    BY Zenon, <1>1, <1>2, Constants DEF KeyInv, Decryptable

\* mint_provisional_customer_and_address: the customer is new, so the DEK is too.
LEMMA MintAddressKeys ==
    ASSUME Shape, KeyInv, NEW c \in Calls, MintAddress(c)
    PROVE  KeyInv'
<1>1. CASE addresses = {}
    <2>1. c \in Customers /\ <<c, c>> \in Deks /\ At[c] \in Processes
        BY Zenon, Constants
    <2>2. c \notin customers /\ deks[c] = None /\ insert_dek(c, <<c, c>>)
        BY Zenon, <1>1 DEF MintAddress, Shape, Flow, KeyInv, Keyed
    <2>3. /\ deks'[c] = <<c, c>> /\ \A v \in Customers \ {c} : deks'[v] = deks[v]
          /\ \A l \in ledger : l.key = deks'[l.customer]
        BY Zenon, <2>1, <2>2, StoredKeysStay
    <2>4. Decryptable'
        <3>1. /\ addresses' = {[id |-> c, customer |-> c, key |-> <<c, c>>]}
              /\ ledger' = ledger
            BY Zenon, <1>1 DEF MintAddress, insert_address
        <3> QED
            BY <2>3, <3>1 DEF Decryptable
    <2>5. \A d \in Calls : pc'[d] \in {"place", "write"} => dek'[d] = deks'[who'[d]]
        <3>1. pc'[c] = "template" /\ dek' = dek
              /\ \A d \in Calls \ {c} : pc'[d] = pc[d] /\ who'[d] = who[d]
            BY Zenon, <1>1 DEF MintAddress, Goto, Resolved, Shape, Locals
        <3>2. \A d \in Calls : pc[d] \in {"place", "write"} => who[d] \in Customers \ {c}
            BY Zenon, <2>2, Constants DEF Shape, Locals, Flow
        <3> QED
            BY <2>3, <3>1, <3>2 DEF KeyInv, Keyed
    <2>6. \A p \in Processes, u \in Customers : cache'[p][u] # None => cache'[p][u] = deks'[u]
        <3>1. cache' = [cache EXCEPT ![At[c]][c] = <<c, c>>]
            BY Zenon, <1>1 DEF MintAddress
        <3>2. /\ cache'[At[c]][c] = <<c, c>>
              /\ \A q \in Processes, v \in Customers :
                    q # At[c] \/ v # c => cache'[q][v] = cache[q][v]
            BY Zenon, <2>1, <3>1, KeyColumns DEF Shape
        <3> QED
            BY <2>2, <2>3, <3>2 DEF KeyInv, Keyed
    <2>7. \A u \in Calls : u \notin customers' => deks'[u] = None
        BY Zenon, <1>1, <2>3, Constants DEF MintAddress, insert_customer, KeyInv, Keyed
    <2> QED
        BY Zenon, <2>4, <2>5, <2>6, <2>7 DEF KeyInv, Keyed
<1>2. CASE addresses # {}
    <2>1. /\ pc'[c] = "again" /\ \A d \in Calls \ {c} : pc'[d] = pc[d]
          /\ UNCHANGED <<customers, addresses, deks, ledger, cache, who, dek>>
        BY Zenon, <1>2 DEF MintAddress, Goto, Shape, Locals
    <2> QED
        BY Zenon, <2>1 DEF KeyInv, Keyed, Decryptable
<1> QED
    BY Zenon, <1>1, <1>2

\* get_or_create_dek: the DEK it returns and caches is the one that is stored.
LEMMA DekingKeys ==
    ASSUME Shape, KeyInv, NEW c \in Calls, Deking(c)
    PROVE  KeyInv'
<1>1. who[c] \in Customers /\ UNCHANGED <<customers, addresses, ledger, who>>
    BY Zenon, DekingCases
<1>2. \A d \in Calls : pc[d] \in {"place", "write"} => dek[d] # None /\ who[d] \in Customers
    BY Zenon DEF Shape, Locals, Flow
<1>3. CASE CreateDek(c) /\ deks[who[c]] = None
    <2>1. <<c, who[c]>> \in Deks /\ who[c] \in customers \cup {Known}
        BY Zenon, <1>1, Constants DEF Shape, Flow
    <2>2. insert_dek(who[c], <<c, who[c]>>) /\ HaveDek(c, <<c, who[c]>>)
        BY Zenon, <1>3 DEF CreateDek
    <2>3. /\ deks'[who[c]] = <<c, who[c]>>
          /\ \A v \in Customers : v # who[c] \/ deks[v] # None => deks'[v] = deks[v]
          /\ \A a \in addresses : a.key = deks'[a.customer]
          /\ \A l \in ledger : l.key = deks'[l.customer]
        BY Zenon, <1>1, <1>3, <2>1, <2>2, StoredKeysStay
    <2>4. /\ dek'[c] = <<c, who[c]>> /\ cache'[At[c]][who[c]] = <<c, who[c]>>
          /\ \A d \in Calls \ {c} : pc'[d] = pc[d] /\ dek'[d] = dek[d]
          /\ \A q \in Processes, v \in Customers :
                q # At[c] \/ v # who[c] => cache'[q][v] = cache[q][v]
        BY Zenon, <1>1, <2>1, <2>2, HaveDekChanges
    <2>5. Decryptable'
        BY Zenon, <1>1, <2>3 DEF Decryptable
    <2>6. \A d \in Calls : pc'[d] \in {"place", "write"} => dek'[d] = deks'[who'[d]]
        BY <1>1, <1>2, <2>3, <2>4 DEF KeyInv, Keyed
    <2>7. \A p \in Processes, u \in Customers : cache'[p][u] # None => cache'[p][u] = deks'[u]
        BY <1>1, <2>3, <2>4 DEF KeyInv, Keyed
    <2>8. \A u \in Calls : u \notin customers' => deks'[u] = None
        BY <1>1, <2>1, <2>3, Constants DEF KeyInv, Keyed
    <2> QED
        BY Zenon, <2>5, <2>6, <2>7, <2>8 DEF KeyInv, Keyed
<1>4. CASE ~(CreateDek(c) /\ deks[who[c]] = None)
    <2>1. deks' = deks
        BY Zenon, <1>4 DEF Deking, FindDek, CreateDek, ReadWinnersDek, tables
    <2>2. \/ HaveDek(c, deks[who[c]]) /\ deks[who[c]] \in Deks
          \/ /\ pc'[c] \notin {"place", "write"} /\ UNCHANGED <<dek, cache>>
             /\ \A d \in Calls \ {c} : pc'[d] = pc[d]
        BY SMTT(30), <1>1, <1>4, Constants, KeyColumns
           DEF Deking, FindDek, CreateDek, ReadWinnersDek, Goto, KeyInv, Keyed, Shape, Locals
    <2>3. CASE HaveDek(c, deks[who[c]]) /\ deks[who[c]] \in Deks
        <3>1. /\ dek'[c] = deks[who[c]] /\ cache'[At[c]][who[c]] = deks[who[c]]
              /\ \A d \in Calls \ {c} : pc'[d] = pc[d] /\ dek'[d] = dek[d]
              /\ \A q \in Processes, v \in Customers :
                    q # At[c] \/ v # who[c] => cache'[q][v] = cache[q][v]
            BY Zenon, <1>1, <2>3, HaveDekChanges
        <3> QED
            BY <1>1, <2>1, <3>1 DEF KeyInv, Keyed, Decryptable
    <2> QED
        BY ZenonT(30), <1>1, <2>1, <2>2, <2>3 DEF KeyInv, Keyed, Decryptable
<1> QED
    BY Zenon, <1>3, <1>4

\* pre_provision_deks stores a DEK only where none is.
LEMMA PreProvisionKeys ==
    ASSUME Shape, KeyInv, NEW u \in Customers, PreProvision(u)
    PROVE  KeyInv'
<1>1. /\ u \in customers \cup {Known} /\ deks[u] = None /\ insert_dek(u, <<None, u>>)
      /\ UNCHANGED <<customers, addresses, ledger, cache, pc, who, dek>>
    BY Zenon DEF PreProvision, calls
<1>2. /\ \A v \in Customers : v # u \/ deks[v] # None => deks'[v] = deks[v]
      /\ \A a \in addresses : a.key = deks'[a.customer]
      /\ \A l \in ledger : l.key = deks'[l.customer]
    BY Zenon, <1>1, Constants, StoredKeysStay
<1>3. \A d \in Calls : pc[d] \in {"place", "write"} => dek[d] # None /\ who[d] \in Customers
    BY Zenon DEF Shape, Locals, Flow
<1> QED
    BY <1>1, <1>2, <1>3, Constants DEF KeyInv, Keyed, Decryptable

\* A lookup never moves a call to a step that encrypts.
LEMMA ReadsKeys ==
    ASSUME Shape, KeyInv, NEW c \in Calls, Reads(c)
    PROVE  KeyInv'
<1>1. /\ pc'[c] \notin {"place", "write"}
      /\ \A d \in Calls \ {c} : pc'[d] = pc[d] /\ who'[d] = who[d]
    BY SMTT(30)
       DEF Reads, PreCheck, SwitchCheck, FindCustomer, FindWinner, FindAddress, FindHolder,
           FindTemplate, ReadClaim, Fail, Resolved, Goto, Shape, Locals
<1>2. UNCHANGED <<customers, addresses, deks, ledger, cache, dek>>
    BY Zenon, ReadsOnly DEF tables
<1>3. \A d \in Calls : pc'[d] \in {"place", "write"} => dek'[d] = deks'[who'[d]]
    BY <1>1, <1>2 DEF KeyInv, Keyed
<1> QED
    BY Zenon, <1>2, <1>3 DEF KeyInv, Keyed, Decryptable

\* No step breaks the agreement of the stored, cached and used DEKs.
LEMMA KeyStep == Shape /\ KeyInv /\ [Next]_vars => KeyInv'
<1> SUFFICES ASSUME Shape, KeyInv, [Next]_vars PROVE KeyInv'
    OBVIOUS
<1> USE Constants, Columns, KeyColumns DEF Shape, KeyInv, Keyed, Decryptable, Locals, Goto
<1>1. ASSUME NEW c \in Calls, Reads(c) PROVE KeyInv'
    BY Zenon, <1>1, ReadsKeys
<1>2. ASSUME NEW c \in Calls, MintExplicit(c) \/ MintExternal(c) PROVE KeyInv'
    BY SMTT(30), <1>2 DEF MintExplicit, MintExternal, insert_customer, Flow
<1>3. ASSUME NEW c \in Calls, MintAddress(c) \/ Deking(c) PROVE KeyInv'
    BY Zenon, <1>3, MintAddressKeys, DekingKeys
<1>4. ASSUME NEW c \in Calls, PlaceAddress(c) PROVE KeyInv'
    BY SMTT(30), <1>4 DEF PlaceAddress, insert_address
<1>5. ASSUME NEW c \in Calls, insert_transactional(c) PROVE KeyInv'
    BY SMTT(30), <1>5 DEF insert_transactional, Row
<1>6. ASSUME NEW u \in Customers, PreProvision(u) PROVE KeyInv'
    BY Zenon, <1>6, PreProvisionKeys
<1>7. ASSUME NEW p \in Processes, NEW u \in Customers, ForgetDek(p, u) PROVE KeyInv'
    BY SMTT(30), <1>7 DEF ForgetDek, tables, calls
<1>8. CASE UNCHANGED <<customers, addresses, deks, ledger, cache, calls>>
    BY ZenonT(30), <1>8 DEF calls
<1> QED
    BY ZenonT(60), <1>1, <1>2, <1>3, <1>4, <1>5, <1>6, <1>7, <1>8
       DEF Next, create_comms, Reads, Deking, Age, Sweep, approve_template, vars, tables

\* What create_comms stores can be decrypted: get_or_create_dek never hands out a
\* DEK other than the stored one, so no address and no payload is encrypted under
\* one that lost the race of insert_if_absent.
THEOREM DecryptableAlways == Spec => []Decryptable
<1>1. Init => KeyInv
    BY Zenon, Constants DEF Init, KeyInv, Keyed, Decryptable
<1>2. KeyInv => Decryptable
    BY Zenon DEF KeyInv
<1> QED
    BY <1>1, <1>2, KeyStep, ShapeAlways, PTL DEF Spec

-----------------------------------------------------------------------------
(* Resolution.                                                             *)

\* Addresses and requests are never deleted, and external ids never change hands.
LEMMA Grows ==
    ASSUME Shape, [Next]_vars
    PROVE  /\ addresses \subseteq addresses' /\ ledger \subseteq ledger'
           /\ external # None => external' = external
<1>1. ASSUME NEW c \in Calls, MintExplicit(c) \/ MintExternal(c) \/ MintAddress(c) \/ PlaceAddress(c)
      PROVE  /\ addresses \subseteq addresses' /\ ledger \subseteq ledger'
             /\ external # None => external' = external
    BY Zenon, <1>1 DEF MintExplicit, MintExternal, MintAddress, PlaceAddress, insert_address
<1>2. ASSUME NEW c \in Calls, Deking(c) \/ insert_transactional(c)
      PROVE  /\ addresses \subseteq addresses' /\ ledger \subseteq ledger' /\ external' = external
    BY Zenon, <1>2, DekingCases DEF insert_transactional
<1> QED
    BY Zenon, <1>1, <1>2, ReadsOnly, BesideOnly
       DEF Next, create_comms, Reads, Deking, Beside, tables

\* An address a call has resolved to is in the table, and is its customer's.
Resolves ==
    \A c \in Calls : where[c] # None =>
        \E a \in addresses : a.id = where[c] /\ a.customer = who[c]

ResolveInv == Resolves /\ AddressedToItsCustomer

\* Every branch of resolve takes the customer and the address from one row.
LEMMA ResolvesStep == Shape /\ Resolves /\ [Next]_vars => Resolves'
<1> SUFFICES ASSUME Shape, Resolves, [Next]_vars PROVE Resolves'
    OBVIOUS
<1>1. ASSUME NEW c \in Calls,
             \A d \in Calls \ {c} : where'[d] = where[d] /\ who'[d] = who[d],
             where'[c] # None => \E a \in addresses' : a.id = where'[c] /\ a.customer = who'[c]
      PROVE  Resolves'
    BY Zenon, <1>1, Grows DEF Resolves
<1>2. CASE UNCHANGED <<who, where>>
    BY Zenon, <1>2, Grows DEF Resolves
<1>3. ASSUME NEW c \in Calls, FindCustomer(c) \/ FindWinner(c) \/ FindAddress(c) \/ FindHolder(c)
      PROVE  Resolves'
    <2>1. \A d \in Calls \ {c} : where'[d] = where[d] /\ who'[d] = who[d]
        BY Zenon, <1>3 DEF FindCustomer, FindWinner, FindAddress, FindHolder, Resolved, Shape, Locals
    <2>2. addresses' = addresses
        BY Zenon, <1>3, ReadsOnly DEF Reads, tables
    <2>3. where'[c] # None => \E a \in addresses : a.id = where'[c] /\ a.customer = who'[c]
        <3> USE DEF Resolved, Shape, Locals, Resolves, find_active_address_by_hmac,
                    find_active_address_for_customer
        <3>1. CASE FindCustomer(c)
            BY Zenon, <3>1 DEF FindCustomer
        <3>2. CASE FindWinner(c)
            BY Zenon, <3>2 DEF FindWinner, Flow
        <3>3. CASE FindAddress(c) \/ FindHolder(c)
            BY Zenon, <3>3 DEF FindAddress, FindHolder
        <3> QED
            BY Zenon, <1>3, <3>1, <3>2, <3>3
    <2> QED
        BY Zenon, <1>1, <2>1, <2>2, <2>3
<1>4. ASSUME NEW c \in Calls, MintExternal(c) PROVE Resolves'
    <2>1. where' = where /\ where[c] = None /\ \A d \in Calls \ {c} : who'[d] = who[d]
        BY Zenon, <1>4 DEF MintExternal, Shape, Locals, Flow
    <2> QED
        BY Zenon, <1>1, <2>1
<1>5. ASSUME NEW c \in Calls, MintAddress(c) \/ PlaceAddress(c) PROVE Resolves'
    <2>1. \A d \in Calls \ {c} : where'[d] = where[d] /\ who'[d] = who[d]
        BY Zenon, <1>5 DEF MintAddress, PlaceAddress, Resolved, Shape, Locals
    <2>2. where'[c] # None => \E a \in addresses' : a.id = where'[c] /\ a.customer = who'[c]
        <3>1. CASE addresses # {}
            <4>1. where' = where /\ where[c] = None
                BY Zenon, <1>5, <3>1 DEF MintAddress, PlaceAddress, Shape, Flow
            <4> QED
                BY Zenon, <4>1
        <3>2. CASE addresses = {}
            <4>1. where'[c] = c
                BY Zenon, <1>5, <3>2 DEF MintAddress, PlaceAddress, Resolved, Shape, Locals
            <4>2. CASE MintAddress(c)
                <5>1. addresses' = {[id |-> c, customer |-> c, key |-> <<c, c>>]} /\ who'[c] = c
                    BY Zenon, <3>2, <4>2 DEF MintAddress, Resolved, insert_address, Shape, Locals
                <5> QED
                    BY Zenon, <4>1, <5>1
            <4>3. CASE PlaceAddress(c)
                <5>1. addresses' = {[id |-> c, customer |-> who[c], key |-> dek[c]]} /\ who' = who
                    BY Zenon, <3>2, <4>3 DEF PlaceAddress, insert_address
                <5> QED
                    BY Zenon, <4>1, <5>1
            <4> QED
                BY Zenon, <1>5, <4>2, <4>3
        <3> QED
            BY Zenon, <3>1, <3>2
    <2> QED
        BY Zenon, <1>1, <2>1, <2>2
<1>6. ASSUME NEW c \in Calls,
             \/ PreCheck(c) \/ SwitchCheck(c) \/ MintExplicit(c) \/ FindTemplate(c)
             \/ Deking(c) \/ insert_transactional(c) \/ ReadClaim(c) \/ Fail(c)
      PROVE  UNCHANGED <<who, where>>
    BY Zenon, <1>6 DEF PreCheck, SwitchCheck, MintExplicit, FindTemplate, Deking, FindDek, CreateDek,
                ReadWinnersDek, insert_transactional, ReadClaim, Fail
<1> QED
    BY Zenon, <1>2, <1>3, <1>4, <1>5, <1>6, BesideOnly DEF Next, create_comms, Deking, Beside, calls

\* A request of create_comms goes to an address of its own customer: where a
\* destination turned out to be another customer's, the whole call moved to them.
THEOREM AddressedToItsCustomerAlways == Spec => []AddressedToItsCustomer
<1>1. Init => ResolveInv
    BY Zenon DEF Init, ResolveInv, Resolves, AddressedToItsCustomer
<1>2. Shape /\ ResolveInv /\ [Next]_vars => ResolveInv'
    <2> SUFFICES ASSUME Shape, ResolveInv, [Next]_vars PROVE AddressedToItsCustomer'
        BY Zenon, ResolvesStep DEF ResolveInv
    <2>1. CASE ledger' = ledger
        BY Zenon, <2>1, Grows DEF ResolveInv, AddressedToItsCustomer
    <2>2. ASSUME NEW c \in Calls, insert_transactional(c) PROVE AddressedToItsCustomer'
        <3>1. /\ addresses' = addresses /\ ledger' \subseteq ledger \cup {Row(c)}
              /\ where[c] # None
            BY Zenon, <2>2 DEF insert_transactional, Shape, Flow
        <3>2. Row(c).address = where[c] /\ Row(c).customer = who[c]
            BY Zenon DEF Row
        <3> QED
            BY <3>1, <3>2 DEF ResolveInv, Resolves, AddressedToItsCustomer
    <2>3. ASSUME NEW c \in Calls,
                 MintExplicit(c) \/ MintExternal(c) \/ MintAddress(c) \/ PlaceAddress(c) \/ Deking(c)
          PROVE  ledger' = ledger
        BY Zenon, <2>3, DekingCases DEF MintExplicit, MintExternal, MintAddress, PlaceAddress
    <2> QED
        BY Zenon, <2>1, <2>2, <2>3, ReadsOnly, BesideOnly
           DEF Next, create_comms, Reads, Deking, Beside, tables
<1>3. ResolveInv => AddressedToItsCustomer
    BY Zenon DEF ResolveInv
<1> QED
    BY <1>1, <1>2, <1>3, ShapeAlways, PTL DEF Spec

\* No lost race strands a customer: one is minted in the same transaction as the
\* external id or the address they are found by, or not at all.
THEOREM NoStrayCustomersAlways == Spec => []NoStrayCustomers
<1>1. Init => NoStrayCustomers
    BY Zenon DEF Init, NoStrayCustomers
<1>2. Shape /\ NoStrayCustomers /\ [Next]_vars => NoStrayCustomers'
    <2> SUFFICES ASSUME Shape, NoStrayCustomers, [Next]_vars PROVE NoStrayCustomers'
        OBVIOUS
    <2>1. CASE customers' = customers
        BY Zenon, <2>1, Constants, Grows DEF NoStrayCustomers
    <2>2. ASSUME NEW c \in Calls, MintExplicit(c) PROVE NoStrayCustomers'
        BY Zenon, <2>2, Constants DEF MintExplicit, insert_customer, NoStrayCustomers
    <2>3. ASSUME NEW c \in Calls, MintExternal(c) PROVE NoStrayCustomers'
        BY <2>3, Constants DEF MintExternal, insert_customer, NoStrayCustomers
    <2>4. ASSUME NEW c \in Calls, MintAddress(c) PROVE NoStrayCustomers'
        <3>1. CASE addresses = {}
            <4>1. /\ customers' = customers \cup {c} /\ external' = external
                  /\ addresses' = {[id |-> c, customer |-> c, key |-> <<c, c>>]}
                BY Zenon, <2>4, <3>1 DEF MintAddress, insert_customer, insert_address
            <4>2. \A u \in customers \cap Calls : external = u
                BY Zenon, <3>1 DEF NoStrayCustomers
            <4> QED
                BY Zenon, <4>1, <4>2 DEF NoStrayCustomers
        <3>2. CASE addresses # {}
            BY Zenon, <2>1, <2>4, <3>2 DEF MintAddress
        <3> QED
            BY Zenon, <3>1, <3>2
    <2>5. ASSUME NEW c \in Calls, PlaceAddress(c) \/ Deking(c) \/ insert_transactional(c)
          PROVE  customers' = customers
        BY Zenon, <2>5, DekingCases DEF PlaceAddress, insert_transactional
    <2> QED
        BY Zenon, <2>1, <2>2, <2>3, <2>4, <2>5, ReadsOnly, BesideOnly
           DEF Next, create_comms, Reads, Deking, Beside, tables
<1> QED
    BY <1>1, <1>2, ShapeAlways, PTL DEF Spec

-----------------------------------------------------------------------------
(* Claims and replies.                                                     *)

\* A claim on a key names a request of that key that is in the ledger.
Claims == \A k \in Keys : idem[k] # None => \E l \in ledger : l.id = idem[k] /\ Key[l.id] = k

ClaimInv == Claims /\ RepliesAreReal

\* The claim and the ledger row are one transaction, and a reply is read from a claim.
LEMMA ClaimStep == Shape /\ ClaimInv /\ [Next]_vars => ClaimInv'
<1> SUFFICES ASSUME Shape, ClaimInv, [Next]_vars PROVE ClaimInv'
    OBVIOUS
<1>1. CASE UNCHANGED <<idem, reply>>
    BY Zenon, <1>1, Grows DEF ClaimInv, Claims, RepliesAreReal
<1>2. ASSUME NEW c \in Calls, PreCheck(c) \/ ReadClaim(c) PROVE ClaimInv'
    <2>1. /\ UNCHANGED <<idem, ledger>> /\ Key[c] \in Keys
          /\ reply'[c] = reply[c] \/ reply'[c] = idem[Key[c]]
          /\ \A d \in Calls \ {c} : reply'[d] = reply[d]
        BY Zenon, <1>2, Constants DEF PreCheck, ReadClaim, tables, Shape, Locals
    <2> QED
        BY <2>1 DEF ClaimInv, Claims, RepliesAreReal
<1>3. ASSUME NEW c \in Calls, insert_transactional(c) PROVE ClaimInv'
    <2>1. CASE idem[Key[c]] # None
        BY Zenon, <1>1, <1>3, <2>1 DEF insert_transactional
    <2>2. CASE idem[Key[c]] = None
        <3>1. /\ idem'[Key[c]] = c /\ \A k \in Keys \ {Key[c]} : idem'[k] = idem[k]
              /\ reply'[c] = c /\ \A d \in Calls \ {c} : reply'[d] = reply[d]
            <4>1. /\ idem \in [Keys -> Calls \cup {None}] /\ Key[c] \in Keys
                  /\ reply \in [Calls -> Calls \cup {None}]
                BY Zenon, Constants, Columns DEF Shape, Locals
            <4> QED
                BY Zenon, <1>3, <2>2, <4>1 DEF insert_transactional
        <3>2. ledger' = ledger \cup {Row(c)} /\ Row(c).id = c
            BY Zenon, <1>3, <2>2 DEF insert_transactional, Row
        <3>3. Claims'
            BY <3>1, <3>2, Constants DEF ClaimInv, Claims
        <3>4. RepliesAreReal'
            BY <3>1, <3>2 DEF ClaimInv, RepliesAreReal
        <3> QED
            BY Zenon, <3>3, <3>4 DEF ClaimInv
    <2> QED
        BY Zenon, <2>1, <2>2
<1>4. CASE Sweep
    <2>1. \A k \in Keys : idem'[k] = None \/ idem'[k] = idem[k]
        BY Zenon, <1>4 DEF Sweep
    <2> QED
        BY Zenon, <1>4, <2>1 DEF Sweep, calls, ClaimInv, Claims, RepliesAreReal
<1>5. ASSUME NEW c \in Calls,
             \/ SwitchCheck(c) \/ FindCustomer(c) \/ MintExplicit(c) \/ MintExternal(c)
             \/ MintAddress(c) \/ FindWinner(c) \/ FindAddress(c) \/ PlaceAddress(c)
             \/ FindHolder(c) \/ FindTemplate(c) \/ Deking(c) \/ Fail(c)
      PROVE  UNCHANGED <<idem, reply>>
    BY Zenon, <1>5, DekingCases
       DEF SwitchCheck, FindCustomer, MintExplicit, MintExternal, MintAddress, FindWinner,
           FindAddress, PlaceAddress, FindHolder, FindTemplate, Fail, tables
<1>6. Beside /\ ~Sweep => UNCHANGED <<idem, reply>>
    BY Zenon DEF Beside, PreProvision, ForgetDek, Age, approve_template, tables, calls, vars
<1> QED
    BY Zenon, <1>1, <1>2, <1>3, <1>4, <1>5, <1>6 DEF Next, create_comms, Deking, Beside

\* A 200 or 201 of create_comms names a request of the caller's own key that is in
\* the ledger, also when the pre-check missed the claim and the insert found it.
THEOREM RepliesAreRealAlways == Spec => []RepliesAreReal
<1>1. Init => ClaimInv
    BY DEF Init, ClaimInv, Claims, RepliesAreReal
<1>2. ClaimInv => RepliesAreReal
    BY Zenon DEF ClaimInv
<1> QED
    BY <1>1, <1>2, ClaimStep, ShapeAlways, PTL DEF Spec

\* What a loser relies on stays: a stored DEK, and a claim until a sweep counts it.
LEMMA Stays ==
    ASSUME Shape, [Next]_vars
    PROVE  /\ shape' = shape
           /\ \A u \in Customers : deks[u] # None => deks'[u] # None
           /\ \A k \in Keys : swept[k] > 0 => swept'[k] > 0
           /\ \A k \in Keys : idem[k] # None => idem'[k] # None \/ swept'[k] > 0
<1> DEFINE Goal == /\ shape' = shape
                   /\ \A u \in Customers : deks[u] # None => deks'[u] # None
                   /\ \A k \in Keys : swept[k] > 0 => swept'[k] > 0
                   /\ \A k \in Keys : idem[k] # None => idem'[k] # None \/ swept'[k] > 0
<1>1. CASE UNCHANGED <<shape, deks, idem, swept>>
    BY Zenon, <1>1
<1>2. ASSUME NEW u \in Customers, NEW key \in Deks, insert_dek(u, key),
             UNCHANGED <<shape, idem, swept>>
      PROVE  Goal
    BY Zenon, <1>2, KeyColumns, Constants DEF Shape, insert_dek
<1>3. ASSUME NEW c \in Calls, insert_transactional(c) PROVE Goal
    <2>1. idem \in [Keys -> Calls \cup {None}] /\ Key[c] \in Keys /\ c # None
        BY Zenon, Constants, Columns DEF Shape
    <2> QED
        BY Zenon, <1>3, <2>1 DEF insert_transactional
<1>4. CASE Sweep
    <2>1. /\ UNCHANGED <<shape, deks>> /\ swept \in [Keys -> Nat]
          /\ \A k \in Keys : \/ idem'[k] = idem[k] /\ swept'[k] = swept[k]
                             \/ swept'[k] = swept[k] + 1
        BY Zenon, <1>4 DEF Sweep, Shape, Counts
    <2> QED
        BY <2>1
<1>5. ASSUME NEW c \in Calls, MintAddress(c) \/ Deking(c) PROVE Goal
    <2>1. /\ UNCHANGED <<shape, idem, swept>>
          /\ \/ deks' = deks
             \/ insert_dek(c, <<c, c>>)
             \/ insert_dek(who[c], <<c, who[c]>>) /\ who[c] \in Customers
        BY Zenon, <1>5, DekingCases DEF MintAddress, Deking, FindDek, CreateDek, ReadWinnersDek, tables
    <2> QED
        BY Zenon, <1>1, <1>2, <2>1, Constants
<1>6. ASSUME NEW u \in Customers, PreProvision(u) PROVE Goal
    BY Zenon, <1>2, <1>6, Constants DEF PreProvision
<1>7. ASSUME NEW c \in Calls, MintExplicit(c) \/ MintExternal(c) \/ PlaceAddress(c)
      PROVE  UNCHANGED <<shape, deks, idem, swept>>
    BY Zenon, <1>7 DEF MintExplicit, MintExternal, PlaceAddress
<1>8. ASSUME \/ \E p \in Processes, u \in Customers : ForgetDek(p, u)
             \/ \E k \in Keys : Age(k)
      PROVE  UNCHANGED <<shape, deks, idem, swept>>
    BY Zenon, <1>8 DEF ForgetDek, Age, tables
<1>9. approve_template \/ UNCHANGED vars => UNCHANGED <<shape, deks, idem, swept>>
    BY Zenon DEF approve_template, vars, tables
<1>10. \A c \in Calls : Reads(c) => UNCHANGED <<shape, deks, idem, swept>>
    BY Zenon, ReadsOnly DEF tables
<1> QED
    BY ZenonT(60), <1>1, <1>3, <1>4, <1>5, <1>6, <1>7, <1>8, <1>9, <1>10
       DEF Next, create_comms, Reads, Deking

\* A call that lost a race left the row that won behind it, and has not panicked.
Losers ==
    \A c \in Calls :
        /\ pc[c] # "panic"
        /\ pc[c] = "again" => \/ Input(c) = "external" /\ external # None
                              \/ Input(c) = "address" /\ addresses # {}
        /\ pc[c] = "winner" => addresses # {}
        /\ pc[c] = "olddek" => deks[who[c]] # None
        /\ pc[c] = "lost" => idem[Key[c]] # None \/ swept[Key[c]] > 0
        /\ pc[c] = "gone" => swept[Key[c]] > 0

\* Of the other calls, none is disturbed by a step of one.
LEMMA LosersStep == Shape /\ Losers /\ [Next]_vars => Losers'
<1> SUFFICES ASSUME Shape, Losers, [Next]_vars PROVE Losers'
    OBVIOUS
<1> DEFINE Good(d) ==
        /\ pc'[d] # "panic"
        /\ pc'[d] = "again" => \/ Input(d)' = "external" /\ external' # None
                               \/ Input(d)' = "address" /\ addresses' # {}
        /\ pc'[d] = "winner" => addresses' # {}
        /\ pc'[d] = "olddek" => deks'[who'[d]] # None
        /\ pc'[d] = "lost" => idem'[Key[d]] # None \/ swept'[Key[d]] > 0
        /\ pc'[d] = "gone" => swept'[Key[d]] > 0
<1>1. ASSUME NEW d \in Calls, pc'[d] = pc[d], who'[d] = who[d] PROVE Good(d)
    <2>1. pc[d] = "olddek" => who[d] \in Customers
        BY Zenon DEF Shape, Locals, Flow
    <2>2. Key[d] \in Keys /\ Input(d)' = Input(d)
        BY Zenon, Constants, Stays DEF Input
    <2> QED
        BY Zenon, <1>1, <2>1, <2>2, Grows, Stays DEF Losers
<1> HIDE DEF Good
<1>2. ASSUME NEW c \in Calls, Good(c),
             \A d \in Calls \ {c} : pc'[d] = pc[d] /\ who'[d] = who[d]
      PROVE  Losers'
    <2>1. \A d \in Calls : Good(d)
        BY Zenon, <1>1, <1>2
    <2> QED
        BY Zenon, <2>1 DEF Good, Losers
<1>3. ASSUME NEW c \in Calls, create_comms(c) \/ Fail(c)
      PROVE  \A d \in Calls \ {c} : pc'[d] = pc[d] /\ who'[d] = who[d]
    <2> USE DEF HaveDek, Goto, Resolved, Shape, Locals
    <2>1. CASE PreCheck(c) \/ SwitchCheck(c) \/ FindCustomer(c) \/ MintExplicit(c) \/ MintExternal(c)
        BY Zenon, <2>1 DEF PreCheck, SwitchCheck, FindCustomer, MintExplicit, MintExternal
    <2>2. CASE MintAddress(c) \/ FindWinner(c) \/ FindAddress(c) \/ PlaceAddress(c) \/ FindHolder(c)
        BY Zenon, <2>2 DEF MintAddress, FindWinner, FindAddress, PlaceAddress, FindHolder
    <2>3. CASE FindTemplate(c) \/ FindDek(c) \/ CreateDek(c) \/ ReadWinnersDek(c)
        BY Zenon, <2>3 DEF FindTemplate, FindDek, CreateDek, ReadWinnersDek
    <2>4. CASE insert_transactional(c) \/ ReadClaim(c) \/ Fail(c)
        BY Zenon, <2>4 DEF insert_transactional, ReadClaim, Fail
    <2> QED
        BY Zenon, <1>3, <2>1, <2>2, <2>3, <2>4 DEF create_comms
<1>4. ASSUME NEW c \in Calls, create_comms(c) \/ Fail(c) PROVE Good(c)
    <2> USE DEF Good, Goto, Resolved, Shape, Locals
    <2>1. CASE \/ PreCheck(c) \/ SwitchCheck(c) \/ FindCustomer(c) \/ MintExplicit(c)
               \/ FindAddress(c) \/ FindTemplate(c) \/ Fail(c)
        BY Zenon, <2>1 DEF PreCheck, SwitchCheck, FindCustomer, MintExplicit, FindAddress,
                              FindTemplate, Fail
    <2>2. CASE MintExternal(c) \/ MintAddress(c)
        BY Zenon, <2>2 DEF MintExternal, MintAddress, Input
    <2>3. CASE FindWinner(c) \/ FindHolder(c)
        BY Zenon, <2>3 DEF FindWinner, FindHolder, Losers
    <2>4. CASE PlaceAddress(c)
        BY Zenon, <2>4 DEF PlaceAddress
    <2>5. CASE FindDek(c)
        BY Zenon, <2>5 DEF FindDek, HaveDek
    <2>6. CASE CreateDek(c)
        BY Zenon, <2>6 DEF CreateDek, HaveDek
    <2>7. CASE ReadWinnersDek(c)
        BY Zenon, <2>7 DEF ReadWinnersDek, HaveDek, Losers
    <2>8. CASE insert_transactional(c)
        BY Zenon, <2>8 DEF insert_transactional
    <2>9. CASE ReadClaim(c)
        BY Zenon, <2>9 DEF ReadClaim, Losers
    <2> QED
        BY Zenon, <1>4, <2>1, <2>2, <2>3, <2>4, <2>5, <2>6, <2>7, <2>8, <2>9 DEF create_comms
<1>5. CASE Beside
    <2>1. UNCHANGED <<pc, who>>
        BY Zenon, <1>5, BesideOnly DEF calls
    <2>2. \A d \in Calls : Good(d)
        BY Zenon, <1>1, <2>1
    <2> QED
        BY Zenon, <2>2 DEF Good, Losers
<1> QED
    BY Zenon, <1>2, <1>3, <1>4, <1>5 DEF Next, Beside

\* No `expect` of resolve or get_or_create_dek panics: the row that a loser reads
\* back is never deleted.  The one of insert_transactional can, but only after a
\* sweep deleted the claim between the lost insert and the read.
THEOREM LosersFindTheWinnerAlways == Spec => []LosersFindTheWinner
<1>1. Init => Losers
    BY Zenon DEF Init, Losers
<1>2. Losers => LosersFindTheWinner
    BY Zenon DEF Losers, LosersFindTheWinner
<1> QED
    BY <1>1, <1>2, LosersStep, ShapeAlways, PTL DEF Spec

-----------------------------------------------------------------------------
(* Idempotency.                                                            *)

Made(k) == {l \in ledger : Key[l.id] = k}

\* A key has made one request for each sweep that deleted it, and one more only
\* while it is claimed.
Counted ==
    /\ IsFiniteSet(ledger)
    /\ \A k \in Keys : Cardinality(Made(k)) <= swept[k] + (IF idem[k] # None THEN 1 ELSE 0)

\* The requests of a key are finitely many.
LEMMA MadeFinite ==
    ASSUME IsFiniteSet(ledger)
    PROVE  \A k \in Keys : IsFiniteSet(Made(k)) /\ Cardinality(Made(k)) \in Nat
<1>1. ASSUME NEW k \in Keys PROVE IsFiniteSet(Made(k)) /\ Cardinality(Made(k)) \in Nat
    <2>1. Made(k) \subseteq ledger
        BY Zenon DEF Made
    <2> QED
        BY Zenon, <2>1, FS_Subset, FS_CardinalityType
<1> QED
    BY Zenon, <1>1

\* insert_transactional adds one request to one key, and only to an unclaimed one.
LEMMA InsertCounted ==
    ASSUME Shape, Counted, NEW c \in Calls, insert_transactional(c), idem[Key[c]] = None
    PROVE  Counted'
<1>1. /\ ledger' = ledger \cup {Row(c)} /\ Row(c).id = c /\ swept' = swept
      /\ Key[c] \in Keys /\ c # None
    BY Zenon, Constants DEF insert_transactional, Row
<1>2. /\ idem'[Key[c]] = c /\ \A k \in Keys \ {Key[c]} : idem'[k] = idem[k]
    <2>1. idem \in [Keys -> Calls \cup {None}]
        BY Zenon, Columns DEF Shape
    <2> QED
        BY Zenon, <1>1, <2>1 DEF insert_transactional
<1>3. IsFiniteSet(ledger')
    BY Zenon, <1>1, FS_AddElement DEF Counted
<1>4. ASSUME NEW k \in Keys \ {Key[c]}
      PROVE  Cardinality(Made(k)') <= swept'[k] + (IF idem'[k] # None THEN 1 ELSE 0)
    <2>1. Made(k)' = Made(k)
        BY Zenon, <1>1, <1>4 DEF Made
    <2> QED
        BY Zenon, <1>1, <1>2, <2>1 DEF Counted
<1>5. Cardinality(Made(Key[c])') <= swept'[Key[c]] + 1
    <2>1. Made(Key[c])' = Made(Key[c]) \cup {Row(c)}
        BY Zenon, <1>1 DEF Made
    <2>2. /\ Cardinality(Made(Key[c])) <= swept[Key[c]] /\ swept[Key[c]] \in Nat
          /\ IsFiniteSet(Made(Key[c])) /\ Cardinality(Made(Key[c])) \in Nat
        BY <1>1, MadeFinite DEF Counted, Shape, Counts
    <2>3. /\ Cardinality(Made(Key[c]) \cup {Row(c)}) = Cardinality(Made(Key[c]))
             \/ Cardinality(Made(Key[c]) \cup {Row(c)}) = Cardinality(Made(Key[c])) + 1
        BY Zenon, <2>2, FS_AddElement
    <2> QED
        BY <1>1, <2>1, <2>2, <2>3
<1> QED
    BY Zenon, <1>1, <1>2, <1>3, <1>4, <1>5 DEF Counted

\* Calls with one Idempotency-Key make one request between two sweeps of it, however
\* many run at once: the claim in insert_transactional decides, not the pre-check.
THEOREM OneRequestPerKeyAlways == Spec => []OneRequestPerKey
<1>1. Init => Counted
    <2> SUFFICES ASSUME Init PROVE Counted
        OBVIOUS
    <2>1. /\ ledger = {} /\ IsFiniteSet(ledger)
          /\ \A k \in Keys : Made(k) = {} /\ swept[k] = 0
        BY Zenon, FS_EmptySet DEF Init, Made
    <2>2. Cardinality({}) = 0
        BY Zenon, FS_EmptySet
    <2> QED
        BY <2>1, <2>2 DEF Counted
<1>2. Shape /\ Counted /\ [Next]_vars => Counted'
    <2> SUFFICES ASSUME Shape, Counted, [Next]_vars PROVE Counted'
        OBVIOUS
    <2>1. CASE UNCHANGED <<ledger, idem, swept>>
        BY Zenon, <2>1 DEF Counted, Made
    <2>2. ASSUME NEW c \in Calls, insert_transactional(c) PROVE Counted'
        BY Zenon, <2>1, <2>2, InsertCounted DEF insert_transactional
    <2>3. CASE Sweep
        <3>1. ledger' = ledger /\ \A k \in Keys : Made(k)' = Made(k)
            BY Zenon, <2>3 DEF Sweep, Made
        <3>2. \A k \in Keys : swept[k] \in Nat /\ Cardinality(Made(k)) \in Nat
            BY Zenon, MadeFinite DEF Shape, Counts, Counted
        <3>3. \A k \in Keys : \/ idem'[k] = idem[k] /\ swept'[k] = swept[k]
                              \/ swept'[k] = swept[k] + 1 /\ idem'[k] = None
            BY Zenon, <2>3 DEF Sweep
        <3> QED
            BY <3>1, <3>2, <3>3 DEF Counted
    <2>4. ASSUME NEW c \in Calls,
                 MintExplicit(c) \/ MintExternal(c) \/ MintAddress(c) \/ PlaceAddress(c) \/ Deking(c)
          PROVE  UNCHANGED <<ledger, idem, swept>>
        BY Zenon, <2>4, DekingCases DEF MintExplicit, MintExternal, MintAddress, PlaceAddress
    <2>5. Beside /\ ~Sweep => UNCHANGED <<ledger, idem, swept>>
        BY Zenon DEF Beside, PreProvision, ForgetDek, Age, approve_template, tables, vars
    <2>6. \A c \in Calls : Reads(c) => UNCHANGED <<ledger, idem, swept>>
        BY Zenon, ReadsOnly DEF tables
    <2> QED
        BY Zenon, <2>1, <2>2, <2>3, <2>4, <2>5, <2>6 DEF Next, create_comms, Reads, Deking, Beside
<1>3. Shape /\ Counted => OneRequestPerKey
    <2> SUFFICES ASSUME Shape, Counted, NEW k \in Keys
                 PROVE  Cardinality(Made(k)) <= 1 + swept[k]
        BY Zenon DEF OneRequestPerKey, Made
    <2>1. Cardinality(Made(k)) \in Nat /\ swept[k] \in Nat
        BY Zenon, MadeFinite DEF Counted, Shape, Counts
    <2> QED
        BY <2>1 DEF Counted
<1> QED
    BY <1>1, <1>2, <1>3, ShapeAlways, PTL DEF Spec

-----------------------------------------------------------------------------
(* create_comms implements the atomic object of Idempotency.               *)

\* A call that was answered or that made a request has returned.
Answered == \A c \in Calls : reply[c] # None \/ c \in Requested => pc[c] = "done"

\* The steps in which a call is not answered: they end it without an answer or
\* take it on to its next statement.
Silent(c) ==
    \/ SwitchCheck(c) \/ FindCustomer(c) \/ FindWinner(c) \/ FindAddress(c) \/ FindHolder(c)
    \/ FindTemplate(c) \/ Fail(c) \/ MintExplicit(c) \/ MintExternal(c) \/ MintAddress(c)
    \/ PlaceAddress(c) \/ Deking(c)

\* Such a step is of a call that has not returned, and changes no claim, no
\* request and no answer.
LEMMA SilentOnly ==
    ASSUME Shape, NEW c \in Calls, Silent(c)
    PROVE  /\ pc[c] # "done" /\ \A d \in Calls \ {c} : pc'[d] = pc[d]
           /\ UNCHANGED <<idem, ledger, reply>>
<1>1. /\ pc[c] # "done"
      /\ UNCHANGED <<idem, ledger, reply>>
    BY ZenonT(60) DEF Silent, SwitchCheck, FindCustomer, FindWinner, FindAddress, FindHolder,
           FindTemplate, Fail, MintExplicit, MintExternal, MintAddress, PlaceAddress,
           Deking, FindDek, CreateDek, ReadWinnersDek, tables
<1>2. \E p \in Steps : Goto(c, p)
    BY ZenonT(60), Labels
       DEF Silent, SwitchCheck, FindCustomer, FindWinner, FindAddress, FindHolder,
           FindTemplate, Fail, MintExplicit, MintExternal, MintAddress, PlaceAddress,
           Deking, FindDek, CreateDek, ReadWinnersDek, HaveDek
<1> QED
    BY Zenon, <1>1, <1>2 DEF Goto, Shape, Locals

\* What insert_transactional does when the key is free, and when it is taken.
LEMMA InsertEffect ==
    ASSUME Shape, NEW c \in Calls, insert_transactional(c)
    PROVE  /\ pc[c] = "write" /\ \A d \in Calls \ {c} : pc'[d] = pc[d]
           /\ \/ /\ idem[Key[c]] = None
                 /\ idem' = [idem EXCEPT ![Key[c]] = c]
                 /\ Requested' = Requested \cup {c}
                 /\ reply' = [reply EXCEPT ![c] = c] /\ pc'[c] = "done"
              \/ UNCHANGED <<idem, ledger, reply>>
<1>1. CASE idem[Key[c]] = None
    <2>1. ledger' = ledger \cup {Row(c)}
        BY Zenon, <1>1 DEF insert_transactional
    <2>2. Requested' = Requested \cup {c}
        <3>1. Row(c).id = c
            BY Zenon DEF Row
        <3> QED
            BY Zenon, <2>1, <3>1 DEF Requested
    <2> QED
        BY Zenon, <1>1, <2>2 DEF insert_transactional, Goto, Shape, Locals
<1>2. CASE idem[Key[c]] # None
    BY Zenon, <1>2 DEF insert_transactional, Goto, Shape, Locals
<1> QED
    BY Zenon, <1>1, <1>2

\* The two reads of the idempotency table: PreCheck and ReadClaim.
LEMMA LookupEffect ==
    ASSUME Shape, NEW c \in Calls, PreCheck(c) \/ ReadClaim(c)
    PROVE  /\ pc[c] # "done" /\ \A d \in Calls \ {c} : pc'[d] = pc[d]
           /\ UNCHANGED <<idem, ledger>>
           /\ \/ /\ idem[Key[c]] # None /\ pc'[c] = "done"
                 /\ reply' = [reply EXCEPT ![c] = idem[Key[c]]]
              \/ idem[Key[c]] = None /\ (reply[c] = None => reply' = reply)
<1>1. reply \in [Calls -> Calls \cup {None}] /\ pc \in [Calls -> Steps]
    BY Zenon DEF Shape, Locals
<1>2. CASE PreCheck(c)
    BY Zenon, <1>1, <1>2 DEF PreCheck, Goto, tables
<1>3. CASE ReadClaim(c)
    <2>1. idem[Key[c]] = None => (reply[c] = None => reply' = reply)
        BY <1>1, <1>3 DEF ReadClaim
    <2> QED
        BY Zenon, <1>1, <1>3, <2>1 DEF ReadClaim, Goto, tables
<1> QED
    BY Zenon, <1>2, <1>3

\* Only a call that has not returned is answered or makes a request.
LEMMA AnsweredStep == Shape /\ Answered /\ [Next]_vars => Answered'
<1> SUFFICES ASSUME Shape, Answered, [Next]_vars PROVE Answered'
    OBVIOUS
<1>1. ASSUME NEW c \in Calls, Silent(c) PROVE Answered'
    <2>1. reply[c] = None /\ c \notin Requested /\ Requested' = Requested
        BY Zenon, <1>1, SilentOnly DEF Answered, Requested
    <2> QED
        BY Zenon, <1>1, <2>1, SilentOnly DEF Answered
<1>2. ASSUME NEW c \in Calls, insert_transactional(c) PROVE Answered'
    <2>1. reply[c] = None /\ c \notin Requested
        BY Zenon, <1>2, InsertEffect DEF Answered
    <2>2. CASE UNCHANGED <<idem, ledger, reply>>
        BY Zenon, <1>2, <2>1, <2>2, InsertEffect DEF Answered, Requested
    <2>3. CASE ~UNCHANGED <<idem, ledger, reply>>
        <3>1. /\ Requested' = Requested \cup {c} /\ pc'[c] = "done"
              /\ \A d \in Calls \ {c} : pc'[d] = pc[d] /\ reply'[d] = reply[d]
            BY Zenon, <1>2, <2>3, InsertEffect DEF Shape, Locals
        <3> QED
            BY Zenon, <3>1 DEF Answered
    <2> QED
        BY Zenon, <2>2, <2>3
<1>3. ASSUME NEW c \in Calls, PreCheck(c) \/ ReadClaim(c) PROVE Answered'
    <2>1. /\ reply[c] = None /\ c \notin Requested /\ Requested' = Requested
          /\ \A d \in Calls \ {c} : pc'[d] = pc[d]
        BY Zenon, <1>3, LookupEffect DEF Answered, Requested
    <2>2. /\ pc'[c] = "done" \/ reply'[c] = None
          /\ \A d \in Calls \ {c} : reply'[d] = reply[d]
        BY Zenon, <1>3, <2>1, LookupEffect DEF Shape, Locals
    <2> QED
        BY Zenon, <2>1, <2>2 DEF Answered
<1>4. CASE Beside
    BY Zenon, <1>4, BesideOnly DEF Answered, Requested, calls
<1> QED
    BY Zenon, <1>1, <1>2, <1>3, <1>4 DEF Next, create_comms, Silent, Deking, Beside

\* Every step of Ingest is a step of Idempotency or leaves it alone.
LEMMA AtomicStep ==
    ASSUME Shape, Answered, [Next]_vars
    PROVE  [Atomic!Next]_<<idem, Requested, reply>>
<1>1. ASSUME NEW c \in Calls, pc[c] # "done"
      PROVE  Atomic!Waiting(c)
    BY Zenon, <1>1 DEF Answered, Atomic!Waiting
<1>2. CASE UNCHANGED <<idem, ledger, reply>>
    BY Zenon, <1>2 DEF Requested
<1>3. ASSUME NEW c \in Calls, insert_transactional(c), ~UNCHANGED <<idem, ledger, reply>>
      PROVE  Atomic!Next
    <2>1. Atomic!Create(c)
        BY Zenon, <1>1, <1>3, InsertEffect DEF Atomic!Create
    <2> QED
        BY Zenon, <2>1 DEF Atomic!Next
<1>4. ASSUME NEW c \in Calls, PreCheck(c) \/ ReadClaim(c)
      PROVE  Atomic!Next \/ UNCHANGED <<idem, ledger, reply>>
    <2>1. CASE idem[Key[c]] # None
        <3>1. Atomic!Repeat(c)
            BY Zenon, <1>1, <1>4, <2>1, LookupEffect DEF Atomic!Repeat, Requested
        <3> QED
            BY Zenon, <3>1 DEF Atomic!Next
    <2>2. CASE idem[Key[c]] = None
        BY Zenon, <1>4, <2>2, LookupEffect DEF Answered
    <2> QED
        BY Zenon, <2>1, <2>2
<1>5. CASE Sweep
    <2>1. old \in SUBSET Keys
        BY Zenon DEF Shape, Tables
    <2>2. Atomic!Expire(old)
        BY Zenon, <1>5 DEF Sweep, Requested, calls, Atomic!Expire
    <2> QED
        BY Zenon, <2>1, <2>2 DEF Atomic!Next
<1>6. CASE Beside /\ ~Sweep
    BY Zenon, <1>2, <1>6, BesideOnly
       DEF Beside, PreProvision, ForgetDek, Age, approve_template, tables, calls, vars
<1> QED
    BY Zenon, <1>2, <1>3, <1>4, <1>5, <1>6, SilentOnly
       DEF Next, create_comms, Silent, Deking, Beside

\* To its callers create_comms is atomic: the calls of any number of processes make
\* and answer exactly what one atomic create-or-get per Idempotency-Key would, with
\* the sweep expiring keys between any two statements.
THEOREM IngestImplementsIdempotency == Spec => ImplementsIdempotency
<1>1. Init => Answered /\ Atomic!Init
    BY Zenon DEF Init, Answered, Requested, Atomic!Init
<1>2. Shape /\ Answered /\ [Next]_vars => [Atomic!Next]_<<idem, Requested, reply>>
    BY Zenon, AtomicStep
<1> QED
    BY <1>1, <1>2, AnsweredStep, ShapeAlways, PTL DEF Spec, ImplementsIdempotency, Atomic!Spec
=============================================================================
