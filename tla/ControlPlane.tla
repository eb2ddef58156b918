---------------------------- MODULE ControlPlane ----------------------------
(***************************************************************************)
(* The control plane: provisioning and destroying a tenant, suspending it, *)
(* registering and disabling its producers, setting its configuration, and *)
(* the first use of its pepper.  A job is one run of messgr-control, one   *)
(* handler of the consoles, or one request that opens a tenant's context   *)
(* in a serving process.  It works on three stores that share no           *)
(* transaction, the control database, the tenant's database and Vault, one *)
(* statement or call at a time, and may fail or die between any two; an    *)
(* operator then runs the command again, as another job.                   *)
(***************************************************************************)
EXTENDS Naturals

CONSTANTS None, Jobs, Tenants, Certs, Processes,
    Values,         \* names of databases and producers, owners, and settings
    Scenarios,      \* what the jobs may be, and the tenants that exist before them
    MaxStops        \* how many jobs may fail or die on their own

Statuses == {"provisioning", "active", "suspended", "offboarding_destroy"}

\* A pepper is known by the key that wrapped it and the job that minted it.
Pepper == [key : Nat, by : Jobs]
Tenant == [status : Statuses, database_name : Values, pepper : Pepper \cup {None}]
Mapping == [tenant : Tenants, producer : Jobs, enabled : BOOLEAN]
\* The id of a producer is the job that registered it.
Producer == [id : Jobs, name : Values, cert : Certs, owner : Values, enabled : BOOLEAN]
Database ==
    [migrated : BOOLEAN, producers : SUBSET Producer, config : Values \cup {None},
     provider : Values \cup {None}, suppressed : SUBSET Pepper]
Vault == [key : BOOLEAN, role : BOOLEAN, generation : Nat, secret : Nat]

\* None is no row and no outcome, and the arguments of a command are what its op calls for.
ASSUME ControlPlaneAssumption ==
    /\ MaxStops \in Nat
    /\ None \notin {"created", "idempotent"} \cup Values \cup Pepper \cup Tenant \cup Mapping
                  \cup Producer \cup Database
    /\ Tenants \subseteq Values
    /\ \A s \in Scenarios, j \in Jobs :
        /\ s.cmd[j].tenant \in Tenants
        /\ s.cmd[j].op = "provision" => s.cmd[j].database_name \in Values
        /\ s.cmd[j].op = "register" =>
            s.cmd[j].cert \in Certs /\ {s.cmd[j].name, s.cmd[j].owner} \subseteq Values
        /\ s.cmd[j].op = "open" => s.cmd[j].process \in Processes
        /\ s.cmd[j].op \in {"configure", "provide"} => s.cmd[j].value \in Values

VARIABLES
    scenario,       \* the commands of this behaviour
    pc, mem,        \* where a job is, and what it has read or decided
    tenant,         \* control database: tenant
    cert,           \* control database: producer_cert
    audit,          \* control database: the outcome in the job's platform_audit row
    database,       \* the tenants' databases
    vault,          \* Vault: a tenant's Transit key, its AppRole, the SecretID delivered
    context,        \* the pepper in each serving process's TenantRegistry
    stops,
    missed,         \* history: producers disabled while their certificate had no mapping
    razed,          \* history: tenants whose destruction has begun
    clashed,        \* history: tenants provisioned and destroyed at the same time
    overwritten     \* history: tenants whose stored pepper was replaced

history == <<missed, razed, clashed, overwritten>>
vars == <<scenario, pc, mem, tenant, cert, audit, database, vault, context, stops, history>>

Cmd(j) == scenario.cmd[j]
T(j) == Cmd(j).tenant
At(j, op, label) == Cmd(j).op = op /\ pc[j] = label
InFlight(j) == pc[j] \notin {"begin", "done", "stopped"}
Of(op, t) == {j \in Jobs : Cmd(j).op = op /\ T(j) = t}

\* What a job keeps between its statements.
Blank == [outcome |-> None, row |-> None, pepper |-> None, again |-> FALSE]

Goto(j, label) == pc' = [pc EXCEPT ![j] = label]
\* The outcome is known and only the audit row is left to write.
Conclude(j, outcome) ==
    Goto(j, "audit") /\ mem' = [mem EXCEPT ![j].outcome = outcome]

\* A statement returned an error that the job passes on.
Abort(j) == Goto(j, "stopped") /\ UNCHANGED mem

\* connect_tenant_pool and the first query succeed: the database exists and
\* has the tenant's tables.
Connects(t) == database[t] # None /\ database[t].migrated
Producers(t) == IF database[t] = None THEN {} ELSE database[t].producers

-----------------------------------------------------------------------------
\* provision_tenant, behind refuse_foreign_region.

\* A region that is not the deployment's is refused, and so is a known slug with
\* another database; a known slug with the same one is a repetition.
FindTenant(j) ==
    /\ At(j, "provision", "begin")
    /\ \/ Cmd(j).foreign /\ Conclude(j, "rejected")
       \/ ~Cmd(j).foreign /\ tenant[T(j)] = None /\ Goto(j, "insert") /\ UNCHANGED mem
       \/ /\ ~Cmd(j).foreign /\ tenant[T(j)] # None
          /\ IF tenant[T(j)].database_name = Cmd(j).database_name
             THEN Goto(j, "key") /\ mem' = [mem EXCEPT ![j].outcome = "idempotent"]
             ELSE Conclude(j, "rejected")
    /\ clashed' = IF \E k \in Of("destroy", T(j)) : InFlight(k)
                  THEN clashed \cup {T(j)} ELSE clashed
    /\ UNCHANGED <<scenario, tenant, cert, audit, database, vault, context, stops,
                   missed, razed, overwritten>>

\* slug and database_name are UNIQUE: the loser of a race gets an error.
insert_provisioning(j) ==
    /\ At(j, "provision", "insert")
    /\ IF \E t \in Tenants : tenant[t] # None
              /\ (t = T(j) \/ tenant[t].database_name = Cmd(j).database_name)
       THEN Abort(j) /\ UNCHANGED tenant
       ELSE /\ tenant' = [tenant EXCEPT ![T(j)] =
                  [status |-> "provisioning", database_name |-> Cmd(j).database_name,
                   pepper |-> None]]
            /\ Goto(j, "key")
            /\ mem' = [mem EXCEPT ![j].outcome = "created"]
    /\ UNCHANGED <<scenario, cert, audit, database, vault, context, stops, history>>

\* provision_vault, its first half: the mount and the key, unless they are there.
CreateKey(j) ==
    /\ At(j, "provision", "key")
    /\ LET v == vault[T(j)]
       IN  vault' = [vault EXCEPT ![T(j)] =
               IF v.key THEN v ELSE [v EXCEPT !.key = TRUE, !.generation = v.generation + 1]]
    /\ Goto(j, "role")
    /\ UNCHANGED <<scenario, mem, tenant, cert, audit, database, context, stops, history>>

\* The other half: the policy, the AppRole and, on a first provision, a wrapped
\* SecretID for it.
CreateRole(j) ==
    /\ At(j, "provision", "role")
    /\ vault' = [vault EXCEPT ![T(j)].role = TRUE]
    /\ Goto(j, "exists")
    /\ UNCHANGED <<scenario, mem, tenant, cert, audit, database, context, stops, history>>

\* Mutant: a database that is there is taken to be migrated.
DatabaseExistsMigrated(j) ==
    /\ At(j, "provision", "exists")
    /\ Goto(j, IF database[T(j)] = None THEN "create" ELSE "activate")
    /\ UNCHANGED <<scenario, mem, tenant, cert, audit, database, vault, context, stops, history>>

\* ensure_database_exists looks, and creates in a second statement.
DatabaseExists(j) ==
    /\ At(j, "provision", "exists")
    /\ Goto(j, IF database[T(j)] = None THEN "create" ELSE "migrate")
    /\ UNCHANGED <<scenario, mem, tenant, cert, audit, database, vault, context, stops, history>>

CreateDatabase(j) ==
    /\ At(j, "provision", "create")
    /\ IF database[T(j)] # None
       THEN Abort(j) /\ UNCHANGED database
       ELSE /\ database' = [database EXCEPT ![T(j)] =
                  [migrated |-> FALSE, producers |-> {}, config |-> None,
                   provider |-> None, suppressed |-> {}]]
            /\ Goto(j, "migrate") /\ UNCHANGED mem
    /\ UNCHANGED <<scenario, tenant, cert, audit, vault, context, stops, history>>

\* The migrations, and the schema version they leave.
Migrate(j) ==
    /\ At(j, "provision", "migrate")
    /\ IF database[T(j)] = None
       THEN Abort(j) /\ UNCHANGED database
       ELSE /\ database' = [database EXCEPT ![T(j)].migrated = TRUE]
            /\ Goto(j, "activate") /\ UNCHANGED mem
    /\ UNCHANGED <<scenario, tenant, cert, audit, vault, context, stops, history>>

\* Whatever the status was.
mark_active(j) ==
    /\ At(j, "provision", "activate")
    /\ tenant' = [tenant EXCEPT ![T(j)].status = "active"]
    /\ Conclude(j, mem[j].outcome)
    /\ UNCHANGED <<scenario, cert, audit, database, vault, context, stops, history>>

-----------------------------------------------------------------------------
\* destroy_tenant: Vault, then the database, then the status.

\* Mutant: the database goes first.
FindDoomedDropsFirst(j) ==
    /\ At(j, "destroy", "begin") /\ tenant[T(j)] # None
    /\ Goto(j, "drop")
    /\ razed' = razed \cup {T(j)}
    /\ UNCHANGED <<scenario, mem, tenant, cert, audit, database, vault, context, stops,
                   missed, clashed, overwritten>>

FindDoomed(j) ==
    /\ At(j, "destroy", "begin")
    /\ IF tenant[T(j)] = None
       THEN Abort(j) /\ UNCHANGED <<razed, clashed>>
       ELSE /\ Goto(j, "deletekey") /\ UNCHANGED mem
            /\ razed' = razed \cup {T(j)}
            /\ clashed' = IF \E k \in Of("provision", T(j)) : InFlight(k)
                          THEN clashed \cup {T(j)} ELSE clashed
    /\ UNCHANGED <<scenario, tenant, cert, audit, database, vault, context, stops,
                   missed, overwritten>>

\* destroy_vault: the key and its mount, then the policy and the AppRole; what
\* is already gone is tolerated.
DeleteKey(j) ==
    /\ At(j, "destroy", "deletekey")
    /\ vault' = [vault EXCEPT ![T(j)].key = FALSE]
    /\ Goto(j, "deleterole")
    /\ UNCHANGED <<scenario, mem, tenant, cert, audit, database, context, stops, history>>

DeleteRole(j) ==
    /\ At(j, "destroy", "deleterole")
    /\ vault' = [vault EXCEPT ![T(j)].role = FALSE]
    /\ Goto(j, "drop")
    /\ UNCHANGED <<scenario, mem, tenant, cert, audit, database, context, stops, history>>

DropDatabase(j) ==
    /\ At(j, "destroy", "drop")
    /\ database' = [database EXCEPT ![T(j)] = None]
    /\ Goto(j, "mark")
    /\ UNCHANGED <<scenario, mem, tenant, cert, audit, vault, context, stops, history>>

mark_status(j) ==
    /\ At(j, "destroy", "mark")
    /\ tenant' = [tenant EXCEPT ![T(j)].status = "offboarding_destroy"]
    /\ Conclude(j, "destroyed")
    /\ UNCHANGED <<scenario, cert, audit, database, vault, context, stops, history>>

\* The console's suspend: the status and its audit row in one transaction.  The
\* platform switch it engages in the same transaction is KillSwitches' concern.
suspend(j) ==
    /\ At(j, "suspend", "begin")
    /\ IF tenant[T(j)] = None
       THEN Abort(j) /\ UNCHANGED <<tenant, audit>>
       ELSE /\ tenant' = [tenant EXCEPT ![T(j)].status = "suspended"]
            /\ audit' = [audit EXCEPT ![j] = "suspended"]
            /\ Goto(j, "done") /\ UNCHANGED mem
    /\ UNCHANGED <<scenario, cert, database, vault, context, stops, history>>

-----------------------------------------------------------------------------
\* register_producer.  The tenant's row comes first, the mapping that resolves
\* the certificate second.

\* Mutant: a repeated registration leaves the mapping alone.
classify_registration_done(j) ==
    /\ Cmd(j).op = "register" /\ pc[j] \in {"begin", "classify"}
    /\ Connects(T(j))
    /\ IF \E r \in Producers(T(j)) : r.name = Cmd(j).name
       THEN Conclude(j, "idempotent") ELSE Goto(j, "elsewhere") /\ UNCHANGED mem
    /\ UNCHANGED <<scenario, tenant, cert, audit, database, vault, context, stops, history>>

\* classify_registration reads the row of that name and the row of that
\* certificate in one snapshot.  It runs again when the insert loses a race.
classify_registration(j) ==
    /\ Cmd(j).op = "register" /\ pc[j] \in {"begin", "classify"}
    /\ LET c == Cmd(j)
           named == {r \in Producers(c.tenant) : r.name = c.name}
           bound == {r \in Producers(c.tenant) : r.cert = c.cert}
       IN  \/ tenant[c.tenant] = None /\ Conclude(j, "rejected")
           \/ tenant[c.tenant] # None /\ ~Connects(c.tenant) /\ Abort(j)
           \/ /\ Connects(c.tenant)
              /\ \/ \E r \in named :
                        IF r.cert = c.cert /\ r.owner = c.owner
                        THEN /\ Goto(j, "map")
                             /\ mem' = [mem EXCEPT ![j].outcome = "idempotent", ![j].row = r]
                        ELSE Conclude(j, "rejected")
                 \/ named = {} /\ bound # {} /\ Conclude(j, "rejected")
                 \/ named = {} /\ bound = {} /\ Goto(j, "elsewhere") /\ UNCHANGED mem
    /\ UNCHANGED <<scenario, tenant, cert, audit, database, vault, context, stops, history>>

\* The end of classify_registration: the certificate may be another tenant's.
FindElsewhere(j) ==
    /\ At(j, "register", "elsewhere")
    /\ LET m == cert[Cmd(j).cert]
       IN  IF (m # None /\ m.tenant # T(j)) \/ mem[j].again
           THEN Conclude(j, "rejected")
           ELSE Goto(j, "insertrow") /\ UNCHANGED mem
    /\ UNCHANGED <<scenario, tenant, cert, audit, database, vault, context, stops, history>>

\* Mutant: the count of inserted rows is not looked at.
insert_if_absent_uncounted(j) ==
    /\ At(j, "register", "insertrow") /\ Connects(T(j))
    /\ LET c == Cmd(j)
           row == [id |-> j, name |-> c.name, cert |-> c.cert, owner |-> c.owner, enabled |-> TRUE]
           taken == \E r \in Producers(c.tenant) : r.name = c.name \/ r.cert = c.cert
       IN  /\ database' = [database EXCEPT ![c.tenant].producers =
                  IF taken THEN @ ELSE @ \cup {row}]
           /\ Goto(j, "map")
           /\ mem' = [mem EXCEPT ![j].outcome = "created", ![j].row = row]
    /\ UNCHANGED <<scenario, tenant, cert, audit, vault, context, stops, history>>

\* ON CONFLICT DO NOTHING on either of the two UNIQUE columns.
insert_if_absent(j) ==
    /\ At(j, "register", "insertrow")
    /\ LET c == Cmd(j)
           row == [id |-> j, name |-> c.name, cert |-> c.cert, owner |-> c.owner, enabled |-> TRUE]
       IN  \/ ~Connects(c.tenant) /\ Abort(j) /\ UNCHANGED database
           \/ /\ Connects(c.tenant)
              /\ \E r \in Producers(c.tenant) : r.name = c.name \/ r.cert = c.cert
              /\ Goto(j, "classify") /\ mem' = [mem EXCEPT ![j].again = TRUE]
              /\ UNCHANGED database
           \/ /\ Connects(c.tenant)
              /\ \A r \in Producers(c.tenant) : r.name # c.name /\ r.cert # c.cert
              /\ database' = [database EXCEPT ![c.tenant].producers = @ \cup {row}]
              /\ Goto(j, "map")
              /\ mem' = [mem EXCEPT ![j].outcome = "created", ![j].row = row]
    /\ UNCHANGED <<scenario, tenant, cert, audit, vault, context, stops, history>>

\* Mutant: the mapping is enabled again.
upsert_producer_cert_enabled(j) ==
    /\ At(j, "register", "map")
    /\ cert' = [cert EXCEPT ![Cmd(j).cert] =
           [tenant |-> T(j), producer |-> mem[j].row.id, enabled |-> TRUE]]
    /\ Conclude(j, mem[j].outcome)
    /\ UNCHANGED <<scenario, tenant, audit, database, vault, context, stops, history>>

\* Writes the mapping whatever it held, and leaves enabled alone if it was there.
upsert_producer_cert(j) ==
    /\ At(j, "register", "map")
    /\ cert' = [cert EXCEPT ![Cmd(j).cert] =
           [tenant |-> T(j), producer |-> mem[j].row.id,
            enabled |-> IF @ = None THEN TRUE ELSE @.enabled]]
    /\ Conclude(j, mem[j].outcome)
    /\ UNCHANGED <<scenario, tenant, audit, database, vault, context, stops, history>>

-----------------------------------------------------------------------------
\* disable_producer: the mapping first, the tenant's row second.

FindProducer(j) ==
    /\ At(j, "disable", "begin")
    /\ LET named == {r \in Producers(T(j)) : r.name = Cmd(j).name}
       IN  \/ tenant[T(j)] = None /\ Conclude(j, "rejected")
           \/ tenant[T(j)] # None /\ ~Connects(T(j)) /\ Abort(j)
           \/ Connects(T(j)) /\ named = {} /\ Conclude(j, "rejected")
           \/ \E r \in named : Goto(j, "switchoff") /\ mem' = [mem EXCEPT ![j].row = r]
    /\ UNCHANGED <<scenario, tenant, cert, audit, database, vault, context, stops, history>>

\* An UPDATE: a certificate that has no mapping yet is left without one.
set_cert_enabled(j) ==
    /\ At(j, "disable", "switchoff")
    /\ LET row == mem[j].row
       IN  /\ cert' = [cert EXCEPT ![row.cert] =
                  IF @ = None THEN None ELSE [@ EXCEPT !.enabled = FALSE]]
           /\ missed' = IF cert[row.cert] = None THEN missed \cup {row.id} ELSE missed
           /\ IF row.enabled
              THEN Goto(j, "disablerow") /\ UNCHANGED mem
              ELSE Conclude(j, "idempotent")
    /\ UNCHANGED <<scenario, tenant, audit, database, vault, context, stops,
                   razed, clashed, overwritten>>

set_enabled(j) ==
    /\ At(j, "disable", "disablerow")
    /\ IF ~Connects(T(j))
       THEN Abort(j) /\ UNCHANGED database
       ELSE /\ database' = [database EXCEPT ![T(j)].producers =
                  {IF r.id = mem[j].row.id THEN [r EXCEPT !.enabled = FALSE] ELSE r : r \in @}]
            /\ Conclude(j, "disabled")
    /\ UNCHANGED <<scenario, tenant, cert, audit, vault, context, stops, history>>

\* resolve_producer: what the certificate of a request resolves to.
resolve_producer(c) ==
    CASE cert[c] = None -> "unknown"
      [] cert[c] # None /\ ~cert[c].enabled -> "disabled"
      [] cert[c] # None /\ cert[c].enabled /\ tenant[cert[c].tenant].status # "active" -> "inactive"
      [] OTHER -> "ok"

-----------------------------------------------------------------------------
\* The typed configuration of a tenant, and one row of its provider list.

Outcome(old, new) ==
    CASE old = None -> "created"
      [] old = new  -> "idempotent"
      [] OTHER      -> "updated"

\* Mutant: whether there is a row is not asked.
set_tenant_config_created(j) ==
    /\ At(j, "configure", "begin") /\ Connects(T(j))
    /\ database' = [database EXCEPT ![T(j)].config = Cmd(j).value]
    /\ Conclude(j, "created")
    /\ UNCHANGED <<scenario, tenant, cert, audit, vault, context, stops, history>>

\* The row is read and written under one advisory lock.
set_tenant_config(j) ==
    /\ At(j, "configure", "begin")
    /\ \/ tenant[T(j)] = None /\ Conclude(j, "rejected") /\ UNCHANGED database
       \/ tenant[T(j)] # None /\ ~Connects(T(j)) /\ Abort(j) /\ UNCHANGED database
       \/ /\ Connects(T(j))
          /\ database' = [database EXCEPT ![T(j)].config = Cmd(j).value]
          /\ Conclude(j, Outcome(database[T(j)].config, Cmd(j).value))
    /\ UNCHANGED <<scenario, tenant, cert, audit, vault, context, stops, history>>

\* set_provider_config reads first and writes later, only what differs.
load_one(j) ==
    /\ At(j, "provide", "begin")
    /\ \/ tenant[T(j)] = None /\ Conclude(j, "rejected")
       \/ tenant[T(j)] # None /\ ~Connects(T(j)) /\ Abort(j)
       \/ /\ Connects(T(j))
          /\ LET outcome == Outcome(database[T(j)].provider, Cmd(j).value)
             IN  /\ mem' = [mem EXCEPT ![j].outcome = outcome]
                 /\ Goto(j, IF outcome = "idempotent" THEN "audit" ELSE "upsert")
    /\ UNCHANGED <<scenario, tenant, cert, audit, database, vault, context, stops, history>>

upsert(j) ==
    /\ At(j, "provide", "upsert")
    /\ IF ~Connects(T(j))
       THEN Abort(j) /\ UNCHANGED database
       ELSE /\ database' = [database EXCEPT ![T(j)].provider = Cmd(j).value]
            /\ Conclude(j, mem[j].outcome)
    /\ UNCHANGED <<scenario, tenant, cert, audit, vault, context, stops, history>>

-----------------------------------------------------------------------------
\* The pepper.  get_or_open in a serving process and add_suppression in
\* messgr-control both read the tenant's row, and mint the pepper if that row
\* had none.

\* get_or_open holds the registry's write lock from its second look to its end.
Opening(p) == \E k \in Jobs : Cmd(k).op = "open" /\ Cmd(k).process = p /\ InFlight(k)

get_or_open(j) ==
    /\ At(j, "open", "begin")
    /\ ~Opening(Cmd(j).process)
    /\ \/ /\ context[Cmd(j).process][T(j)] # None
          /\ Goto(j, "done") /\ UNCHANGED mem
       \/ /\ context[Cmd(j).process][T(j)] = None
          /\ IF tenant[T(j)] # None /\ Connects(T(j)) /\ database[T(j)].config # None
             THEN /\ Goto(j, "pepper")
                  /\ mem' = [mem EXCEPT ![j].pepper = tenant[T(j)].pepper]
             ELSE Abort(j)
    /\ UNCHANGED <<scenario, tenant, cert, audit, database, vault, context, stops, history>>

add_suppression(j) ==
    /\ At(j, "suppress", "begin")
    /\ \/ tenant[T(j)] = None /\ Conclude(j, "rejected")
       \/ tenant[T(j)] # None /\ ~Connects(T(j)) /\ Abort(j)
       \/ /\ tenant[T(j)] # None /\ Connects(T(j))
          /\ Goto(j, "pepper")
          /\ mem' = [mem EXCEPT ![j].pepper = tenant[T(j)].pepper]
    /\ UNCHANGED <<scenario, tenant, cert, audit, database, vault, context, stops, history>>

\* Mutant: a minted pepper is not stored.
ensure_tenant_pepper_unrecorded(j) ==
    /\ pc[j] = "pepper" /\ vault[T(j)].key
    /\ Goto(j, "use")
    /\ mem' = [mem EXCEPT ![j].pepper =
           IF @ = None THEN [key |-> vault[T(j)].generation, by |-> j] ELSE @]
    /\ UNCHANGED <<scenario, tenant, cert, audit, database, vault, context, stops, history>>

\* The key that wrapped a pepper is the only one that unwraps it.
ensure_tenant_pepper(j) ==
    /\ pc[j] = "pepper"
    /\ LET v == vault[T(j)]
           p == mem[j].pepper
       IN  \/ (~v.key \/ (p # None /\ p.key # v.generation)) /\ Abort(j)
           \/ v.key /\ p # None /\ p.key = v.generation /\ Goto(j, "use") /\ UNCHANGED mem
           \/ /\ v.key /\ p = None
              /\ Goto(j, "record")
              /\ mem' = [mem EXCEPT ![j].pepper = [key |-> v.generation, by |-> j]]
    /\ UNCHANGED <<scenario, tenant, cert, audit, database, vault, context, stops, history>>

\* An UPDATE that does not ask whether a pepper has been stored meanwhile.
record_vault_pepper_wrapped(j) ==
    /\ pc[j] = "record"
    /\ tenant' = [tenant EXCEPT ![T(j)].pepper = mem[j].pepper]
    /\ overwritten' = IF tenant[T(j)].pepper # None
                      THEN overwritten \cup {T(j)} ELSE overwritten
    /\ Goto(j, "use")
    /\ UNCHANGED <<scenario, mem, cert, audit, database, vault, context, stops,
                   missed, razed, clashed>>

CacheContext(j) ==
    /\ At(j, "open", "use")
    /\ context' = [context EXCEPT ![Cmd(j).process][T(j)] = mem[j].pepper]
    /\ Goto(j, "done")
    /\ UNCHANGED <<scenario, mem, tenant, cert, audit, database, vault, stops, history>>

\* add_suppression_inner: the row is keyed by the HMAC the pepper gives.
Suppress(j) ==
    /\ At(j, "suppress", "use")
    /\ IF ~Connects(T(j))
       THEN Abort(j) /\ UNCHANGED database
       ELSE /\ database' = [database EXCEPT ![T(j)].suppressed = @ \cup {mem[j].pepper}]
            /\ Conclude(j, IF mem[j].pepper \in database[T(j)].suppressed
                           THEN "idempotent" ELSE "created")
    /\ UNCHANGED <<scenario, tenant, cert, audit, vault, context, stops, history>>

\* evict_idle forgets a tenant that a process has not been asked for in a while.
evict_idle(p, t) ==
    /\ context[p][t] # None /\ ~Opening(p)
    /\ context' = [context EXCEPT ![p][t] = None]
    /\ UNCHANGED <<scenario, pc, mem, tenant, cert, audit, database, vault, stops, history>>

-----------------------------------------------------------------------------
\* platform_audit::record, the last statement of every command.  After it the
\* operator of a first provision is shown the SecretID.
record(j) ==
    /\ pc[j] = "audit"
    /\ audit' = [audit EXCEPT ![j] = mem[j].outcome]
    /\ Goto(j, "done")
    /\ vault' = IF Cmd(j).op = "provision" /\ mem[j].outcome = "created"
                THEN [vault EXCEPT ![T(j)].secret = vault[T(j)].generation] ELSE vault
    /\ UNCHANGED <<scenario, mem, tenant, cert, database, context, stops, history>>

\* A job dies, or a statement of its own fails, before its next step.
Stop(j) ==
    /\ InFlight(j) /\ stops < MaxStops
    /\ stops' = stops + 1
    /\ Goto(j, "stopped")
    /\ UNCHANGED <<scenario, mem, tenant, cert, audit, database, vault, context, history>>

Init ==
    /\ scenario \in Scenarios
    /\ pc = [j \in Jobs |-> "begin"]
    /\ mem = [j \in Jobs |-> Blank]
    /\ tenant = [t \in Tenants |->
           IF t \in scenario.active
           THEN [status |-> "active", database_name |-> t, pepper |-> None] ELSE None]
    /\ database = [t \in Tenants |->
           IF t \in scenario.active
           THEN [migrated |-> TRUE, producers |-> {}, config |-> None,
                 provider |-> None, suppressed |-> {}] ELSE None]
    /\ vault = [t \in Tenants |->
           LET n == IF t \in scenario.active THEN 1 ELSE 0
           IN  [key |-> n = 1, role |-> n = 1, generation |-> n, secret |-> n]]
    /\ cert = [c \in Certs |-> None]
    /\ audit = [j \in Jobs |-> None]
    /\ context = [p \in Processes |-> [t \in Tenants |-> None]]
    /\ stops = 0
    /\ missed = {} /\ razed = {} /\ clashed = {} /\ overwritten = {}

provision_tenant(j) ==
    \/ FindTenant(j) \/ insert_provisioning(j) \/ CreateKey(j) \/ CreateRole(j)
    \/ DatabaseExists(j) \/ CreateDatabase(j) \/ Migrate(j) \/ mark_active(j)

destroy_tenant(j) ==
    FindDoomed(j) \/ DeleteKey(j) \/ DeleteRole(j) \/ DropDatabase(j) \/ mark_status(j)

register_producer(j) ==
    classify_registration(j) \/ FindElsewhere(j) \/ insert_if_absent(j) \/ upsert_producer_cert(j)

disable_producer(j) ==
    FindProducer(j) \/ set_cert_enabled(j) \/ set_enabled(j)

UsePepper(j) ==
    \/ get_or_open(j) \/ add_suppression(j) \/ ensure_tenant_pepper(j)
    \/ record_vault_pepper_wrapped(j) \/ CacheContext(j) \/ Suppress(j)

Next ==
    \/ \E j \in Jobs :
        \/ provision_tenant(j) \/ destroy_tenant(j) \/ suspend(j)
        \/ register_producer(j) \/ disable_producer(j)
        \/ set_tenant_config(j) \/ load_one(j) \/ upsert(j)
        \/ UsePepper(j) \/ record(j) \/ Stop(j)
    \/ \E p \in Processes, t \in Tenants : evict_idle(p, t)

Spec == Init /\ [][Next]_vars

-----------------------------------------------------------------------------
\* The types of the stores.
TypeOK ==
    /\ tenant \in [Tenants -> Tenant \cup {None}]
    /\ database \in [Tenants -> Database \cup {None}]
    /\ vault \in [Tenants -> Vault]
    /\ cert \in [Certs -> Mapping \cup {None}]
    /\ context \in [Processes -> [Tenants -> Pepper \cup {None}]]
    /\ \A S \in {razed, clashed, overwritten} : S \subseteq Tenants
    /\ missed \subseteq Jobs /\ stops \in 0..MaxStops

\* A mapping leads to a producer that exists, in the database of the tenant it
\* names, with that certificate: register_producer writes the row first.  Only
\* the destruction of the tenant leaves mappings of producers that are gone.
CertsPointHome ==
    \A c \in Certs : cert[c] # None /\ cert[c].tenant \notin razed =>
        \E r \in Producers(cert[c].tenant) : r.id = cert[c].producer /\ r.cert = c

\* A producer that its tenant's database says is disabled does not resolve, in
\* whatever order registrations, repetitions of them, disablings and failures
\* come.  The exception is a producer disabled when its certificate had no
\* mapping: set_cert_enabled then updates nothing, and the registration that is
\* finished or repeated later maps it as enabled.
DisabledStaysOff ==
    \A c \in Certs : resolve_producer(c) = "ok" =>
        \A r \in Producers(cert[c].tenant) :
            r.id = cert[c].producer /\ ~r.enabled => r.id \in missed

\* A registration that reports success has left both halves in place, also when
\* it found the half an interrupted one had left behind or lost a race: its
\* certificate is mapped, and its tenant has the producer under that name.
RegisteredIsMapped ==
    \A j \in Jobs : Cmd(j).op = "register" /\ audit[j] \in {"created", "idempotent"} =>
        /\ cert[Cmd(j).cert] # None
        /\ T(j) \in razed \/ \E r \in Producers(T(j)) :
               r.name = Cmd(j).name /\ r.cert = Cmd(j).cert /\ r.owner = Cmd(j).owner

\* Of the commands that create one thing, one reports to have created it: a
\* tenant, a producer of a name, the configuration row of a tenant.
CreatedOnce ==
    \A j, k \in Jobs :
        /\ j # k /\ audit[j] = "created" /\ audit[k] = "created"
        /\ Cmd(j).op = Cmd(k).op /\ T(j) = T(k)
        /\ Cmd(j).op = "register" => Cmd(j).name = Cmd(k).name
        => T(j) \in razed \/ Cmd(j).op \in {"provide", "suppress"}

\* A tenant is active only with a migrated database, a key and a role, and with
\* its SecretID in the operator's hands unless the provision that minted it did
\* not finish.  A destruction under way, abandoned, or run together with a
\* provision is excused; a tenant provisioned again after it gets no SecretID.
ActiveIsUsable ==
    \A t \in Tenants : tenant[t] # None /\ tenant[t].status = "active" =>
        \/ t \in clashed
        \/ \E j \in Of("destroy", t) : InFlight(j) \/ pc[j] = "stopped"
        \/ /\ Connects(t) /\ vault[t].key /\ vault[t].role
           /\ \/ vault[t].secret = vault[t].generation \/ t \in razed
              \/ \E j \in Of("provision", t) : InFlight(j) \/ pc[j] = "stopped"

\* destroy_tenant never leaves a key behind a database that is gone: only a
\* provision that has not got to the database yet does.
KeyDiesFirst ==
    \A t \in Tenants : database[t] = None /\ vault[t].key =>
        t \in clashed \/ \E j \in Of("provision", t) : InFlight(j) \/ pc[j] = "stopped"

\* Everything that is hashed for a tenant is hashed with one pepper: that of
\* every serving process and that of every suppression entry is the one stored.
\* The exceptions are a pepper stored over another, when two first uses overlap,
\* and a tenant that has been destroyed.
PeppersAgree ==
    \A t \in Tenants : t \in overwritten \cup razed \/
        /\ \A p \in Processes : context[p][t] # None => context[p][t] = tenant[t].pepper
        /\ database[t] # None => database[t].suppressed \subseteq {tenant[t].pepper}
=============================================================================
