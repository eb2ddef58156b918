------------------------- MODULE ControlPlaneProofs -------------------------
(***************************************************************************)
(* What ControlPlane's run shows for five jobs, proved for any jobs,       *)
(* tenants, certificates, processes and commands, and any number of        *)
(* failures.                                                               *)
(***************************************************************************)
EXTENDS ControlPlane, TLAPS

Labels ==
    {"begin", "insert", "key", "role", "exists", "create", "migrate", "activate",
     "deletekey", "deleterole", "drop", "mark", "classify", "elsewhere", "insertrow",
     "map", "switchoff", "disablerow", "upsert", "pepper", "record", "use", "audit",
     "done", "stopped"}
Outcomes ==
    {"created", "idempotent", "updated", "rejected", "destroyed", "suspended", "disabled"}
Memory ==
    [outcome : Outcomes \cup {None}, row : Producer \cup {None},
     pepper : Pepper \cup {None}, again : BOOLEAN]

\* The jobs.
Control ==
    /\ scenario \in Scenarios
    /\ pc \in [Jobs -> Labels] /\ mem \in [Jobs -> Memory]
    /\ audit \in [Jobs -> Outcomes \cup {None}]
    /\ stops \in 0..MaxStops

\* A job past the point at which it found its tenant or inserted it.
Working(j) ==
    \/ /\ Cmd(j).op = "provision"
       /\ pc[j] \in {"key", "role", "exists", "create", "migrate", "activate"}
    \/ /\ Cmd(j).op = "destroy"
       /\ pc[j] \in {"deletekey", "deleterole", "drop", "mark"}
    \/ pc[j] \in {"pepper", "record", "use"}

\* What a job has found or made and still relies on.
Held(j) ==
    /\ Working(j) => tenant[T(j)] # None
    /\ At(j, "register", "map") =>
        /\ mem[j].row \in Producer /\ mem[j].row.cert = Cmd(j).cert
    /\ Cmd(j).op = "disable" /\ pc[j] \in {"switchoff", "disablerow"} => mem[j].row \in Producer
    /\ pc[j] \in {"record", "use"} => mem[j].pepper \in Pepper

Shape == Control /\ TypeOK /\ \A j \in Jobs : Held(j)

\* The step of a job.
Step(j) ==
    \/ provision_tenant(j) \/ destroy_tenant(j) \/ suspend(j)
    \/ register_producer(j) \/ disable_producer(j)
    \/ set_tenant_config(j) \/ load_one(j) \/ upsert(j)
    \/ UsePepper(j) \/ record(j) \/ Stop(j)

\* Every step is a job's, or forgets a context.
LEMMA Cases ==
    ASSUME [Next]_vars
    PROVE  \/ \E j \in Jobs : Step(j)
           \/ \E p \in Processes, t \in Tenants : evict_idle(p, t)
           \/ UNCHANGED vars
BY Zenon DEF Next, Step

\* A job's step leaves the other jobs where they are.
Others(j) ==
    /\ scenario' = scenario
    /\ \A k \in Jobs \ {j} : pc'[k] = pc[k] /\ mem'[k] = mem[k] /\ audit'[k] = audit[k]

\* Every handler is one job's.
LEMMA Moves ==
    ASSUME Control, NEW j \in Jobs, Step(j)
    PROVE  Others(j)
<1>1. CASE provision_tenant(j)
    BY Zenon, <1>1 DEF provision_tenant, FindTenant, insert_provisioning, CreateKey, CreateRole,
        DatabaseExists, CreateDatabase, Migrate, mark_active, Conclude, Abort, Goto, Others, Control
<1>2. CASE destroy_tenant(j) \/ suspend(j)
    BY Zenon, <1>2 DEF destroy_tenant, FindDoomed, DeleteKey, DeleteRole, DropDatabase,
        mark_status, suspend, Conclude, Abort, Goto, Others, Control
<1>3. CASE register_producer(j)
    BY Zenon, <1>3 DEF register_producer, classify_registration, FindElsewhere, insert_if_absent,
        upsert_producer_cert, Conclude, Abort, Goto, Others, Control
<1>4. CASE disable_producer(j)
    BY Zenon, <1>4 DEF disable_producer, FindProducer, set_cert_enabled, set_enabled,
        Conclude, Abort, Goto, Others, Control
<1>5. CASE set_tenant_config(j) \/ load_one(j) \/ upsert(j)
    BY Zenon, <1>5 DEF set_tenant_config, load_one, upsert, Conclude, Abort, Goto, Others, Control
<1>6. CASE UsePepper(j)
    BY Zenon, <1>6 DEF UsePepper, get_or_open, add_suppression, ensure_tenant_pepper,
        record_vault_pepper_wrapped, CacheContext, Suppress, Conclude, Abort, Goto, Others, Control
<1>7. CASE record(j) \/ Stop(j)
    BY Zenon, <1>7 DEF record, Stop, Goto, Others, Control
<1> QED
    BY Zenon, <1>1, <1>2, <1>3, <1>4, <1>5, <1>6, <1>7 DEF Step

\* Who writes what.
LEMMA Writers ==
    ASSUME NEW j \in Jobs, Step(j)
    PROVE  /\ \/ tenant' = tenant \/ insert_provisioning(j) \/ mark_active(j) \/ mark_status(j)
              \/ suspend(j) \/ record_vault_pepper_wrapped(j)
           /\ \/ database' = database \/ CreateDatabase(j) \/ Migrate(j) \/ DropDatabase(j)
              \/ insert_if_absent(j) \/ set_enabled(j) \/ set_tenant_config(j) \/ upsert(j)
              \/ Suppress(j)
           /\ \/ vault' = vault \/ CreateKey(j) \/ CreateRole(j) \/ DeleteKey(j) \/ DeleteRole(j)
              \/ record(j)
           /\ cert' = cert \/ upsert_producer_cert(j) \/ set_cert_enabled(j)
           /\ context' = context \/ CacheContext(j)
           /\ audit' = audit \/ suspend(j) \/ record(j)
           /\ missed' = missed \/ set_cert_enabled(j)
           /\ razed' = razed \/ FindDoomed(j)
           /\ clashed' = clashed \/ FindDoomed(j) \/ FindTenant(j)
           /\ overwritten' = overwritten \/ record_vault_pepper_wrapped(j)
           /\ stops' = stops \/ Stop(j)
<1>1. CASE provision_tenant(j)
    BY Zenon, <1>1 DEF provision_tenant, FindTenant, insert_provisioning, CreateKey, CreateRole,
        DatabaseExists, CreateDatabase, Migrate, mark_active, history
<1>2. CASE destroy_tenant(j) \/ suspend(j)
    BY Zenon, <1>2 DEF destroy_tenant, FindDoomed, DeleteKey, DeleteRole, DropDatabase,
        mark_status, suspend, history
<1>3. CASE register_producer(j)
    BY Zenon, <1>3 DEF register_producer, classify_registration, FindElsewhere, insert_if_absent,
        upsert_producer_cert, history
<1>4. CASE disable_producer(j)
    BY Zenon, <1>4 DEF disable_producer, FindProducer, set_cert_enabled, set_enabled, history
<1>5. CASE set_tenant_config(j) \/ load_one(j) \/ upsert(j)
    BY Zenon, <1>5 DEF set_tenant_config, load_one, upsert, history
<1>6. CASE UsePepper(j)
    BY Zenon, <1>6 DEF UsePepper, get_or_open, add_suppression, ensure_tenant_pepper,
        record_vault_pepper_wrapped, CacheContext, Suppress, history
<1>7. CASE record(j) \/ Stop(j)
    BY Zenon, <1>7 DEF record, Stop, history
<1> QED
    BY Zenon, <1>1, <1>2, <1>3, <1>4, <1>5, <1>6, <1>7 DEF Step

\* The arguments of a command.
LEMMA Arguments ==
    ASSUME Control, NEW j \in Jobs
    PROVE  /\ T(j) \in Tenants
           /\ Cmd(j).op = "provision" => Cmd(j).database_name \in Values
           /\ Cmd(j).op = "register" =>
                 Cmd(j).cert \in Certs /\ Cmd(j).name \in Values /\ Cmd(j).owner \in Values
           /\ Cmd(j).op = "open" => Cmd(j).process \in Processes
           /\ Cmd(j).op \in {"configure", "provide"} => Cmd(j).value \in Values
BY Zenon, ControlPlaneAssumption DEF Control, T, Cmd

\* None is not among the rows and is no outcome.
LEMMA NoRow ==
    /\ None \notin Values /\ None \notin Pepper /\ None \notin Tenant /\ None \notin Mapping
    /\ None \notin Producer /\ None \notin Database
    /\ None # "created" /\ None # "idempotent"
BY Zenon, ControlPlaneAssumption

\* What is written to the control database's tenant table.
WritesTenant(j) ==
    \/ insert_provisioning(j) \/ mark_active(j) \/ mark_status(j) \/ suspend(j)
    \/ record_vault_pepper_wrapped(j)

\* A row appears once, a status changes alone, and so does a pepper.
LEMMA TenantWrites ==
    ASSUME Shape, NEW j \in Jobs, Step(j)
    PROVE  /\ tenant' \in [Tenants -> Tenant \cup {None}]
           /\ \A t \in Tenants \ {T(j)} : tenant'[t] = tenant[t]
           /\ \/ tenant' = tenant /\ (Abort(j) \/ ~WritesTenant(j))
              \/ /\ insert_provisioning(j) /\ tenant[T(j)] = None /\ tenant'[T(j)] \in Tenant
                 /\ tenant'[T(j)].status = "provisioning" /\ tenant'[T(j)].pepper = None
              \/ /\ mark_active(j) \/ mark_status(j) \/ suspend(j)
                 /\ tenant[T(j)] \in Tenant /\ tenant'[T(j)] \in Tenant
                 /\ tenant'[T(j)].pepper = tenant[T(j)].pepper
                 /\ mark_status(j) \/ suspend(j) => tenant'[T(j)].status # "active"
              \/ /\ record_vault_pepper_wrapped(j)
                 /\ tenant[T(j)] \in Tenant /\ tenant'[T(j)] \in Tenant
                 /\ tenant'[T(j)].pepper = mem[j].pepper
                 /\ tenant'[T(j)].status = tenant[T(j)].status
<1>0. /\ tenant \in [Tenants -> Tenant \cup {None}] /\ T(j) \in Tenants
      /\ Working(j) => tenant[T(j)] # None
      /\ pc[j] = "record" => mem[j].pepper \in Pepper
    BY Zenon, Arguments DEF Shape, TypeOK, Held
<1>1. CASE insert_provisioning(j)
    <2>1. Cmd(j).database_name \in Values
        BY Zenon, <1>1, Arguments DEF Shape, insert_provisioning, At
    <2>2. CASE tenant' = tenant /\ Abort(j)
        BY Zenon, <1>0, <2>2
    <2>3. CASE ~(tenant' = tenant /\ Abort(j))
        <3>1. tenant[T(j)] = None
            BY Zenon, <1>0, <1>1, <2>3 DEF insert_provisioning
        <3>2. tenant' = [tenant EXCEPT ![T(j)] =
                  [status |-> "provisioning", database_name |-> Cmd(j).database_name,
                   pepper |-> None]]
            BY Zenon, <1>1, <2>3 DEF insert_provisioning
        <3>3. [status |-> "provisioning", database_name |-> Cmd(j).database_name,
                   pepper |-> None] \in Tenant
            BY <2>1 DEF Tenant, Statuses
        <3> QED
            BY <1>0, <1>1, <3>1, <3>2, <3>3
    <2> QED
        BY Zenon, <2>2, <2>3
<1>2. ASSUME NEW s \in Statuses, tenant[T(j)] # None,
             tenant' = [tenant EXCEPT ![T(j)].status = s]
      PROVE  /\ tenant[T(j)] \in Tenant /\ tenant'[T(j)] \in Tenant
             /\ tenant'[T(j)].pepper = tenant[T(j)].pepper /\ tenant'[T(j)].status = s
             /\ \A t \in Tenants \ {T(j)} : tenant'[t] = tenant[t]
             /\ tenant' \in [Tenants -> Tenant \cup {None}]
    BY <1>0, <1>2 DEF Tenant
<1>3. CASE mark_active(j) \/ mark_status(j) \/ suspend(j)
    <2>1. CASE tenant' = tenant /\ Abort(j)
        BY Zenon, <1>0, <2>1
    <2>2. CASE ~(tenant' = tenant /\ Abort(j))
        <3>1. tenant[T(j)] # None
            BY Zenon, <1>0, <1>3, <2>2 DEF mark_active, mark_status, suspend, Working, At
        <3>2. \E s \in Statuses : /\ tenant' = [tenant EXCEPT ![T(j)].status = s]
                                  /\ mark_status(j) \/ suspend(j) => s # "active"
            BY Zenon, <1>3, <2>2 DEF mark_active, mark_status, suspend, Statuses, At
        <3> QED
            BY Zenon, <1>2, <1>3, <3>1, <3>2
    <2> QED
        BY Zenon, <2>1, <2>2
<1>4. CASE record_vault_pepper_wrapped(j)
    <2>1. /\ tenant' = [tenant EXCEPT ![T(j)].pepper = mem[j].pepper]
          /\ tenant[T(j)] \in Tenant /\ mem[j].pepper \in Pepper
        BY Zenon, <1>0, <1>4 DEF record_vault_pepper_wrapped, Working
    <2> QED
        BY <1>0, <1>4, <2>1 DEF Tenant
<1>5. CASE ~WritesTenant(j)
    BY Zenon, <1>0, <1>5, Writers DEF WritesTenant
<1> QED
    BY Zenon, <1>1, <1>3, <1>4, <1>5 DEF WritesTenant

\* The row a registration inserts.
Row(j) ==
    [id |-> j, name |-> Cmd(j).name, cert |-> Cmd(j).cert, owner |-> Cmd(j).owner,
     enabled |-> TRUE]

\* Its fields.
LEMMA RowFields ==
    ASSUME Control, NEW j \in Jobs, Cmd(j).op = "register"
    PROVE  /\ Row(j) \in Producer
           /\ Row(j).id = j /\ Row(j).name = Cmd(j).name /\ Row(j).cert = Cmd(j).cert
           /\ Row(j).owner = Cmd(j).owner /\ Row(j).enabled = TRUE
<1>1. Cmd(j).cert \in Certs /\ Cmd(j).name \in Values /\ Cmd(j).owner \in Values
    BY Zenon, Arguments
<1> QED
    BY <1>1 DEF Row, Producer

\* A row once set_enabled has run for producer i.
Disabled(r, i) == IF r.id = i THEN [r EXCEPT !.enabled = FALSE] ELSE r

\* Only the flag changes.
LEMMA DisabledFields ==
    ASSUME NEW r \in Producer, NEW i
    PROVE  /\ Disabled(r, i) \in Producer
           /\ Disabled(r, i).id = r.id /\ Disabled(r, i).name = r.name
           /\ Disabled(r, i).cert = r.cert /\ Disabled(r, i).owner = r.owner
           /\ r.id # i => Disabled(r, i) = r
<1>1. CASE r.id = i
    <2>1. Disabled(r, i) = [r EXCEPT !.enabled = FALSE]
        BY Zenon, <1>1 DEF Disabled
    <2> QED
        BY Zenon, <1>1, <2>1 DEF Producer
<1>2. CASE r.id # i
    BY Zenon, <1>2 DEF Disabled
<1> QED
    BY Zenon, <1>1, <1>2

\* A database that has just been created.
Empty ==
    [migrated |-> FALSE, producers |-> {}, config |-> None, provider |-> None, suppressed |-> {}]

\* It has no rows.
LEMMA EmptyFields ==
    Empty \in Database /\ Empty.producers = {} /\ Empty.config = None /\ Empty.suppressed = {}
BY DEF Empty, Database

\* And one that has been migrated.
LEMMA MigratedFields ==
    ASSUME NEW d \in Database
    PROVE  /\ [d EXCEPT !.migrated = TRUE] \in Database
           /\ [d EXCEPT !.migrated = TRUE].migrated = TRUE
           /\ [d EXCEPT !.migrated = TRUE].producers = d.producers
           /\ [d EXCEPT !.migrated = TRUE].config = d.config
           /\ [d EXCEPT !.migrated = TRUE].suppressed = d.suppressed
BY Zenon DEF Database

\* The columns of a tenant's database that a statement leaves alone.
SameMigrated(t) == database'[t].migrated = database[t].migrated
SameProducers(t) == database'[t].producers = database[t].producers
SameConfig(t) == database'[t].config = database[t].config
SameSuppressed(t) == database'[t].suppressed = database[t].suppressed

\* What is written to the tenants' databases, and how a writer may fail.
WritesDatabase(j) ==
    \/ CreateDatabase(j) \/ Migrate(j) \/ DropDatabase(j) \/ insert_if_absent(j) \/ set_enabled(j)
    \/ set_tenant_config(j) \/ upsert(j) \/ Suppress(j)
Fails(j) == Abort(j) \/ Goto(j, "classify") \/ Conclude(j, "rejected")

\* Every statement is about one thing.
LEMMA DatabaseWrites ==
    ASSUME Shape, NEW j \in Jobs, Step(j)
    PROVE  /\ database' \in [Tenants -> Database \cup {None}]
           /\ \A t \in Tenants \ {T(j)} : database'[t] = database[t]
           /\ \/ database' = database /\ (Fails(j) \/ ~WritesDatabase(j))
              \/ /\ CreateDatabase(j) /\ database[T(j)] = None /\ database'[T(j)] \in Database
                 /\ database'[T(j)].producers = {} /\ database'[T(j)].config = None
                 /\ database'[T(j)].suppressed = {}
              \/ DropDatabase(j) /\ database'[T(j)] = None
              \/ /\ database[T(j)] \in Database /\ database'[T(j)] \in Database
                 /\ \/ /\ Migrate(j) /\ database'[T(j)].migrated
                       /\ SameProducers(T(j)) /\ SameConfig(T(j)) /\ SameSuppressed(T(j))
                    \/ /\ insert_if_absent(j)
                       /\ database'[T(j)].producers = database[T(j)].producers \cup {Row(j)}
                       /\ SameMigrated(T(j)) /\ SameConfig(T(j)) /\ SameSuppressed(T(j))
                    \/ /\ set_enabled(j)
                       /\ database'[T(j)].producers =
                             {Disabled(r, mem[j].row.id) : r \in database[T(j)].producers}
                       /\ SameMigrated(T(j)) /\ SameConfig(T(j)) /\ SameSuppressed(T(j))
                    \/ /\ set_tenant_config(j) /\ database'[T(j)].config = Cmd(j).value
                       /\ SameMigrated(T(j)) /\ SameProducers(T(j)) /\ SameSuppressed(T(j))
                    \/ /\ upsert(j)
                       /\ SameMigrated(T(j)) /\ SameProducers(T(j)) /\ SameConfig(T(j))
                       /\ SameSuppressed(T(j))
                    \/ /\ Suppress(j)
                       /\ database'[T(j)].suppressed = database[T(j)].suppressed \cup {mem[j].pepper}
                       /\ SameMigrated(T(j)) /\ SameProducers(T(j)) /\ SameConfig(T(j))
<1>0. database \in [Tenants -> Database \cup {None}] /\ T(j) \in Tenants /\ None \notin Database
    BY Zenon, Arguments, NoRow DEF Shape, TypeOK
<1>1. CASE database' = database /\ (Fails(j) \/ ~WritesDatabase(j))
    BY Zenon, <1>0, <1>1
<1>2. CASE CreateDatabase(j) /\ ~(database' = database /\ Fails(j))
    <2>1. database[T(j)] = None /\ database' = [database EXCEPT ![T(j)] = Empty]
        BY Zenon, <1>2 DEF Fails, CreateDatabase, Empty
    <2>2. database'[T(j)] = Empty /\ \A t \in Tenants \ {T(j)} : database'[t] = database[t]
        BY Zenon, <1>0, <2>1
    <2>3. database' \in [Tenants -> Database \cup {None}]
        BY Zenon, <1>0, <2>1, EmptyFields
    <2> QED
        BY Zenon, <1>2, <2>1, <2>2, <2>3, EmptyFields
<1>3. CASE DropDatabase(j)
    BY Zenon, <1>0, <1>3 DEF DropDatabase
<1>4. CASE Migrate(j) /\ ~(database' = database /\ Fails(j))
    <2>1. database[T(j)] \in Database /\ database' = [database EXCEPT ![T(j)].migrated = TRUE]
        BY Zenon, <1>0, <1>4 DEF Fails, Migrate
    <2>2. /\ database'[T(j)] = [database[T(j)] EXCEPT !.migrated = TRUE]
          /\ \A t \in Tenants \ {T(j)} : database'[t] = database[t]
        BY Zenon, <1>0, <2>1
    <2>3. /\ database'[T(j)] \in Database /\ database'[T(j)].migrated
          /\ SameProducers(T(j)) /\ SameConfig(T(j)) /\ SameSuppressed(T(j))
        BY Zenon, <2>1, <2>2, MigratedFields DEF SameProducers, SameConfig, SameSuppressed
    <2>4. database' \in [Tenants -> Database \cup {None}]
        BY <1>0, <2>1, <2>2, <2>3
    <2> QED
        BY Zenon, <1>4, <2>1, <2>2, <2>3, <2>4
<1>5. CASE insert_if_absent(j) /\ ~(database' = database /\ Fails(j))
    <2>1. /\ database[T(j)] \in Database /\ Row(j) \in Producer
          /\ database' = [database EXCEPT ![T(j)].producers = @ \cup {Row(j)}]
        BY Zenon, <1>0, <1>5, RowFields DEF Fails, insert_if_absent, Row, T, Connects, Shape, At
    <2> QED
        BY <1>0, <1>5, <2>1 DEF Database, SameMigrated, SameConfig, SameSuppressed
<1>6. CASE set_enabled(j) /\ ~(database' = database /\ Fails(j))
    <2>1. /\ database[T(j)] \in Database
          /\ database' = [database EXCEPT ![T(j)].producers =
                  {Disabled(r, mem[j].row.id) : r \in @}]
        BY Zenon, <1>0, <1>6 DEF Fails, set_enabled, Connects, Disabled
    <2>2. {Disabled(r, mem[j].row.id) : r \in database[T(j)].producers} \subseteq Producer
        <3>1. database[T(j)].producers \subseteq Producer
            BY <2>1 DEF Database
        <3>2. \A r \in database[T(j)].producers : Disabled(r, mem[j].row.id) \in Producer
            BY Zenon, <3>1, DisabledFields
        <3> QED
            BY Zenon, <3>2
    <2> QED
        BY <1>0, <1>6, <2>1, <2>2 DEF Database, SameMigrated, SameConfig, SameSuppressed
<1>7. CASE set_tenant_config(j) /\ ~(database' = database /\ Fails(j))
    <2>1. /\ database[T(j)] \in Database /\ Cmd(j).value \in Values
          /\ database' = [database EXCEPT ![T(j)].config = Cmd(j).value]
        BY Zenon, <1>0, <1>7, Arguments DEF Fails, set_tenant_config, Connects, At, Shape
    <2> QED
        BY <1>0, <1>7, <2>1 DEF Database, SameMigrated, SameProducers, SameSuppressed
<1>8. CASE upsert(j) /\ ~(database' = database /\ Fails(j))
    <2>1. /\ database[T(j)] \in Database /\ Cmd(j).value \in Values
          /\ database' = [database EXCEPT ![T(j)].provider = Cmd(j).value]
        BY Zenon, <1>0, <1>8, Arguments DEF Fails, upsert, Connects, At, Shape
    <2> QED
        BY <1>0, <1>8, <2>1
        DEF Database, SameMigrated, SameProducers, SameConfig, SameSuppressed
<1>9. CASE Suppress(j) /\ ~(database' = database /\ Fails(j))
    <2>1. /\ database[T(j)] \in Database /\ mem[j].pepper \in Pepper
          /\ database' = [database EXCEPT ![T(j)].suppressed = @ \cup {mem[j].pepper}]
        BY Zenon, <1>0, <1>9 DEF Fails, Suppress, Connects, At, Shape, Held
    <2> QED
        BY <1>0, <1>9, <2>1 DEF Database, SameMigrated, SameProducers, SameConfig
<1> QED
    BY Zenon, <1>1, <1>2, <1>3, <1>4, <1>5, <1>6, <1>7, <1>8, <1>9, Writers DEF WritesDatabase

\* provision_vault makes the key, a new one, if there is none.
Minted(v) ==
    IF v.key THEN v ELSE [v EXCEPT !.key = TRUE, !.generation = v.generation + 1]

\* The key is there, and one that was there is the same.
LEMMA KeyMade ==
    ASSUME NEW v \in Vault
    PROVE  /\ Minted(v) \in Vault /\ Minted(v).key = TRUE
           /\ Minted(v).role = v.role /\ Minted(v).secret = v.secret
           /\ v.key => Minted(v) = v
<1>1. v.generation + 1 \in Nat
    BY DEF Vault
<1>2. CASE v.key
    BY Zenon, <1>2 DEF Minted, Vault
<1>3. CASE ~v.key
    <2>1. Minted(v) = [v EXCEPT !.key = TRUE, !.generation = v.generation + 1]
        BY Zenon, <1>3 DEF Minted
    <2> QED
        BY Zenon, <1>1, <1>3, <2>1 DEF Vault
<1> QED
    BY Zenon, <1>2, <1>3

\* destroy_vault deletes it and nothing else.
LEMMA KeyDeleted ==
    ASSUME NEW v \in Vault
    PROVE  [v EXCEPT !.key = FALSE] \in Vault /\ [v EXCEPT !.key = FALSE].key = FALSE
BY Zenon DEF Vault

\* The AppRole comes and goes on its own,
LEMMA RoleSet ==
    ASSUME NEW v \in Vault, NEW b \in BOOLEAN
    PROVE  /\ [v EXCEPT !.role = b] \in Vault
           /\ [v EXCEPT !.role = b].key = v.key
           /\ [v EXCEPT !.role = b].role = b
           /\ [v EXCEPT !.role = b].generation = v.generation
           /\ [v EXCEPT !.role = b].secret = v.secret
BY Zenon DEF Vault

\* and so does the SecretID.
LEMMA SecretSet ==
    ASSUME NEW v \in Vault, NEW n \in Nat
    PROVE  /\ [v EXCEPT !.secret = n] \in Vault
           /\ [v EXCEPT !.secret = n].key = v.key
           /\ [v EXCEPT !.secret = n].role = v.role
           /\ [v EXCEPT !.secret = n].generation = v.generation
           /\ [v EXCEPT !.secret = n].secret = n
BY Zenon DEF Vault

\* What is written to Vault.
WritesVault(j) ==
    \/ CreateKey(j) \/ CreateRole(j) \/ DeleteKey(j) \/ DeleteRole(j)
    \/ record(j) /\ Cmd(j).op = "provision" /\ mem[j].outcome = "created"

\* Every call is about one thing.
LEMMA VaultWrites ==
    ASSUME Shape, NEW j \in Jobs, Step(j)
    PROVE  /\ vault' \in [Tenants -> Vault]
           /\ \A t \in Tenants \ {T(j)} : vault'[t] = vault[t]
           /\ \/ vault' = vault /\ ~WritesVault(j)
              \/ /\ CreateKey(j) /\ vault'[T(j)].key = TRUE
                 /\ vault'[T(j)].role = vault[T(j)].role
                 /\ vault[T(j)].key => vault'[T(j)] = vault[T(j)]
              \/ /\ CreateRole(j) /\ vault'[T(j)].role = TRUE
                 /\ vault'[T(j)].key = vault[T(j)].key
                 /\ vault'[T(j)].generation = vault[T(j)].generation
                 /\ vault'[T(j)].secret = vault[T(j)].secret
              \/ /\ DeleteKey(j) /\ vault'[T(j)].key = FALSE
              \/ /\ DeleteRole(j) /\ vault'[T(j)].key = vault[T(j)].key
              \/ /\ record(j) /\ Cmd(j).op = "provision" /\ mem[j].outcome = "created"
                 /\ vault'[T(j)].key = vault[T(j)].key
                 /\ vault'[T(j)].role = vault[T(j)].role
                 /\ vault'[T(j)].generation = vault[T(j)].generation
                 /\ vault'[T(j)].secret = vault[T(j)].generation
<1>0. vault \in [Tenants -> Vault] /\ T(j) \in Tenants /\ vault[T(j)] \in Vault
    BY Zenon, Arguments DEF Shape, TypeOK
<1>1. CASE ~WritesVault(j)
    BY Zenon, <1>0, <1>1, Writers DEF WritesVault, record
<1>2. ASSUME NEW v \in Vault, vault' = [vault EXCEPT ![T(j)] = v]
      PROVE  /\ vault' \in [Tenants -> Vault] /\ vault'[T(j)] = v
             /\ \A t \in Tenants \ {T(j)} : vault'[t] = vault[t]
    BY Zenon, <1>0, <1>2
<1>3. CASE CreateKey(j)
    <2> DEFINE v == Minted(vault[T(j)])
    <2>1. vault' = [vault EXCEPT ![T(j)] = v]
        BY Zenon, <1>3 DEF CreateKey, Minted
    <2>2. /\ v \in Vault /\ v.key = TRUE /\ v.role = vault[T(j)].role
          /\ vault[T(j)].key => v = vault[T(j)]
        BY Zenon, <1>0, KeyMade
    <2> QED
        BY Zenon, <1>2, <1>3, <2>1, <2>2
<1>4. CASE CreateRole(j)
    <2> DEFINE v == [vault[T(j)] EXCEPT !.role = TRUE]
    <2>1. vault' = [vault EXCEPT ![T(j)] = v]
        BY Zenon, <1>4 DEF CreateRole
    <2>2. /\ v \in Vault /\ v.role = TRUE /\ v.key = vault[T(j)].key
          /\ v.generation = vault[T(j)].generation /\ v.secret = vault[T(j)].secret
        BY Zenon, <1>0, RoleSet
    <2> HIDE DEF v
    <2> QED
        BY Zenon, <1>2, <1>4, <2>1, <2>2
<1>5. CASE DeleteKey(j)
    <2> DEFINE v == [vault[T(j)] EXCEPT !.key = FALSE]
    <2>1. vault' = [vault EXCEPT ![T(j)] = v]
        BY Zenon, <1>5 DEF DeleteKey
    <2>2. v \in Vault /\ v.key = FALSE
        BY Zenon, <1>0, KeyDeleted
    <2> HIDE DEF v
    <2> QED
        BY Zenon, <1>2, <1>5, <2>1, <2>2
<1>6. CASE DeleteRole(j)
    <2> DEFINE v == [vault[T(j)] EXCEPT !.role = FALSE]
    <2>1. vault' = [vault EXCEPT ![T(j)] = v]
        BY Zenon, <1>6 DEF DeleteRole
    <2>2. v \in Vault /\ v.key = vault[T(j)].key
        BY Zenon, <1>0, RoleSet
    <2> HIDE DEF v
    <2> QED
        BY Zenon, <1>2, <1>6, <2>1, <2>2
<1>7. CASE record(j) /\ Cmd(j).op = "provision" /\ mem[j].outcome = "created"
    <2> DEFINE v == [vault[T(j)] EXCEPT !.secret = vault[T(j)].generation]
    <2>1. vault' = [vault EXCEPT ![T(j)] = v]
        BY Zenon, <1>7 DEF record
    <2>2. vault[T(j)].generation \in Nat
        BY Zenon, <1>0 DEF Vault
    <2>3. /\ v \in Vault /\ v.role = vault[T(j)].role /\ v.key = vault[T(j)].key
          /\ v.generation = vault[T(j)].generation /\ v.secret = vault[T(j)].generation
        BY Zenon, <1>0, <2>2, SecretSet
    <2> HIDE DEF v
    <2> QED
        BY Zenon, <1>2, <1>7, <2>1, <2>3
<1> QED
    BY Zenon, <1>1, <1>3, <1>4, <1>5, <1>6, <1>7 DEF WritesVault

\* What is written to the mappings, and of the producers that had none.
LEMMA CertWrites ==
    ASSUME Shape, NEW j \in Jobs, Step(j)
    PROVE  /\ cert' \in [Certs -> Mapping \cup {None}]
           /\ missed' \subseteq Jobs /\ missed \subseteq missed'
           /\ \/ /\ cert' = cert /\ missed' = missed
                 /\ ~upsert_producer_cert(j) /\ ~set_cert_enabled(j)
              \/ /\ upsert_producer_cert(j) /\ Cmd(j).cert \in Certs
                 /\ cert'[Cmd(j).cert] \in Mapping
                 /\ cert'[Cmd(j).cert].tenant = T(j)
                 /\ cert'[Cmd(j).cert].producer = mem[j].row.id
                 /\ cert[Cmd(j).cert] # None =>
                       cert'[Cmd(j).cert].enabled = cert[Cmd(j).cert].enabled
                 /\ \A c \in Certs \ {Cmd(j).cert} : cert'[c] = cert[c]
                 /\ missed' = missed
              \/ /\ set_cert_enabled(j) /\ mem[j].row.cert \in Certs /\ mem[j].row.id \in Jobs
                 /\ cert[mem[j].row.cert] = None =>
                       cert'[mem[j].row.cert] = None /\ mem[j].row.id \in missed'
                 /\ cert[mem[j].row.cert] # None =>
                       /\ cert'[mem[j].row.cert] \in Mapping
                       /\ cert'[mem[j].row.cert].tenant = cert[mem[j].row.cert].tenant
                       /\ cert'[mem[j].row.cert].producer = cert[mem[j].row.cert].producer
                       /\ cert'[mem[j].row.cert].enabled = FALSE
                 /\ \A c \in Certs \ {mem[j].row.cert} : cert'[c] = cert[c]
<1>0. cert \in [Certs -> Mapping \cup {None}] /\ missed \subseteq Jobs /\ T(j) \in Tenants
    BY Zenon, Arguments DEF Shape, TypeOK
<1>1. ASSUME NEW c \in Certs, NEW m \in Mapping \cup {None}, cert' = [cert EXCEPT ![c] = m]
      PROVE  /\ cert' \in [Certs -> Mapping \cup {None}] /\ cert'[c] = m
             /\ \A d \in Certs \ {c} : cert'[d] = cert[d]
    BY Zenon, <1>0, <1>1
<1>2. CASE ~upsert_producer_cert(j) /\ ~set_cert_enabled(j)
    BY Zenon, <1>0, <1>2, Writers
<1>3. CASE upsert_producer_cert(j)
    <2>1. Cmd(j).cert \in Certs /\ mem[j].row.id \in Jobs /\ missed' = missed
        BY Zenon, <1>3, Arguments DEF upsert_producer_cert, At, Shape, Held, Producer, history
    <2> DEFINE e == IF cert[Cmd(j).cert] = None THEN TRUE ELSE cert[Cmd(j).cert].enabled
               m == [tenant |-> T(j), producer |-> mem[j].row.id, enabled |-> e]
    <2>2. cert' = [cert EXCEPT ![Cmd(j).cert] = m]
        BY Zenon, <1>3 DEF upsert_producer_cert
    <2>3. e \in BOOLEAN /\ (cert[Cmd(j).cert] # None => e = cert[Cmd(j).cert].enabled)
        BY Zenon, <1>0, <2>1 DEF Mapping
    <2>4. m \in Mapping /\ m.tenant = T(j) /\ m.producer = mem[j].row.id /\ m.enabled = e
        BY Zenon, <1>0, <2>1, <2>3 DEF Mapping
    <2> HIDE DEF e, m
    <2>5. /\ cert' \in [Certs -> Mapping \cup {None}] /\ cert'[Cmd(j).cert] = m
          /\ \A d \in Certs \ {Cmd(j).cert} : cert'[d] = cert[d]
        BY Zenon, <1>1, <2>1, <2>2, <2>4
    <2> QED
        BY Zenon, <1>0, <1>3, <2>1, <2>3, <2>4, <2>5
<1>4. CASE set_cert_enabled(j)
    <2> DEFINE c == mem[j].row.cert
               m == [cert[c] EXCEPT !.enabled = FALSE]
    <2>1. c \in Certs /\ mem[j].row.id \in Jobs
        BY Zenon, <1>4 DEF set_cert_enabled, At, Shape, Held, Producer
    <2>2. /\ cert' = [cert EXCEPT ![c] = IF cert[c] = None THEN None ELSE m]
          /\ missed' = IF cert[c] = None THEN missed \cup {mem[j].row.id} ELSE missed
        BY Zenon, <1>4 DEF set_cert_enabled
    <2>3. CASE cert[c] = None
        <3>1. cert' = [cert EXCEPT ![c] = None]
            BY Zenon, <2>2, <2>3
        <3>2. missed' = missed \cup {mem[j].row.id}
            BY Zenon, <2>2, <2>3
        <3> QED
            BY Zenon, <1>0, <1>1, <1>4, <2>1, <2>3, <3>1, <3>2
    <2>4. CASE cert[c] # None
        <3>1. cert' = [cert EXCEPT ![c] = m] /\ missed' = missed
            BY Zenon, <2>2, <2>4
        <3>2. cert[c] \in Mapping
            BY Zenon, <1>0, <2>1, <2>4
        <3>3. m \in Mapping /\ m.tenant = cert[c].tenant /\ m.producer = cert[c].producer
              /\ m.enabled = FALSE
            BY Zenon, <3>2 DEF Mapping
        <3> HIDE DEF m
        <3> QED
            BY Zenon, <1>0, <1>1, <1>4, <2>1, <2>4, <3>1, <3>3
    <2> QED
        BY Zenon, <2>3, <2>4
<1> QED
    BY Zenon, <1>2, <1>3, <1>4

\* What becomes of the contexts of the serving processes.
LEMMA ContextWrites ==
    ASSUME Shape, NEW j \in Jobs, Step(j)
    PROVE  /\ context' \in [Processes -> [Tenants -> Pepper \cup {None}]]
           /\ \A p \in Processes, t \in Tenants :
                 \/ context'[p][t] = context[p][t]
                 \/ CacheContext(j) /\ t = T(j) /\ context'[p][t] = mem[j].pepper
<1>0. context \in [Processes -> [Tenants -> Pepper \cup {None}]] /\ T(j) \in Tenants
    BY Zenon, Arguments DEF Shape, TypeOK
<1>1. CASE context' = context
    BY Zenon, <1>0, <1>1
<1>2. CASE CacheContext(j)
    <2>1. /\ Cmd(j).process \in Processes /\ mem[j].pepper \in Pepper
          /\ context' = [context EXCEPT ![Cmd(j).process] =
                 [context[Cmd(j).process] EXCEPT ![T(j)] = mem[j].pepper]]
        BY Zenon, <1>2, Arguments DEF CacheContext, At, Shape, Held
    <2>2. [context[Cmd(j).process] EXCEPT ![T(j)] = mem[j].pepper] \in [Tenants -> Pepper \cup {None}]
        BY Zenon, <1>0, <2>1
    <2>3. context' \in [Processes -> [Tenants -> Pepper \cup {None}]]
        BY Zenon, <1>0, <2>1, <2>2
    <2>4. \A p \in Processes, t \in Tenants :
              context'[p][t] = context[p][t] \/ (t = T(j) /\ context'[p][t] = mem[j].pepper)
        BY Zenon, <1>0, <2>1
    <2> QED
        BY Zenon, <1>2, <2>3, <2>4
<1> QED
    BY Zenon, <1>1, <1>2, Writers

-----------------------------------------------------------------------------
(* Where a job goes, and what it then remembers.                           *)

\* A job's memory after it has noted an outcome,
LEMMA OutcomeNoted ==
    ASSUME NEW m \in Memory, NEW o \in Outcomes \cup {None}
    PROVE  /\ [m EXCEPT !.outcome = o] \in Memory /\ [m EXCEPT !.outcome = o].outcome = o
           /\ [m EXCEPT !.outcome = o].row = m.row
           /\ [m EXCEPT !.outcome = o].pepper = m.pepper
BY Zenon DEF Memory

\* a row,
LEMMA RowNoted ==
    ASSUME NEW m \in Memory, NEW r \in Producer \cup {None}
    PROVE  /\ [m EXCEPT !.row = r] \in Memory /\ [m EXCEPT !.row = r].row = r
           /\ [m EXCEPT !.row = r].outcome = m.outcome
           /\ [m EXCEPT !.row = r].pepper = m.pepper
BY Zenon DEF Memory

\* a pepper,
LEMMA PepperNoted ==
    ASSUME NEW m \in Memory, NEW p \in Pepper \cup {None}
    PROVE  /\ [m EXCEPT !.pepper = p] \in Memory /\ [m EXCEPT !.pepper = p].pepper = p
           /\ [m EXCEPT !.pepper = p].outcome = m.outcome
           /\ [m EXCEPT !.pepper = p].row = m.row
BY Zenon DEF Memory

\* or a lost race.
LEMMA RaceNoted ==
    ASSUME NEW m \in Memory
    PROVE  /\ [m EXCEPT !.again = TRUE] \in Memory
           /\ [m EXCEPT !.again = TRUE].outcome = m.outcome
           /\ [m EXCEPT !.again = TRUE].row = m.row
           /\ [m EXCEPT !.again = TRUE].pepper = m.pepper
BY Zenon DEF Memory

Typed == pc' \in [Jobs -> Labels] /\ mem' \in [Jobs -> Memory]

\* A job moves on,
LEMMA Passes ==
    ASSUME Control, NEW j \in Jobs, NEW l \in Labels, Goto(j, l), UNCHANGED mem
    PROVE  Typed /\ pc'[j] = l /\ mem'[j] = mem[j]
BY Zenon DEF Control, Goto, Typed

\* gives up,
LEMMA Aborts ==
    ASSUME Control, NEW j \in Jobs, Abort(j)
    PROVE  Typed /\ pc'[j] = "stopped" /\ mem'[j] = mem[j]
BY Zenon DEF Control, Abort, Goto, Typed, Labels

\* notes an outcome,
LEMMA NotesOutcome ==
    ASSUME Control, NEW j \in Jobs, NEW l \in Labels, NEW o \in Outcomes \cup {None},
           Goto(j, l),
           mem' = [mem EXCEPT ![j].outcome = o]
    PROVE  /\ Typed /\ pc'[j] = l /\ mem'[j].outcome = o
           /\ mem'[j].row = mem[j].row /\ mem'[j].pepper = mem[j].pepper
<1>1. /\ mem \in [Jobs -> Memory] /\ mem[j] \in Memory
      /\ pc' \in [Jobs -> Labels] /\ pc'[j] = l
    BY Zenon DEF Control, Goto
<1> DEFINE m == [mem[j] EXCEPT !.outcome = o]
<1>2. mem' = [mem EXCEPT ![j] = m]
    BY Zenon
<1>3. m \in Memory /\ m.outcome = o /\ m.row = mem[j].row /\ m.pepper = mem[j].pepper
    BY Zenon, <1>1, OutcomeNoted
<1> HIDE DEF m
<1>4. mem' \in [Jobs -> Memory] /\ mem'[j] = m
    BY Zenon, <1>1, <1>2, <1>3
<1> QED
    BY Zenon, <1>1, <1>3, <1>4 DEF Typed

\* a row,
LEMMA NotesRow ==
    ASSUME Control, NEW j \in Jobs, NEW l \in Labels, NEW r \in Producer,
           Goto(j, l),
           mem' = [mem EXCEPT ![j].row = r]
    PROVE  /\ Typed /\ pc'[j] = l /\ mem'[j].row = r
           /\ mem'[j].outcome = mem[j].outcome /\ mem'[j].pepper = mem[j].pepper
<1>1. /\ mem \in [Jobs -> Memory] /\ mem[j] \in Memory
      /\ pc' \in [Jobs -> Labels] /\ pc'[j] = l
    BY Zenon DEF Control, Goto
<1> DEFINE m == [mem[j] EXCEPT !.row = r]
<1>2. mem' = [mem EXCEPT ![j] = m]
    BY Zenon
<1>3. m \in Memory /\ m.row = r /\ m.outcome = mem[j].outcome /\ m.pepper = mem[j].pepper
    BY Zenon, <1>1, RowNoted
<1> HIDE DEF m
<1>4. mem' \in [Jobs -> Memory] /\ mem'[j] = m
    BY Zenon, <1>1, <1>2, <1>3
<1> QED
    BY Zenon, <1>1, <1>3, <1>4 DEF Typed

\* a pepper,
LEMMA NotesPepper ==
    ASSUME Control, NEW j \in Jobs, NEW l \in Labels, NEW p \in Pepper \cup {None},
           Goto(j, l),
           mem' = [mem EXCEPT ![j].pepper = p]
    PROVE  /\ Typed /\ pc'[j] = l /\ mem'[j].pepper = p
           /\ mem'[j].outcome = mem[j].outcome /\ mem'[j].row = mem[j].row
<1>1. /\ mem \in [Jobs -> Memory] /\ mem[j] \in Memory
      /\ pc' \in [Jobs -> Labels] /\ pc'[j] = l
    BY Zenon DEF Control, Goto
<1> DEFINE m == [mem[j] EXCEPT !.pepper = p]
<1>2. mem' = [mem EXCEPT ![j] = m]
    BY Zenon
<1>3. m \in Memory /\ m.pepper = p /\ m.outcome = mem[j].outcome /\ m.row = mem[j].row
    BY Zenon, <1>1, PepperNoted
<1> HIDE DEF m
<1>4. mem' \in [Jobs -> Memory] /\ mem'[j] = m
    BY Zenon, <1>1, <1>2, <1>3
<1> QED
    BY Zenon, <1>1, <1>3, <1>4 DEF Typed

\* a lost race,
LEMMA NotesRace ==
    ASSUME Control, NEW j \in Jobs, NEW l \in Labels, Goto(j, l),
           mem' = [mem EXCEPT ![j].again = TRUE]
    PROVE  /\ Typed /\ pc'[j] = l
           /\ mem'[j].outcome = mem[j].outcome /\ mem'[j].row = mem[j].row /\ mem'[j].pepper = mem[j].pepper
<1>1. /\ mem \in [Jobs -> Memory] /\ mem[j] \in Memory
      /\ pc' \in [Jobs -> Labels] /\ pc'[j] = l
    BY Zenon DEF Control, Goto
<1> DEFINE m == [mem[j] EXCEPT !.again = TRUE]
<1>2. mem' = [mem EXCEPT ![j] = m]
    BY Zenon
<1>3. m \in Memory /\ m.outcome = mem[j].outcome /\ m.row = mem[j].row /\ m.pepper = mem[j].pepper
    BY Zenon, <1>1, RaceNoted
<1> HIDE DEF m
<1>4. mem' \in [Jobs -> Memory] /\ mem'[j] = m
    BY Zenon, <1>1, <1>2, <1>3
<1> QED
    BY Zenon, <1>1, <1>3, <1>4 DEF Typed

\* or an outcome and a row.
LEMMA NotesBoth ==
    ASSUME Control, NEW j \in Jobs, NEW l \in Labels, NEW o \in Outcomes, NEW r \in Producer,
           Goto(j, l), mem' = [mem EXCEPT ![j].outcome = o, ![j].row = r]
    PROVE  /\ Typed /\ pc'[j] = l /\ mem'[j].outcome = o /\ mem'[j].row = r
           /\ mem'[j].pepper = mem[j].pepper
<1>1. /\ mem \in [Jobs -> Memory] /\ mem[j] \in Memory
      /\ pc' \in [Jobs -> Labels] /\ pc'[j] = l
    BY Zenon DEF Control, Goto
<1> DEFINE m == [mem[j] EXCEPT !.outcome = o]
           noted == [mem EXCEPT ![j] = m]
           n == [m EXCEPT !.row = r]
<1>2. m \in Memory /\ m.outcome = o /\ m.pepper = mem[j].pepper
    BY Zenon, <1>1, OutcomeNoted
<1>3. mem' = [noted EXCEPT ![j] = [noted[j] EXCEPT !.row = r]]
    BY Zenon
<1>4. noted \in [Jobs -> Memory] /\ noted[j] = m
    <2> HIDE DEF m
    <2> QED
        BY Zenon, <1>1, <1>2
<1> HIDE DEF noted, m
<1>5. n \in Memory /\ n.row = r /\ n.outcome = m.outcome /\ n.pepper = m.pepper
    BY Zenon, <1>2, RowNoted
<1>6. mem' = [noted EXCEPT ![j] = n]
    BY Zenon, <1>3, <1>4
<1> HIDE DEF n
<1>7. mem' \in [Jobs -> Memory] /\ mem'[j] = n
    BY Zenon, <1>4, <1>5, <1>6
<1> QED
    BY Zenon, <1>1, <1>2, <1>5, <1>7 DEF Typed

\* With the outcome known only the audit row is left.
LEMMA Concludes ==
    ASSUME Control, NEW j \in Jobs, NEW o \in Outcomes \cup {None}, Conclude(j, o)
    PROVE  /\ Typed /\ pc'[j] = "audit" /\ mem'[j].outcome = o
           /\ mem'[j].row = mem[j].row /\ mem'[j].pepper = mem[j].pepper
<1>1. Goto(j, "audit") /\ mem' = [mem EXCEPT ![j].outcome = o] /\ "audit" \in Labels
    BY Zenon DEF Conclude, Labels
<1> QED
    BY Zenon, <1>1, NotesOutcome

\* provision_tenant, step by step.
LEMMA ProvisionEffect ==
    ASSUME Control, NEW j \in Jobs, provision_tenant(j)
    PROVE  /\ Typed /\ Cmd(j).op = "provision"
           /\ mem'[j].row = mem[j].row /\ mem'[j].pepper = mem[j].pepper
           /\ \/ /\ FindTenant(j) /\ pc[j] = "begin"
                 /\ \/ pc'[j] = "audit" /\ mem'[j].outcome = "rejected"
                    \/ pc'[j] = "insert" /\ mem'[j] = mem[j]
                    \/ pc'[j] = "key" /\ mem'[j].outcome = "idempotent" /\ tenant[T(j)] # None
              \/ /\ insert_provisioning(j) /\ pc[j] = "insert"
                 /\ \/ pc'[j] = "stopped" /\ mem'[j] = mem[j]
                    \/ pc'[j] = "key" /\ mem'[j].outcome = "created"
              \/ /\ mem'[j] = mem[j]
                 /\ \/ CreateKey(j) /\ pc[j] = "key" /\ pc'[j] = "role"
                    \/ CreateRole(j) /\ pc[j] = "role" /\ pc'[j] = "exists"
                    \/ DatabaseExists(j) /\ pc[j] = "exists" /\ pc'[j] \in {"create", "migrate"}
                    \/ CreateDatabase(j) /\ pc[j] = "create" /\ pc'[j] \in {"stopped", "migrate"}
                    \/ Migrate(j) /\ pc[j] = "migrate" /\ pc'[j] = "stopped"
                    \/ /\ Migrate(j) /\ pc[j] = "migrate" /\ pc'[j] = "activate"
                       /\ database[T(j)] # None
              \/ /\ mark_active(j) /\ pc[j] = "activate" /\ pc'[j] = "audit"
                 /\ mem'[j].outcome = mem[j].outcome
<1>0. mem[j].outcome \in Outcomes \cup {None}
    BY Zenon DEF Control, Memory
<1>1. CASE FindTenant(j)
    <2>1. Cmd(j).op = "provision" /\ pc[j] = "begin"
        BY Zenon, <1>1 DEF FindTenant, At
    <2>2. CASE Conclude(j, "rejected")
        <3>1. "rejected" \in Outcomes \cup {None}
            BY Zenon DEF Outcomes
        <3> QED
            BY Zenon, <1>1, <2>1, <2>2, <3>1, Concludes
    <2>3. CASE Goto(j, "insert") /\ UNCHANGED mem
        <3>1. "insert" \in Labels
            BY Zenon DEF Labels
        <3> QED
            BY Zenon, <1>1, <2>1, <2>3, <3>1, Passes
    <2>4. CASE /\ Goto(j, "key") /\ mem' = [mem EXCEPT ![j].outcome = "idempotent"]
               /\ tenant[T(j)] # None
        <3>1. "key" \in Labels /\ "idempotent" \in Outcomes \cup {None}
            BY Zenon DEF Labels, Outcomes
        <3> QED
            BY Zenon, <1>1, <2>1, <2>4, <3>1, NotesOutcome
    <2> QED
        BY Zenon, <1>1, <2>2, <2>3, <2>4 DEF FindTenant
<1>2. CASE insert_provisioning(j)
    <2>1. Cmd(j).op = "provision" /\ pc[j] = "insert"
        BY Zenon, <1>2 DEF insert_provisioning, At
    <2>2. CASE Abort(j)
        BY Zenon, <1>2, <2>1, <2>2, Aborts
    <2>3. CASE Goto(j, "key") /\ mem' = [mem EXCEPT ![j].outcome = "created"]
        <3>1. "key" \in Labels /\ "created" \in Outcomes \cup {None}
            BY Zenon DEF Labels, Outcomes
        <3> QED
            BY Zenon, <1>2, <2>1, <2>3, <3>1, NotesOutcome
    <2> QED
        BY Zenon, <1>2, <2>2, <2>3 DEF insert_provisioning
<1>3. CASE CreateKey(j) \/ CreateRole(j) \/ DatabaseExists(j)
    <2>1. {"role", "exists", "create", "migrate"} \subseteq Labels
        BY Zenon DEF Labels
    <2>2. CASE CreateKey(j)
        BY Zenon, <2>1, <2>2, Passes DEF CreateKey, At
    <2>3. CASE CreateRole(j)
        BY Zenon, <2>1, <2>3, Passes DEF CreateRole, At
    <2>4. CASE DatabaseExists(j)
        <3>1. Goto(j, "create") \/ Goto(j, "migrate")
            BY Zenon, <2>4 DEF DatabaseExists
        <3> QED
            BY Zenon, <2>1, <2>4, <3>1, Passes DEF DatabaseExists, At
    <2> QED
        BY Zenon, <1>3, <2>2, <2>3, <2>4
<1>4. CASE CreateDatabase(j) \/ Migrate(j)
    <2>1. "migrate" \in Labels /\ "activate" \in Labels
        BY Zenon DEF Labels
    <2>2. CASE Abort(j)
        BY Zenon, <1>4, <2>2, Aborts DEF CreateDatabase, Migrate, At
    <2>3. CASE CreateDatabase(j) /\ ~Abort(j)
        BY Zenon, <2>1, <2>3, Passes DEF CreateDatabase, At
    <2>4. CASE Migrate(j) /\ ~Abort(j)
        BY Zenon, <2>1, <2>4, Passes DEF Migrate, At
    <2> QED
        BY Zenon, <1>4, <2>2, <2>3, <2>4
<1>5. CASE mark_active(j)
    BY Zenon, <1>0, <1>5, Concludes DEF mark_active, At
<1> QED
    BY Zenon, <1>1, <1>2, <1>3, <1>4, <1>5 DEF provision_tenant

\* destroy_tenant and suspend.
LEMMA DestroyEffect ==
    ASSUME Control, NEW j \in Jobs, destroy_tenant(j) \/ suspend(j)
    PROVE  /\ Typed /\ mem'[j].row = mem[j].row /\ mem'[j].pepper = mem[j].pepper
           /\ \/ /\ Cmd(j).op = "suspend" /\ suspend(j) /\ pc[j] = "begin"
                 /\ mem'[j] = mem[j] /\ pc'[j] \in {"stopped", "done"}
              \/ /\ Cmd(j).op = "destroy" /\ mem'[j] = mem[j]
                 /\ \/ FindDoomed(j) /\ pc[j] = "begin" /\ pc'[j] = "stopped"
                    \/ /\ FindDoomed(j) /\ pc[j] = "begin" /\ pc'[j] = "deletekey"
                       /\ tenant[T(j)] # None /\ T(j) \in razed'
                    \/ DeleteKey(j) /\ pc[j] = "deletekey" /\ pc'[j] = "deleterole"
                    \/ DeleteRole(j) /\ pc[j] = "deleterole" /\ pc'[j] = "drop"
                    \/ DropDatabase(j) /\ pc[j] = "drop" /\ pc'[j] = "mark"
              \/ /\ Cmd(j).op = "destroy" /\ mark_status(j) /\ pc[j] = "mark"
                 /\ pc'[j] = "audit" /\ mem'[j].outcome = "destroyed"
<1>0. {"done", "deletekey", "deleterole", "drop", "mark"} \subseteq Labels
    BY Zenon DEF Labels
<1>1. CASE suspend(j)
    <2>1. CASE Abort(j)
        BY Zenon, <1>1, <2>1, Aborts DEF suspend, At
    <2>2. CASE Goto(j, "done") /\ UNCHANGED mem
        BY Zenon, <1>0, <1>1, <2>2, Passes DEF suspend, At
    <2> QED
        BY Zenon, <1>1, <2>1, <2>2 DEF suspend
<1>2. CASE FindDoomed(j)
    <2>1. CASE Abort(j)
        BY Zenon, <1>2, <2>1, Aborts DEF FindDoomed, At
    <2>2. CASE ~Abort(j)
        BY Zenon, <1>0, <1>2, <2>2, Passes DEF FindDoomed, At
    <2> QED
        BY Zenon, <2>1, <2>2
<1>3. CASE DeleteKey(j)
    BY Zenon, <1>0, <1>3, Passes DEF DeleteKey, At
<1>4. CASE DeleteRole(j)
    BY Zenon, <1>0, <1>4, Passes DEF DeleteRole, At
<1>5. CASE DropDatabase(j)
    BY Zenon, <1>0, <1>5, Passes DEF DropDatabase, At
<1>6. CASE mark_status(j)
    <2>1. "destroyed" \in Outcomes \cup {None}
        BY Zenon DEF Outcomes
    <2> QED
        BY Zenon, <1>6, <2>1, Concludes DEF mark_status, At
<1> QED
    BY Zenon, <1>1, <1>2, <1>3, <1>4, <1>5, <1>6 DEF destroy_tenant

\* The row that a registration asks for.
Asked(j, r) ==
    r.name = Cmd(j).name /\ r.cert = Cmd(j).cert /\ r.owner = Cmd(j).owner

\* The producers of a tenant are rows.
LEMMA ProducersTyped ==
    ASSUME Shape, NEW t \in Tenants
    PROVE  /\ Producers(t) \subseteq Producer
           /\ database[t] # None => database[t] \in Database /\ Producers(t) = database[t].producers
           /\ database[t] = None => Producers(t) = {}
<1>1. database[t] \in Database \cup {None}
    BY Zenon DEF Shape, TypeOK
<1>2. database[t] \in Database => database[t].producers \subseteq Producer
    BY Zenon DEF Database
<1> QED
    BY Zenon, <1>1, <1>2, NoRow DEF Producers

\* register_producer, step by step.
LEMMA RegisterEffect ==
    ASSUME Shape, NEW j \in Jobs, register_producer(j)
    PROVE  /\ Typed /\ Cmd(j).op = "register" /\ mem'[j].pepper = mem[j].pepper
           /\ \/ /\ pc[j] \in {"begin", "classify", "elsewhere"} /\ pc'[j] = "audit"
                 /\ mem'[j].outcome = "rejected" /\ mem'[j].row = mem[j].row
                 /\ classify_registration(j) \/ FindElsewhere(j)
              \/ /\ mem'[j] = mem[j] /\ pc'[j] \in {"stopped", "elsewhere", "insertrow"}
                 /\ pc[j] \in {"begin", "classify", "elsewhere", "insertrow"}
                 /\ \/ classify_registration(j) \/ FindElsewhere(j)
                    \/ insert_if_absent(j) /\ Abort(j)
              \/ /\ classify_registration(j) /\ pc[j] \in {"begin", "classify"} /\ pc'[j] = "map"
                 /\ mem'[j].outcome = "idempotent" /\ mem'[j].row \in Producers(T(j))
                 /\ Asked(j, mem'[j].row)
              \/ /\ insert_if_absent(j) /\ pc[j] = "insertrow" /\ pc'[j] = "classify"
                 /\ mem'[j].outcome = mem[j].outcome /\ mem'[j].row = mem[j].row
              \/ /\ insert_if_absent(j) /\ pc[j] = "insertrow" /\ pc'[j] = "map"
                 /\ mem'[j].outcome = "created" /\ mem'[j].row = Row(j)
                 /\ \A r \in Producers(T(j)) : r.name # Cmd(j).name
              \/ /\ upsert_producer_cert(j) /\ pc[j] = "map" /\ pc'[j] = "audit"
                 /\ mem'[j].outcome = mem[j].outcome /\ mem'[j].row = mem[j].row
<1>0. /\ Control /\ mem[j].outcome \in Outcomes \cup {None}
      /\ Producers(T(j)) \subseteq Producer /\ Cmd(j).tenant = T(j)
    BY Zenon, ProducersTyped, Arguments DEF Shape, Control, Memory, T
<1>1. /\ {"elsewhere", "insertrow", "map", "classify"} \subseteq Labels
      /\ {"rejected", "idempotent", "created"} \subseteq Outcomes
    BY Zenon DEF Labels, Outcomes
<1>2. CASE Conclude(j, "rejected") /\ (classify_registration(j) \/ FindElsewhere(j))
    BY Zenon, <1>0, <1>1, <1>2, Concludes DEF classify_registration, FindElsewhere, At
<1>3. CASE classify_registration(j) /\ ~Conclude(j, "rejected")
    <2>1. Cmd(j).op = "register" /\ pc[j] \in {"begin", "classify"}
        BY Zenon, <1>3 DEF classify_registration
    <2>2. CASE Abort(j)
        BY Zenon, <1>0, <1>3, <2>1, <2>2, Aborts
    <2>3. CASE Goto(j, "elsewhere") /\ UNCHANGED mem
        BY Zenon, <1>0, <1>1, <1>3, <2>1, <2>3, Passes
    <2>4. ASSUME NEW r \in Producers(T(j)), r.name = Cmd(j).name, r.cert = Cmd(j).cert,
                 r.owner = Cmd(j).owner, Goto(j, "map"),
                 mem' = [mem EXCEPT ![j].outcome = "idempotent", ![j].row = r]
          PROVE  /\ Typed /\ pc'[j] = "map" /\ mem'[j].outcome = "idempotent"
                 /\ mem'[j].row \in Producers(T(j)) /\ Asked(j, mem'[j].row)
                 /\ mem'[j].pepper = mem[j].pepper
        <3>1. /\ Typed /\ pc'[j] = "map" /\ mem'[j].outcome = "idempotent" /\ mem'[j].row = r
              /\ mem'[j].pepper = mem[j].pepper
            BY Zenon, <1>0, <1>1, <2>4, NotesBoth
        <3> QED
            BY Zenon, <2>4, <3>1 DEF Asked
    <2> QED
        BY Zenon, <1>0, <1>3, <2>1, <2>2, <2>3, <2>4 DEF classify_registration
<1>4. CASE FindElsewhere(j) /\ ~Conclude(j, "rejected")
    BY Zenon, <1>0, <1>1, <1>4, Passes DEF FindElsewhere, At
<1>5. CASE insert_if_absent(j)
    <2>1. Cmd(j).op = "register" /\ pc[j] = "insertrow"
        BY Zenon, <1>5 DEF insert_if_absent, At
    <2>2. CASE Abort(j)
        BY Zenon, <1>0, <1>5, <2>1, <2>2, Aborts
    <2>3. CASE Goto(j, "classify") /\ mem' = [mem EXCEPT ![j].again = TRUE]
        BY Zenon, <1>0, <1>1, <1>5, <2>1, <2>3, NotesRace
    <2>4. CASE /\ Goto(j, "map")
               /\ mem' = [mem EXCEPT ![j].outcome = "created", ![j].row = Row(j)]
               /\ \A r \in Producers(T(j)) : r.name # Cmd(j).name
        <3>1. "map" \in Labels /\ "created" \in Outcomes /\ Row(j) \in Producer
            BY Zenon, <1>0, <1>1, <2>1, RowFields
        <3>2. /\ Typed /\ pc'[j] = "map" /\ mem'[j].outcome = "created" /\ mem'[j].row = Row(j)
              /\ mem'[j].pepper = mem[j].pepper
            BY Zenon, <1>0, <2>4, <3>1, NotesBoth
        <3> QED
            BY Zenon, <1>5, <2>1, <2>4, <3>2
    <2> QED
        BY Zenon, <1>0, <1>5, <2>2, <2>3, <2>4 DEF insert_if_absent, Row
<1>6. CASE upsert_producer_cert(j)
    BY Zenon, <1>0, <1>6, Concludes DEF upsert_producer_cert, At
<1> QED
    BY Zenon, <1>2, <1>3, <1>4, <1>5, <1>6 DEF register_producer

\* disable_producer, step by step.
LEMMA DisableEffect ==
    ASSUME Shape, NEW j \in Jobs, disable_producer(j)
    PROVE  /\ Typed /\ Cmd(j).op = "disable" /\ mem'[j].pepper = mem[j].pepper
           /\ \/ /\ pc'[j] = "stopped" /\ mem'[j] = mem[j]
                 /\ \/ FindProducer(j) /\ pc[j] = "begin"
                    \/ set_enabled(j) /\ pc[j] = "disablerow"
              \/ /\ FindProducer(j) /\ pc[j] = "begin" /\ pc'[j] = "audit"
                 /\ mem'[j].outcome = "rejected" /\ mem'[j].row = mem[j].row
              \/ /\ FindProducer(j) /\ pc[j] = "begin" /\ pc'[j] = "switchoff"
                 /\ mem'[j].outcome = mem[j].outcome /\ mem'[j].row \in Producers(T(j))
              \/ /\ set_cert_enabled(j) /\ pc[j] = "switchoff" /\ pc'[j] = "disablerow"
                 /\ mem'[j] = mem[j]
              \/ /\ set_cert_enabled(j) /\ pc[j] = "switchoff" /\ pc'[j] = "audit"
                 /\ mem'[j].outcome = "idempotent" /\ mem'[j].row = mem[j].row
              \/ /\ set_enabled(j) /\ pc[j] = "disablerow" /\ pc'[j] = "audit"
                 /\ mem'[j].outcome = "disabled" /\ mem'[j].row = mem[j].row
<1>0. Control /\ Producers(T(j)) \subseteq Producer
    BY Zenon, ProducersTyped, Arguments DEF Shape
<1>1. /\ {"switchoff", "disablerow"} \subseteq Labels
      /\ {"rejected", "idempotent", "disabled"} \subseteq Outcomes
    BY Zenon DEF Labels, Outcomes
<1>2. CASE FindProducer(j)
    <2>1. Cmd(j).op = "disable" /\ pc[j] = "begin"
        BY Zenon, <1>2 DEF FindProducer, At
    <2>2. CASE Abort(j)
        BY Zenon, <1>0, <1>2, <2>1, <2>2, Aborts
    <2>3. CASE Conclude(j, "rejected")
        BY Zenon, <1>0, <1>1, <1>2, <2>1, <2>3, Concludes
    <2>4. ASSUME NEW r \in Producers(T(j)), Goto(j, "switchoff"), mem' = [mem EXCEPT ![j].row = r]
          PROVE  /\ Typed /\ pc'[j] = "switchoff" /\ mem'[j].row = r
                 /\ mem'[j].outcome = mem[j].outcome /\ mem'[j].pepper = mem[j].pepper
        BY Zenon, <1>0, <1>1, <2>4, NotesRow
    <2> QED
        BY Zenon, <1>2, <2>1, <2>2, <2>3, <2>4 DEF FindProducer
<1>3. CASE set_cert_enabled(j)
    <2>1. Cmd(j).op = "disable" /\ pc[j] = "switchoff"
        BY Zenon, <1>3 DEF set_cert_enabled, At
    <2>2. CASE Goto(j, "disablerow") /\ UNCHANGED mem
        BY Zenon, <1>0, <1>1, <1>3, <2>1, <2>2, Passes
    <2>3. CASE Conclude(j, "idempotent")
        BY Zenon, <1>0, <1>1, <1>3, <2>1, <2>3, Concludes
    <2> QED
        BY Zenon, <1>3, <2>2, <2>3 DEF set_cert_enabled
<1>4. CASE set_enabled(j)
    <2>1. Cmd(j).op = "disable" /\ pc[j] = "disablerow"
        BY Zenon, <1>4 DEF set_enabled, At
    <2>2. CASE Abort(j)
        BY Zenon, <1>0, <1>4, <2>1, <2>2, Aborts
    <2>3. CASE Conclude(j, "disabled")
        BY Zenon, <1>0, <1>1, <1>4, <2>1, <2>3, Concludes
    <2> QED
        BY Zenon, <1>4, <2>2, <2>3 DEF set_enabled
<1> QED
    BY Zenon, <1>2, <1>3, <1>4 DEF disable_producer

\* The outcome of a command that sets something.
LEMMA Outcomed ==
    ASSUME NEW o, NEW n
    PROVE  Outcome(o, n) \in Outcomes /\ (Outcome(o, n) = "created" => o = None)
BY Zenon DEF Outcome, Outcomes

\* The configuration of a tenant and of its providers, step by step.
LEMMA SettingsEffect ==
    ASSUME Control, NEW j \in Jobs, set_tenant_config(j) \/ load_one(j) \/ upsert(j)
    PROVE  /\ Typed /\ mem'[j].row = mem[j].row /\ mem'[j].pepper = mem[j].pepper
           /\ pc[j] \in {"begin", "upsert"}
           /\ \/ /\ pc'[j] = "stopped" /\ mem'[j] = mem[j]
                 /\ Cmd(j).op \in {"configure", "provide"}
              \/ /\ set_tenant_config(j) /\ Cmd(j).op = "configure" /\ pc'[j] = "audit"
                 /\ mem'[j].outcome = "rejected"
              \/ /\ set_tenant_config(j) /\ Cmd(j).op = "configure" /\ pc'[j] = "audit"
                 /\ database[T(j)] # None
                 /\ database' = [database EXCEPT ![T(j)].config = Cmd(j).value]
                 /\ mem'[j].outcome = "created" => database[T(j)].config = None
              \/ /\ load_one(j) \/ upsert(j)
                 /\ Cmd(j).op = "provide" /\ pc'[j] \in {"audit", "upsert"}
<1>0. mem[j].outcome \in Outcomes \cup {None} /\ "rejected" \in Outcomes
    BY Zenon DEF Control, Memory, Outcomes
<1>1. CASE set_tenant_config(j)
    <2>1. Cmd(j).op = "configure" /\ pc[j] = "begin"
        BY Zenon, <1>1 DEF set_tenant_config, At
    <2>2. CASE Abort(j)
        BY Zenon, <1>1, <2>1, <2>2, Aborts
    <2>3. CASE Conclude(j, "rejected")
        BY Zenon, <1>0, <1>1, <2>1, <2>3, Concludes
    <2>4. CASE /\ database[T(j)] # None
               /\ database' = [database EXCEPT ![T(j)].config = Cmd(j).value]
               /\ Conclude(j, Outcome(database[T(j)].config, Cmd(j).value))
        <3> DEFINE o == Outcome(database[T(j)].config, Cmd(j).value)
        <3>1. o \in Outcomes \cup {None} /\ (o = "created" => database[T(j)].config = None)
            BY Zenon, Outcomed
        <3> HIDE DEF o
        <3>2. /\ Typed /\ pc'[j] = "audit" /\ mem'[j].outcome = o
              /\ mem'[j].row = mem[j].row /\ mem'[j].pepper = mem[j].pepper
            BY Zenon, <2>4, <3>1, Concludes DEF o
        <3> QED
            BY Zenon, <1>1, <2>1, <2>4, <3>1, <3>2
    <2> QED
        BY Zenon, <1>1, <2>2, <2>3, <2>4 DEF set_tenant_config, Connects
<1>2. CASE load_one(j)
    <2>1. Cmd(j).op = "provide" /\ pc[j] = "begin"
        BY Zenon, <1>2 DEF load_one, At
    <2>2. CASE Abort(j)
        BY Zenon, <1>2, <2>1, <2>2, Aborts
    <2>3. CASE Conclude(j, "rejected")
        BY Zenon, <1>0, <1>2, <2>1, <2>3, Concludes
    <2>4. CASE ~Abort(j) /\ ~Conclude(j, "rejected")
        <3>1. PICK l \in {"audit", "upsert"}, o \in Outcomes :
                  Goto(j, l) /\ mem' = [mem EXCEPT ![j].outcome = o]
            BY Zenon, <1>2, <2>4, Outcomed DEF load_one
        <3>2. l \in Labels
            BY Zenon DEF Labels
        <3> QED
            BY Zenon, <1>2, <2>1, <3>1, <3>2, NotesOutcome
    <2> QED
        BY Zenon, <2>2, <2>3, <2>4
<1>3. CASE upsert(j)
    <2>1. CASE Abort(j)
        BY Zenon, <1>3, <2>1, Aborts DEF upsert, At
    <2>2. CASE Conclude(j, mem[j].outcome)
        BY Zenon, <1>0, <1>3, <2>2, Concludes DEF upsert, At
    <2> QED
        BY Zenon, <1>3, <2>1, <2>2 DEF upsert
<1> QED
    BY Zenon, <1>1, <1>2, <1>3

\* The first use of a pepper, step by step.
LEMMA PepperEffect ==
    ASSUME Shape, NEW j \in Jobs, UsePepper(j)
    PROVE  /\ Typed /\ mem'[j].row = mem[j].row
           /\ \/ /\ pc'[j] = "stopped" /\ mem'[j] = mem[j]
                 /\ pc[j] = "begin" => Cmd(j).op \in {"open", "suppress"}
                 /\ pc[j] \in {"begin", "pepper", "use"}
                 /\ get_or_open(j) \/ add_suppression(j) \/ ensure_tenant_pepper(j) \/ Suppress(j)
                 /\ Abort(j)
              \/ /\ get_or_open(j) /\ Cmd(j).op = "open" /\ pc[j] = "begin" /\ pc'[j] = "done"
                 /\ mem'[j] = mem[j]
              \/ /\ add_suppression(j) /\ Cmd(j).op = "suppress" /\ pc[j] = "begin"
                 /\ pc'[j] = "audit" /\ mem'[j].outcome = "rejected"
              \/ /\ \/ get_or_open(j) /\ Cmd(j).op = "open"
                    \/ add_suppression(j) /\ Cmd(j).op = "suppress"
                 /\ pc[j] = "begin" /\ pc'[j] = "pepper" /\ tenant[T(j)] # None
                 /\ mem'[j].pepper = tenant[T(j)].pepper /\ mem'[j].outcome = mem[j].outcome
              \/ /\ ensure_tenant_pepper(j) /\ pc[j] = "pepper" /\ pc'[j] = "use"
                 /\ mem[j].pepper # None /\ mem'[j] = mem[j]
              \/ /\ ensure_tenant_pepper(j) /\ pc[j] = "pepper" /\ pc'[j] = "record"
                 /\ mem'[j].pepper \in Pepper /\ mem'[j].outcome = mem[j].outcome
              \/ /\ record_vault_pepper_wrapped(j) /\ pc[j] = "record" /\ pc'[j] = "use"
                 /\ mem'[j] = mem[j]
              \/ /\ CacheContext(j) /\ Cmd(j).op = "open" /\ pc[j] = "use" /\ pc'[j] = "done"
                 /\ mem'[j] = mem[j]
              \/ /\ Suppress(j) /\ Cmd(j).op = "suppress" /\ pc[j] = "use" /\ pc'[j] = "audit"
<1>0. /\ Control /\ T(j) \in Tenants /\ vault[T(j)].generation \in Nat
      /\ tenant[T(j)] # None => tenant[T(j)].pepper \in Pepper \cup {None}
    BY Zenon, Arguments DEF Shape, TypeOK, Tenant, Vault
<1>1. /\ {"pepper", "record", "use", "done"} \subseteq Labels
      /\ {"rejected", "idempotent", "created"} \subseteq Outcomes
    BY Zenon DEF Labels, Outcomes
<1>2. CASE Abort(j) /\ (get_or_open(j) \/ add_suppression(j) \/ ensure_tenant_pepper(j) \/ Suppress(j))
    BY Zenon, <1>0, <1>2, Aborts DEF get_or_open, add_suppression, ensure_tenant_pepper, Suppress, At
<1>3. CASE get_or_open(j) /\ ~Abort(j)
    <2>1. Cmd(j).op = "open" /\ pc[j] = "begin"
        BY Zenon, <1>3 DEF get_or_open, At
    <2>2. CASE Goto(j, "done") /\ UNCHANGED mem
        BY Zenon, <1>0, <1>1, <1>3, <2>1, <2>2, Passes
    <2>3. CASE /\ tenant[T(j)] # None /\ Goto(j, "pepper")
               /\ mem' = [mem EXCEPT ![j].pepper = tenant[T(j)].pepper]
        <3>1. /\ Typed /\ pc'[j] = "pepper" /\ mem'[j].pepper = tenant[T(j)].pepper
              /\ mem'[j].outcome = mem[j].outcome /\ mem'[j].row = mem[j].row
            BY Zenon, <1>0, <1>1, <2>3, NotesPepper
        <3> QED
            BY Zenon, <1>3, <2>1, <2>3, <3>1
    <2> QED
        BY Zenon, <1>3, <2>2, <2>3 DEF get_or_open
<1>4. CASE add_suppression(j) /\ ~Abort(j)
    <2>1. Cmd(j).op = "suppress" /\ pc[j] = "begin"
        BY Zenon, <1>4 DEF add_suppression, At
    <2>2. CASE Conclude(j, "rejected")
        BY Zenon, <1>0, <1>1, <1>4, <2>1, <2>2, Concludes
    <2>3. CASE /\ tenant[T(j)] # None /\ Goto(j, "pepper")
               /\ mem' = [mem EXCEPT ![j].pepper = tenant[T(j)].pepper]
        <3>1. /\ Typed /\ pc'[j] = "pepper" /\ mem'[j].pepper = tenant[T(j)].pepper
              /\ mem'[j].outcome = mem[j].outcome /\ mem'[j].row = mem[j].row
            BY Zenon, <1>0, <1>1, <2>3, NotesPepper
        <3> QED
            BY Zenon, <1>4, <2>1, <2>3, <3>1
    <2> QED
        BY Zenon, <1>4, <2>2, <2>3 DEF add_suppression
<1>5. CASE ensure_tenant_pepper(j) /\ ~Abort(j)
    <2>1. CASE mem[j].pepper # None /\ Goto(j, "use") /\ UNCHANGED mem
        BY Zenon, <1>0, <1>1, <1>5, <2>1, Passes DEF ensure_tenant_pepper
    <2>2. CASE /\ Goto(j, "record")
               /\ mem' = [mem EXCEPT ![j].pepper = [key |-> vault[T(j)].generation, by |-> j]]
        <3>1. [key |-> vault[T(j)].generation, by |-> j] \in Pepper
            BY Zenon, <1>0 DEF Pepper
        <3>2. /\ Typed /\ pc'[j] = "record" /\ mem'[j].pepper \in Pepper
              /\ mem'[j].outcome = mem[j].outcome /\ mem'[j].row = mem[j].row
            BY Zenon, <1>0, <1>1, <2>2, <3>1, NotesPepper
        <3> QED
            BY Zenon, <1>5, <3>2 DEF ensure_tenant_pepper
    <2> QED
        BY Zenon, <1>5, <2>1, <2>2 DEF ensure_tenant_pepper
<1>6. CASE record_vault_pepper_wrapped(j)
    BY Zenon, <1>0, <1>1, <1>6, Passes DEF record_vault_pepper_wrapped
<1>7. CASE CacheContext(j)
    BY Zenon, <1>0, <1>1, <1>7, Passes DEF CacheContext, At
<1>8. CASE Suppress(j) /\ ~Abort(j)
    <2>1. PICK o \in Outcomes : Conclude(j, o)
        BY Zenon, <1>1, <1>8 DEF Suppress
    <2> QED
        BY Zenon, <1>0, <1>8, <2>1, Concludes DEF Suppress, At
<1> QED
    BY Zenon, <1>2, <1>3, <1>4, <1>5, <1>6, <1>7, <1>8 DEF UsePepper

\* The end of a job.
LEMMA EndEffect ==
    ASSUME Control, NEW j \in Jobs, record(j) \/ Stop(j)
    PROVE  /\ Typed /\ mem'[j] = mem[j]
           /\ \/ record(j) /\ pc[j] = "audit" /\ pc'[j] = "done"
              \/ Stop(j) /\ InFlight(j) /\ pc'[j] = "stopped"
<1>1. {"done", "stopped"} \subseteq Labels
    BY Zenon DEF Labels
<1> QED
    BY Zenon, <1>1, Passes DEF record, Stop

-----------------------------------------------------------------------------
(* Type correctness.                                                       *)

\* A tenant's row is never deleted.
LEMMA TenantStays ==
    ASSUME Shape, NEW j \in Jobs, Step(j), NEW t \in Tenants, tenant[t] # None
    PROVE  tenant'[t] # None
BY Zenon, TenantWrites, Arguments, NoRow DEF Shape

\* What is kept of the past only grows, and by the tenant of the job.
LEMMA HistoryWrites ==
    ASSUME Shape, NEW j \in Jobs, Step(j)
    PROVE  /\ razed \subseteq razed' /\ razed' \subseteq Tenants
           /\ clashed \subseteq clashed' /\ clashed' \subseteq Tenants
           /\ overwritten \subseteq overwritten' /\ overwritten' \subseteq Tenants
           /\ razed' = razed \/ (FindDoomed(j) /\ razed' = razed \cup {T(j)})
           /\ \/ clashed' = clashed
              \/ FindDoomed(j) /\ clashed' = clashed \cup {T(j)} /\ T(j) \in razed'
              \/ /\ FindTenant(j) /\ clashed' = clashed \cup {T(j)}
                 /\ \E k \in Of("destroy", T(j)) : InFlight(k)
           /\ \/ overwritten' = overwritten
              \/ record_vault_pepper_wrapped(j) /\ overwritten' = overwritten \cup {T(j)}
<1>0. /\ T(j) \in Tenants
      /\ razed \subseteq Tenants /\ clashed \subseteq Tenants /\ overwritten \subseteq Tenants
    BY Zenon, Arguments DEF Shape, TypeOK
<1>1. razed' = razed \/ (FindDoomed(j) /\ razed' = razed \cup {T(j)})
    BY Zenon, Writers DEF FindDoomed
<1>2. \/ clashed' = clashed
      \/ FindDoomed(j) /\ clashed' = clashed \cup {T(j)} /\ T(j) \in razed'
      \/ /\ FindTenant(j) /\ clashed' = clashed \cup {T(j)}
         /\ \E k \in Of("destroy", T(j)) : InFlight(k)
    BY Zenon, Writers DEF FindDoomed, FindTenant
<1>3. \/ overwritten' = overwritten
      \/ record_vault_pepper_wrapped(j) /\ overwritten' = overwritten \cup {T(j)}
    BY Zenon, Writers DEF record_vault_pepper_wrapped
<1>4. razed \subseteq razed' /\ razed' \subseteq Tenants
    BY Zenon, <1>0, <1>1
<1>5. clashed \subseteq clashed' /\ clashed' \subseteq Tenants
    BY Zenon, <1>0, <1>2
<1>6. overwritten \subseteq overwritten' /\ overwritten' \subseteq Tenants
    BY Zenon, <1>0, <1>3
<1> QED
    BY Zenon, <1>1, <1>2, <1>3, <1>4, <1>5, <1>6

\* The commands are given once.
LEMMA Commands ==
    ASSUME scenario' = scenario
    PROVE  \A k \in Jobs : Cmd(k)' = Cmd(k) /\ T(k)' = T(k)
BY Zenon DEF Cmd, T

\* The jobs stay jobs,
LEMMA ControlStep ==
    ASSUME Shape, NEW j \in Jobs, Step(j)
    PROVE  Control'
<1>1. Control
    BY Zenon DEF Shape
<1>2. Typed
    BY Zenon, <1>1, ProvisionEffect, DestroyEffect, RegisterEffect, DisableEffect, SettingsEffect,
        PepperEffect, EndEffect DEF Step
<1>3. scenario' \in Scenarios
    BY Zenon, <1>1, Moves DEF Others, Control
<1>4. audit' \in [Jobs -> Outcomes \cup {None}]
    <2>1. CASE audit' = audit
        BY Zenon, <1>1, <2>1 DEF Control
    <2>2. CASE suspend(j)
        <3>1. audit' = audit \/ audit' = [audit EXCEPT ![j] = "suspended"]
            BY Zenon, <2>2 DEF suspend
        <3> QED
            BY Zenon, <1>1, <3>1 DEF Control, Outcomes
    <2>3. CASE record(j)
        <3>1. audit' = [audit EXCEPT ![j] = mem[j].outcome] /\ mem[j].outcome \in Outcomes \cup {None}
            BY Zenon, <1>1, <2>3 DEF record, Control, Memory
        <3> QED
            BY Zenon, <1>1, <3>1 DEF Control
    <2> QED
        BY Zenon, <2>1, <2>2, <2>3, Writers
<1>5. stops' \in 0..MaxStops
    <2>1. CASE stops' = stops
        BY Zenon, <1>1, <2>1 DEF Control
    <2>2. CASE Stop(j)
        BY <1>1, <2>2, ControlPlaneAssumption DEF Control, Stop
    <2> QED
        BY Zenon, <2>1, <2>2, Writers
<1> QED
    BY Zenon, <1>2, <1>3, <1>4, <1>5 DEF Control, Typed

\* the stores keep their types,
LEMMA StoresStep ==
    ASSUME Shape, NEW j \in Jobs, Step(j)
    PROVE  TypeOK'
<1>1. missed' \subseteq Jobs /\ cert' \in [Certs -> Mapping \cup {None}]
    BY Zenon, CertWrites
<1>2. /\ tenant' \in [Tenants -> Tenant \cup {None}]
      /\ database' \in [Tenants -> Database \cup {None}]
      /\ vault' \in [Tenants -> Vault]
      /\ context' \in [Processes -> [Tenants -> Pepper \cup {None}]]
    BY Zenon, TenantWrites, DatabaseWrites, VaultWrites, ContextWrites
<1>3. stops' \in 0..MaxStops
    BY Zenon, ControlStep DEF Control
<1>4. razed' \subseteq Tenants /\ clashed' \subseteq Tenants /\ overwritten' \subseteq Tenants
    BY Zenon, HistoryWrites
<1> QED
    BY Zenon, <1>1, <1>2, <1>3, <1>4 DEF TypeOK

\* and what a job relies on is there.
LEMMA HeldStep ==
    ASSUME Shape, NEW j \in Jobs, Step(j), NEW k \in Jobs
    PROVE  Held(k)'
<1>1. Control /\ Held(k) /\ Held(j) /\ T(j) \in Tenants /\ T(k) \in Tenants
    BY Zenon, Arguments DEF Shape
<1>2. Others(j) /\ Cmd(k)' = Cmd(k) /\ T(k)' = T(k)
    BY Zenon, <1>1, Moves, Commands DEF Others
<1>3. \A t \in Tenants : tenant[t] # None => tenant'[t] # None
    BY Zenon, TenantStays
<1>4. CASE k # j
    <2>1. pc'[k] = pc[k] /\ mem'[k] = mem[k]
        BY Zenon, <1>2, <1>4 DEF Others
    <2> QED
        BY Zenon, <1>1, <1>2, <1>3, <2>1 DEF Held, Working, At
<1>5. CASE k = j /\ provision_tenant(j)
    <2>1. insert_provisioning(j) /\ pc'[j] = "key" => tenant'[T(j)] # None
        <3> SUFFICES ASSUME insert_provisioning(j), pc'[j] = "key" PROVE tenant'[T(j)] # None
            OBVIOUS
        <3>1. ~Abort(j)
            BY Zenon, <1>1, Aborts
        <3> QED
            BY Zenon, <1>3, <3>1, TenantWrites, NoRow DEF WritesTenant
    <2>2. Cmd(j).op = "provision" /\ (Working(j) \/ pc'[j] = "key" => tenant'[T(j)] # None)
        BY Zenon, <1>1, <1>3, <1>5, <2>1, ProvisionEffect DEF Held
    <2>3. /\ pc'[j] \in {"key", "role", "exists", "create", "migrate", "activate"} =>
             pc'[j] = "key" \/ Working(j)
          /\ pc'[j] \notin {"pepper", "record", "use"}
        BY Zenon, <1>1, <1>5, ProvisionEffect DEF Working
    <2> QED
        BY Zenon, <1>2, <1>5, <2>2, <2>3 DEF Held, Working, At
<1>6. CASE k = j /\ (destroy_tenant(j) \/ suspend(j))
    <2>1. /\ Cmd(j).op \in {"destroy", "suspend"} /\ pc'[j] \notin {"pepper", "record", "use"}
          /\ Cmd(j).op = "destroy" /\ pc'[j] \in {"deletekey", "deleterole", "drop", "mark"} =>
                Working(j) \/ tenant[T(j)] # None
        BY Zenon, <1>1, <1>6, DestroyEffect DEF Working
    <2> QED
        BY Zenon, <1>1, <1>2, <1>3, <1>6, <2>1 DEF Held, Working, At
<1>7. CASE k = j /\ register_producer(j)
    <2>1. Cmd(j).op = "register" /\ pc'[j] \notin {"pepper", "record", "use"}
        BY Zenon, <1>7, RegisterEffect
    <2>2. pc'[j] = "map" => mem'[j].row \in Producer /\ mem'[j].row.cert = Cmd(j).cert
        <3>1. Producers(T(j)) \subseteq Producer /\ Row(j) \in Producer /\ Row(j).cert = Cmd(j).cert
            BY Zenon, <1>1, <2>1, ProducersTyped, RowFields
        <3> QED
            BY Zenon, <1>7, <3>1, RegisterEffect DEF Asked
    <2> QED
        BY Zenon, <1>2, <1>7, <2>1, <2>2 DEF Held, Working, At
<1>8. CASE k = j /\ disable_producer(j)
    <2>1. Cmd(j).op = "disable" /\ pc'[j] \notin {"pepper", "record", "use"}
        BY Zenon, <1>8, DisableEffect
    <2>2. pc'[j] \in {"switchoff", "disablerow"} => mem'[j].row \in Producer
        <3>1. Producers(T(j)) \subseteq Producer
            BY Zenon, <1>1, ProducersTyped
        <3> QED
            BY Zenon, <1>1, <1>8, <2>1, <3>1, DisableEffect DEF Held
    <2> QED
        BY Zenon, <1>2, <1>8, <2>1, <2>2 DEF Held, Working, At
<1>9. CASE k = j /\ (set_tenant_config(j) \/ load_one(j) \/ upsert(j))
    <2>1. Cmd(j).op \in {"configure", "provide"} /\ pc'[j] \in {"stopped", "audit", "upsert"}
        BY Zenon, <1>1, <1>9, SettingsEffect
    <2> QED
        BY Zenon, <1>2, <1>9, <2>1 DEF Held, Working, At
<1>10. CASE k = j /\ UsePepper(j)
    <2>1. /\ pc'[j] \in {"stopped", "done", "audit", "pepper", "use", "record"}
          /\ pc'[j] \in {"pepper", "use", "record"} => tenant[T(j)] # None
        BY Zenon, <1>1, <1>10, PepperEffect DEF Held, Working
    <2>2. mem[j].pepper \in Pepper \cup {None}
        BY Zenon, <1>1 DEF Control, Memory
    <2>3. pc'[j] \in {"use", "record"} => mem'[j].pepper \in Pepper
        BY Zenon, <1>1, <1>10, <2>2, PepperEffect DEF Held
    <2> QED
        BY Zenon, <1>2, <1>3, <1>1, <1>10, <2>1, <2>3 DEF Held, Working, At
<1>11. CASE k = j /\ (record(j) \/ Stop(j))
    <2>1. pc'[j] \in {"done", "stopped"}
        BY Zenon, <1>1, <1>11, EndEffect
    <2> QED
        BY Zenon, <1>2, <1>11, <2>1 DEF Held, Working, At
<1> QED
    BY Zenon, <1>4, <1>5, <1>6, <1>7, <1>8, <1>9, <1>10, <1>11 DEF Step

\* What no job does: nothing, or to forget a context.
Idle ==
    /\ UNCHANGED <<scenario, pc, mem, tenant, cert, audit, database, vault, stops,
                   missed, razed, clashed, overwritten>>
    /\ context' \in [Processes -> [Tenants -> Pepper \cup {None}]]
    /\ \A p \in Processes, t \in Tenants : context'[p][t] \in {context[p][t], None}

\* Every step is a job's or idle.
LEMMA Rest ==
    ASSUME Shape, [Next]_vars
    PROVE  Idle \/ \E j \in Jobs : Step(j)
<1>0. context \in [Processes -> [Tenants -> Pepper \cup {None}]]
    BY Zenon DEF Shape, TypeOK
<1>1. CASE UNCHANGED vars
    BY Zenon, <1>0, <1>1 DEF vars, history, Idle
<1>2. ASSUME NEW q \in Processes, NEW u \in Tenants, evict_idle(q, u)
      PROVE  Idle
    <2>1. /\ UNCHANGED <<scenario, pc, mem, tenant, cert, audit, database, vault, stops,
                         missed, razed, clashed, overwritten>>
          /\ context' = [context EXCEPT ![q] = [context[q] EXCEPT ![u] = None]]
        BY Zenon, <1>2 DEF evict_idle, history
    <2>2. [context[q] EXCEPT ![u] = None] \in [Tenants -> Pepper \cup {None}]
        BY Zenon, <1>0
    <2>3. context' \in [Processes -> [Tenants -> Pepper \cup {None}]]
        BY Zenon, <1>0, <2>1, <2>2
    <2>4. \A p \in Processes, t \in Tenants : context'[p][t] \in {context[p][t], None}
        BY Zenon, <1>0, <2>1
    <2> QED
        BY Zenon, <2>1, <2>3, <2>4 DEF Idle
<1> QED
    BY Zenon, <1>1, <1>2, Cases

\* The stores of the initial state.
LEMMA InitStores ==
    ASSUME Init
    PROVE  /\ tenant \in [Tenants -> Tenant \cup {None}]
           /\ database \in [Tenants -> Database \cup {None}]
           /\ vault \in [Tenants -> Vault]
           /\ \A t \in Tenants :
                 \/ /\ tenant[t] = None /\ database[t] = None
                    /\ vault[t].key = FALSE /\ vault[t].secret = vault[t].generation
                 \/ /\ tenant[t] # None /\ database[t] # None /\ database[t].migrated
                    /\ database[t].producers = {} /\ database[t].suppressed = {}
                    /\ vault[t].key = TRUE /\ vault[t].role = TRUE
                    /\ vault[t].secret = vault[t].generation
<1> DEFINE row(t) == [status |-> "active", database_name |-> t, pepper |-> None]
           d == [migrated |-> TRUE, producers |-> {}, config |-> None,
                 provider |-> None, suppressed |-> {}]
           here == [key |-> TRUE, role |-> TRUE, generation |-> 1, secret |-> 1]
           absent == [key |-> FALSE, role |-> FALSE, generation |-> 0, secret |-> 0]
           v(t) == LET n == IF t \in scenario.active THEN 1 ELSE 0
                   IN  [key |-> n = 1, role |-> n = 1, generation |-> n, secret |-> n]
<1>1. \A t \in Tenants : row(t) \in Tenant
    BY ControlPlaneAssumption DEF Tenant, Statuses
<1>2. d \in Database /\ d.migrated = TRUE /\ d.producers = {} /\ d.suppressed = {}
    BY DEF Database
<1>3. 0 \in Nat /\ 1 \in Nat /\ (1 = 1) = TRUE /\ (0 = 1) = FALSE
    BY SMT
<1>4. /\ here \in Vault /\ here.key = TRUE /\ here.role = TRUE /\ here.secret = here.generation
      /\ absent \in Vault /\ absent.key = FALSE /\ absent.secret = absent.generation
    BY Zenon, <1>3 DEF Vault
<1>5. \A t \in Tenants : /\ t \in scenario.active => v(t) = here
                         /\ t \notin scenario.active => v(t) = absent
    BY Zenon, <1>3
<1>6. /\ tenant = [t \in Tenants |-> IF t \in scenario.active THEN row(t) ELSE None]
      /\ database = [t \in Tenants |-> IF t \in scenario.active THEN d ELSE None]
      /\ vault = [t \in Tenants |-> v(t)]
    BY Zenon DEF Init
<1> HIDE DEF row, d, here, absent, v
<1>7. \A t \in Tenants :
          /\ t \in scenario.active => tenant[t] = row(t) /\ database[t] = d /\ vault[t] = here
          /\ t \notin scenario.active => tenant[t] = None /\ database[t] = None /\ vault[t] = absent
    BY Zenon, <1>5, <1>6
<1>8. /\ tenant \in [Tenants -> Tenant \cup {None}]
      /\ database \in [Tenants -> Database \cup {None}]
    BY Zenon, <1>1, <1>2, <1>6
<1>9. vault \in [Tenants -> Vault]
    BY Zenon, <1>4, <1>5, <1>6
<1>10. ASSUME NEW t \in Tenants, t \in scenario.active
       PROVE  /\ tenant[t] # None /\ database[t] # None /\ database[t].migrated
              /\ database[t].producers = {} /\ database[t].suppressed = {}
              /\ vault[t].key = TRUE /\ vault[t].role = TRUE
              /\ vault[t].secret = vault[t].generation
    <2>1. tenant[t] = row(t) /\ database[t] = d /\ vault[t] = here /\ row(t) \in Tenant
        BY Zenon, <1>1, <1>7, <1>10
    <2> QED
        BY Zenon, <1>2, <1>4, <2>1, NoRow
<1>11. ASSUME NEW t \in Tenants, t \notin scenario.active
       PROVE  /\ tenant[t] = None /\ database[t] = None
              /\ vault[t].key = FALSE /\ vault[t].secret = vault[t].generation
    BY Zenon, <1>4, <1>7, <1>11
<1> QED
    BY Zenon, <1>8, <1>9, <1>10, <1>11

\* The initial state.
LEMMA InitShape ==
    ASSUME Init
    PROVE  Shape
<1>1. Blank \in Memory
    BY Zenon DEF Blank, Memory
<1>2. 0 \in 0..MaxStops
    BY ControlPlaneAssumption
<1>3. Control
    BY Zenon, <1>1, <1>2 DEF Init, Control, Labels
<1>4. TypeOK
    BY Zenon, <1>2, InitStores DEF Init, TypeOK
<1>5. \A j \in Jobs : Held(j)
    BY Zenon DEF Init, Held, Working, At
<1> QED
    BY Zenon, <1>3, <1>4, <1>5 DEF Shape

\* Every step.
LEMMA ShapeStep ==
    ASSUME Shape, [Next]_vars
    PROVE  Shape'
<1>1. ASSUME NEW j \in Jobs, Step(j)
      PROVE  Shape'
    BY Zenon, <1>1, ControlStep, StoresStep, HeldStep DEF Shape
<1>2. CASE Idle
    <2>1. Control'
        BY Zenon, <1>2 DEF Shape, Idle, Control
    <2>2. TypeOK'
        BY Zenon, <1>2 DEF Shape, Idle, TypeOK
    <2>3. \A j \in Jobs : Held(j)'
        BY Zenon, <1>2 DEF Shape, Idle, Held, Working, At, T, Cmd
    <2> QED
        BY Zenon, <2>1, <2>2, <2>3 DEF Shape
<1> QED
    BY Zenon, <1>1, <1>2, Rest

\* Type correctness: the stores hold rows of the columns the migrations and Vault
\* define, whatever the commands and wherever they fail.
THEOREM TypeCorrect == Spec => []TypeOK
<1>1. Init => Shape
    BY InitShape
<1>2. Shape /\ [Next]_vars => Shape'
    BY ShapeStep
<1>3. Shape => TypeOK
    BY Zenon DEF Shape
<1> QED
    BY <1>1, <1>2, <1>3, PTL DEF Spec

\* How a job starts, and that it ends once.
LEMMA Starts ==
    ASSUME Shape, NEW j \in Jobs, Step(j)
    PROVE  /\ pc[j] \notin {"done", "stopped"} /\ pc'[j] # "begin"
           /\ Cmd(j).op = "provision" /\ pc[j] = "begin" => FindTenant(j)
           /\ Cmd(j).op = "destroy" /\ pc[j] = "begin" => FindDoomed(j)
           /\ Cmd(j).op \in {"provision", "destroy"} /\ pc'[j] = "done" => record(j) /\ pc[j] = "audit"
<1>0. Control
    BY Zenon DEF Shape
<1>1. CASE provision_tenant(j)
    BY Zenon, <1>0, <1>1, ProvisionEffect
<1>2. CASE destroy_tenant(j) \/ suspend(j)
    BY Zenon, <1>0, <1>2, DestroyEffect
<1>3. CASE register_producer(j)
    BY Zenon, <1>3, RegisterEffect
<1>4. CASE disable_producer(j)
    BY Zenon, <1>4, DisableEffect
<1>5. CASE set_tenant_config(j) \/ load_one(j) \/ upsert(j)
    <2>1. Cmd(j).op \in {"configure", "provide"} /\ pc'[j] \in {"stopped", "audit", "upsert"}
        BY Zenon, <1>0, <1>5, SettingsEffect
    <2>2. pc[j] \in {"begin", "upsert"}
        BY Zenon, <1>0, <1>5, SettingsEffect
    <2> QED
        BY Zenon, <2>1, <2>2
<1>6. CASE UsePepper(j)
    BY Zenon, <1>6, PepperEffect
<1>7. CASE record(j) \/ Stop(j)
    BY Zenon, <1>0, <1>7, EndEffect DEF InFlight
<1> QED
    BY Zenon, <1>1, <1>2, <1>3, <1>4, <1>5, <1>6, <1>7 DEF Step

-----------------------------------------------------------------------------
\* Nothing of a tenant is there before its row, and what a destruction may undo
\* is marked.
Doomed ==
    /\ \A j \in Jobs : Cmd(j).op = "destroy" /\ InFlight(j) => T(j) \in razed
    /\ clashed \subseteq razed
    /\ \A t \in Tenants : tenant[t] = None =>
        /\ database[t] = None
        /\ \A p \in Processes : context[p][t] = None

\* A destruction marks its tenant before it does anything.
LEMMA DoomedStep ==
    ASSUME Shape, Doomed, NEW j \in Jobs, Step(j)
    PROVE  Doomed'
<1>0. /\ Control /\ Others(j) /\ T(j) \in Tenants /\ razed \subseteq razed' /\ Held(j)
      /\ \A k \in Jobs : Cmd(k)' = Cmd(k) /\ T(k)' = T(k)
    BY Zenon, Moves, Commands, Arguments, HistoryWrites DEF Shape, Others
<1>1. ASSUME NEW k \in Jobs, Cmd(k).op = "destroy", InFlight(k)'
      PROVE  T(k) \in razed'
    <2>1. CASE InFlight(k)
        BY Zenon, <1>0, <1>1, <2>1 DEF Doomed
    <2>2. CASE ~InFlight(k)
        <3>1. k = j
            BY Zenon, <1>0, <1>1, <2>2 DEF InFlight, Others
        <3>2. FindDoomed(j) /\ pc'[j] # "stopped"
            BY Zenon, <1>1, <2>2, <3>1, Starts DEF InFlight
        <3>3. ~Abort(j)
            BY Zenon, <1>0, <3>2, Aborts
        <3> QED
            BY Zenon, <3>1, <3>2, <3>3 DEF FindDoomed
    <2> QED
        BY Zenon, <2>1, <2>2
<1>2. clashed' \subseteq razed'
    <2>1. clashed \subseteq razed'
        BY Zenon, <1>0 DEF Doomed
    <2>2. (\E k \in Of("destroy", T(j)) : InFlight(k)) => T(j) \in razed'
        BY Zenon, <1>0 DEF Doomed, Of
    <2> QED
        BY Zenon, <2>1, <2>2, HistoryWrites
<1>3. ASSUME NEW t \in Tenants, tenant'[t] = None
      PROVE  database'[t] = None /\ \A p \in Processes : context'[p][t] = None
    <2>1. tenant[t] = None /\ database[t] = None /\ \A p \in Processes : context[p][t] = None
        BY Zenon, <1>3, TenantStays DEF Doomed
    <2>2. t = T(j) => ~Working(j)
        BY Zenon, <1>0, <2>1 DEF Held
    <2>3. t = T(j) => ~CreateDatabase(j) /\ ~CacheContext(j)
        BY Zenon, <2>2 DEF CreateDatabase, CacheContext, At, Working
    <2>4. database'[t] = None
        BY Zenon, <1>0, <2>1, <2>3, DatabaseWrites, NoRow
    <2>5. \A p \in Processes : context'[p][t] = None
        BY Zenon, <2>1, <2>3, ContextWrites
    <2> QED
        BY Zenon, <2>4, <2>5
<1>4. \A k \in Jobs : Cmd(k)'.op = "destroy" /\ InFlight(k)' => T(k)' \in razed'
    BY Zenon, <1>0, <1>1
<1> QED
    BY Zenon, <1>2, <1>3, <1>4 DEF Doomed

\* Where the rows of a tenant's producers come from.
LEMMA RowsBack ==
    ASSUME Shape, NEW j \in Jobs, Step(j), NEW t \in Tenants, NEW q \in Producers(t)'
    PROVE  \/ q \in Producers(t)
           \/ insert_if_absent(j) /\ t = T(j) /\ q = Row(j)
           \/ /\ set_enabled(j) /\ t = T(j)
              /\ \E r \in Producers(t) : r.id = mem[j].row.id /\ q = Disabled(r, mem[j].row.id)
<1>1. database'[t] # None /\ q \in database'[t].producers
    BY Zenon DEF Producers
<1>2. Producers(t) \subseteq Producer /\ T(j) \in Tenants
    BY Zenon, ProducersTyped, Arguments DEF Shape
<1>3. CASE database'[t] = database[t]
    BY Zenon, <1>1, <1>3 DEF Producers
<1>4. CASE database'[t] # database[t]
    <2>1. t = T(j)
        BY Zenon, <1>4, DatabaseWrites
    <2>2. CASE database[t] = None
        BY Zenon, <1>1, <2>1, <2>2, DatabaseWrites, NoRow
    <2>3. CASE database[t] # None
        <3>1. Producers(t) = database[t].producers
            BY Zenon, <2>3 DEF Producers
        <3>2. \/ database'[t].producers = database[t].producers
              \/ insert_if_absent(j) /\ database'[t].producers = database[t].producers \cup {Row(j)}
              \/ /\ set_enabled(j)
                 /\ database'[t].producers =
                       {Disabled(r, mem[j].row.id) : r \in database[t].producers}
            BY Zenon, <1>1, <1>4, <2>1, <2>3, DatabaseWrites DEF SameProducers
        <3>3. ASSUME set_enabled(j), NEW r \in Producers(t), q = Disabled(r, mem[j].row.id)
              PROVE  q \in Producers(t) \/ r.id = mem[j].row.id
            BY Zenon, <1>2, <3>3, DisabledFields
        <3> QED
            BY Zenon, <1>1, <2>1, <3>1, <3>2, <3>3
    <2> QED
        BY Zenon, <2>2, <2>3
<1> QED
    BY Zenon, <1>3, <1>4

\* What is in the database of a tenant that nobody destroys stays there.
LEMMA DataStays ==
    ASSUME Shape, Doomed, NEW j \in Jobs, Step(j), NEW t \in Tenants, t \notin razed,
           database[t] # None
    PROVE  /\ database'[t] # None
           /\ database[t].migrated => database'[t].migrated
           /\ database[t].config # None => database'[t].config # None
           /\ database[t].suppressed \subseteq database'[t].suppressed
           /\ \A r \in database[t].producers : \E q \in database'[t].producers :
                 q.id = r.id /\ q.name = r.name /\ q.cert = r.cert /\ q.owner = r.owner
<1>0. /\ Control /\ T(j) \in Tenants /\ None \notin Database
      /\ database[t] \in Database /\ database[t].producers \subseteq Producer
    BY Zenon, Arguments, NoRow, ProducersTyped DEF Shape
<1>1. ~DropDatabase(j) \/ t # T(j)
    BY Zenon DEF DropDatabase, At, Doomed, InFlight
<1>2. set_tenant_config(j) => Cmd(j).value # None
    BY Zenon, <1>0, Arguments, NoRow DEF set_tenant_config, At
<1>3. CASE database'[t] = database[t]
    BY Zenon, <1>3
<1>4. CASE database'[t] # database[t]
    <2>1. t = T(j)
        BY Zenon, <1>4, DatabaseWrites
    <2>2. database'[t] # None
        BY Zenon, <1>0, <1>1, <1>4, <2>1, DatabaseWrites
    <2>3. database[t].migrated => database'[t].migrated
        BY Zenon, <1>1, <1>4, <2>1, DatabaseWrites DEF SameMigrated
    <2>4. database[t].config # None => database'[t].config # None
        BY Zenon, <1>1, <1>2, <1>4, <2>1, DatabaseWrites DEF SameConfig
    <2>5. database[t].suppressed \subseteq database'[t].suppressed
        <3>1. \/ database'[t].suppressed = database[t].suppressed
              \/ database'[t].suppressed = database[t].suppressed \cup {mem[j].pepper}
            BY Zenon, <1>1, <1>4, <2>1, DatabaseWrites DEF SameSuppressed
        <3> QED
            BY Zenon, <3>1
    <2>6. \A r \in database[t].producers : \E q \in database'[t].producers :
              q.id = r.id /\ q.name = r.name /\ q.cert = r.cert /\ q.owner = r.owner
        <3>1. \/ database'[t].producers = database[t].producers
              \/ database'[t].producers = database[t].producers \cup {Row(j)}
              \/ database'[t].producers =
                    {Disabled(r, mem[j].row.id) : r \in database[t].producers}
            BY Zenon, <1>1, <1>4, <2>1, DatabaseWrites DEF SameProducers
        <3>2. CASE database[t].producers \subseteq database'[t].producers
            BY Zenon, <3>2
        <3>3. CASE database'[t].producers =
                    {Disabled(r, mem[j].row.id) : r \in database[t].producers}
            <4> SUFFICES ASSUME NEW r \in database[t].producers
                         PROVE  \E q \in database'[t].producers :
                                    /\ q.id = r.id /\ q.name = r.name
                                    /\ q.cert = r.cert /\ q.owner = r.owner
                OBVIOUS
            <4>1. Disabled(r, mem[j].row.id) \in database'[t].producers
                BY Zenon, <3>3
            <4> QED
                BY Zenon, <1>0, <4>1, DisabledFields
        <3> QED
            BY Zenon, <3>1, <3>2, <3>3
    <2> QED
        BY Zenon, <2>2, <2>3, <2>4, <2>5, <2>6
<1> QED
    BY Zenon, <1>3, <1>4

\* In particular its producers.
LEMMA RowsForth ==
    ASSUME Shape, Doomed, NEW j \in Jobs, Step(j), NEW t \in Tenants, t \notin razed
    PROVE  \A r \in Producers(t) : \E q \in Producers(t)' :
               q.id = r.id /\ q.name = r.name /\ q.cert = r.cert /\ q.owner = r.owner
<1>1. CASE database[t] = None
    BY Zenon, <1>1 DEF Producers
<1>2. CASE database[t] # None
    BY Zenon, <1>2, DataStays DEF Producers
<1> QED
    BY Zenon, <1>1, <1>2

\* A mapping is never removed, and never enabled again.
LEMMA CertStays ==
    ASSUME Shape, NEW j \in Jobs, Step(j), NEW c \in Certs, cert[c] # None
    PROVE  cert'[c] # None /\ (~cert[c].enabled => ~cert'[c].enabled)
BY Zenon, CertWrites, NoRow

\* Whatever names a producer agrees on its certificate: that of its registration.
Certified ==
    /\ \A t \in Tenants : \A r \in Producers(t) : r.cert = Cmd(r.id).cert
    /\ \A j \in Jobs : mem[j].row # None => mem[j].row.cert = Cmd(mem[j].row.id).cert
    /\ \A c \in Certs : cert[c] # None => Cmd(cert[c].producer).cert = c

Homes ==
    \A j \in Jobs : At(j, "register", "map") /\ T(j) \notin razed =>
        \E r \in Producers(T(j)) : Asked(j, r) /\ r.id = mem[j].row.id

Registered ==
    \A j \in Jobs : At(j, "register", "audit") /\ mem[j].outcome \in {"created", "idempotent"} =>
        /\ cert[Cmd(j).cert] # None
        /\ T(j) \in razed \/ \E r \in Producers(T(j)) : Asked(j, r)

\* The certificate of a disabled producer is switched off.
Off(r) == r.id \in missed \/ (cert[r.cert] # None /\ ~cert[r.cert].enabled)

SwitchedOff ==
    /\ \A t \in Tenants : \A r \in Producers(t) : ~r.enabled => Off(r)
    /\ \A j \in Jobs : At(j, "disable", "disablerow") => Off(mem[j].row)

\* The row that a job remembers is one it has read or inserted.
LEMMA RowRead ==
    ASSUME Shape, NEW j \in Jobs, Step(j)
    PROVE  \/ mem'[j].row = mem[j].row
           \/ mem'[j].row \in Producers(T(j))
           \/ Cmd(j).op = "register" /\ mem'[j].row = Row(j)
<1>0. Control
    BY Zenon DEF Shape
<1>1. CASE provision_tenant(j)
    BY Zenon, <1>0, <1>1, ProvisionEffect
<1>2. CASE destroy_tenant(j) \/ suspend(j)
    BY Zenon, <1>0, <1>2, DestroyEffect
<1>3. CASE register_producer(j)
    BY Zenon, <1>3, RegisterEffect
<1>4. CASE disable_producer(j)
    BY Zenon, <1>4, DisableEffect
<1>5. CASE set_tenant_config(j) \/ load_one(j) \/ upsert(j)
    BY Zenon, <1>0, <1>5, SettingsEffect
<1>6. CASE UsePepper(j)
    BY Zenon, <1>6, PepperEffect
<1>7. CASE record(j) \/ Stop(j)
    BY Zenon, <1>0, <1>7, EndEffect
<1> QED
    BY Zenon, <1>1, <1>2, <1>3, <1>4, <1>5, <1>6, <1>7 DEF Step

\* The certificate of a producer is copied with its id.
LEMMA CertifiedStep ==
    ASSUME Shape, Certified, NEW j \in Jobs, Step(j)
    PROVE  Certified'
<1>0. /\ Control /\ Others(j) /\ T(j) \in Tenants /\ Held(j)
      /\ \A i : Cmd(i)' = Cmd(i)
    BY Zenon, Moves, Arguments DEF Shape, Others, Cmd
<1>1. Cmd(j).op = "register" => Row(j).id = j /\ Row(j).cert = Cmd(j).cert
    BY Zenon, <1>0, RowFields
<1>2. ASSUME NEW t \in Tenants, NEW q \in Producers(t)'
      PROVE  q.cert = Cmd(q.id).cert
    <2>1. CASE q \in Producers(t)
        BY Zenon, <2>1 DEF Certified
    <2>2. CASE insert_if_absent(j) /\ q = Row(j)
        BY Zenon, <1>1, <2>2 DEF insert_if_absent, At
    <2>3. ASSUME NEW r \in Producers(t), q = Disabled(r, mem[j].row.id)
          PROVE  q.cert = Cmd(q.id).cert
        <3>1. r \in Producer /\ r.cert = Cmd(r.id).cert
            BY Zenon, ProducersTyped DEF Certified
        <3>2. q.id = r.id /\ q.cert = r.cert
            BY Zenon, <2>3, <3>1, DisabledFields
        <3> QED
            BY Zenon, <3>1, <3>2
    <2> QED
        BY Zenon, <2>1, <2>2, <2>3, RowsBack
<1>3. ASSUME NEW k \in Jobs, mem'[k].row # None
      PROVE  mem'[k].row.cert = Cmd(mem'[k].row.id).cert
    <2>1. CASE mem'[k].row = mem[k].row
        BY Zenon, <1>3, <2>1 DEF Certified
    <2>2. CASE k = j
        BY Zenon, <1>0, <1>1, <1>3, <2>1, <2>2, RowRead DEF Certified
    <2> QED
        BY Zenon, <1>0, <2>1, <2>2 DEF Others
<1>4. ASSUME NEW c \in Certs, cert'[c] # None
      PROVE  Cmd(cert'[c].producer).cert = c
    <2>1. CASE cert'[c] = cert[c]
        BY Zenon, <1>4, <2>1 DEF Certified
    <2>2. CASE upsert_producer_cert(j) /\ c = Cmd(j).cert /\ cert'[c].producer = mem[j].row.id
        <3>1. mem[j].row \in Producer /\ mem[j].row.cert = Cmd(j).cert
            BY Zenon, <1>0, <2>2 DEF upsert_producer_cert, Held
        <3> QED
            BY Zenon, <2>2, <3>1, NoRow DEF Certified
    <2>3. CASE cert[c] # None /\ cert'[c].producer = cert[c].producer
        BY Zenon, <2>3 DEF Certified
    <2> QED
        BY Zenon, <1>4, <2>1, <2>2, <2>3, CertWrites
<1> QED
    BY Zenon, <1>0, <1>2, <1>3, <1>4 DEF Certified

\* An insertion that does not fail leaves its row.
LEMMA Inserted ==
    ASSUME Shape, NEW j \in Jobs, Step(j), insert_if_absent(j), ~Fails(j),
           NEW t \in Tenants, t = T(j)
    PROVE  Row(j) \in Producers(t)'
<1>1. ~(database' = database /\ (Fails(j) \/ ~WritesDatabase(j)))
    BY Zenon DEF WritesDatabase
<1>2. /\ ~CreateDatabase(j) /\ ~DropDatabase(j) /\ ~Migrate(j) /\ ~set_enabled(j)
      /\ ~set_tenant_config(j) /\ ~upsert(j) /\ ~Suppress(j)
    BY Zenon DEF insert_if_absent, CreateDatabase, DropDatabase, Migrate,
        set_enabled, set_tenant_config, upsert, Suppress, At
<1>3. /\ database'[t] \in Database
      /\ database'[t].producers = database[t].producers \cup {Row(j)}
    BY Zenon, <1>1, <1>2, DatabaseWrites
<1>4. database'[t] # None
    BY Zenon, <1>3, NoRow
<1>5. Producers(t)' = database'[t].producers
    BY Zenon, <1>4 DEF Producers
<1> QED
    BY Zenon, <1>3, <1>5

\* A registration that gets to the mapping has its row.
LEMMA HomesStep ==
    ASSUME Shape, Doomed, Homes, NEW j \in Jobs, Step(j)
    PROVE  Homes'
<1>0. /\ Control /\ Others(j) /\ razed \subseteq razed'
      /\ \A k \in Jobs : T(k) \in Tenants
      /\ \A k \in Jobs : Cmd(k)' = Cmd(k) /\ T(k)' = T(k)
    BY Zenon, Moves, Commands, Arguments, HistoryWrites DEF Shape, Others
<1> SUFFICES ASSUME NEW k \in Jobs, NEW t \in Tenants, T(k) = t,
                    Cmd(k).op = "register", pc'[k] = "map", t \notin razed'
             PROVE  \E r \in Producers(t)' : /\ r.name = Cmd(k).name /\ r.cert = Cmd(k).cert
                                             /\ r.owner = Cmd(k).owner /\ r.id = mem'[k].row.id
    BY <1>0 DEF Homes, At, Asked, Producers
<1>1. t \notin razed
    BY Zenon, <1>0
<1>2. ASSUME NEW r \in Producers(t), Asked(k, r), r.id = mem'[k].row.id
      PROVE  \E q \in Producers(t)' : /\ q.name = Cmd(k).name /\ q.cert = Cmd(k).cert
                                      /\ q.owner = Cmd(k).owner /\ q.id = mem'[k].row.id
    <2>1. PICK q \in Producers(t)' :
              q.id = r.id /\ q.name = r.name /\ q.cert = r.cert /\ q.owner = r.owner
        BY Zenon, <1>1, RowsForth
    <2> QED
        BY Zenon, <1>2, <2>1 DEF Asked
<1>3. CASE k # j
    <2>1. pc[k] = "map" /\ mem'[k] = mem[k]
        BY Zenon, <1>0, <1>3 DEF Others
    <2> QED
        BY Zenon, <1>1, <1>2, <2>1 DEF Homes, At
<1>4. CASE k = j
    <2>1. register_producer(j)
        <3>1. ~provision_tenant(j) /\ ~disable_producer(j) /\ ~destroy_tenant(j) /\ ~suspend(j)
            BY Zenon, <1>0, <1>4, ProvisionEffect, DisableEffect, DestroyEffect
        <3>2. ~(set_tenant_config(j) \/ load_one(j) \/ upsert(j)) /\ ~UsePepper(j)
            BY Zenon, <1>0, <1>4, SettingsEffect, PepperEffect
        <3>3. ~(record(j) \/ Stop(j))
            BY Zenon, <1>0, <1>4, EndEffect
        <3> QED
            BY Zenon, <3>1, <3>2, <3>3 DEF Step
    <2>2. CASE mem'[j].row \in Producers(T(j)) /\ Asked(j, mem'[j].row)
        BY Zenon, <1>2, <1>4, <2>2
    <2>3. CASE insert_if_absent(j) /\ mem'[j].row = Row(j)
        <3>1. /\ Row(j).id = j /\ Row(j).name = Cmd(j).name /\ Row(j).cert = Cmd(j).cert
              /\ Row(j).owner = Cmd(j).owner
            BY Zenon, <1>0, <1>4, RowFields
        <3>2. ~Fails(j)
            BY Zenon, <1>0, <1>4, Aborts, Concludes DEF Fails, Goto, Conclude, Control
        <3>3. Row(j) \in Producers(t)'
            BY Zenon, <1>4, <2>3, <3>2, Inserted
        <3> QED
            BY Zenon, <1>4, <2>3, <3>1, <3>3
    <2> QED
        BY Zenon, <1>4, <2>1, <2>2, <2>3, RegisterEffect
<1> QED
    BY Zenon, <1>3, <1>4

\* The mapping is written when the row is there.
LEMMA PointHomeStep ==
    ASSUME Shape, Doomed, Homes, CertsPointHome, NEW j \in Jobs, Step(j)
    PROVE  CertsPointHome'
<1>0. /\ razed \subseteq razed' /\ T(j) \in Tenants
      /\ cert \in [Certs -> Mapping \cup {None}]
    BY Zenon, Arguments, HistoryWrites DEF Shape, TypeOK
<1> SUFFICES ASSUME NEW c \in Certs, NEW t, cert'[c] # None, cert'[c].tenant = t, t \notin razed'
             PROVE  \E q \in Producers(t)' : q.id = cert'[c].producer /\ q.cert = c
    BY DEF CertsPointHome, Producers
<1>1. t \notin razed
    BY Zenon, <1>0
<1>2. ASSUME NEW u \in Tenants, u = t, NEW r \in Producers(u), r.id = cert'[c].producer, r.cert = c
      PROVE  \E q \in Producers(t)' : q.id = cert'[c].producer /\ q.cert = c
    <2>1. u \notin razed
        BY Zenon, <1>1, <1>2
    <2>2. PICK q \in Producers(u)' :
              q.id = r.id /\ q.name = r.name /\ q.cert = r.cert /\ q.owner = r.owner
        BY Zenon, <2>1, RowsForth
    <2> QED
        BY Zenon, <1>2, <2>2 DEF Producers
<1>3. CASE cert[c] # None /\ cert[c].tenant = t /\ cert[c].producer = cert'[c].producer
    <2>1. PICK r \in Producers(t) : r.id = cert[c].producer /\ r.cert = c
        BY Zenon, <1>1, <1>3 DEF CertsPointHome
    <2>2. t \in Tenants
        BY Zenon, <1>0, <1>3 DEF Mapping
    <2> QED
        BY Zenon, <1>2, <1>3, <2>1, <2>2
<1>4. CASE upsert_producer_cert(j) /\ c = Cmd(j).cert /\ t = T(j) /\ cert'[c].producer = mem[j].row.id
    <2>1. PICK r \in Producers(T(j)) : Asked(j, r) /\ r.id = mem[j].row.id
        BY Zenon, <1>1, <1>4 DEF Homes, upsert_producer_cert
    <2> QED
        BY Zenon, <1>0, <1>2, <1>4, <2>1 DEF Asked
<1> QED
    BY Zenon, <1>3, <1>4, CertWrites

\* When both halves of a registration are in place.
Mapped(j) ==
    /\ cert[Cmd(j).cert] # None
    /\ T(j) \in razed \/ \E r \in Producers(T(j)) : Asked(j, r)

\* They stay in place.
LEMMA MappedStays ==
    ASSUME Shape, Doomed, NEW j \in Jobs, Step(j), NEW k \in Jobs, Cmd(k).op = "register", Mapped(k)
    PROVE  Mapped(k)'
<1>0. /\ razed \subseteq razed' /\ T(k) \in Tenants /\ Cmd(k).cert \in Certs
      /\ Cmd(k)' = Cmd(k) /\ T(k)' = T(k)
    BY Zenon, Moves, Commands, Arguments, HistoryWrites DEF Shape, Others
<1>1. cert'[Cmd(k).cert] # None
    BY Zenon, <1>0, CertStays DEF Mapped
<1>2. PICK t \in Tenants : t = T(k)
    BY Zenon, <1>0
<1>3. t \in razed' \/ \E q \in Producers(t)' : Asked(k, q)
    <2>1. CASE t \in razed
        BY Zenon, <1>0, <2>1
    <2>2. CASE t \notin razed
        <3>1. PICK r \in Producers(t) : Asked(k, r)
            BY Zenon, <1>2, <2>2 DEF Mapped
        <3>2. PICK q \in Producers(t)' : q.name = r.name /\ q.cert = r.cert /\ q.owner = r.owner
            BY Zenon, <2>2, RowsForth
        <3> QED
            BY Zenon, <3>1, <3>2 DEF Asked
    <2> QED
        BY Zenon, <2>1, <2>2
<1> QED
    BY <1>0, <1>1, <1>2, <1>3 DEF Mapped, Asked, Producers

\* A registration is over only with both halves in place.
LEMMA RegisteredStep ==
    ASSUME Shape, Doomed, Homes, Registered, NEW j \in Jobs, Step(j)
    PROVE  Registered'
<1>0. /\ Control /\ Others(j) /\ razed \subseteq razed' /\ T(j) \in Tenants
      /\ \A k \in Jobs : Cmd(k)' = Cmd(k) /\ T(k)' = T(k)
    BY Zenon, Moves, Commands, Arguments, HistoryWrites DEF Shape, Others
<1> SUFFICES ASSUME NEW k \in Jobs, Cmd(k).op = "register", pc'[k] = "audit",
                    mem'[k].outcome \in {"created", "idempotent"}
             PROVE  Mapped(k)'
    BY Zenon, <1>0 DEF Registered, Mapped, At
<1>1. CASE pc[k] = "audit" /\ mem'[k].outcome = mem[k].outcome
    <2>1. Mapped(k)
        BY Zenon, <1>1 DEF Registered, Mapped, At
    <2> QED
        BY Zenon, <2>1, MappedStays
<1>2. CASE k = j /\ upsert_producer_cert(j)
    <2>1. T(j) \in razed \/ \E r \in Producers(T(j)) : Asked(j, r)
        BY Zenon, <1>2 DEF upsert_producer_cert, Homes
    <2>2. cert'[Cmd(j).cert] # None
        <3>1. ~set_cert_enabled(j)
            BY Zenon, <1>2 DEF set_cert_enabled, upsert_producer_cert, At
        <3> QED
            BY Zenon, <1>2, <3>1, CertWrites, NoRow
    <2>3. razed' = razed /\ database' = database
        BY Zenon, <1>2 DEF upsert_producer_cert, history
    <2> QED
        BY <1>0, <1>2, <2>1, <2>2, <2>3 DEF Mapped, Asked, Producers
<1>3. CASE k = j /\ ~upsert_producer_cert(j)
    <2>1. ~provision_tenant(j) /\ ~disable_producer(j) /\ ~destroy_tenant(j) /\ ~suspend(j)
        BY Zenon, <1>0, <1>3, ProvisionEffect, DisableEffect, DestroyEffect
    <2>2. ~(set_tenant_config(j) \/ load_one(j) \/ upsert(j)) /\ ~UsePepper(j)
        BY Zenon, <1>0, <1>3, SettingsEffect, PepperEffect
    <2>3. ~(record(j) \/ Stop(j))
        BY Zenon, <1>0, <1>3, EndEffect
    <2>4. ~register_producer(j)
        BY Zenon, <1>3, RegisterEffect
    <2> QED
        BY Zenon, <2>1, <2>2, <2>3, <2>4 DEF Step
<1>4. CASE k # j
    BY Zenon, <1>0, <1>1, <1>4 DEF Others
<1> QED
    BY Zenon, <1>2, <1>3, <1>4

\* Success is reported of what is registered.
LEMMA ReportedStep ==
    ASSUME Shape, Doomed, Registered, RegisteredIsMapped, NEW j \in Jobs, Step(j)
    PROVE  RegisteredIsMapped'
<1>0. Control /\ Others(j) /\ \A k \in Jobs : Cmd(k)' = Cmd(k) /\ T(k)' = T(k)
    BY Zenon, Moves, Commands DEF Shape, Others
<1> SUFFICES ASSUME NEW k \in Jobs, Cmd(k).op = "register", audit'[k] \in {"created", "idempotent"}
             PROVE  Mapped(k)'
    BY <1>0 DEF RegisteredIsMapped, Mapped, Asked
<1>1. CASE audit'[k] = audit[k]
    <2>1. Mapped(k)
        BY Zenon, <1>1 DEF RegisteredIsMapped, Mapped, Asked
    <2> QED
        BY Zenon, <2>1, MappedStays
<1>2. CASE k = j /\ record(j)
    <2>1. audit'[k] = mem[k].outcome /\ pc[k] = "audit"
        BY Zenon, <1>0, <1>2 DEF record, Control
    <2>2. Mapped(k)
        BY Zenon, <2>1 DEF Registered, Mapped, At
    <2> QED
        BY Zenon, <2>2, MappedStays
<1>3. CASE k = j /\ suspend(j)
    BY Zenon, <1>3 DEF suspend, At
<1> QED
    BY Zenon, <1>0, <1>1, <1>2, <1>3, Writers DEF Others

\* What is switched off stays off.
LEMMA OffStays ==
    ASSUME Shape, NEW j \in Jobs, Step(j), NEW r \in Producer, Off(r)
    PROVE  r.id \in missed' \/ (cert'[r.cert] # None /\ ~cert'[r.cert].enabled)
<1>1. missed \subseteq missed' /\ r.cert \in Certs
    BY Zenon, CertWrites DEF Producer
<1> QED
    BY Zenon, <1>1, CertStays DEF Off

\* A row is disabled after its certificate.
LEMMA SwitchedOffStep ==
    ASSUME Shape, Certified, SwitchedOff, NEW j \in Jobs, Step(j)
    PROVE  SwitchedOff'
<1>0. /\ Control /\ Others(j) /\ T(j) \in Tenants /\ Held(j)
      /\ \A k \in Jobs : Cmd(k)' = Cmd(k) /\ T(k)' = T(k)
    BY Zenon, Moves, Commands, Arguments DEF Shape, Others
<1> DEFINE OffNext(r) == r.id \in missed' \/ (cert'[r.cert] # None /\ ~cert'[r.cert].enabled)
<1>1. \A r \in Producer : Off(r) => OffNext(r)
    BY Zenon, OffStays
<1>2. ASSUME NEW t \in Tenants, NEW q \in Producers(t)', ~q.enabled
      PROVE  OffNext(q)
    <2>1. CASE q \in Producers(t)
        BY Zenon, <1>1, <1>2, <2>1, ProducersTyped DEF SwitchedOff
    <2>2. CASE insert_if_absent(j) /\ q = Row(j)
        BY Zenon, <1>0, <1>2, <2>2, RowFields DEF insert_if_absent, At
    <2>3. ASSUME set_enabled(j), NEW r \in Producers(t), r.id = mem[j].row.id,
                 q = Disabled(r, mem[j].row.id)
          PROVE  OffNext(q)
        <3>1. Off(mem[j].row) /\ mem[j].row \in Producer
            BY Zenon, <1>0, <2>3 DEF set_enabled, SwitchedOff, Held, At
        <3>2. q.id = r.id /\ q.cert = r.cert
            BY Zenon, <2>3, ProducersTyped, DisabledFields
        <3>3. r.cert = mem[j].row.cert
            BY Zenon, <2>3, <3>1, NoRow DEF Certified
        <3>4. OffNext(mem[j].row)
            BY Zenon, <1>1, <3>1
        <3> QED
            BY Zenon, <2>3, <3>2, <3>3, <3>4
    <2> QED
        BY Zenon, <2>1, <2>2, <2>3, RowsBack
<1>3. ASSUME NEW k \in Jobs, Cmd(k).op = "disable", pc'[k] = "disablerow"
      PROVE  OffNext(mem'[k].row)
    <2>1. CASE k # j
        <3>1. pc[k] = "disablerow" /\ mem'[k] = mem[k]
            BY Zenon, <1>0, <1>3, <2>1 DEF Others
        <3>2. Off(mem[k].row) /\ mem[k].row \in Producer
            BY Zenon, <1>3, <3>1 DEF SwitchedOff, At, Shape, Held
        <3> QED
            BY Zenon, <1>1, <3>1, <3>2
    <2>2. CASE k = j
        <3>1. ~provision_tenant(j) /\ ~register_producer(j) /\ ~destroy_tenant(j) /\ ~suspend(j)
            BY Zenon, <1>0, <1>3, <2>2, ProvisionEffect, RegisterEffect, DestroyEffect
        <3>2. ~(set_tenant_config(j) \/ load_one(j) \/ upsert(j)) /\ ~UsePepper(j)
            BY Zenon, <1>0, <1>3, <2>2, SettingsEffect, PepperEffect
        <3>3. ~(record(j) \/ Stop(j))
            BY Zenon, <1>0, <1>3, <2>2, EndEffect
        <3>4. disable_producer(j)
            BY Zenon, <3>1, <3>2, <3>3 DEF Step
        <3>5. set_cert_enabled(j) /\ mem'[j] = mem[j]
            BY Zenon, <1>3, <2>2, <3>4, DisableEffect
        <3>6. ~upsert_producer_cert(j)
            BY Zenon, <3>5 DEF set_cert_enabled, upsert_producer_cert, At
        <3>7. OffNext(mem[j].row)
            BY Zenon, <3>5, <3>6, CertWrites, NoRow
        <3> QED
            BY Zenon, <2>2, <3>5, <3>7
    <2> QED
        BY Zenon, <2>1, <2>2
<1> QED
    BY Zenon, <1>0, <1>2, <1>3 DEF SwitchedOff, Off, At

\* So a disabled producer does not resolve.
LEMMA OffIsOff ==
    ASSUME Shape, Certified, SwitchedOff
    PROVE  DisabledStaysOff
<1> SUFFICES ASSUME NEW c \in Certs, resolve_producer(c) = "ok", NEW r \in Producers(cert[c].tenant),
                    r.id = cert[c].producer, ~r.enabled
             PROVE  r.id \in missed
    BY Zenon DEF DisabledStaysOff
<1>1. cert[c] # None
    BY DEF resolve_producer
<1>2. cert[c].enabled
    BY <1>1 DEF resolve_producer
<1>3. cert[c].tenant \in Tenants
    BY Zenon, <1>1 DEF Shape, TypeOK, Mapping
<1>4. Off(r) /\ r.cert = Cmd(r.id).cert /\ Cmd(cert[c].producer).cert = c
    BY Zenon, <1>1, <1>3 DEF SwitchedOff, Certified
<1> QED
    BY Zenon, <1>2, <1>4 DEF Off

\* What a job that reports a creation has created.
Made(j) ==
    /\ Cmd(j).op \in {"provision", "register", "configure", "provide", "suppress"}
    /\ Cmd(j).op = "provision" => tenant[T(j)] # None
    /\ Cmd(j).op = "register" =>
        T(j) \in razed \/ \E r \in Producers(T(j)) : r.name = Cmd(j).name
    /\ Cmd(j).op = "configure" =>
        T(j) \in razed \/ (database[T(j)] # None /\ database[T(j)].config # None)

\* Two jobs that create the same thing.
Same(j, k) ==
    /\ j # k /\ Cmd(j).op = Cmd(k).op /\ T(j) = T(k)
    /\ Cmd(j).op = "register" => Cmd(j).name = Cmd(k).name

Created(j) == mem[j].outcome = "created"

Single ==
    /\ \A j \in Jobs : Created(j) => Made(j)
    /\ \A j, k \in Jobs : Created(j) /\ Created(k) /\ Same(j, k) =>
        T(j) \in razed \/ Cmd(j).op \in {"provide", "suppress"}
    /\ \A j \in Jobs : audit[j] # None => pc[j] = "done"
    /\ \A j \in Jobs : audit[j] = "created" => Created(j)

\* How a job comes to report a creation.
LEMMA Creates ==
    ASSUME Shape, NEW j \in Jobs, Step(j), mem'[j].outcome = "created", ~Created(j)
    PROVE  \/ Cmd(j).op = "provision" /\ tenant[T(j)] = None /\ tenant'[T(j)] # None
           \/ /\ Cmd(j).op = "register" /\ insert_if_absent(j) /\ ~Fails(j)
              /\ \A r \in Producers(T(j)) : r.name # Cmd(j).name
           \/ /\ Cmd(j).op = "configure" /\ database[T(j)] # None /\ database[T(j)].config = None
              /\ database'[T(j)] # None /\ database'[T(j)].config # None
           \/ Cmd(j).op \in {"provide", "suppress"}
<1>0. Control /\ T(j) \in Tenants
    BY Zenon, Arguments DEF Shape
<1>1. CASE provision_tenant(j)
    <2>1. insert_provisioning(j) /\ Cmd(j).op = "provision" /\ pc'[j] = "key"
        BY Zenon, <1>0, <1>1, ProvisionEffect DEF Created
    <2>2. ~Abort(j)
        BY Zenon, <1>0, <2>1, Aborts
    <2>3. ~mark_active(j) /\ ~mark_status(j) /\ ~suspend(j) /\ ~record_vault_pepper_wrapped(j)
        BY Zenon, <2>1 DEF insert_provisioning, mark_active, mark_status, suspend,
            record_vault_pepper_wrapped, At
    <2> QED
        BY Zenon, <2>1, <2>2, <2>3, TenantWrites, NoRow DEF WritesTenant
<1>2. CASE destroy_tenant(j) \/ suspend(j)
    BY Zenon, <1>0, <1>2, DestroyEffect DEF Created
<1>3. CASE register_producer(j)
    <2>1. /\ Cmd(j).op = "register" /\ insert_if_absent(j) /\ pc'[j] = "map"
          /\ \A r \in Producers(T(j)) : r.name # Cmd(j).name
        BY Zenon, <1>3, RegisterEffect DEF Created
    <2>2. ~Fails(j)
        BY Zenon, <1>0, <2>1, Aborts, Concludes DEF Fails, Goto, Conclude, Control
    <2> QED
        BY Zenon, <2>1, <2>2
<1>4. CASE disable_producer(j)
    BY Zenon, <1>4, DisableEffect DEF Created
<1>5. CASE set_tenant_config(j) \/ load_one(j) \/ upsert(j)
    <2>1. CASE Cmd(j).op = "provide"
        BY Zenon, <2>1
    <2>2. CASE Cmd(j).op # "provide"
        <3>1. /\ set_tenant_config(j) /\ Cmd(j).op = "configure"
              /\ database[T(j)] # None /\ database[T(j)].config = None
              /\ database' = [database EXCEPT ![T(j)].config = Cmd(j).value]
            BY Zenon, <1>0, <1>5, <2>2, SettingsEffect DEF Created
        <3>2. database \in [Tenants -> Database \cup {None}] /\ Cmd(j).value \in Values
            BY Zenon, <1>0, <3>1, Arguments DEF Shape, TypeOK
        <3>3. database[T(j)] \in Database
            BY Zenon, <1>0, <3>1, <3>2
        <3>4. database'[T(j)] = [database[T(j)] EXCEPT !.config = Cmd(j).value]
            BY Zenon, <1>0, <3>1, <3>2
        <3>5. database'[T(j)] \in Database /\ database'[T(j)].config = Cmd(j).value
            BY Zenon, <3>2, <3>3, <3>4 DEF Database
        <3> QED
            BY Zenon, <3>1, <3>2, <3>5, NoRow
    <2> QED
        BY Zenon, <2>1, <2>2
<1>6. CASE UsePepper(j)
    BY Zenon, <1>6, PepperEffect DEF Created
<1>7. CASE record(j) \/ Stop(j)
    BY Zenon, <1>0, <1>7, EndEffect DEF Created
<1> QED
    BY Zenon, <1>1, <1>2, <1>3, <1>4, <1>5, <1>6, <1>7 DEF Step

\* What is made is not unmade, but by a destruction.
LEMMA MadeStays ==
    ASSUME Shape, Doomed, NEW j \in Jobs, Step(j), NEW k \in Jobs, Made(k)
    PROVE  Made(k)'
<1>0. /\ razed \subseteq razed' /\ T(k) \in Tenants /\ Cmd(k)' = Cmd(k) /\ T(k)' = T(k)
    BY Zenon, Moves, Commands, Arguments, HistoryWrites DEF Shape, Others
<1>1. PICK t \in Tenants : t = T(k)
    BY Zenon, <1>0
<1>2. Cmd(k).op = "provision" => tenant'[t] # None
    BY Zenon, <1>1, TenantStays DEF Made
<1>3. Cmd(k).op = "register" => t \in razed' \/ \E q \in Producers(t)' : q.name = Cmd(k).name
    <2>1. SUFFICES ASSUME Cmd(k).op = "register", t \notin razed
                   PROVE  \E q \in Producers(t)' : q.name = Cmd(k).name
        BY Zenon, <1>0
    <2>2. PICK r \in Producers(t) : r.name = Cmd(k).name
        BY Zenon, <1>1, <2>1 DEF Made
    <2>3. PICK q \in Producers(t)' :
              q.id = r.id /\ q.name = r.name /\ q.cert = r.cert /\ q.owner = r.owner
        BY Zenon, <2>1, RowsForth
    <2> QED
        BY Zenon, <2>2, <2>3
<1>4. Cmd(k).op = "configure" =>
          t \in razed' \/ (database'[t] # None /\ database'[t].config # None)
    BY Zenon, <1>0, <1>1, DataStays DEF Made
<1> QED
    BY <1>0, <1>1, <1>2, <1>3, <1>4 DEF Made, Producers

\* A creation leaves what it creates.
LEMMA MadeNow ==
    ASSUME Shape, NEW j \in Jobs, Step(j), mem'[j].outcome = "created", ~Created(j)
    PROVE  Made(j)'
<1>0. Control /\ T(j) \in Tenants /\ Cmd(j)' = Cmd(j) /\ T(j)' = T(j)
    BY Zenon, Moves, Commands, Arguments DEF Shape, Others
<1>1. CASE Cmd(j).op = "provision"
    BY Zenon, <1>0, <1>1, Creates DEF Made
<1>2. CASE Cmd(j).op = "register"
    <2>1. PICK t \in Tenants : t = T(j)
        BY Zenon, <1>0
    <2>2. Row(j) \in Producers(t)' /\ Row(j).name = Cmd(j).name
        BY Zenon, <1>0, <1>2, <2>1, Creates, Inserted, RowFields
    <2> QED
        BY <1>0, <1>2, <2>1, <2>2 DEF Made, Producers
<1>3. CASE Cmd(j).op = "configure"
    BY Zenon, <1>0, <1>3, Creates DEF Made
<1>4. CASE Cmd(j).op \in {"provide", "suppress"}
    BY Zenon, <1>0, <1>4 DEF Made
<1> QED
    BY Zenon, <1>1, <1>2, <1>3, <1>4, Creates

\* Nothing is reported created twice.
LEMMA SingleStep ==
    ASSUME Shape, Doomed, Single, NEW j \in Jobs, Step(j)
    PROVE  Single'
<1>0. /\ Control /\ Others(j) /\ razed \subseteq razed'
      /\ \A k \in Jobs : Cmd(k)' = Cmd(k) /\ T(k)' = T(k)
    BY Zenon, Moves, Commands, HistoryWrites DEF Shape, Others
<1>1. \A k \in Jobs : Created(k)' => Created(k) \/ k = j
    BY Zenon, <1>0 DEF Created, Others
<1>2. ASSUME NEW k \in Jobs, Created(k)'
      PROVE  Made(k)'
    <2>1. CASE Created(k)
        <3>1. Made(k)
            BY Zenon, <2>1 DEF Single
        <3> QED
            BY Zenon, <3>1, MadeStays
    <2>2. CASE ~Created(k)
        BY Zenon, <1>1, <1>2, <2>2, MadeNow DEF Created
    <2> QED
        BY Zenon, <2>1, <2>2
<1>3. ASSUME NEW k \in Jobs, Created(k), Same(j, k), ~Created(j), Created(j)'
      PROVE  T(j) \in razed \/ Cmd(j).op \in {"provide", "suppress"}
    <2>1. Made(k) /\ mem'[j].outcome = "created"
        BY Zenon, <1>3 DEF Single, Created
    <2>2. Cmd(k).op = Cmd(j).op /\ T(k) = T(j) /\ (Cmd(j).op = "register" => Cmd(k).name = Cmd(j).name)
        BY Zenon, <1>3 DEF Same
    <2>3. CASE Cmd(j).op = "provision"
        BY Zenon, <1>3, <2>1, <2>2, <2>3, Creates DEF Made
    <2>4. CASE Cmd(j).op = "register"
        <3>1. \A r \in Producers(T(j)) : r.name # Cmd(j).name
            BY Zenon, <1>3, <2>1, <2>4, Creates
        <3> QED
            BY Zenon, <2>1, <2>2, <2>4, <3>1 DEF Made
    <2>5. CASE Cmd(j).op = "configure"
        BY Zenon, <1>3, <2>1, <2>2, <2>5, Creates DEF Made
    <2> QED
        BY Zenon, <1>3, <2>1, <2>3, <2>4, <2>5, Creates
<1>4. ASSUME NEW i \in Jobs, NEW k \in Jobs, Created(i)', Created(k)', Same(i, k)
      PROVE  T(i) \in razed \/ Cmd(i).op \in {"provide", "suppress"}
    <2>1. CASE Created(i) /\ Created(k)
        BY Zenon, <1>4, <2>1 DEF Single
    <2>2. CASE ~Created(i)
        <3>1. i = j /\ k # j /\ Created(k)
            BY Zenon, <1>1, <1>4, <2>2 DEF Same
        <3> QED
            BY Zenon, <1>3, <1>4, <2>2, <3>1
    <2>3. CASE ~Created(k)
        <3>1. k = j /\ i # j /\ Created(i)
            BY Zenon, <1>1, <1>4, <2>3 DEF Same
        <3>2. Same(j, i) /\ T(i) = T(j) /\ Cmd(i).op = Cmd(j).op
            BY Zenon, <1>4, <3>1 DEF Same
        <3> QED
            BY Zenon, <1>3, <1>4, <2>3, <3>1, <3>2
    <2> QED
        BY Zenon, <2>1, <2>2, <2>3
<1>5. \A i, k \in Jobs : Same(i, k)' => Same(i, k)
    BY Zenon, <1>0 DEF Same
<1>6. \A i, k \in Jobs : Created(i)' /\ Created(k)' /\ Same(i, k)' =>
          T(i)' \in razed' \/ Cmd(i)'.op \in {"provide", "suppress"}
    BY Zenon, <1>0, <1>4, <1>5
<1>7. ASSUME NEW k \in Jobs, audit'[k] # None
      PROVE  pc'[k] = "done" /\ (audit'[k] = "created" => Created(k)')
    <2>1. CASE audit'[k] = audit[k]
        <3>1. pc[k] = "done" /\ (audit[k] = "created" => Created(k))
            BY Zenon, <1>7, <2>1 DEF Single
        <3>2. k # j
            BY Zenon, <3>1, Starts
        <3> QED
            BY Zenon, <1>0, <2>1, <3>1, <3>2 DEF Others, Created
    <2>2. CASE k = j /\ record(j)
        <3>1. audit'[j] = mem[j].outcome
            BY Zenon, <1>0, <2>2 DEF record, Control
        <3>2. ~Stop(j)
            BY Zenon, <2>2 DEF record, Stop, Goto, Control, Shape
        <3>3. pc'[j] = "done" /\ mem'[j] = mem[j]
            BY Zenon, <1>0, <2>2, <3>2, EndEffect
        <3> QED
            BY Zenon, <2>2, <3>1, <3>3 DEF Created
    <2>3. CASE k = j /\ suspend(j) /\ audit'[k] # audit[k]
        BY Zenon, <1>0, <2>3 DEF suspend, Control, Goto
    <2> QED
        BY Zenon, <1>0, <2>1, <2>2, <2>3, Writers DEF Others
<1>8. \A k \in Jobs : audit'[k] = "created" => Created(k)'
    BY Zenon, <1>7, NoRow
<1> QED
    BY Zenon, <1>2, <1>6, <1>7, <1>8 DEF Single

\* So it is reported once.
LEMMA SingleOnce ==
    ASSUME Single
    PROVE  CreatedOnce
BY Zenon DEF Single, CreatedOnce, Same

-----------------------------------------------------------------------------
\* Without a clash no provision and destruction of a tenant overlap.
Apart ==
    \A j, k \in Jobs : Cmd(j).op = "provision" /\ Cmd(k).op = "destroy" /\ T(j) = T(k)
        /\ InFlight(j) /\ InFlight(k) => T(j) \in clashed

\* What a provision has got done.
Built(j) ==
    Cmd(j).op = "provision" /\ T(j) \notin clashed =>
        /\ pc[j] \in {"role", "exists", "create", "migrate", "activate"} => vault[T(j)].key
        /\ pc[j] \in {"exists", "create", "migrate", "activate"} => vault[T(j)].role
        /\ pc[j] = "activate" => Connects(T(j))
        /\ pc[j] = "audit" /\ Created(j) /\ T(j) \notin razed => vault[T(j)].key

\* And a destruction.
Gone(j) ==
    Cmd(j).op = "destroy" /\ T(j) \notin clashed =>
        /\ pc[j] \in {"deleterole", "drop", "mark"} => ~vault[T(j)].key
        /\ pc[j] = "audit" => tenant[T(j)].status # "active"

Usable(t) ==
    tenant[t] # None /\ tenant[t].status = "active" =>
        \/ t \in clashed
        \/ \E j \in Of("destroy", t) : InFlight(j) \/ pc[j] = "stopped"
        \/ Connects(t) /\ vault[t].key /\ vault[t].role

Delivered(t) ==
    \/ t \in razed
    \/ vault[t].secret = vault[t].generation /\ (tenant[t] = None <=> ~vault[t].key)
    \/ \E j \in Of("provision", t) : Created(j) /\ (InFlight(j) \/ pc[j] = "stopped")

Keyed(t) ==
    database[t] = None /\ vault[t].key =>
        \/ t \in clashed
        \/ \E j \in Of("provision", t) :
              pc[j] \in {"role", "exists", "create", "migrate", "stopped"}

Lives ==
    /\ Apart
    /\ \A j \in Jobs : Built(j) /\ Gone(j)
    /\ \A t \in Tenants : Usable(t) /\ Delivered(t) /\ Keyed(t)

\* What happens to a tenant's key, role and database.
LEMMA KeyStays ==
    ASSUME Shape, NEW j \in Jobs, Step(j), NEW t \in Tenants
    PROVE  /\ vault[t].key => vault'[t].key \/ (DeleteKey(j) /\ t = T(j))
           /\ vault[t].role => vault'[t].role \/ ((DeleteKey(j) \/ DeleteRole(j)) /\ t = T(j))
           /\ vault'[t].key => vault[t].key \/ (CreateKey(j) /\ t = T(j))
<1>1. CASE vault'[t] = vault[t]
    BY Zenon, <1>1
<1>2. CASE t = T(j) /\ vault'[t] # vault[t]
    BY Zenon, <1>2, VaultWrites
<1> QED
    BY Zenon, <1>1, <1>2, VaultWrites

\* The same of its database.
LEMMA DatabaseStays ==
    ASSUME Shape, NEW j \in Jobs, Step(j), NEW t \in Tenants
    PROVE  /\ database[t] # None => database'[t] # None \/ (DropDatabase(j) /\ t = T(j))
           /\ database[t] # None /\ database[t].migrated =>
                 \/ database'[t] # None /\ database'[t].migrated
                 \/ DropDatabase(j) /\ t = T(j)
<1>1. CASE database'[t] = database[t]
    BY Zenon, <1>1
<1>2. CASE t = T(j) /\ database'[t] # database[t]
    BY Zenon, <1>2, DatabaseWrites, NoRow DEF SameMigrated
<1> QED
    BY Zenon, <1>1, <1>2, DatabaseWrites

\* A tenant becomes active in one place.
LEMMA Activates ==
    ASSUME Shape, NEW j \in Jobs, Step(j), NEW t \in Tenants,
           tenant'[t] # None, tenant'[t].status = "active"
    PROVE  \/ tenant[t] # None /\ tenant[t].status = "active"
           \/ mark_active(j) /\ t = T(j)
<1>1. CASE tenant'[t] = tenant[t]
    BY Zenon, <1>1
<1>2. CASE t = T(j) /\ tenant'[t] # tenant[t]
    BY Zenon, <1>2, TenantWrites, NoRow
<1> QED
    BY Zenon, <1>1, <1>2, TenantWrites

\* A provision and a destruction that overlap are noticed by the later one.
LEMMA ApartStep ==
    ASSUME Shape, Apart, NEW j \in Jobs, Step(j)
    PROVE  Apart'
<1>0. /\ Control /\ Others(j) /\ clashed \subseteq clashed'
      /\ \A k \in Jobs : Cmd(k)' = Cmd(k) /\ T(k)' = T(k)
    BY Zenon, Moves, Commands, HistoryWrites DEF Shape, Others
<1> SUFFICES ASSUME NEW i \in Jobs, NEW k \in Jobs, Cmd(i).op = "provision", Cmd(k).op = "destroy",
                    T(i) = T(k), InFlight(i)', InFlight(k)'
             PROVE  T(i) \in clashed'
    BY Zenon, <1>0 DEF Apart
<1>1. i # k
    BY Zenon
<1>2. CASE InFlight(i) /\ InFlight(k)
    BY Zenon, <1>0, <1>2 DEF Apart
<1>3. CASE ~InFlight(i)
    <2>1. i = j /\ pc[j] = "begin"
        BY Zenon, <1>0, <1>3, Starts DEF InFlight, Others
    <2>2. FindTenant(j) /\ InFlight(k)
        BY Zenon, <1>0, <1>1, <2>1, Starts DEF InFlight, Others
    <2>3. \E l \in Of("destroy", T(j)) : InFlight(l)
        BY Zenon, <2>1, <2>2 DEF Of
    <2> QED
        BY Zenon, <2>1, <2>2, <2>3 DEF FindTenant
<1>4. CASE ~InFlight(k)
    <2>1. k = j /\ pc[j] = "begin"
        BY Zenon, <1>0, <1>4, Starts DEF InFlight, Others
    <2>2. FindDoomed(j) /\ InFlight(i) /\ pc'[j] # "stopped"
        BY Zenon, <1>0, <1>1, <2>1, Starts DEF InFlight, Others
    <2>3. \E l \in Of("provision", T(j)) : InFlight(l)
        BY Zenon, <2>1, <2>2 DEF Of
    <2>4. ~Abort(j)
        BY Zenon, <1>0, <2>2, Aborts
    <2> QED
        BY Zenon, <2>1, <2>2, <2>3, <2>4 DEF FindDoomed
<1> QED
    BY Zenon, <1>2, <1>3, <1>4

\* A step of a provision.
LEMMA ProvisionMoves ==
    ASSUME Shape, NEW j \in Jobs, Step(j), Cmd(j).op = "provision"
    PROVE  \/ provision_tenant(j)
           \/ pc'[j] \in {"stopped", "use", "record"} /\ mem'[j].outcome = mem[j].outcome
           \/ record(j) /\ pc[j] = "audit" /\ pc'[j] = "done"
<1>0. Control
    BY Zenon DEF Shape
<1>1. ~register_producer(j) /\ ~disable_producer(j) /\ ~destroy_tenant(j) /\ ~suspend(j)
    BY Zenon, <1>0, RegisterEffect, DisableEffect, DestroyEffect
<1>2. ~(set_tenant_config(j) \/ load_one(j) \/ upsert(j))
    BY Zenon, <1>0, SettingsEffect
<1>3. CASE UsePepper(j)
    BY Zenon, <1>3, PepperEffect
<1>4. CASE record(j) \/ Stop(j)
    BY Zenon, <1>0, <1>4, EndEffect
<1> QED
    BY Zenon, <1>1, <1>2, <1>3, <1>4 DEF Step

\* What a provision has got done stays done until it is destroyed.
LEMMA BuiltStep ==
    ASSUME Shape, Doomed, Apart, NEW j \in Jobs, Step(j), NEW k \in Jobs, Built(k)
    PROVE  Built(k)'
<1>0. /\ Control /\ Others(j) /\ clashed \subseteq clashed' /\ razed \subseteq razed'
      /\ T(k) \in Tenants /\ Cmd(k)' = Cmd(k) /\ T(k)' = T(k)
    BY Zenon, Moves, Commands, Arguments, HistoryWrites DEF Shape, Others
<1> SUFFICES ASSUME NEW t \in Tenants, t = T(k), Cmd(k).op = "provision", t \notin clashed'
             PROVE  /\ pc'[k] \in {"role", "exists", "create", "migrate", "activate"} => vault'[t].key
                    /\ pc'[k] \in {"exists", "create", "migrate", "activate"} => vault'[t].role
                    /\ pc'[k] = "activate" => database'[t] # None /\ database'[t].migrated
                    /\ pc'[k] = "audit" /\ mem'[k].outcome = "created" /\ t \notin razed' =>
                          vault'[t].key
    BY Zenon, <1>0 DEF Built, Created, Connects
<1>1. t \notin clashed
    BY Zenon, <1>0
<1>2. /\ pc[k] \in {"role", "exists", "create", "migrate", "activate"} => vault[t].key
      /\ pc[k] \in {"exists", "create", "migrate", "activate"} => vault[t].role
      /\ pc[k] = "activate" => database[t] # None /\ database[t].migrated
      /\ pc[k] = "audit" /\ mem[k].outcome = "created" /\ t \notin razed => vault[t].key
    BY Zenon, <1>1 DEF Built, Created, Connects
<1>3. CASE k # j
    <2>1. pc'[k] = pc[k] /\ mem'[k] = mem[k]
        BY Zenon, <1>0, <1>3 DEF Others
    <2>2. InFlight(k) => ~((DeleteKey(j) \/ DeleteRole(j) \/ DropDatabase(j)) /\ t = T(j))
        BY Zenon, <1>1 DEF Apart, DeleteKey, DeleteRole, DropDatabase, At, InFlight
    <2>3. InFlight(k) =>
              /\ vault[t].key => vault'[t].key
              /\ vault[t].role => vault'[t].role
              /\ database[t] # None /\ database[t].migrated => database'[t] # None /\ database'[t].migrated
        BY Zenon, <2>2, KeyStays, DatabaseStays
    <2> QED
        BY Zenon, <1>0, <1>2, <2>1, <2>3 DEF InFlight
<1>4. CASE k = j /\ ~provision_tenant(j)
    <2>1. pc'[j] \in {"stopped", "use", "record", "done"}
        BY Zenon, <1>4, ProvisionMoves
    <2> QED
        BY Zenon, <1>4, <2>1
<1>5. CASE k = j /\ CreateKey(j)
    <2>1. pc'[j] = "role"
        BY Zenon, <1>0, <1>5 DEF CreateKey, Goto, Control
    <2>2. ~CreateRole(j) /\ ~DeleteKey(j) /\ ~DeleteRole(j) /\ ~record(j) /\ WritesVault(j)
        BY Zenon, <1>5 DEF CreateKey, CreateRole, DeleteKey, DeleteRole, record, WritesVault, At
    <2>3. vault'[t].key
        BY Zenon, <1>5, <2>2, VaultWrites
    <2> QED
        BY Zenon, <1>5, <2>1, <2>3
<1>6. CASE k = j /\ CreateRole(j)
    <2>1. pc[j] = "role" /\ pc'[j] = "exists"
        BY Zenon, <1>0, <1>6 DEF CreateRole, Goto, Control, At
    <2>2. ~CreateKey(j) /\ ~DeleteKey(j) /\ ~DeleteRole(j) /\ ~record(j) /\ WritesVault(j)
        BY Zenon, <1>6 DEF CreateKey, CreateRole, DeleteKey, DeleteRole, record, WritesVault, At
    <2>3. vault'[t].role /\ vault'[t].key = vault[t].key
        BY Zenon, <1>6, <2>2, VaultWrites
    <2> QED
        BY Zenon, <1>2, <1>6, <2>1, <2>3
<1>7. CASE k = j /\ provision_tenant(j) /\ ~CreateKey(j) /\ ~CreateRole(j)
    <2>1. vault' = vault
        BY Zenon, <1>7 DEF provision_tenant, FindTenant, insert_provisioning, DatabaseExists,
            CreateDatabase, Migrate, mark_active
    <2>2. \/ pc'[j] \in {"insert", "key", "stopped"}
          \/ pc'[j] = "audit" /\ mem'[j].outcome = "rejected"
          \/ pc[j] \in {"exists", "create"} /\ pc'[j] \in {"create", "migrate"}
          \/ Migrate(j) /\ pc[j] = "migrate" /\ pc'[j] = "activate"
          \/ pc[j] = "activate" /\ pc'[j] = "audit"
        BY Zenon, <1>0, <1>7, ProvisionEffect
    <2>3. ASSUME Migrate(j), pc'[j] = "activate"
          PROVE  database'[t] # None /\ database'[t].migrated
        <3>1. ~Fails(j) /\ WritesDatabase(j)
            BY Zenon, <1>0, <2>3, Aborts, Concludes DEF Fails, Goto, Conclude, Control, WritesDatabase
        <3>2. /\ ~CreateDatabase(j) /\ ~DropDatabase(j) /\ ~insert_if_absent(j) /\ ~set_enabled(j)
              /\ ~set_tenant_config(j) /\ ~upsert(j) /\ ~Suppress(j)
            BY Zenon, <2>3 DEF insert_if_absent, CreateDatabase, DropDatabase, Migrate,
                set_enabled, set_tenant_config, upsert, Suppress, At
        <3> QED
            BY Zenon, <1>7, <3>1, <3>2, DatabaseWrites, NoRow
    <2> QED
        BY Zenon, <1>2, <1>7, <2>1, <2>2, <2>3
<1> QED
    BY Zenon, <1>3, <1>4, <1>5, <1>6, <1>7

\* A step of a destruction.
LEMMA DestroyMoves ==
    ASSUME Shape, NEW j \in Jobs, Step(j), Cmd(j).op = "destroy"
    PROVE  \/ destroy_tenant(j)
           \/ pc'[j] \in {"stopped", "use", "record"}
           \/ record(j) /\ pc[j] = "audit" /\ pc'[j] = "done"
<1>0. Control
    BY Zenon DEF Shape
<1>1. ~register_producer(j) /\ ~disable_producer(j) /\ ~provision_tenant(j)
    BY Zenon, <1>0, RegisterEffect, DisableEffect, ProvisionEffect
<1>2. ~(set_tenant_config(j) \/ load_one(j) \/ upsert(j)) /\ ~suspend(j)
    BY Zenon, <1>0, SettingsEffect DEF suspend, At
<1>3. CASE UsePepper(j)
    BY Zenon, <1>3, PepperEffect
<1>4. CASE record(j) \/ Stop(j)
    BY Zenon, <1>0, <1>4, EndEffect
<1> QED
    BY Zenon, <1>1, <1>2, <1>3, <1>4 DEF Step

\* What a destruction has undone stays undone while it runs.
LEMMA GoneStep ==
    ASSUME Shape, Apart, NEW j \in Jobs, Step(j), NEW k \in Jobs, Gone(k)
    PROVE  Gone(k)'
<1>0. /\ Control /\ Others(j) /\ clashed \subseteq clashed'
      /\ T(k) \in Tenants /\ Cmd(k)' = Cmd(k) /\ T(k)' = T(k)
    BY Zenon, Moves, Commands, Arguments, HistoryWrites DEF Shape, Others
<1> SUFFICES ASSUME NEW t \in Tenants, t = T(k), Cmd(k).op = "destroy", t \notin clashed'
             PROVE  /\ pc'[k] \in {"deleterole", "drop", "mark"} => ~vault'[t].key
                    /\ pc'[k] = "audit" => tenant'[t].status # "active"
    BY Zenon, <1>0 DEF Gone
<1>1. t \notin clashed
    BY Zenon, <1>0
<1>2. /\ pc[k] \in {"deleterole", "drop", "mark"} => ~vault[t].key
      /\ pc[k] = "audit" => tenant[t].status # "active"
    BY Zenon, <1>1 DEF Gone
<1>3. CASE k # j
    <2>1. pc'[k] = pc[k]
        BY Zenon, <1>0, <1>3 DEF Others
    <2>2. InFlight(k) => ~((CreateKey(j) \/ mark_active(j) \/ insert_provisioning(j)) /\ t = T(j))
        BY Zenon, <1>1 DEF Apart, CreateKey, mark_active, insert_provisioning, At, InFlight
    <2>3. InFlight(k) /\ ~vault[t].key => ~vault'[t].key
        BY Zenon, <2>2, KeyStays
    <2>4. InFlight(k) /\ tenant[t].status # "active" => tenant'[t].status # "active"
        BY Zenon, <2>2, TenantWrites
    <2> QED
        BY Zenon, <1>2, <2>1, <2>3, <2>4 DEF InFlight
<1>4. CASE k = j /\ ~destroy_tenant(j)
    <2>1. pc'[j] \in {"stopped", "use", "record", "done"}
        BY Zenon, <1>4, DestroyMoves
    <2> QED
        BY Zenon, <1>4, <2>1
<1>5. CASE k = j /\ DeleteKey(j)
    <2>1. pc'[j] = "deleterole"
        BY Zenon, <1>0, <1>5 DEF DeleteKey, Goto, Control
    <2>2. ~CreateKey(j) /\ ~CreateRole(j) /\ ~DeleteRole(j) /\ ~record(j) /\ WritesVault(j)
        BY Zenon, <1>5 DEF CreateKey, CreateRole, DeleteKey, DeleteRole, record, WritesVault, At
    <2>3. ~vault'[t].key
        BY Zenon, <1>5, <2>2, VaultWrites
    <2> QED
        BY Zenon, <1>5, <2>1, <2>3
<1>6. CASE k = j /\ mark_status(j)
    <2>1. pc'[j] = "audit"
        BY Zenon, <1>0, <1>6 DEF mark_status, Conclude, Goto, Control
    <2>2. /\ ~Abort(j) /\ WritesTenant(j) /\ ~insert_provisioning(j)
          /\ ~record_vault_pepper_wrapped(j)
        BY Zenon, <1>0, <1>6, <2>1, Aborts DEF mark_status, insert_provisioning,
            record_vault_pepper_wrapped, WritesTenant, At
    <2>3. tenant'[t].status # "active"
        BY Zenon, <1>6, <2>2, TenantWrites
    <2> QED
        BY Zenon, <1>6, <2>1, <2>3
<1>7. CASE k = j /\ destroy_tenant(j) /\ ~DeleteKey(j) /\ ~mark_status(j)
    <2>1. /\ pc'[j] # "audit"
          /\ pc'[j] \in {"deleterole", "drop", "mark"} => pc[j] \in {"deleterole", "drop"}
        BY Zenon, <1>0, <1>7, DestroyEffect
    <2>2. ~CreateKey(j)
        BY Zenon, <1>7 DEF CreateKey, At
    <2>3. ~vault[t].key => ~vault'[t].key
        BY Zenon, <2>2, KeyStays
    <2> QED
        BY Zenon, <1>2, <1>7, <2>1, <2>3
<1> QED
    BY Zenon, <1>3, <1>4, <1>5, <1>6, <1>7 DEF destroy_tenant

\* A tenant is usable when it becomes active and until a destruction begins.
LEMMA UsableStep ==
    ASSUME Shape, NEW j \in Jobs, Step(j), Built(j), Gone(j), NEW t \in Tenants, Usable(t)
    PROVE  Usable(t)'
<1>0. /\ Control /\ Others(j) /\ clashed \subseteq clashed'
      /\ \A k \in Jobs : Cmd(k)' = Cmd(k) /\ T(k)' = T(k)
    BY Zenon, Moves, Commands, HistoryWrites DEF Shape, Others
<1> SUFFICES ASSUME tenant'[t] # None, tenant'[t].status = "active", t \notin clashed',
                    \A k \in Jobs : Cmd(k).op = "destroy" /\ T(k) = t =>
                        pc'[k] \in {"begin", "done"}
             PROVE  database'[t] # None /\ database'[t].migrated /\ vault'[t].key /\ vault'[t].role
    BY <1>0 DEF Usable, Of, InFlight, Connects
<1>1. t \notin clashed
    BY Zenon, <1>0
<1>2. ~(Cmd(j).op = "destroy" /\ t = T(j))
    <2> SUFFICES ASSUME Cmd(j).op = "destroy", t = T(j)
                 PROVE  FALSE
        BY Zenon
    <2>1. record(j) /\ pc[j] = "audit"
        BY Zenon, Starts
    <2>2. tenant' = tenant
        BY Zenon, <2>1 DEF record
    <2> QED
        BY Zenon, <1>1, <2>1, <2>2 DEF Gone
<1>3. ~((DeleteKey(j) \/ DeleteRole(j) \/ DropDatabase(j)) /\ t = T(j))
    BY Zenon, <1>2 DEF DeleteKey, DeleteRole, DropDatabase, At
<1>4. database[t] # None /\ database[t].migrated /\ vault[t].key /\ vault[t].role
    <2>1. CASE mark_active(j) /\ t = T(j)
        BY Zenon, <1>1, <2>1 DEF mark_active, At, Built, Connects
    <2>2. CASE tenant[t] # None /\ tenant[t].status = "active"
        <3>1. \A k \in Of("destroy", t) : pc[k] \in {"begin", "done"}
            BY Zenon, <1>0, <1>2 DEF Of, Others
        <3> QED
            BY Zenon, <1>1, <2>2, <3>1 DEF Usable, InFlight, Connects
    <2> QED
        BY Zenon, <2>1, <2>2, Activates
<1> QED
    BY Zenon, <1>3, <1>4, KeyStays, DatabaseStays

\* The SecretID of a tenant is delivered, or its provision is not over.
LEMMA DeliveredStep ==
    ASSUME Shape, Doomed, Single, NEW j \in Jobs, Step(j), Built(j), NEW t \in Tenants, Delivered(t)
    PROVE  Delivered(t)'
<1>0. /\ Control /\ Others(j) /\ razed \subseteq razed' /\ clashed \subseteq razed /\ Held(j)
      /\ \A k \in Jobs : Cmd(k)' = Cmd(k) /\ T(k)' = T(k)
    BY Zenon, Moves, Commands, HistoryWrites DEF Shape, Others, Doomed
<1> SUFFICES ASSUME t \notin razed',
                    \A k \in Jobs : Cmd(k).op = "provision" /\ T(k) = t /\ mem'[k].outcome = "created" =>
                        pc'[k] \in {"begin", "done"}
             PROVE  /\ vault'[t].secret = vault'[t].generation
                    /\ tenant'[t] = None <=> ~vault'[t].key
    BY <1>0 DEF Delivered, Of, InFlight, Created
<1>1. t \notin razed /\ t \notin clashed
    BY Zenon, <1>0
<1>2. ~((DeleteKey(j) \/ DeleteRole(j)) /\ t = T(j))
    BY Zenon, <1>1 DEF DeleteKey, DeleteRole, At, Doomed, InFlight
<1>3. CASE vault[t].secret = vault[t].generation /\ (tenant[t] = None <=> ~vault[t].key)
    <2>1. CreateKey(j) /\ t = T(j) => vault[t].key
        BY Zenon, <1>0, <1>3 DEF CreateKey, At, Held, Working
    <2>2. vault'[t].key = vault[t].key /\ vault'[t].secret = vault'[t].generation
        <3>1. CASE vault'[t] = vault[t]
            BY Zenon, <1>3, <3>1
        <3>2. CASE t = T(j) /\ vault'[t] # vault[t]
            BY Zenon, <1>2, <1>3, <2>1, <3>2, VaultWrites
        <3> QED
            BY Zenon, <3>1, <3>2, VaultWrites
    <2>3. tenant'[t] = None <=> tenant[t] = None
        <3>1. CASE insert_provisioning(j) /\ t = T(j) /\ tenant'[t] # tenant[t]
            <4>1. Cmd(j).op = "provision" /\ provision_tenant(j) /\ pc[j] = "insert"
                BY Zenon, <3>1 DEF insert_provisioning, provision_tenant, At
            <4>2. ~Abort(j)
                BY Zenon, <3>1 DEF insert_provisioning, Abort, Goto, Control, Shape
            <4>3. pc'[j] # "stopped"
                BY Zenon, <1>0, <3>1, <4>2 DEF insert_provisioning, Goto, Control
            <4> QED
                BY Zenon, <1>0, <3>1, <4>1, <4>3, ProvisionEffect
        <3>2. CASE ~insert_provisioning(j) \/ t # T(j) \/ tenant'[t] = tenant[t]
            BY Zenon, <3>2, TenantWrites, NoRow
        <3> QED
            BY Zenon, <3>1, <3>2
    <2> QED
        BY Zenon, <1>3, <2>2, <2>3
<1>4. ASSUME NEW k \in Jobs, Cmd(k).op = "provision", T(k) = t, Created(k),
             InFlight(k) \/ pc[k] = "stopped"
      PROVE  /\ vault'[t].secret = vault'[t].generation
             /\ tenant'[t] = None <=> ~vault'[t].key
    <2>1. k = j
        BY Zenon, <1>0, <1>4 DEF Others, InFlight, Created
    <2>2. InFlight(j)
        BY Zenon, <1>4, <2>1, Starts
    <2>3. record(j) /\ pc[j] = "audit"
        <3>1. CASE provision_tenant(j)
            <4>1. mem'[j].outcome = "created"
                BY Zenon, <1>0, <1>4, <2>1, <2>2, <3>1, ProvisionEffect DEF InFlight, Created
            <4>2. pc'[j] \notin {"begin", "done"}
                BY Zenon, <1>0, <3>1, ProvisionEffect
            <4> QED
                BY Zenon, <1>4, <2>1, <4>1, <4>2
        <3>2. CASE pc'[j] \in {"stopped", "use", "record"} /\ mem'[j].outcome = mem[j].outcome
            BY Zenon, <1>4, <2>1, <3>2 DEF Created
        <3> QED
            BY Zenon, <1>4, <2>1, <3>1, <3>2, ProvisionMoves
    <2>4. vault[t].key /\ tenant[t] # None
        BY Zenon, <1>1, <1>4, <2>1, <2>3 DEF Built, Single, Made
    <2>5. tenant' = tenant
        BY Zenon, <2>3 DEF record
    <2>6. ~CreateKey(j) /\ ~CreateRole(j) /\ ~DeleteKey(j) /\ ~DeleteRole(j) /\ WritesVault(j)
        BY Zenon, <1>4, <2>1, <2>3 DEF CreateKey, CreateRole, DeleteKey, DeleteRole, WritesVault, At, Created
    <2>7. vault'[t].secret = vault'[t].generation /\ vault'[t].key = vault[t].key
        BY Zenon, <1>4, <2>1, <2>6, VaultWrites
    <2> QED
        BY Zenon, <2>4, <2>5, <2>7
<1> QED
    BY Zenon, <1>1, <1>3, <1>4 DEF Delivered, Of

\* A key without a database is a provision's.
LEMMA KeyedStep ==
    ASSUME Shape, NEW j \in Jobs, Step(j), Gone(j), NEW t \in Tenants, Keyed(t)
    PROVE  Keyed(t)'
<1>0. /\ Control /\ Others(j) /\ clashed \subseteq clashed'
      /\ \A k \in Jobs : Cmd(k)' = Cmd(k) /\ T(k)' = T(k)
    BY Zenon, Moves, Commands, HistoryWrites DEF Shape, Others
<1> SUFFICES ASSUME database'[t] = None, vault'[t].key, t \notin clashed'
             PROVE  \E k \in Jobs : /\ Cmd(k).op = "provision" /\ T(k) = t
                                    /\ pc'[k] \in {"role", "exists", "create", "migrate", "stopped"}
    BY <1>0 DEF Keyed, Of
<1>1. t \notin clashed
    BY Zenon, <1>0
<1>2. CASE CreateKey(j) /\ t = T(j)
    <2>1. pc'[j] = "role" /\ Cmd(j).op = "provision"
        BY Zenon, <1>0, <1>2 DEF CreateKey, Goto, Control, At
    <2> QED
        BY Zenon, <1>2, <2>1
<1>3. CASE ~(CreateKey(j) /\ t = T(j))
    <2>1. vault[t].key
        BY Zenon, <1>3, KeyStays
    <2>2. ~(DropDatabase(j) /\ t = T(j))
        BY Zenon, <1>1, <2>1 DEF DropDatabase, At, Gone
    <2>3. database[t] = None
        BY Zenon, <2>2, DatabaseStays
    <2>4. PICK k \in Jobs : /\ Cmd(k).op = "provision" /\ T(k) = t
                            /\ pc[k] \in {"role", "exists", "create", "migrate", "stopped"}
        BY Zenon, <1>1, <2>1, <2>3 DEF Keyed, Of
    <2>5. CASE k # j
        BY Zenon, <1>0, <2>4, <2>5 DEF Others
    <2>6. CASE k = j
        <3>1. pc[j] \in {"role", "exists", "create", "migrate"}
            BY Zenon, <2>4, <2>6, Starts
        <3>2. CASE provision_tenant(j)
            <4>1. pc'[j] \in {"exists", "create", "migrate", "stopped"}
                BY Zenon, <1>0, <2>3, <2>4, <2>6, <3>1, <3>2, ProvisionEffect
            <4> QED
                BY Zenon, <2>4, <2>6, <4>1
        <3>3. CASE ~provision_tenant(j)
            <4>1. ~UsePepper(j)
                BY Zenon, <2>4, <2>6, <3>1, PepperEffect
            <4>2. ~register_producer(j) /\ ~disable_producer(j) /\ ~destroy_tenant(j) /\ ~suspend(j)
                BY Zenon, <1>0, <2>4, <2>6, RegisterEffect, DisableEffect, DestroyEffect
            <4>3. ~(set_tenant_config(j) \/ load_one(j) \/ upsert(j))
                BY Zenon, <1>0, <2>4, <2>6, SettingsEffect
            <4>4. pc'[j] = "stopped"
                BY Zenon, <1>0, <3>1, <3>3, <4>1, <4>2, <4>3, EndEffect DEF Step
            <4> QED
                BY Zenon, <2>4, <2>6, <4>4
        <3> QED
            BY Zenon, <3>2, <3>3
    <2> QED
        BY Zenon, <2>5, <2>6
<1> QED
    BY Zenon, <1>2, <1>3

\* All together.
LEMMA LivesStep ==
    ASSUME Shape, Doomed, Single, Lives, NEW j \in Jobs, Step(j)
    PROVE  Lives'
<1>1. Apart /\ \A k \in Jobs : Built(k) /\ Gone(k)
    BY Zenon DEF Lives
<1>2. Apart'
    BY Zenon, <1>1, ApartStep
<1>3. \A k \in Jobs : Built(k)' /\ Gone(k)'
    BY Zenon, <1>1, BuiltStep, GoneStep
<1>4. \A t \in Tenants : Usable(t)' /\ Delivered(t)' /\ Keyed(t)'
    BY Zenon, <1>1, UsableStep, DeliveredStep, KeyedStep DEF Lives
<1> QED
    BY Zenon, <1>2, <1>3, <1>4 DEF Lives

\* An active tenant is usable.
LEMMA LivesUsable ==
    ASSUME Lives
    PROVE  ActiveIsUsable
BY Zenon DEF Lives, ActiveIsUsable, Usable, Delivered, Of

\* The key is gone before the database.
LEMMA LivesKeyed ==
    ASSUME Lives
    PROVE  KeyDiesFirst
BY Zenon DEF Lives, KeyDiesFirst, Keyed, Of, InFlight

-----------------------------------------------------------------------------
\* What a job knows of the stored pepper.
Knows(j) ==
    T(j) \in overwritten \cup razed \/
        /\ pc[j] = "pepper" => mem[j].pepper \in {None, tenant[T(j)].pepper}
        /\ pc[j] = "use" => mem[j].pepper = tenant[T(j)].pepper

Peppers == PeppersAgree /\ \A j \in Jobs : Knows(j)

\* How the stored pepper of a tenant changes.
LEMMA PepperWrites ==
    ASSUME Shape, NEW j \in Jobs, Step(j), NEW t \in Tenants
    PROVE  \/ tenant[t] = None
           \/ tenant'[t].pepper = tenant[t].pepper
           \/ /\ record_vault_pepper_wrapped(j) /\ t = T(j) /\ tenant'[t].pepper = mem[j].pepper
              /\ tenant[t].pepper = None \/ t \in overwritten'
<1>1. CASE tenant'[t] = tenant[t]
    BY Zenon, <1>1
<1>2. CASE t = T(j) /\ tenant'[t] # tenant[t] /\ record_vault_pepper_wrapped(j)
    <2>1. tenant[t].pepper = None \/ t \in overwritten'
        BY Zenon, <1>2 DEF record_vault_pepper_wrapped
    <2> QED
        BY Zenon, <1>2, <2>1, TenantWrites
<1>3. CASE t = T(j) /\ tenant'[t] # tenant[t] /\ ~record_vault_pepper_wrapped(j)
    BY Zenon, <1>3, TenantWrites
<1> QED
    BY Zenon, <1>1, <1>2, <1>3, TenantWrites

\* Where suppression entries come from.
LEMMA SuppressedBack ==
    ASSUME Shape, NEW j \in Jobs, Step(j), NEW t \in Tenants, database'[t] # None,
           NEW x \in database'[t].suppressed
    PROVE  \/ database[t] # None /\ x \in database[t].suppressed
           \/ Suppress(j) /\ t = T(j) /\ x = mem[j].pepper
<1>1. CASE database'[t] = database[t]
    BY Zenon, <1>1
<1>2. CASE t = T(j) /\ database'[t] # database[t]
    <2>1. CASE database[t] = None
        BY Zenon, <1>2, <2>1, DatabaseWrites, NoRow
    <2>2. CASE database[t] # None
        <3>1. \/ database'[t].suppressed = database[t].suppressed
              \/ /\ Suppress(j)
                 /\ database'[t].suppressed = database[t].suppressed \cup {mem[j].pepper}
            BY Zenon, <1>2, <2>2, DatabaseWrites DEF SameSuppressed
        <3> QED
            BY Zenon, <1>2, <2>2, <3>1
    <2> QED
        BY Zenon, <2>1, <2>2
<1> QED
    BY Zenon, <1>1, <1>2, DatabaseWrites

\* What a job knows stays true, unless a pepper is stored over another.
LEMMA KnowsStep ==
    ASSUME Shape, NEW j \in Jobs, Step(j), NEW k \in Jobs, Knows(k)
    PROVE  Knows(k)'
<1>0. /\ Control /\ Others(j) /\ razed \subseteq razed' /\ overwritten \subseteq overwritten'
      /\ T(k) \in Tenants /\ Cmd(k)' = Cmd(k) /\ T(k)' = T(k) /\ Held(k)
    BY Zenon, Moves, Commands, Arguments, HistoryWrites DEF Shape, Others
<1> SUFFICES ASSUME NEW t \in Tenants, t = T(k), t \notin overwritten', t \notin razed'
             PROVE  /\ pc'[k] = "pepper" => mem'[k].pepper \in {None, tenant'[t].pepper}
                    /\ pc'[k] = "use" => mem'[k].pepper = tenant'[t].pepper
    BY Zenon, <1>0 DEF Knows
<1>1. /\ pc[k] = "pepper" => mem[k].pepper \in {None, tenant[t].pepper} /\ tenant[t] # None
      /\ pc[k] = "use" => /\ mem[k].pepper = tenant[t].pepper /\ tenant[t] # None
                          /\ mem[k].pepper # None
    BY Zenon, <1>0, NoRow DEF Knows, Held, Working
<1>2. CASE k # j
    <2>1. pc'[k] = pc[k] /\ mem'[k] = mem[k]
        BY Zenon, <1>0, <1>2 DEF Others
    <2> QED
        BY Zenon, <1>1, <2>1, PepperWrites
<1>3. CASE k = j /\ UsePepper(j)
    <2>1. CASE pc'[j] = "pepper"
        <3>1. (get_or_open(j) \/ add_suppression(j)) /\ mem'[j].pepper = tenant[t].pepper
            BY Zenon, <1>3, <2>1, PepperEffect
        <3>2. tenant' = tenant
            BY Zenon, <3>1 DEF get_or_open, add_suppression
        <3> QED
            BY Zenon, <1>3, <2>1, <3>1, <3>2
    <2>2. CASE pc'[j] = "use" /\ ensure_tenant_pepper(j)
        <3>1. pc[j] = "pepper" /\ mem[j].pepper # None /\ mem'[j] = mem[j]
            <4>1. ~record_vault_pepper_wrapped(j)
                BY Zenon, <2>2 DEF ensure_tenant_pepper, record_vault_pepper_wrapped
            <4> QED
                BY Zenon, <1>3, <2>2, <4>1, PepperEffect
        <3>2. tenant' = tenant
            BY Zenon, <2>2 DEF ensure_tenant_pepper
        <3> QED
            BY Zenon, <1>1, <1>3, <2>2, <3>1, <3>2
    <2>3. CASE pc'[j] = "use" /\ ~ensure_tenant_pepper(j)
        <3>1. record_vault_pepper_wrapped(j) /\ mem'[j] = mem[j]
            BY Zenon, <1>3, <2>3, PepperEffect
        <3>2. /\ ~insert_provisioning(j) /\ ~mark_active(j) /\ ~mark_status(j) /\ ~suspend(j)
              /\ ~Abort(j) /\ WritesTenant(j)
            BY Zenon, <1>0, <2>3, <3>1, Aborts DEF insert_provisioning, mark_active, mark_status,
                suspend, record_vault_pepper_wrapped, WritesTenant, At
        <3>3. tenant'[t].pepper = mem[j].pepper
            BY Zenon, <1>3, <3>2, TenantWrites
        <3> QED
            BY Zenon, <1>3, <2>3, <3>1, <3>3
    <2> QED
        BY Zenon, <1>3, <2>1, <2>2, <2>3
<1>4. CASE k = j /\ ~UsePepper(j)
    <2>1. provision_tenant(j) \/ destroy_tenant(j) \/ suspend(j) => pc'[j] \notin {"pepper", "use"}
        BY Zenon, <1>0, ProvisionEffect, DestroyEffect
    <2>2. register_producer(j) \/ disable_producer(j) => pc'[j] \notin {"pepper", "use"}
        BY Zenon, RegisterEffect, DisableEffect
    <2>3. set_tenant_config(j) \/ load_one(j) \/ upsert(j) => pc'[j] \notin {"pepper", "use"}
        BY Zenon, <1>0, SettingsEffect
    <2>4. record(j) \/ Stop(j) => pc'[j] \notin {"pepper", "use"}
        BY Zenon, <1>0, EndEffect
    <2> QED
        BY Zenon, <1>4, <2>1, <2>2, <2>3, <2>4 DEF Step
<1> QED
    BY Zenon, <1>2, <1>3, <1>4

\* What is hashed is hashed with the stored pepper.
LEMMA PeppersStep ==
    ASSUME Shape, Doomed, Peppers, NEW j \in Jobs, Step(j)
    PROVE  Peppers'
<1>0. /\ razed \subseteq razed' /\ overwritten \subseteq overwritten' /\ Held(j)
    BY Zenon, HistoryWrites DEF Shape
<1>1. \A k \in Jobs : Knows(k)'
    BY Zenon, KnowsStep DEF Peppers
<1>2. ASSUME NEW t \in Tenants, t \notin overwritten', t \notin razed'
      PROVE  /\ \A p \in Processes : context'[p][t] # None => context'[p][t] = tenant'[t].pepper
             /\ database'[t] # None => database'[t].suppressed \subseteq {tenant'[t].pepper}
    <2>1. /\ \A p \in Processes : context[p][t] # None => context[p][t] = tenant[t].pepper
          /\ database[t] # None => database[t].suppressed \subseteq {tenant[t].pepper}
        BY Zenon, <1>0, <1>2 DEF Peppers, PeppersAgree
    <2>2. CacheContext(j) \/ Suppress(j) =>
              tenant' = tenant /\ (t = T(j) => mem[j].pepper = tenant[t].pepper)
        BY Zenon, <1>0, <1>2 DEF CacheContext, Suppress, At, Peppers, Knows
    <2>3. \A p \in Processes : context[p][t] # None => tenant'[t].pepper = tenant[t].pepper
        BY Zenon, <1>2, <2>1, PepperWrites DEF Doomed
    <2>4. database[t] # None => \A x \in database[t].suppressed : x = tenant'[t].pepper
        <3> SUFFICES ASSUME database[t] # None, NEW x \in database[t].suppressed
                     PROVE  x = tenant'[t].pepper
            BY Zenon
        <3>1. x # None
            <4>1. database[t] \in Database
                BY Zenon, ProducersTyped
            <4>2. x \in Pepper
                BY Zenon, <4>1 DEF Database
            <4> QED
                BY Zenon, <4>2, NoRow
        <3>2. x = tenant[t].pepper /\ tenant[t] # None
            BY Zenon, <2>1 DEF Doomed
        <3> QED
            BY Zenon, <1>2, <3>1, <3>2, PepperWrites
    <2>5. ASSUME NEW p \in Processes, context'[p][t] # None
          PROVE  context'[p][t] = tenant'[t].pepper
        BY Zenon, <2>1, <2>2, <2>3, <2>5, ContextWrites
    <2>6. ASSUME database'[t] # None, NEW x \in database'[t].suppressed
          PROVE  x = tenant'[t].pepper
        BY Zenon, <2>2, <2>4, <2>6, SuppressedBack
    <2> QED
        BY Zenon, <2>5, <2>6
<1> QED
    BY Zenon, <1>1, <1>2 DEF Peppers, PeppersAgree

-----------------------------------------------------------------------------
(* The inductive invariant, and what follows from it.                      *)

Rows == Doomed /\ Certified /\ Homes /\ CertsPointHome /\ SwitchedOff
Reports == Registered /\ RegisteredIsMapped /\ Single
Inv == Shape /\ Rows /\ Reports /\ Lives /\ Peppers

\* The initial state.
LEMMA InitInv ==
    ASSUME Init
    PROVE  Inv
<1>1. Shape
    BY Zenon, InitShape
<1>2. /\ \A j \in Jobs : /\ pc[j] = "begin" /\ mem[j].outcome = None /\ mem[j].row = None
                         /\ audit[j] = None
      /\ \A c \in Certs : cert[c] = None
      /\ \A p \in Processes, t \in Tenants : context[p][t] = None
      /\ missed = {} /\ razed = {} /\ clashed = {} /\ overwritten = {}
    BY Zenon DEF Init, Blank
<1>3. \A t \in Tenants : Producers(t) = {}
    BY Zenon, InitStores DEF Producers
<1>4. Rows
    <2>1. Doomed
        <3>1. \A t \in Tenants : tenant[t] = None => database[t] = None
            BY Zenon, InitStores
        <3> QED
            BY Zenon, <1>2, <3>1 DEF Doomed, InFlight
    <2>2. Certified /\ Homes /\ CertsPointHome /\ SwitchedOff
        BY Zenon, <1>2, <1>3 DEF Certified, Homes, CertsPointHome, SwitchedOff, At
    <2> QED
        BY Zenon, <2>1, <2>2 DEF Rows
<1>5. Reports
    BY Zenon, <1>2, NoRow DEF Reports, Registered, RegisteredIsMapped, Single, Created, At
<1>6. Lives
    <2>1. Apart /\ \A j \in Jobs : Built(j) /\ Gone(j)
        BY Zenon, <1>2 DEF Apart, Built, Gone, InFlight
    <2>2. \A t \in Tenants : Usable(t) /\ Delivered(t) /\ Keyed(t)
        BY Zenon, InitStores DEF Usable, Delivered, Keyed, Connects
    <2> QED
        BY Zenon, <2>1, <2>2 DEF Lives
<1>7. Peppers
    <2>1. \A t \in Tenants : database[t] # None => database[t].suppressed = {}
        BY Zenon, InitStores
    <2> QED
        BY Zenon, <1>2, <2>1 DEF Peppers, PeppersAgree, Knows
<1> QED
    BY Zenon, <1>1, <1>4, <1>5, <1>6, <1>7 DEF Inv

\* A job's step.
LEMMA JobInv ==
    ASSUME Inv, NEW j \in Jobs, Step(j)
    PROVE  Rows' /\ Reports' /\ Lives' /\ Peppers'
<1>1. Shape /\ Doomed /\ Certified /\ Homes /\ CertsPointHome /\ SwitchedOff
    BY Zenon DEF Inv, Rows
<1>2. Registered /\ RegisteredIsMapped /\ Single /\ Lives /\ Peppers
    BY Zenon DEF Inv, Reports
<1>3. Doomed' /\ Certified' /\ Homes' /\ CertsPointHome' /\ SwitchedOff'
    BY Zenon, <1>1, DoomedStep, CertifiedStep, HomesStep, PointHomeStep, SwitchedOffStep
<1>4. Registered' /\ RegisteredIsMapped' /\ Single'
    BY Zenon, <1>1, <1>2, RegisteredStep, ReportedStep, SingleStep
<1>5. Lives' /\ Peppers'
    BY Zenon, <1>1, <1>2, LivesStep, PeppersStep
<1> QED
    BY Zenon, <1>3, <1>4, <1>5 DEF Rows, Reports

\* A step that is no job's.
LEMMA IdleInv ==
    ASSUME Inv, Idle
    PROVE  Rows' /\ Reports' /\ Lives' /\ Peppers'
<1>0. UNCHANGED <<scenario, pc, mem, tenant, cert, audit, database, vault,
                  missed, razed, clashed, overwritten>>
    BY Zenon DEF Idle
<1>1. \A p \in Processes, t \in Tenants : context'[p][t] \in {context[p][t], None}
    BY Zenon DEF Idle
<1>2. Doomed'
    BY Zenon, <1>0, <1>1 DEF Inv, Rows, Doomed, InFlight, T, Cmd
<1>3. Certified' /\ Homes' /\ CertsPointHome' /\ SwitchedOff'
    <2>1. Certified'
        BY Zenon, <1>0 DEF Inv, Rows, Certified, Producers, Cmd
    <2>2. Homes'
        BY Zenon, <1>0 DEF Inv, Rows, Homes, At, Asked, Producers, T, Cmd
    <2>3. CertsPointHome'
        BY Zenon, <1>0 DEF Inv, Rows, CertsPointHome, Producers
    <2>4. SwitchedOff'
        BY Zenon, <1>0 DEF Inv, Rows, SwitchedOff, Off, At, Producers, Cmd
    <2> QED
        BY Zenon, <2>1, <2>2, <2>3, <2>4
<1>4. Reports'
    BY Zenon, <1>0 DEF Inv, Reports, Registered, RegisteredIsMapped, Single, Created, Made, Same,
        At, Asked, Producers, T, Cmd
<1>5. Lives'
    BY Zenon, <1>0 DEF Inv, Lives, Apart, Built, Gone, Usable, Delivered, Keyed, Created, InFlight,
        Of, Connects, T, Cmd
<1>6. PeppersAgree'
    BY Zenon, <1>0, <1>1 DEF Inv, Peppers, PeppersAgree
<1>7. \A k \in Jobs : Knows(k)'
    BY Zenon, <1>0 DEF Inv, Peppers, Knows, T, Cmd
<1> QED
    BY Zenon, <1>2, <1>3, <1>4, <1>5, <1>6, <1>7 DEF Rows, Peppers

\* Inv is inductive.
LEMMA InvStep ==
    ASSUME Inv, [Next]_vars
    PROVE  Inv'
<1>1. Shape /\ Shape'
    BY Zenon, ShapeStep DEF Inv
<1>2. Rows' /\ Reports' /\ Lives' /\ Peppers'
    BY Zenon, <1>1, Rest, JobInv, IdleInv
<1> QED
    BY Zenon, <1>1, <1>2 DEF Inv

\* Inv holds in every reachable state.
THEOREM Invariance == Spec => []Inv
<1>1. Init => Inv
    BY InitInv
<1>2. Inv /\ [Next]_vars => Inv'
    BY InvStep
<1> QED
    BY <1>1, <1>2, PTL DEF Spec

\* Every mapping leads to a producer of the tenant it names, with that
\* certificate, until the tenant is destroyed.
THEOREM CertsPointHomeAlways == Spec => []CertsPointHome
<1>1. Inv => CertsPointHome
    BY Zenon DEF Inv, Rows
<1> QED
    BY <1>1, Invariance, PTL

\* A disabled producer does not resolve, unless it was disabled before its
\* certificate had a mapping.
THEOREM DisabledStaysOffAlways == Spec => []DisabledStaysOff
<1>1. Inv => DisabledStaysOff
    BY Zenon, OffIsOff DEF Inv, Rows
<1> QED
    BY <1>1, Invariance, PTL

\* A registration that reports success has left both of its halves in place.
THEOREM RegisteredIsMappedAlways == Spec => []RegisteredIsMapped
<1>1. Inv => RegisteredIsMapped
    BY Zenon DEF Inv, Reports
<1> QED
    BY <1>1, Invariance, PTL

\* One command reports to have created a tenant, a producer of a name, or the
\* configuration of a tenant.
THEOREM CreatedOnceAlways == Spec => []CreatedOnce
<1>1. Inv => CreatedOnce
    BY Zenon, SingleOnce DEF Inv, Reports
<1> QED
    BY <1>1, Invariance, PTL

\* An active tenant has a migrated database, a key and a role, and its SecretID
\* has been delivered, with the exceptions ActiveIsUsable names.
THEOREM ActiveIsUsableAlways == Spec => []ActiveIsUsable
<1>1. Inv => ActiveIsUsable
    BY Zenon, LivesUsable DEF Inv
<1> QED
    BY <1>1, Invariance, PTL

\* destroy_tenant leaves no key behind a database that is gone.
THEOREM KeyDiesFirstAlways == Spec => []KeyDiesFirst
<1>1. Inv => KeyDiesFirst
    BY Zenon, LivesKeyed DEF Inv
<1> QED
    BY <1>1, Invariance, PTL

\* Everything that is hashed for a tenant is hashed with the stored pepper,
\* unless one was stored over another or the tenant was destroyed.
THEOREM PeppersAgreeAlways == Spec => []PeppersAgree
<1>1. Inv => PeppersAgree
    BY Zenon DEF Inv, Peppers
<1> QED
    BY <1>1, Invariance, PTL
=============================================================================
