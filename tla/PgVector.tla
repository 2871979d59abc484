------------------------------ MODULE PgVector ------------------------------
(***************************************************************************)
(* The PostgreSQL backend (backends/pgvector.py): the role is checked once,*)
(* the whole table is read through an administrator's connection, then     *)
(* chunks are retrieved under one identity after the other.                *)
(*                                                                         *)
(* A step is a statement, or the rollback that ends a transaction with     *)
(* what is made of its rows.  The database is outside this code: others    *)
(* write the table, change privileges, and use the same server sessions    *)
(* between the transactions, as the clients of a connection pool do.       *)
(***************************************************************************)
EXTENDS FiniteSets, Integers

CONSTANTS
  Tenants,     (* tenants that rows and principals are of                  *)
  NoTenant,    (* the tenant of a principal that states none (None)        *)
  ChunkIds,    (* primary keys of the table                                *)
  Tables,      (* what the table may hold when the backend is built        *)
  Limits,      (* what the requests may ask for                            *)
  None,        (* Python's None, and a setting that is not set             *)
  MaxChanges,  (* bound on what others do                                  *)
  MaxRequests  (* bound on the different answers                           *)

Connections == {"connection", "admin"}

\* `connection` carries the caller's tenant in PRINCIPAL_SETTING, `admin` the row_security.
Settings == [connection |-> Tenants \cup {""}, admin |-> {"on", "off"}]

ASSUME NoSettingAssumption == \A c \in Connections : None \notin Settings[c]
ASSUME NoAnswerAssumption == None \notin BOOLEAN
ASSUME LimitsAssumption == Limits \subseteq Int

VARIABLES
  rows,       (* the table                                                 *)
  role,       (* the role of `connection`, see Roles                       *)
  adminRole,  (* that of `admin`, None without such a connection           *)
  forced,     (* FORCE ROW LEVEL SECURITY is set on the table              *)
  changes,    (* how often others did something                            *)
  regranted,  (* whether what the role may do has changed since the check  *)
  given,      (* by connection, the setting its other users left it with   *)
  txn,        (* by connection, the state of its transaction               *)
  session,    (* by connection, the setting outside a transaction ...      *)
  local,      (* ... and the one that ends with it, None if there is none  *)
  pc,         (* the next statement, or how it ended                       *)
  limit,      (* what a request asks for                                   *)
  request,    (* the tenant of the principal asked for                     *)
  fetched,    (* what the last statement returned                          *)
  inventory,  (* the table as chunks() read it, None before                *)
  answers     (* what the retrievals returned                              *)

othersVars == <<rows, role, adminRole, forced, changes, regranted, given>>
sessionVars == <<txn, session, local>>
adapterVars == <<pc, limit, request, fetched, inventory, answers>>
vars == <<othersVars, sessionVars, adapterVars>>

Row == [tenants: SUBSET Tenants, state: {"stated", "unknown", "other"}]
Table == UNION {[ids -> Row] : ids \in SUBSET ChunkIds}
ASSUME TablesAssumption == Tables \subseteq Table

\* A role without privileges; the owner of the table, without any either; a superuser or one
\* with BYPASSRLS; one that pg_roles does not list.
AdminRoles == {"subject", "owner", "bypasses"}
Roles == AdminRoles \cup {"untold"}

\* What `rolsuper OR rolbypassrls` is of a role, None without a row.
Bypasses(r) == IF r = "untold" THEN None ELSE r = "bypasses"

\* Whom the database applies the policy to.
Bound(r) == r = "subject" \/ (r = "owner" /\ forced)

\* A read of the table beside what the table held; a retrieval beside what the policy grants.
InventoryRead == [rows: Table, held: Table]
Answer == [tenant: Tenants \cup {NoTenant}, ids: SUBSET ChunkIds, allowed: SUBSET ChunkIds]
ASSUME NoInventoryAssumption == None \notin InventoryRead

Asking == {"retrieve", "rollback"}

TypeOK ==
  /\ rows \in Table /\ role \in Roles /\ adminRole \in AdminRoles \cup {None}
  /\ forced \in BOOLEAN /\ changes \in Nat /\ regranted \in BOOLEAN
  /\ txn \in [Connections -> {"idle", "open", "aborted"}]
  /\ DOMAIN given = Connections /\ DOMAIN session = Connections /\ DOMAIN local = Connections
  /\ \A c \in Connections :
       /\ given[c] \in Settings[c] /\ session[c] \in Settings[c]
       /\ local[c] \in Settings[c] \cup {None}
  /\ pc \in Asking \cup {"check", "judge", "inventory", "select", "convert", "ready", "done", "raised"}
  /\ limit \in Limits
  /\ request \in Tenants \cup {NoTenant}
  /\ pc = "judge" => fetched \in BOOLEAN \cup {None}
  /\ pc = "convert" => fetched \in InventoryRead
  /\ pc = "rollback" => fetched \in Answer
  /\ inventory = None \/ inventory \in InventoryRead
  /\ answers \subseteq Answer

Init ==
  /\ rows \in Tables /\ role \in Roles /\ adminRole \in AdminRoles \cup {None}
  /\ forced \in BOOLEAN /\ changes = 0 /\ regranted = FALSE
  /\ given = [connection |-> "", admin |-> "on"] /\ session = given
  /\ txn = [c \in Connections |-> "idle"] /\ local = [c \in Connections |-> None]
  /\ pc = "check" /\ limit \in Limits
  /\ request = NoTenant /\ fetched = None /\ inventory = None /\ answers = {}

----------------------------------------------------------------------------
(* The database *)

\* What a statement on c sees of its setting.
Effective(c) == IF local[c] = None THEN session[c] ELSE local[c]

\* The policy: a row without tenants is granted to nobody.
Visible(t, tenant) == {c \in DOMAIN t : tenant \in t[c].tenants}

\* An error leaves the transaction open but good for nothing; so, to its caller, does a
\* connection that is lost.
Executes(c) == txn' = [txn EXCEPT ![c] = "open"]

RollsBack(c) ==
  /\ txn' = [txn EXCEPT ![c] = "idle"]
  /\ local' = [local EXCEPT ![c] = None]
  /\ UNCHANGED session

SetLocal(c, value) ==
  /\ Executes(c)
  /\ local' = [local EXCEPT ![c] = value]
  /\ UNCHANGED session

Other ==
  /\ changes < MaxChanges
  /\ changes' = changes + 1
  /\ UNCHANGED <<txn, local, adapterVars>>

Write(t) ==
  /\ Other
  /\ rows' = t
  /\ UNCHANGED <<role, adminRole, forced, regranted, given, session>>

Regrant(r) ==
  /\ Other
  /\ role' = r
  /\ regranted' = (regranted \/ pc # "check")
  /\ UNCHANGED <<rows, adminRole, forced, given, session>>

RegrantAdmin(r) ==
  /\ Other /\ adminRole # None
  /\ adminRole' = r
  /\ UNCHANGED <<rows, role, forced, regranted, given, session>>

\* ALTER TABLE ... [NO] FORCE ROW LEVEL SECURITY
AlterTable ==
  /\ Other
  /\ forced' = ~forced
  /\ regranted' = (regranted \/ pc # "check")
  /\ UNCHANGED <<rows, role, adminRole, given, session>>

\* Another client of the pool is lent the session while no transaction is open on it.
UseSession(c, value) ==
  /\ Other /\ txn[c] = "idle"
  /\ session' = [session EXCEPT ![c] = value]
  /\ given' = [given EXCEPT ![c] = value]
  /\ UNCHANGED <<rows, role, adminRole, forced, regranted>>

\* The process is over and its connections are closed.
Disconnect(c) ==
  /\ pc \in {"done", "raised"} /\ txn[c] # "idle"
  /\ RollsBack(c)
  /\ UNCHANGED <<othersVars, adapterVars>>

Database ==
  \/ \E t \in Tables : Write(t)
  \/ \E r \in Roles : Regrant(r)
  \/ \E r \in AdminRoles : RegrantAdmin(r)
  \/ AlterTable
  \/ \E c \in Connections : Disconnect(c) \/ \E value \in Settings[c] : UseSession(c, value)

----------------------------------------------------------------------------
(* PgVectorBackend *)

At(p, q) == pc = p /\ pc' = q /\ UNCHANGED <<othersVars, limit>>

InUse == IF pc \in {"inventory", "select", "convert"} THEN "admin" ELSE "connection"

\* Whatever a statement or a rollback raises, nobody catches it.
FailOnStatement ==
  /\ pc \notin {"done", "raised"}
  /\ InUse = "admin" => adminRole # None
  /\ pc' = "raised"
  /\ txn' = [txn EXCEPT ![InUse] = "aborted"]
  /\ UNCHANGED <<othersVars, session, local, limit, request, fetched, inventory, answers>>

\* assert_subject_to_row_security: it looks at the role, and not at whose the table is.
CheckRole ==
  /\ At("check", "judge")
  /\ Executes("connection")
  /\ fetched' = Bypasses(role)
  /\ UNCHANGED <<session, local, request, inventory, answers>>

Refuse ==
  /\ At("judge", "raised")
  /\ fetched # FALSE
  /\ RollsBack("connection")
  /\ UNCHANGED <<request, fetched, inventory, answers>>

\* A wrong check that takes a role pg_roles says nothing of for a fit one.
AcceptUnlessBypassing ==
  /\ At("judge", "inventory")
  /\ fetched # TRUE
  /\ RollsBack("connection")
  /\ UNCHANGED <<request, fetched, inventory, answers>>

Accept ==
  /\ At("judge", "inventory")
  /\ fetched = FALSE
  /\ RollsBack("connection")
  /\ UNCHANGED <<request, fetched, inventory, answers>>

\* chunks
RefuseWithoutAdmin ==
  /\ At("inventory", "raised")
  /\ adminRole = None
  /\ UNCHANGED <<sessionVars, request, fetched, inventory, answers>>

\* A wrong inventory read that leaves the policy on.
LeaveRowSecurityOn ==
  /\ At("inventory", "select")
  /\ adminRole # None
  /\ Executes("admin")
  /\ UNCHANGED <<session, local, request, fetched, inventory, answers>>

RowSecurityOff ==
  /\ At("inventory", "select")
  /\ adminRole # None
  /\ SetLocal("admin", "off")
  /\ UNCHANGED <<request, fetched, inventory, answers>>

\* With row_security off a role that the policy binds gets an error (FailOnStatement), not a
\* part of the table; with it on, the rows of no tenant.  An owner it does not bind reads all.
SelectRows ==
  /\ At("select", "convert")
  /\ Bound(adminRole) => Effective("admin") = "on"
  /\ Executes("admin")
  /\ fetched' = [rows |-> IF Bound(adminRole) THEN <<>> ELSE rows, held |-> rows]
  /\ UNCHANGED <<session, local, request, inventory, answers>>

\* A state that is no EntitlementState raises once the transaction is over.
ConvertRows ==
  /\ pc = "convert"
  /\ RollsBack("admin")
  /\ IF \E c \in DOMAIN fetched.rows : fetched.rows[c].state = "other"
     THEN At("convert", "raised") /\ UNCHANGED inventory
     ELSE At("convert", "ready") /\ inventory' = fetched
  /\ UNCHANGED <<request, fetched, answers>>

\* `principal.tenant or ""`
Identity(tenant) == IF tenant = NoTenant THEN "" ELSE tenant

\* A wrong set_config, with is_local false.
IdentifyForTheSession(tenant) ==
  /\ At("ready", "retrieve")
  /\ Cardinality(answers) < MaxRequests
  /\ request' = tenant
  /\ Executes("connection")
  /\ session' = [session EXCEPT !["connection"] = Identity(tenant)]
  /\ UNCHANGED <<local, fetched, inventory, answers>>

\* A wrong set_config that hands on the tenant as it is.
IdentifyAsNone(tenant) ==
  /\ At("ready", "retrieve")
  /\ Cardinality(answers) < MaxRequests
  /\ request' = tenant
  /\ SetLocal("connection", tenant)
  /\ UNCHANGED <<fetched, inventory, answers>>

\* retrieve
Identify(tenant) ==
  /\ At("ready", "retrieve")
  /\ Cardinality(answers) < MaxRequests
  /\ request' = tenant
  /\ SetLocal("connection", Identity(tenant))
  /\ UNCHANGED <<fetched, inventory, answers>>

\* The rows the engine shows, by distance, that is, anyhow; an approximate index may find
\* fewer than there are.
SelectNearest(ids) ==
  /\ At("retrieve", "rollback")
  /\ ids \subseteq IF Bound(role) THEN Visible(rows, Effective("connection")) ELSE DOMAIN rows
  /\ limit >= 0 /\ Cardinality(ids) <= limit
  /\ Executes("connection")
  /\ fetched' = [tenant |-> request, ids |-> ids, allowed |-> Visible(rows, Identity(request))]
  /\ UNCHANGED <<session, local, request, inventory, answers>>

EndRetrieve ==
  /\ At("rollback", "ready")
  /\ RollsBack("connection")
  /\ answers' = answers \cup {fetched}
  /\ UNCHANGED <<request, fetched, inventory>>

\* The scan has asked all it wanted to.
Finish == At("ready", "done") /\ UNCHANGED <<sessionVars, request, fetched, inventory, answers>>

Adapter ==
  \/ FailOnStatement
  \/ CheckRole \/ Refuse \/ Accept
  \/ RefuseWithoutAdmin \/ RowSecurityOff \/ SelectRows \/ ConvertRows
  \/ \E tenant \in Tenants \cup {NoTenant} : Identify(tenant)
  \/ \E ids \in SUBSET ChunkIds : SelectNearest(ids)
  \/ EndRetrieve \/ Finish

Next == Database \/ Adapter

Spec == Init /\ [][Next]_vars

----------------------------------------------------------------------------
(* Properties *)

\* Until something changes that the check could not foresee, and unless the role owns a table
\* without FORCE, which the check lets pass: what a retrieval returns is what the policy grants
\* the tenant it was asked for, whatever identity the session carried before.
AnswersObeyThePolicy ==
  \/ regranted
  \/ role = "owner" /\ ~forced
  \/ \A a \in answers : a.ids \subseteq a.allowed

\* "so a pooled connection cannot carry one principal's identity into another principal's
\* query": outside the adapter's transactions a session is as its other users left it, and no
\* transaction is left open between two calls.
SettingsStayInTheirTransaction ==
  \A c \in Connections :
    /\ txn[c] = "idle" => Effective(c) = given[c]
    /\ pc \in {"check", "inventory", "ready"} => txn[c] = "idle"

\* The inventory is the whole table, also where the policy binds the administrator's role after
\* all, or comes to bind it between the two statements: such a role never yields the rows it
\* may see for all there are.
InventoryIsWhole == inventory # None => inventory.rows = inventory.held

----------------------------------------------------------------------------
(* What the documents say, without the conditions of the properties above. *)

\* "Refuse to verify through a role that bypasses the policy" (pgvector.py:75): as long as
\* nothing changes after the check, no answer comes through a role the policy does not bind.
RefusesWhoBypasses == regranted \/ \A a \in answers : a.ids \subseteq a.allowed

\* "Without one the scan still runs the differential axis" (scan.py:86): for want of an `admin`
\* no scan whose role was accepted ends before it has asked.
DifferentialRunsWithoutAdmin ==
  [][pc = "inventory" /\ adminRole = None => pc' # "raised"]_vars
=============================================================================
