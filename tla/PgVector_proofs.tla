--------------------------- MODULE PgVector_proofs ---------------------------
(***************************************************************************)
(* The invariants of PgVector hold for every table, any identities and     *)
(* limits, and whatever the other clients of the database do and how often.*)
(***************************************************************************)
EXTENDS PgVector, TLAPS


\* The identity a principal is asked under is one the setting can hold.
LEMMA IdentityType ==
  ASSUME NEW tenant \in Tenants \cup {NoTenant}
  PROVE  Identity(tenant) \in Tenants \cup {""}
  BY DEF Identity

\* What is visible of a table are rows of it.
LEMMA VisibleType ==
  ASSUME NEW t \in Table, NEW tenant
  PROVE  Visible(t, tenant) \subseteq ChunkIds
  BY DEF Visible, Table

LEMMA EmptyTable == <<>> \in Table
<1>1. <<>> \in [{} -> Row]
  OBVIOUS
<1> QED
  BY <1>1 DEF Table

\* Ending or beginning a transaction keeps the types of the sessions.
SessionTypes ==
  /\ txn \in [Connections -> {"idle", "open", "aborted"}]
  /\ DOMAIN given = Connections /\ DOMAIN session = Connections /\ DOMAIN local = Connections
  /\ \A c \in Connections :
       /\ given[c] \in Settings[c] /\ session[c] \in Settings[c]
       /\ local[c] \in Settings[c] \cup {None}

LEMMA RollsBackTypes ==
  ASSUME SessionTypes, NEW c \in Connections, RollsBack(c), UNCHANGED given
  PROVE  SessionTypes'
  BY DEF SessionTypes, RollsBack

LEMMA SetLocalTypes ==
  ASSUME SessionTypes, NEW c \in Connections, NEW v \in Settings[c], SetLocal(c, v), UNCHANGED given
  PROVE  SessionTypes'
  BY DEF SessionTypes, SetLocal, Executes

LEMMA ExecutesTypes ==
  ASSUME SessionTypes, NEW c \in Connections, Executes(c), UNCHANGED <<session, local, given>>
  PROVE  SessionTypes'
  BY DEF SessionTypes, Executes

\* The type invariant.
THEOREM TypeCorrect == Spec => []TypeOK
<1>1. Init => TypeOK
  <2> SUFFICES ASSUME Init PROVE TypeOK
    OBVIOUS
  <2>1. SessionTypes
    <3>1. /\ given = [connection |-> "", admin |-> "on"] /\ session = given
          /\ txn = [c \in Connections |-> "idle"] /\ local = [c \in Connections |-> None]
      BY DEF Init
    <3>2. DOMAIN given = Connections /\ DOMAIN session = Connections
      BY <3>1 DEF Connections
    <3>3. ASSUME NEW c \in Connections PROVE given[c] \in Settings[c]
      <4>1. CASE c = "connection"
        BY <3>1, <4>1 DEF Settings
      <4>2. CASE c = "admin"
        BY <3>1, <4>2 DEF Settings
      <4> QED
        BY <4>1, <4>2 DEF Connections
    <3> QED
      BY <3>1, <3>2, <3>3 DEF SessionTypes
  <2>2. rows \in Table
    BY TablesAssumption DEF Init
  <2> QED
    BY <2>1, <2>2 DEF Init, TypeOK, SessionTypes, Asking
<1>2. TypeOK /\ [Next]_vars => TypeOK'
  <2> SUFFICES ASSUME TypeOK, [Next]_vars PROVE TypeOK'
    OBVIOUS
  <2>0. /\ SessionTypes
        /\ "connection" \in Connections /\ "admin" \in Connections
        /\ Settings["connection"] = Tenants \cup {""} /\ "off" \in Settings["admin"]
    BY DEF TypeOK, SessionTypes, Connections, Settings
  <2>1. ASSUME NEW t \in Tables, Write(t) PROVE TypeOK'
    BY <2>1, TablesAssumption DEF TypeOK, Write, Other, adapterVars
  <2>2. ASSUME NEW r \in Roles, Regrant(r) PROVE TypeOK'
    BY <2>2 DEF TypeOK, Regrant, Other, adapterVars
  <2>3. ASSUME NEW r \in AdminRoles, RegrantAdmin(r) PROVE TypeOK'
    BY <2>3 DEF TypeOK, RegrantAdmin, Other, adapterVars
  <2>4. ASSUME NEW c \in Connections, NEW v \in Settings[c], UseSession(c, v) PROVE TypeOK'
    <3>1. SessionTypes'
      BY <2>0, <2>4 DEF SessionTypes, UseSession, Other
    <3> QED
      BY <2>4, <3>1 DEF TypeOK, SessionTypes, UseSession, Other, adapterVars
  <2>5. ASSUME NEW c \in Connections, Disconnect(c) PROVE TypeOK'
    <3>1. SessionTypes'
      BY <2>0, <2>5, RollsBackTypes DEF Disconnect, othersVars
    <3> QED
      BY <2>5, <3>1 DEF TypeOK, SessionTypes, Disconnect, othersVars, adapterVars
  <2>6. CASE FailOnStatement
    <3>1. InUse \in Connections
      BY DEF InUse, Connections
    <3>2. SessionTypes'
      BY <2>0, <2>6, <3>1 DEF SessionTypes, FailOnStatement, othersVars
    <3> QED
      BY <2>6, <3>2 DEF TypeOK, SessionTypes, FailOnStatement, othersVars, Asking
  <2>7. CASE CheckRole
    <3>1. SessionTypes'
      BY <2>0, <2>7, ExecutesTypes DEF CheckRole, At, othersVars
    <3>2. fetched' \in BOOLEAN \cup {None}
      BY <2>7 DEF CheckRole, Bypasses
    <3> QED
      BY <2>7, <3>1, <3>2 DEF TypeOK, SessionTypes, CheckRole, At, othersVars, Asking
  <2>8. CASE Refuse \/ Accept
    <3>1. SessionTypes'
      BY <2>0, <2>8, RollsBackTypes DEF Refuse, Accept, At, othersVars
    <3> QED
      BY <2>8, <3>1 DEF TypeOK, SessionTypes, Refuse, Accept, At, othersVars, Asking
  <2>9. CASE RefuseWithoutAdmin
    BY <2>9 DEF TypeOK, RefuseWithoutAdmin, At, othersVars, sessionVars, Asking
  <2>10. CASE RowSecurityOff
    <3>1. SessionTypes'
      BY <2>0, <2>10, SetLocalTypes DEF RowSecurityOff, At, othersVars
    <3> QED
      BY <2>10, <3>1 DEF TypeOK, SessionTypes, RowSecurityOff, At, othersVars, Asking
  <2>11. CASE SelectRows
    <3>1. SessionTypes'
      BY <2>0, <2>11, ExecutesTypes DEF SelectRows, At, othersVars
    <3>2. fetched' \in InventoryRead
      BY <2>11, EmptyTable DEF SelectRows, InventoryRead, TypeOK
    <3> QED
      BY <2>11, <3>1, <3>2 DEF TypeOK, SessionTypes, SelectRows, At, othersVars, Asking
  <2>12. CASE ConvertRows
    <3>1. SessionTypes' /\ UNCHANGED <<othersVars, limit, request, fetched, answers>>
      BY <2>0, <2>12, RollsBackTypes DEF ConvertRows, At, othersVars
    <3>2. pc' \in {"raised", "ready"} /\ (inventory' = inventory \/ inventory' = fetched)
      BY <2>12 DEF ConvertRows, At
    <3> QED
      BY <2>12, <3>1, <3>2 DEF TypeOK, SessionTypes, ConvertRows, othersVars, Asking
  <2>13. ASSUME NEW tenant \in Tenants \cup {NoTenant}, Identify(tenant) PROVE TypeOK'
    <3>1. SessionTypes'
      BY <2>0, <2>13, SetLocalTypes, IdentityType DEF Identify, At, othersVars
    <3> QED
      BY <2>13, <3>1 DEF TypeOK, SessionTypes, Identify, At, othersVars, Asking
  <2>14. ASSUME NEW ids \in SUBSET ChunkIds, SelectNearest(ids) PROVE TypeOK'
    <3>1. SessionTypes'
      BY <2>0, <2>14, ExecutesTypes DEF SelectNearest, At, othersVars
    <3>2. fetched' \in Answer
      BY <2>14, VisibleType DEF SelectNearest, Answer, TypeOK
    <3> QED
      BY <2>14, <3>1, <3>2 DEF TypeOK, SessionTypes, SelectNearest, At, othersVars, Asking
  <2>15. CASE EndRetrieve
    <3>1. SessionTypes'
      BY <2>0, <2>15, RollsBackTypes DEF EndRetrieve, At, othersVars
    <3> QED
      BY <2>15, <3>1 DEF TypeOK, SessionTypes, EndRetrieve, At, othersVars, Asking
  <2>16. CASE Finish
    BY <2>16 DEF TypeOK, Finish, At, othersVars, sessionVars, Asking
  <2>17. CASE UNCHANGED vars
    BY <2>17 DEF TypeOK, vars, othersVars, sessionVars, adapterVars
  <2>18. CASE AlterTable
    BY <2>18 DEF TypeOK, AlterTable, Other, adapterVars
  <2> QED
    BY <2>1, <2>2, <2>3, <2>4, <2>5, <2>6, <2>7, <2>8, <2>9, <2>10, <2>11, <2>12, <2>13, <2>14,
       <2>15, <2>16, <2>17, <2>18 DEF Next, Database, Adapter
<1> QED
  BY <1>1, <1>2, PTL DEF Spec

----------------------------------------------------------------------------
(* Settings *)

\* Which connections can be in a transaction before which statement.
AtRest(c) ==
  \/ pc \in {"check", "inventory", "ready"}
  \/ c = "admin" /\ pc \in {"judge", "retrieve", "rollback"}
  \/ c = "connection" /\ pc \in {"select", "convert"}

\* A session is as its other users left it, but for a setting local to an open transaction;
\* and only the connection in use has one open.
SettingsInv ==
  \A c \in Connections :
    /\ session[c] = given[c]
    /\ txn[c] = "idle" => local[c] = None
    /\ AtRest(c) => txn[c] = "idle"

LEMMA SettingsStep ==
  ASSUME TypeOK, SettingsInv, [Next]_vars
  PROVE  SettingsInv'
<1> USE DEF SettingsInv, AtRest, TypeOK, Connections
<1>1. ASSUME NEW t \in Tables, Write(t) PROVE SettingsInv'
  BY <1>1 DEF Write, Other, adapterVars
<1>2. ASSUME NEW r \in Roles, Regrant(r) PROVE SettingsInv'
  BY <1>2 DEF Regrant, Other, adapterVars
<1>3. ASSUME NEW r \in AdminRoles, RegrantAdmin(r) PROVE SettingsInv'
  BY <1>3 DEF RegrantAdmin, Other, adapterVars
<1>4. ASSUME NEW c \in Connections, NEW v \in Settings[c], UseSession(c, v) PROVE SettingsInv'
  BY <1>4 DEF UseSession, Other, adapterVars
<1>5. ASSUME NEW c \in Connections, Disconnect(c) PROVE SettingsInv'
  BY <1>5 DEF Disconnect, RollsBack, othersVars, adapterVars
<1>6. CASE FailOnStatement
  BY <1>6 DEF FailOnStatement, othersVars, InUse
<1>7. CASE CheckRole
  BY <1>7 DEF CheckRole, At, Executes, othersVars
<1>8. CASE Refuse \/ Accept
  BY <1>8 DEF Refuse, Accept, At, RollsBack, othersVars
<1>9. CASE RefuseWithoutAdmin \/ Finish
  BY <1>9 DEF RefuseWithoutAdmin, Finish, At, othersVars, sessionVars
<1>10. CASE RowSecurityOff
  BY <1>10 DEF RowSecurityOff, At, SetLocal, Executes, othersVars
<1>11. CASE SelectRows
  BY <1>11 DEF SelectRows, At, Executes, othersVars
<1>12. CASE ConvertRows
  BY <1>12 DEF ConvertRows, At, RollsBack, othersVars
<1>13. ASSUME NEW tenant \in Tenants \cup {NoTenant}, Identify(tenant) PROVE SettingsInv'
  BY <1>13 DEF Identify, At, SetLocal, Executes, othersVars
<1>14. ASSUME NEW ids \in SUBSET ChunkIds, SelectNearest(ids) PROVE SettingsInv'
  BY <1>14 DEF SelectNearest, At, Executes, othersVars
<1>15. CASE EndRetrieve
  BY <1>15 DEF EndRetrieve, At, RollsBack, othersVars
<1>16. CASE UNCHANGED vars
  BY <1>16 DEF vars, othersVars, sessionVars, adapterVars
<1>17. CASE AlterTable
  BY <1>17 DEF AlterTable, Other, adapterVars
<1> QED
  BY <1>1, <1>2, <1>3, <1>4, <1>5, <1>6, <1>7, <1>8, <1>9, <1>10, <1>11, <1>12, <1>13, <1>14,
     <1>15, <1>16, <1>17 DEF Next, Database, Adapter

\* Whatever sets an identity or switches row security off does so for one transaction, and every
\* transaction of a call ends with it.
THEOREM SettingsCorrect == Spec => []SettingsStayInTheirTransaction
<1>1. Init => SettingsInv
  BY DEF Init, SettingsInv
<1>2. SettingsInv => SettingsStayInTheirTransaction
  BY DEF SettingsInv, SettingsStayInTheirTransaction, Effective, AtRest
<1> QED
  BY <1>1, <1>2, TypeCorrect, SettingsStep, PTL DEF Spec

----------------------------------------------------------------------------
(* Answers *)

Judging == {"inventory", "select", "convert", "ready", "retrieve", "rollback"}

\* As long as nobody changes its privileges, a role that passed the check is one the policy
\* binds, or the owner of the table; the identity in force is that of the request; and so what is
\* fetched under a role the policy binds is allowed.
AnswersInv ==
  /\ pc = "retrieve" => local["connection"] = Identity(request)
  /\ pc = "check" => answers = {}
  /\ \/ regranted
     \/ role = "owner" /\ ~forced
     \/ /\ pc = "judge" => fetched = Bypasses(role)
        /\ pc \in Judging => role \in {"subject", "owner"}
        /\ pc = "rollback" => fetched.ids \subseteq fetched.allowed
        /\ \A a \in answers : a.ids \subseteq a.allowed

\* Whom the check accepts.
LEMMA AcceptedRole ==
  ASSUME NEW r \in Roles, Bypasses(r) = FALSE
  PROVE  r \in {"subject", "owner"}
<1>1. r # "untold"
  BY NoAnswerAssumption, Zenon DEF Bypasses
<1>2. r # "bypasses"
  <2> SUFFICES ASSUME r = "bypasses" PROVE FALSE
    OBVIOUS
  <2>1. Bypasses(r) = (r = "bypasses")
    BY <1>1, Zenon DEF Bypasses
  <2> QED
    BY <2>1, Zenon
<1> QED
  BY <1>1, <1>2 DEF Roles, AdminRoles

LEMMA AnswersStep ==
  ASSUME TypeOK, AnswersInv, [Next]_vars
  PROVE  AnswersInv'
<1> USE DEF AnswersInv, Judging
<1>1. ASSUME NEW t \in Tables, Write(t) PROVE AnswersInv'
  BY <1>1 DEF Write, Other, adapterVars, Identity
<1>2. ASSUME NEW r \in Roles, Regrant(r) PROVE AnswersInv'
  BY <1>2 DEF Regrant, Other, adapterVars, Identity
<1>3. ASSUME NEW r \in AdminRoles, RegrantAdmin(r) PROVE AnswersInv'
  BY <1>3 DEF RegrantAdmin, Other, adapterVars, Identity
<1>4. ASSUME NEW c \in Connections, NEW v \in Settings[c], UseSession(c, v) PROVE AnswersInv'
  BY <1>4 DEF UseSession, Other, adapterVars, Identity
<1>5. ASSUME NEW c \in Connections, Disconnect(c) PROVE AnswersInv'
  BY <1>5 DEF Disconnect, othersVars, adapterVars
<1>6. CASE FailOnStatement
  BY <1>6 DEF FailOnStatement, othersVars
<1>7. CASE CheckRole
  BY <1>7 DEF CheckRole, At, othersVars
<1>8. CASE Refuse \/ Accept
  <2>1. CASE Refuse
    BY <2>1 DEF Refuse, At, othersVars
  <2>2. CASE Accept
    <3>1. pc = "judge" /\ pc' = "inventory" /\ UNCHANGED <<role, regranted, forced, answers>>
      BY <2>2 DEF Accept, At, othersVars
    <3>2. fetched = Bypasses(role) => role \in {"subject", "owner"}
      BY <2>2, AcceptedRole DEF Accept, TypeOK
    <3> QED
      BY <3>1, <3>2
  <2> QED
    BY <1>8, <2>1, <2>2
<1>9. CASE RefuseWithoutAdmin \/ Finish
  BY <1>9 DEF RefuseWithoutAdmin, Finish, At, othersVars, sessionVars
<1>10. CASE RowSecurityOff
  BY <1>10 DEF RowSecurityOff, At, othersVars
<1>11. CASE SelectRows
  BY <1>11 DEF SelectRows, At, othersVars
<1>12. CASE ConvertRows
  BY <1>12 DEF ConvertRows, At, othersVars
<1>13. ASSUME NEW tenant \in Tenants \cup {NoTenant}, Identify(tenant) PROVE AnswersInv'
  BY <1>13 DEF Identify, Identity, At, SetLocal, othersVars, TypeOK, Connections
<1>14. ASSUME NEW ids \in SUBSET ChunkIds, SelectNearest(ids) PROVE AnswersInv'
  <2>1. pc = "retrieve" /\ pc' = "rollback" /\ UNCHANGED <<role, regranted, answers>>
    BY <1>14 DEF SelectNearest, At, othersVars
  <2>2. Effective("connection") = Identity(request)
    <3>1. local["connection"] = Identity(request) /\ Identity(request) \in Settings["connection"]
      BY <2>1, IdentityType DEF TypeOK, Settings
    <3> QED
      BY <3>1, NoSettingAssumption DEF Effective, Connections
  <2>3. Bound(role) => fetched'.ids \subseteq fetched'.allowed
    BY <1>14, <2>2 DEF SelectNearest
  <2> QED
    BY <1>14, <2>1, <2>3 DEF SelectNearest, At, othersVars, Bound
<1>15. CASE EndRetrieve
  BY <1>15 DEF EndRetrieve, At, othersVars
<1>16. CASE UNCHANGED vars
  BY <1>16 DEF vars, othersVars, sessionVars, adapterVars, Identity
<1>17. CASE AlterTable
  BY <1>17 DEF AlterTable, Other, adapterVars, Identity
<1> QED
  BY <1>1, <1>2, <1>3, <1>4, <1>5, <1>6, <1>7, <1>8, <1>9, <1>10, <1>11, <1>12, <1>13, <1>14,
     <1>15, <1>16, <1>17 DEF Next, Database, Adapter

\* While nothing the check looked at changes, and unless the role owns the table and the table
\* does not force the policy on its owner, no answer holds a row the policy refuses the tenant
\* asked for, whatever identity other users left in the session.
THEOREM AnswersCorrect == Spec => []AnswersObeyThePolicy
<1>1. Init => AnswersInv
  BY DEF Init, AnswersInv, Judging
<1>2. AnswersInv => AnswersObeyThePolicy
  BY DEF AnswersInv, AnswersObeyThePolicy
<1> QED
  BY <1>1, <1>2, TypeCorrect, AnswersStep, PTL DEF Spec

----------------------------------------------------------------------------
(* The inventory *)

\* Row security is off when the table is read, and so the rows read are those the table held.
InventoryInv ==
  /\ pc = "select" => local["admin"] = "off"
  /\ pc = "convert" => fetched.rows = fetched.held
  /\ inventory # None => inventory.rows = inventory.held

LEMMA InventoryStep ==
  ASSUME TypeOK, InventoryInv, [Next]_vars
  PROVE  InventoryInv'
<1> USE DEF InventoryInv, Asking
<1>1. ASSUME NEW t \in Tables, Write(t) PROVE InventoryInv'
  BY <1>1 DEF Write, Other, adapterVars
<1>2. ASSUME NEW r \in Roles, Regrant(r) PROVE InventoryInv'
  BY <1>2 DEF Regrant, Other, adapterVars
<1>3. ASSUME NEW r \in AdminRoles, RegrantAdmin(r) PROVE InventoryInv'
  BY <1>3 DEF RegrantAdmin, Other, adapterVars
<1>4. ASSUME NEW c \in Connections, NEW v \in Settings[c], UseSession(c, v) PROVE InventoryInv'
  BY <1>4 DEF UseSession, Other, adapterVars
<1>5. ASSUME NEW c \in Connections, Disconnect(c) PROVE InventoryInv'
  BY <1>5 DEF Disconnect, othersVars, adapterVars
<1>6. CASE FailOnStatement
  BY <1>6 DEF FailOnStatement, othersVars
<1>7. CASE CheckRole
  BY <1>7 DEF CheckRole, At, othersVars
<1>8. CASE Refuse \/ Accept
  BY <1>8 DEF Refuse, Accept, At, othersVars
<1>9. CASE RefuseWithoutAdmin \/ Finish
  BY <1>9 DEF RefuseWithoutAdmin, Finish, At, othersVars, sessionVars
<1>10. CASE RowSecurityOff
  BY <1>10 DEF RowSecurityOff, At, SetLocal, othersVars, TypeOK, Connections
<1>11. CASE SelectRows
  <2>1. Effective("admin") = "off"
    BY <1>11, NoSettingAssumption DEF SelectRows, At, Effective, Connections, Settings
  <2>2. fetched'.rows = fetched'.held
    BY <1>11, <2>1 DEF SelectRows
  <2> QED
    BY <1>11, <2>2 DEF SelectRows, At, othersVars
<1>12. CASE ConvertRows
  BY <1>12 DEF ConvertRows, At
<1>13. ASSUME NEW tenant \in Tenants \cup {NoTenant}, Identify(tenant) PROVE InventoryInv'
  BY <1>13 DEF Identify, At, othersVars
<1>14. ASSUME NEW ids \in SUBSET ChunkIds, SelectNearest(ids) PROVE InventoryInv'
  BY <1>14 DEF SelectNearest, At, othersVars
<1>15. CASE EndRetrieve
  BY <1>15 DEF EndRetrieve, At, othersVars
<1>16. CASE UNCHANGED vars
  BY <1>16 DEF vars, othersVars, sessionVars, adapterVars
<1>17. CASE AlterTable
  BY <1>17 DEF AlterTable, Other, adapterVars
<1> QED
  BY <1>1, <1>2, <1>3, <1>4, <1>5, <1>6, <1>7, <1>8, <1>9, <1>10, <1>11, <1>12, <1>13, <1>14,
     <1>15, <1>16, <1>17 DEF Next, Database, Adapter

\* No inventory is a part of the table that a policy left.
THEOREM InventoryCorrect == Spec => []InventoryIsWhole
<1>1. Init => InventoryInv
  BY DEF Init, InventoryInv, Asking
<1>2. InventoryInv => InventoryIsWhole
  BY DEF InventoryInv, InventoryIsWhole
<1> QED
  BY <1>1, <1>2, TypeCorrect, InventoryStep, PTL DEF Spec
=============================================================================
