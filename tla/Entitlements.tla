---------------------------- MODULE Entitlements ----------------------------
(***************************************************************************)
(* What an access-control statement grants: the entitlement records of     *)
(* tearline.domain, the rule a source system states about them             *)
(* (tearline.entitlement_rule) and the two readings of it that             *)
(* tearline.rules offers.  Everything here is a pure operator.             *)
(*                                                                         *)
(* Left out: an entitlement's classification, which no decision reads, and *)
(* labels and wording.                                                     *)
(***************************************************************************)
EXTENDS FiniteSets, Integers

CONSTANTS
  Tenants,       (* tenant names an entitlement can state                  *)
  Roles,         (* role names; "everyone" is the public marker            *)
  PrincipalIds,  (* ids of the identities a scan can be run under          *)
  NoTenant       (* the tenant of a principal that states none (None)      *)

\* None is no member of any tenant set: `principal.tenant in ent.tenants`.
ASSUME NoTenantAssumption == NoTenant \notin Tenants

----------------------------------------------------------------------------
(* domain.py *)

Principal == [id: PrincipalIds, tenant: Tenants \cup {NoTenant}, roles: SUBSET Roles]

Entitlement ==
  [state: {"stated", "unknown"},
   tenants: SUBSET Tenants, roles: SUBSET Roles, principals: SUBSET PrincipalIds]

\* Entitlement(state=UNKNOWN): every set at its default, the empty one.
UnknownEntitlement ==
  [state |-> "unknown", tenants |-> {}, roles |-> {}, principals |-> {}]

\* Roles are intersected only when both sides name some.
IntersectRoles(a, b) == IF a # {} /\ b # {} THEN a \cap b ELSE a \cup b

\* A wrong `intersect` that unions the tenants.
IntersectUnitingTenants(a, b) ==
  IF "unknown" \in {a.state, b.state}
  THEN UnknownEntitlement
  ELSE [state |-> "stated",
        tenants |-> a.tenants \cup b.tenants,
        roles |-> IntersectRoles(a.roles, b.roles),
        principals |-> a.principals \cap b.principals]

Intersect(a, b) ==
  IF "unknown" \in {a.state, b.state}
  THEN UnknownEntitlement
  ELSE [state |-> "stated",
        tenants |-> a.tenants \cap b.tenants,
        roles |-> IntersectRoles(a.roles, b.roles),
        principals |-> a.principals \cap b.principals]

----------------------------------------------------------------------------
(* entitlement_rule.py *)

TenantClauses == {"member", "member-or-unrestricted", "ignored"}
RoleClauses == {"intersects", "intersects-or-everyone", "subset", "ignored"}
DirectClauses == {"principal-listed", "ignored"}
Combinators ==
  {"tenant AND (role OR direct)", "tenant AND role", "tenant AND role AND direct",
   "tenant OR role", "(tenant OR direct) AND role"}

\* The rules `load_rule` lets through; it refuses any other clause.
Rule == [tenant: TenantClauses, role: RoleClauses, direct: DirectClauses, combine: Combinators]

TenantClause(clause, ent, p) ==
  \/ clause = "ignored"
  \/ clause = "member-or-unrestricted" /\ ent.tenants = {}
  \/ p.tenant \in ent.tenants

RoleClause(clause, ent, p) ==
  \/ clause = "ignored"
  \/ /\ ent.roles # {}
     /\ \/ clause = "intersects-or-everyone" /\ "everyone" \in ent.roles
        \/ clause = "subset" /\ ent.roles \subseteq p.roles
        \/ clause # "subset" /\ ent.roles \cap p.roles # {}

DirectClause(clause, ent, p) == clause # "ignored" /\ p.id \in ent.principals

Combine(combine, tenant, role, direct) ==
  \/ combine = "tenant AND (role OR direct)" /\ tenant /\ (role \/ direct)
  \/ combine = "tenant AND role" /\ tenant /\ role
  \/ combine = "tenant AND role AND direct" /\ tenant /\ role /\ direct
  \/ combine = "tenant OR role" /\ (tenant \/ role)
  \/ combine = "(tenant OR direct) AND role" /\ (tenant \/ direct) /\ role

\* What the clauses grant, with `state` not consulted.
ClausesGrant(rule, ent, p) ==
  Combine(rule.combine, TenantClause(rule.tenant, ent, p),
          RoleClause(rule.role, ent, p), DirectClause(rule.direct, ent, p))

Entitled(rule, ent, p) == ent.state = "stated" /\ ClausesGrant(rule, ent, p)

AdmittedByNaiveFilter(rule, ent, p) ==
  LET tenant == IF rule.tenant = "ignored" THEN "ignored" ELSE "member-or-unrestricted"
  IN  Combine(rule.combine, TenantClause(tenant, ent, p),
              ent.roles = {} \/ RoleClause(rule.role, ent, p),
              DirectClause(rule.direct, ent, p))

----------------------------------------------------------------------------
(* rules.py *)

EnforcementModels == {"rule", "naive-tenant-exclusion"}

\* The predicate `enforcement_for` builds, applied to a tag and a principal.
Enforce(rule, model, ent, p) ==
  IF model = "rule" THEN Entitled(rule, ent, p) ELSE AdmittedByNaiveFilter(rule, ent, p)

\* `ents` is the set of the sources' entitlements: neither their order nor their
\* number changes what all of them permit.
EntitledByAll(rule, ents, p) == ents # {} /\ \A e \in ents : Entitled(rule, e, p)
=============================================================================
