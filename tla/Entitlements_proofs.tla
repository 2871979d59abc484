------------------------ MODULE Entitlements_proofs ------------------------
(***************************************************************************)
(* What the operators of Entitlements guarantee for every rule of the      *)
(* closed set, every entitlement and every principal.                      *)
(***************************************************************************)
EXTENDS Entitlements, TLAPS

\* Every combinator is monotone: granting more on a clause never refuses anybody.
LEMMA CombineMonotone ==
  ASSUME NEW combine,
         NEW t1 \in BOOLEAN, NEW r1 \in BOOLEAN, NEW d1 \in BOOLEAN,
         NEW t2 \in BOOLEAN, NEW r2 \in BOOLEAN, NEW d2 \in BOOLEAN,
         t1 => t2, r1 => r2, d1 => d2,
         Combine(combine, t1, r1, d1)
  PROVE  Combine(combine, t2, r2, d2)
  BY DEF Combine

\* The clauses are truth values, whatever they are applied to.
LEMMA ClausesBoolean ==
  ASSUME NEW clause, NEW ent, NEW p
  PROVE  /\ TenantClause(clause, ent, p) \in BOOLEAN
         /\ RoleClause(clause, ent, p) \in BOOLEAN
         /\ DirectClause(clause, ent, p) \in BOOLEAN
  BY DEF TenantClause, RoleClause, DirectClause

\* An entitlement whose every clause grants at most what another's does entitles nobody
\* whom the other refuses.
LEMMA ClausewiseOrder ==
  ASSUME NEW rule, NEW a, NEW b, NEW p,
         b.state = "stated",
         TenantClause(rule.tenant, a, p) => TenantClause(rule.tenant, b, p),
         RoleClause(rule.role, a, p) => RoleClause(rule.role, b, p),
         DirectClause(rule.direct, a, p) => DirectClause(rule.direct, b, p),
         Entitled(rule, a, p)
  PROVE  Entitled(rule, b, p)
<1> DEFINE tA == TenantClause(rule.tenant, a, p)
           rA == RoleClause(rule.role, a, p)
           dA == DirectClause(rule.direct, a, p)
           tB == TenantClause(rule.tenant, b, p)
           rB == RoleClause(rule.role, b, p)
           dB == DirectClause(rule.direct, b, p)
<1>1. /\ tA \in BOOLEAN /\ rA \in BOOLEAN /\ dA \in BOOLEAN
      /\ tB \in BOOLEAN /\ rB \in BOOLEAN /\ dB \in BOOLEAN
  BY ClausesBoolean
<1>2. Combine(rule.combine, tA, rA, dA)
  BY DEF Entitled, ClausesGrant
<1>3. (tA => tB) /\ (rA => rB) /\ (dA => dB)
  OBVIOUS
<1> HIDE DEF tA, rA, dA, tB, rB, dB
<1>4. Combine(rule.combine, tB, rB, dB)
  BY <1>1, <1>2, <1>3, CombineMonotone
<1>5. ClausesGrant(rule, b, p)
  BY <1>4 DEF ClausesGrant, tB, rB, dB
<1> QED
  BY <1>5 DEF Entitled

\* Smaller sets grant less, unless an emptied tenant set is read as unrestricted or every
\* role of a set is required (entitlement_rule.py, "member-or-unrestricted" and "subset").
LEMMA SmallerSetsGrantLess ==
  ASSUME NEW rule \in Rule, NEW a \in Entitlement, NEW b \in Entitlement, NEW p \in Principal,
         b.state = "stated",
         a.tenants \subseteq b.tenants,
         rule.tenant = "member-or-unrestricted" /\ a.tenants = {} => b.tenants = {},
         \/ rule.role = "ignored"
         \/ a.roles = b.roles
         \/ a.roles \subseteq b.roles /\ rule.role # "subset",
         a.principals \subseteq b.principals,
         Entitled(rule, a, p)
  PROVE  Entitled(rule, b, p)
<1>1. TenantClause(rule.tenant, a, p) => TenantClause(rule.tenant, b, p)
  BY DEF TenantClause
<1>2. RoleClause(rule.role, a, p) => RoleClause(rule.role, b, p)
  BY DEF RoleClause
<1>3. DirectClause(rule.direct, a, p) => DirectClause(rule.direct, b, p)
  BY DEF DirectClause
<1> QED
  BY <1>1, <1>2, <1>3, ClausewiseOrder

\* The naive filter admits everybody the rule entitles, for every rule of the closed set:
\* its defect is only ever to admit more (DEC-003, `admitted_by_naive_filter`).
THEOREM NaiveFilterAdmitsTheEntitled ==
  ASSUME NEW rule \in Rule, NEW ent \in Entitlement, NEW p \in Principal,
         Entitled(rule, ent, p)
  PROVE  AdmittedByNaiveFilter(rule, ent, p)
<1> DEFINE clause == IF rule.tenant = "ignored" THEN "ignored" ELSE "member-or-unrestricted"
           tA == TenantClause(rule.tenant, ent, p)
           rA == RoleClause(rule.role, ent, p)
           dA == DirectClause(rule.direct, ent, p)
           tB == TenantClause(clause, ent, p)
           rB == ent.roles = {} \/ RoleClause(rule.role, ent, p)
<1>1. /\ tA \in BOOLEAN /\ rA \in BOOLEAN /\ dA \in BOOLEAN
      /\ tB \in BOOLEAN /\ rB \in BOOLEAN
  BY ClausesBoolean
<1>2. tA => tB
  BY DEF TenantClause
<1>3. rA => rB
  OBVIOUS
<1>4. Combine(rule.combine, tA, rA, dA)
  BY DEF Entitled, ClausesGrant
<1> HIDE DEF tA, rA, dA, tB, rB
<1>5. Combine(rule.combine, tB, rB, dA)
  BY <1>1, <1>2, <1>3, <1>4, CombineMonotone
<1> QED
  BY <1>5 DEF AdmittedByNaiveFilter, tB, rB, dA

\* `intersect` returns an entitlement.
LEMMA IntersectType ==
  ASSUME NEW a \in Entitlement, NEW b \in Entitlement
  PROVE  Intersect(a, b) \in Entitlement
  BY DEF Intersect, IntersectRoles, Entitlement, UnknownEntitlement
=============================================================================
