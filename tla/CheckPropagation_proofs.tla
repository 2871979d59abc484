---------------------- MODULE CheckPropagation_proofs ----------------------
(***************************************************************************)
(* The invariants of CheckPropagation hold for every scenario and variant: *)
(* any number of chunks, any number of sources a chunk, any entitlements   *)
(* and any rule of the closed set.                                         *)
(***************************************************************************)
EXTENDS CheckPropagation, Entitlements_proofs, FiniteSetTheorems, WellFoundedInduction

\* Nothing in the loop touches what it was given (DEC-004: the tool only reads).
LEMMA GivenStays ==
  ASSUME [Next]_vars
  PROVE  scenario' = scenario /\ variant' = variant
  BY DEF Next, vars, ExamineChunk, ReportUntraceable, PassSingleSource, ContradictSingleSource,
     FailOnTimes, StartBound, IntersectNext, ReportIndeterminate, ReportExceeding, Judge

\* So everything defined from it alone keeps its value.
LEMMA ViewStays ==
  ASSUME [Next]_vars, NEW c
  PROVE  /\ ChunkOf(c)' = ChunkOf(c)
         /\ TagOf(c)' = TagOf(c)
         /\ LocatedOf(c)' = LocatedOf(c)
         /\ \A j : SourceOf(c, j)' = SourceOf(c, j)
         /\ \A p : SourcesGrant(scenario, ChunkOf(c), p)' <=> SourcesGrant(scenario, ChunkOf(c), p)
         /\ IntersectionAddsNobody(c)' <=> IntersectionAddsNobody(c)
         /\ IntersectionLosesNobody(c)' <=> IntersectionLosesNobody(c)
         /\ CommonRole(c)' <=> CommonRole(c)
         /\ SameRolesStated(c)' <=> SameRolesStated(c)
         /\ PrincipalsUnderTest' = PrincipalsUnderTest
<1>1. scenario' = scenario /\ variant' = variant
  BY GivenStays
<1>2. /\ ChunkOf(c)' = ChunkOf(c)
      /\ TagOf(c)' = TagOf(c)
      /\ PrincipalsUnderTest' = PrincipalsUnderTest
  BY <1>1 DEF ChunkOf, TagOf, PrincipalsUnderTest
<1>3. LocatedOf(c)' = LocatedOf(c)
  BY <1>1 DEF LocatedOf, ChunkOf
<1>4. \A j : SourceOf(c, j)' = SourceOf(c, j)
  BY <1>1 DEF SourceOf, ChunkOf
<1>5. \A p : SourcesGrant(scenario, ChunkOf(c), p)' <=> SourcesGrant(scenario, ChunkOf(c), p)
  BY <1>1 DEF ChunkOf
<1>6. /\ CommonRole(c)' <=> CommonRole(c)
      /\ CommonTenant(c)' <=> CommonTenant(c)
      /\ SameRolesStated(c)' <=> SameRolesStated(c)
      /\ SameTenantsStated(c)' <=> SameTenantsStated(c)
      /\ SamePrincipalsStated(c)' <=> SamePrincipalsStated(c)
  BY <1>3, <1>4
     DEF CommonRole, CommonTenant, SameRolesStated, SameTenantsStated, SamePrincipalsStated
<1> QED
  BY <1>1, <1>2, <1>3, <1>4, <1>5, <1>6 DEF IntersectionAddsNobody, IntersectionLosesNobody

\* What a located source is.
LEMMA ViewTypes ==
  ASSUME TypeOK, NEW c \in DOMAIN variant.chunks
  PROVE  /\ ChunkOf(c) \in Chunk
         /\ TagOf(c) \in Entitlement
         /\ LocatedOf(c) \subseteq Nat
         /\ \A j \in LocatedOf(c) :
              SourceOf(c, j) \in SourceDocument /\ SourceOf(c, j).entitlement \in Entitlement
         /\ SourceEntitlements(scenario, ChunkOf(c)) =
              {SourceOf(c, j).entitlement : j \in LocatedOf(c)}
         /\ scenario.rule \in Rule
         /\ PrincipalsUnderTest \subseteq Principal
<1>1. IsScenario(scenario) /\ IsVariant(variant)
  BY ScenariosAssumption, VariantsAssumption DEF TypeOK
<1>2. ChunkOf(c) \in Chunk
  BY <1>1 DEF ChunkOf, IsVariant, IsDict
<1>3. TagOf(c) \in Entitlement
  BY <1>2 DEF TagOf, Chunk
<1>4. LocatedOf(c) \subseteq Nat
  BY <1>2 DEF LocatedOf, Located, Chunk
<1>5. \A j \in LocatedOf(c) : SourceOf(c, j) \in SourceDocument
  BY <1>1 DEF LocatedOf, Located, SourceOf, SourceAt, IsScenario, IsDict
<1>6. \A j \in LocatedOf(c) : SourceOf(c, j).entitlement \in Entitlement
  BY <1>5 DEF SourceDocument
<1>7. SourceEntitlements(scenario, ChunkOf(c)) = {SourceOf(c, j).entitlement : j \in LocatedOf(c)}
  BY DEF SourceEntitlements, SourceOf, LocatedOf
<1>8. scenario.rule \in Rule /\ PrincipalsUnderTest \subseteq Principal
  BY <1>1 DEF IsScenario, IsDict, PrincipalsUnderTest
<1> QED
  BY <1>2, <1>3, <1>4, <1>5, <1>6, <1>7, <1>8

\* The types of the loop's state: in particular the chunk in hand is one the loop has not
\* finished, and an expected entitlement is an entitlement or None.
THEOREM TypeCorrect == Spec => []TypeOK
<1>1. Init => TypeOK
  <2> SUFFICES ASSUME Init PROVE TypeOK
    OBVIOUS
  <2>1. /\ scenario \in Scenarios
        /\ variant \in Variants
        /\ unexamined \subseteq DOMAIN variant.chunks
        /\ current = None /\ bound = None /\ left = {}
        /\ findings \subseteq PropagationFinding
        /\ untraceable \in Nat
    BY DEF Init
  <2>2. failed \in BOOLEAN
    BY DEF Init
  <2> QED
    BY <2>1, <2>2 DEF TypeOK
<1>2. TypeOK /\ [Next]_vars => TypeOK'
  <2> SUFFICES ASSUME TypeOK, [Next]_vars PROVE TypeOK'
    OBVIOUS
  <2>0. /\ scenario' = scenario /\ variant' = variant
        /\ \A c : LocatedOf(c)' = LocatedOf(c)
        /\ None \notin DOMAIN variant.chunks
        /\ DOMAIN variant.chunks \subseteq ChunkIds
    BY GivenStays, ViewStays, VariantsAssumption, NoneAssumption DEF TypeOK, IsVariant, IsDict
  <2>1. ASSUME NEW c \in unexamined, ReportUntraceable(c) PROVE TypeOK'
    <3>1. [chunk_id |-> c, verdict |-> "unverifiable", cause |-> "undetermined",
           observed |-> TagOf(c), expected |-> None] \in PropagationFinding
      BY <2>0, ViewTypes DEF TypeOK, PropagationFinding, Verdicts, Causes
    <3> QED
      BY <2>1, <3>1, <2>0 DEF TypeOK, ReportUntraceable, NextChunk, Found, Finished
  <2>2. ASSUME NEW c \in unexamined, PassSingleSource(c) PROVE TypeOK'
    BY <2>0, <2>2 DEF TypeOK, PassSingleSource, NextChunk, Finished
  <2>3. ASSUME NEW c \in unexamined, ContradictSingleSource(c) PROVE TypeOK'
    <3>1. TagOf(c) \in Entitlement /\ c \in ChunkIds
      BY <2>0, ViewTypes DEF TypeOK
    <3>2. PICK j \in LocatedOf(c) :
            Found(c, "contradicted", CauseFromTimestamps(ChunkOf(c), SourceOf(c, j)),
                  SourceOf(c, j).entitlement)
      BY <2>3 DEF ContradictSingleSource
    <3>3. SourceOf(c, j).entitlement \in Entitlement
      BY ViewTypes DEF TypeOK
    <3>4. CauseFromTimestamps(ChunkOf(c), SourceOf(c, j)) \in Causes
      BY DEF CauseFromTimestamps, Causes
    <3>5. findings' \subseteq PropagationFinding
      BY <3>1, <3>2, <3>3, <3>4 DEF TypeOK, Found, PropagationFinding, Verdicts
    <3> QED
      BY <2>0, <2>3, <3>5 DEF TypeOK, ContradictSingleSource, NextChunk, Finished
  <2>4. ASSUME NEW c \in unexamined, FailOnTimes(c) PROVE TypeOK'
    BY <2>0, <2>4 DEF TypeOK, FailOnTimes, NextChunk
  <2>5. ASSUME NEW c \in unexamined, StartBound(c) PROVE TypeOK'
    <3>1. PICK first \in LocatedOf(c) :
            left' = LocatedOf(c) \ {first} /\ bound' = SourceOf(c, first).entitlement
      BY <2>5 DEF StartBound
    <3>2. left' \subseteq LocatedOf(c) /\ bound' \in Entitlement
      BY <3>1, ViewTypes DEF TypeOK
    <3> QED
      BY <2>0, <2>5, <3>2 DEF TypeOK, StartBound, NextChunk
  <2>6. ASSUME IntersectNext PROVE TypeOK'
    <3>1. current \in DOMAIN variant.chunks /\ bound \in Entitlement
      BY <2>6 DEF TypeOK, IntersectNext
    <3>2. PICK j \in left :
            bound' = Intersect(bound, SourceOf(current, j).entitlement) /\ left' = left \ {j}
      BY <2>6 DEF IntersectNext
    <3>3. j \in LocatedOf(current) /\ SourceOf(current, j).entitlement \in Entitlement
      BY <2>6, <3>1, ViewTypes DEF TypeOK, IntersectNext
    <3>4. bound' \in Entitlement
      BY <3>1, <3>2, <3>3, IntersectType
    <3> QED
      BY <2>0, <2>6, <3>2, <3>4 DEF TypeOK, IntersectNext
  <2>7. ASSUME NEW verdict \in Verdicts, NEW cause \in Causes,
               current # None, left = {}, Judge(verdict, cause)
        PROVE  TypeOK'
    <3>1. current \in DOMAIN variant.chunks /\ bound \in Entitlement
      BY <2>7 DEF TypeOK
    <3>2. [chunk_id |-> current, verdict |-> verdict, cause |-> cause,
           observed |-> TagOf(current), expected |-> bound] \in PropagationFinding
      BY <2>0, <3>1, ViewTypes DEF PropagationFinding
    <3> QED
      BY <2>0, <2>7, <3>2 DEF TypeOK, Judge, Found, Finished
  <2>8. CASE UNCHANGED vars
    BY <2>8, <2>0 DEF TypeOK, vars
  <2> QED
    BY <2>1, <2>2, <2>3, <2>4, <2>5, <2>6, <2>7, <2>8
       DEF Next, ExamineChunk, ReportIndeterminate, ReportExceeding, Verdicts, Causes
<1> QED
  BY <1>1, <1>2, PTL DEF Spec

\* `safe_bound`'s loop invariant, for any number of sources.
THEOREM BoundCorrect == Spec => []BoundIsMeet
<1>1. Init => BoundIsMeet
  BY DEF Init, BoundIsMeet
<1>2. TypeOK /\ BoundIsMeet /\ [Next]_vars => BoundIsMeet'
  <2> SUFFICES ASSUME TypeOK, BoundIsMeet, [Next]_vars PROVE BoundIsMeet'
    OBVIOUS
  <2>1. ASSUME NEW c \in unexamined, StartBound(c) PROVE BoundIsMeet'
    <3>1. PICK first \in LocatedOf(c) :
            left' = LocatedOf(c) \ {first} /\ bound' = SourceOf(c, first).entitlement
      BY <2>1 DEF StartBound
    <3>2. current' = c
      BY <2>1 DEF StartBound
    <3>3. LocatedOf(c) \ left' = {first}
      BY <3>1
    <3>4. bound' \in Entitlement
      BY <3>1, ViewTypes DEF TypeOK
    <3>5. /\ bound'.tenants = {t \in Tenants : t \in bound'.tenants}
          /\ bound'.principals = {i \in PrincipalIds : i \in bound'.principals}
          /\ bound'.roles = {r \in Roles : r \in bound'.roles}
      BY <3>4 DEF Entitlement
    <3> QED
      BY <3>1, <3>2, <3>3, <3>5, ViewStays DEF BoundIsMeet
  <2>2. ASSUME IntersectNext PROVE BoundIsMeet'
    <3> DEFINE c == current
               Says(j) == SourceOf(c, j).entitlement
               folded == LocatedOf(c) \ left
    <3>1. /\ c # None /\ c' = c
          /\ c \in DOMAIN variant.chunks
          /\ bound \in Entitlement
          /\ left \subseteq LocatedOf(c)
      BY <2>2 DEF TypeOK, IntersectNext
    <3>2. PICK j \in left : bound' = Intersect(bound, Says(j)) /\ left' = left \ {j}
      BY <2>2 DEF IntersectNext
    <3>3. LocatedOf(c) \ left' = folded \cup {j}
      BY <3>1, <3>2
    <3>4. Says(j) \in Entitlement
      BY <3>1, <3>2, ViewTypes
    <3>5. /\ folded # {}
          /\ bound.state = "stated" <=> \A k \in folded : Says(k).state = "stated"
          /\ bound.state = "stated" =>
               /\ bound.tenants = {t \in Tenants : \A k \in folded : t \in Says(k).tenants}
               /\ bound.principals = {i \in PrincipalIds : \A k \in folded : i \in Says(k).principals}
               /\ CommonRole(c) \/ SameRolesStated(c) =>
                    bound.roles = {r \in Roles : \A k \in folded : r \in Says(k).roles}
      BY <3>1 DEF BoundIsMeet
    <3> HIDE DEF Says, folded
    <3>6. bound'.state = "stated" <=> bound.state = "stated" /\ Says(j).state = "stated"
      BY <3>1, <3>2, <3>4 DEF Intersect, UnknownEntitlement, Entitlement
    <3>7. bound'.state = "stated" <=> \A k \in folded \cup {j} : Says(k).state = "stated"
      BY <3>5, <3>6
    <3>8. ASSUME bound'.state = "stated"
          PROVE  /\ bound'.tenants =
                       {t \in Tenants : \A k \in folded \cup {j} : t \in Says(k).tenants}
                 /\ bound'.principals =
                       {i \in PrincipalIds : \A k \in folded \cup {j} : i \in Says(k).principals}
      <4>1. /\ bound'.tenants = bound.tenants \cap Says(j).tenants
            /\ bound'.principals = bound.principals \cap Says(j).principals
        BY <3>1, <3>2, <3>4, <3>6, <3>8 DEF Intersect, Entitlement
      <4> QED
        BY <3>5, <3>6, <3>8, <4>1
    <3>9. ASSUME bound'.state = "stated", CommonRole(c) \/ SameRolesStated(c)
          PROVE  bound'.roles = {r \in Roles : \A k \in folded \cup {j} : r \in Says(k).roles}
      <4>1. bound'.roles = IntersectRoles(bound.roles, Says(j).roles)
        BY <3>1, <3>2, <3>4, <3>6, <3>9 DEF Intersect, Entitlement
      <4>2. bound.roles = {r \in Roles : \A k \in folded : r \in Says(k).roles}
        BY <3>5, <3>6, <3>9
      <4>3. folded \cup {j} \subseteq LocatedOf(c)
        BY <3>1, <3>2 DEF folded
      <4>4. bound'.roles = bound.roles \cap Says(j).roles
        <5>1. CASE CommonRole(c)
          <6>1. PICK r \in Roles : \A k \in LocatedOf(c) : r \in Says(k).roles
            BY <5>1 DEF CommonRole, Says
          <6>2. r \in bound.roles /\ r \in Says(j).roles
            BY <4>2, <4>3, <6>1
          <6> QED
            BY <4>1, <6>2 DEF IntersectRoles
        <5>2. CASE SameRolesStated(c)
          <6>1. \A k \in folded : Says(k).roles = Says(j).roles
            BY <4>3, <5>2 DEF SameRolesStated, Says
          <6>2. Says(j).roles \subseteq Roles
            BY <3>4 DEF Entitlement
          <6>3. bound.roles = Says(j).roles
            BY <3>5, <4>2, <6>1, <6>2
          <6> QED
            BY <4>1, <6>3 DEF IntersectRoles
        <5> QED
          BY <3>9, <5>1, <5>2
      <4> QED
        BY <4>2, <4>4, <3>4 DEF Entitlement
    <3>10. \A k : Says(k)' = Says(k)
      BY ViewStays, <3>1 DEF Says
    <3> QED
      BY <3>1, <3>3, <3>7, <3>8, <3>9, <3>10, ViewStays DEF BoundIsMeet, Says
  <2>3. ASSUME current' = None PROVE BoundIsMeet'
    BY <2>3 DEF BoundIsMeet
  <2>4. ASSUME UNCHANGED <<current, left, bound>> PROVE BoundIsMeet'
    BY <2>4, ViewStays DEF BoundIsMeet
  <2> QED
    BY <2>1, <2>2, <2>3, <2>4
       DEF Next, ExamineChunk, ReportUntraceable, PassSingleSource, ContradictSingleSource,
           FailOnTimes, ReportIndeterminate, ReportExceeding, Judge, vars
<1> QED
  BY <1>1, <1>2, TypeCorrect, PTL DEF Spec

\* The finished bound grants at most what every source grants, where intersecting the
\* sources' sets can only tighten them.
LEMMA BoundGrantsAtMost ==
  ASSUME TypeOK, BoundIsMeet, current # None, left = {}, IntersectionAddsNobody(current),
         NEW p \in Principal, Entitled(scenario.rule, bound, p)
  PROVE  SourcesGrant(scenario, ChunkOf(current), p)
<1> DEFINE c == current
           Says(j) == SourceOf(c, j).entitlement
           rule == scenario.rule
<1>1. /\ c \in DOMAIN variant.chunks
      /\ bound \in Entitlement
      /\ rule \in Rule
      /\ \A j \in LocatedOf(c) : Says(j) \in Entitlement
  BY ViewTypes DEF TypeOK
<1>2. bound.state = "stated"
  BY DEF Entitled
<1>3. /\ LocatedOf(c) # {}
      /\ \A j \in LocatedOf(c) : Says(j).state = "stated"
      /\ bound.tenants = {t \in Tenants : \A j \in LocatedOf(c) : t \in Says(j).tenants}
      /\ bound.principals = {i \in PrincipalIds : \A j \in LocatedOf(c) : i \in Says(j).principals}
      /\ CommonRole(c) \/ SameRolesStated(c) =>
           bound.roles = {r \in Roles : \A j \in LocatedOf(c) : r \in Says(j).roles}
  BY <1>2 DEF BoundIsMeet
<1>4. ASSUME NEW j \in LocatedOf(c) PROVE Entitled(rule, Says(j), p)
  <2>1. /\ Says(j).state = "stated"
        /\ bound.tenants \subseteq Says(j).tenants
        /\ bound.principals \subseteq Says(j).principals
    BY <1>3, <1>4
  <2>2. rule.tenant = "member-or-unrestricted" /\ bound.tenants = {} => Says(j).tenants = {}
    <3>1. CASE CommonTenant(c)
      BY <1>3, <3>1 DEF CommonTenant
    <3>2. CASE SameTenantsStated(c)
      <4>1. \A k \in LocatedOf(c) : Says(k).tenants = Says(j).tenants
        BY <1>4, <3>2 DEF SameTenantsStated
      <4>2. Says(j).tenants \subseteq Tenants
        BY <1>1, <1>4 DEF Entitlement
      <4> QED
        BY <1>3, <4>1, <4>2
    <3> QED
      BY <3>1, <3>2 DEF IntersectionAddsNobody
  <2>3. \/ rule.role = "ignored"
        \/ bound.roles = Says(j).roles
        \/ bound.roles \subseteq Says(j).roles /\ rule.role # "subset"
    <3>1. CASE SameRolesStated(c)
      <4>1. \A k \in LocatedOf(c) : Says(k).roles = Says(j).roles
        BY <1>4, <3>1 DEF SameRolesStated
      <4>2. Says(j).roles \subseteq Roles
        BY <1>1, <1>4 DEF Entitlement
      <4>3. bound.roles = Says(j).roles
        BY <1>3, <1>4, <3>1, <4>1, <4>2
      <4> QED
        BY <4>3
    <3>2. CASE CommonRole(c)
      <4>1. bound.roles \subseteq Says(j).roles
        BY <1>3, <1>4, <3>2
      <4> QED
        BY <4>1, <3>1 DEF IntersectionAddsNobody
    <3> QED
      BY <3>1, <3>2 DEF IntersectionAddsNobody
  <2> HIDE DEF Says, rule
  <2> QED
    BY <1>1, <1>4, <2>1, <2>2, <2>3, SmallerSetsGrantLess DEF rule
<1>5. SourceEntitlements(scenario, ChunkOf(c)) = {Says(j) : j \in LocatedOf(c)}
  BY <1>1, ViewTypes
<1> HIDE DEF Says
<1> QED
  BY <1>3, <1>4, <1>5 DEF SourcesGrant, EntitledByAll

\* The finished bound grants at least what every source grants, where the sources differ on
\* one axis only, and not on the roles.
LEMMA BoundGrantsAtLeast ==
  ASSUME TypeOK, BoundIsMeet, current # None, left = {}, IntersectionLosesNobody(current),
         NEW p \in Principal, SourcesGrant(scenario, ChunkOf(current), p)
  PROVE  Entitled(scenario.rule, bound, p)
<1> DEFINE c == current
           L == LocatedOf(c)
           Says(j) == SourceOf(c, j).entitlement
           rule == scenario.rule
<1>1. /\ c \in DOMAIN variant.chunks
      /\ bound \in Entitlement
      /\ rule \in Rule
      /\ \A j \in L : Says(j) \in Entitlement
      /\ SourceEntitlements(scenario, ChunkOf(c)) = {Says(j) : j \in L}
  BY ViewTypes DEF TypeOK
<1>2. /\ L # {}
      /\ \A j \in L : Entitled(rule, Says(j), p)
  BY <1>1 DEF SourcesGrant, EntitledByAll
<1>3. \A j \in L : Says(j).state = "stated"
  BY <1>2 DEF Entitled
<1>4. /\ bound.state = "stated"
      /\ bound.tenants = {t \in Tenants : \A j \in L : t \in Says(j).tenants}
      /\ bound.principals = {i \in PrincipalIds : \A j \in L : i \in Says(j).principals}
      /\ bound.roles = {r \in Roles : \A j \in L : r \in Says(j).roles}
  BY <1>3 DEF BoundIsMeet, IntersectionLosesNobody
<1>5. \A j \in L : /\ Says(j).tenants \subseteq Tenants
                   /\ Says(j).roles \subseteq Roles
                   /\ Says(j).principals \subseteq PrincipalIds
  BY <1>1 DEF Entitlement
<1>6. \A j \in L : Says(j).roles = bound.roles
  BY <1>2, <1>4, <1>5 DEF IntersectionLosesNobody, SameRolesStated
<1> HIDE DEF Says, rule, L
<1>7. \A j \in L : RoleClause(rule.role, Says(j), p) => RoleClause(rule.role, bound, p)
  BY <1>6 DEF RoleClause
<1>8. PICK j \in L :
        /\ TenantClause(rule.tenant, Says(j), p) => TenantClause(rule.tenant, bound, p)
        /\ DirectClause(rule.direct, Says(j), p) => DirectClause(rule.direct, bound, p)
  <2>1. CASE SameTenantsStated(c)
    <3>1. \A j \in L : Says(j).tenants = bound.tenants
      BY <1>2, <1>4, <1>5, <2>1 DEF SameTenantsStated, Says, L
    <3>2. \E j \in L : DirectClause(rule.direct, Says(j), p) => DirectClause(rule.direct, bound, p)
      <4>1. CASE p.id \in bound.principals
        BY <1>2, <4>1 DEF DirectClause
      <4>2. CASE p.id \notin bound.principals
        <5>1. p.id \in PrincipalIds
          BY DEF Principal
        <5>2. PICK j \in L : p.id \notin Says(j).principals
          BY <1>4, <4>2, <5>1
        <5> QED
          BY <5>2 DEF DirectClause
      <4> QED
        BY <4>1, <4>2
    <3> QED
      BY <3>1, <3>2 DEF TenantClause
  <2>2. CASE SamePrincipalsStated(c)
    <3>1. \A j \in L : Says(j).principals = bound.principals
      BY <1>2, <1>4, <1>5, <2>2 DEF SamePrincipalsStated, Says, L
    <3>2. \E j \in L : TenantClause(rule.tenant, Says(j), p) => TenantClause(rule.tenant, bound, p)
      <4>1. CASE \A j \in L : p.tenant \in Says(j).tenants
        <5>1. p.tenant \in bound.tenants
          BY <1>2, <1>4, <1>5, <4>1
        <5> QED
          BY <1>2, <5>1 DEF TenantClause
      <4>2. CASE \E j \in L : p.tenant \notin Says(j).tenants
        <5>1. PICK j \in L : p.tenant \notin Says(j).tenants
          BY <4>2
        <5>2. Says(j).tenants = {} => bound.tenants = {}
          BY <1>4
        <5> QED
          BY <5>1, <5>2 DEF TenantClause
      <4> QED
        BY <4>1, <4>2
    <3> QED
      BY <3>1, <3>2 DEF DirectClause
  <2> QED
    BY <2>1, <2>2 DEF IntersectionLosesNobody
<1>9. Entitled(rule, bound, p)
  BY <1>2, <1>4, <1>7, <1>8, ClausewiseOrder
<1> QED
  BY <1>9 DEF rule

\* A step adds at most one finding, about a chunk that it finishes.
LEMMA OneFindingAStep ==
  ASSUME TypeOK, [Next]_vars, NEW f \in findings', f \notin findings
  PROVE  /\ f.chunk_id \in unexamined
         /\ unexamined' = unexamined \ {f.chunk_id}
         /\ findings' = findings \cup {f}
         /\ \/ /\ ReportUntraceable(f.chunk_id)
               /\ f.expected = None /\ f.cause = "undetermined"
               /\ untraceable' = untraceable + 1
            \/ /\ ContradictSingleSource(f.chunk_id)
               /\ f.expected \in Entitlement /\ f.cause \in {"undetermined", "drift", "propagation-fault"}
               /\ untraceable' = untraceable
            \/ /\ ReportIndeterminate /\ f.chunk_id = current /\ f.observed = TagOf(current)
               /\ f.expected \in Entitlement /\ f.cause = "indeterminate-source"
               /\ untraceable' = untraceable
            \/ /\ ReportExceeding /\ f.chunk_id = current /\ f.observed = TagOf(current)
               /\ f.expected \in Entitlement /\ f.cause = "exceeds-safe-bound"
               /\ untraceable' = untraceable
<1>1. ASSUME NEW c \in unexamined, ReportUntraceable(c), f.chunk_id = c
      PROVE  /\ f.expected = None /\ f.cause = "undetermined"
             /\ findings' = findings \cup {f}
  BY <1>1 DEF ReportUntraceable, Found
<1>2. ASSUME NEW c \in unexamined, ReportUntraceable(c) PROVE f.chunk_id = c
  BY <1>2 DEF ReportUntraceable, Found
<1>3. ASSUME NEW c \in unexamined, ContradictSingleSource(c)
      PROVE  /\ f.chunk_id = c
             /\ f.expected \in Entitlement
             /\ f.cause \in {"undetermined", "drift", "propagation-fault"}
             /\ findings' = findings \cup {f}
  <2>1. PICK j \in LocatedOf(c) :
          Found(c, "contradicted", CauseFromTimestamps(ChunkOf(c), SourceOf(c, j)),
                SourceOf(c, j).entitlement)
    BY <1>3 DEF ContradictSingleSource
  <2>2. SourceOf(c, j).entitlement \in Entitlement
    BY ViewTypes DEF TypeOK
  <2>3. CauseFromTimestamps(ChunkOf(c), SourceOf(c, j)) \in {"undetermined", "drift", "propagation-fault"}
    BY DEF CauseFromTimestamps
  <2> QED
    BY <2>1, <2>2, <2>3 DEF Found
<1>4. ASSUME NEW verdict, NEW cause, current # None, Judge(verdict, cause)
      PROVE  /\ f.chunk_id = current /\ f.observed = TagOf(current)
             /\ f.expected \in Entitlement /\ f.cause = cause
             /\ findings' = findings \cup {f}
             /\ current \in unexamined
             /\ unexamined' = unexamined \ {current}
             /\ untraceable' = untraceable
  BY <1>4 DEF Judge, Found, Finished, TypeOK
<1>5. ASSUME UNCHANGED findings PROVE FALSE
  BY <1>5
<1>6. CASE \E c \in unexamined : ReportUntraceable(c)
  BY <1>1, <1>2, <1>6 DEF ReportUntraceable, Finished
<1>7. CASE \E c \in unexamined : ContradictSingleSource(c)
  BY <1>3, <1>7 DEF ContradictSingleSource, Finished
<1>8. CASE ReportIndeterminate
  BY <1>4, <1>8 DEF ReportIndeterminate
<1>9. CASE ReportExceeding
  BY <1>4, <1>9 DEF ReportExceeding
<1> QED
  BY <1>5, <1>6, <1>7, <1>8, <1>9
     DEF Next, ExamineChunk, PassSingleSource, FailOnTimes, StartBound, IntersectNext, vars

\* Without a new finding the findings and their count stay.
LEMMA NoFindingAStep ==
  ASSUME TypeOK, [Next]_vars, findings' \subseteq findings, \A f \in findings : f.chunk_id \notin unexamined
  PROVE  findings' = findings /\ untraceable' = untraceable /\ unexamined' \subseteq unexamined
<1>1. ASSUME NEW c \in unexamined, NEW verdict, NEW cause, NEW expected,
             Found(c, verdict, cause, expected)
      PROVE  FALSE
  BY <1>1 DEF Found
<1> QED
  BY <1>1
     DEF Next, ExamineChunk, ReportUntraceable, PassSingleSource, ContradictSingleSource,
         FailOnTimes, StartBound, IntersectNext, ReportIndeterminate, ReportExceeding, Judge,
         Finished, vars, TypeOK

\* No chunk is reported twice or before it is done with, and chunks_untraceable counts
\* exactly the chunks without a document, for any number of chunks.
THEOREM AccountedCorrect == Spec => []AccountedOnce
<1> DEFINE Unlocated(F) == {f \in F : f.expected = None}
           Inv == AccountedOnce /\ IsFiniteSet(findings)
<1>1. Init => Inv
  <2> SUFFICES ASSUME Init PROVE Inv
    OBVIOUS
  <2>1. findings = {} /\ untraceable = 0 /\ {f \in findings : f.expected = None} = {}
    BY DEF Init
  <2> QED
    BY <2>1, FS_EmptySet DEF AccountedOnce
<1>2. TypeOK /\ Inv /\ [Next]_vars => Inv'
  <2> SUFFICES ASSUME TypeOK, Inv, [Next]_vars PROVE Inv'
    OBVIOUS
  <2>0. variant' = variant
    BY GivenStays
  <2>1. ASSUME NEW f \in findings', f \notin findings PROVE Inv'
    <3>1. /\ f.chunk_id \in unexamined
          /\ unexamined' = unexamined \ {f.chunk_id}
          /\ findings' = findings \cup {f}
      BY <2>1, OneFindingAStep
    <3>2. IsFiniteSet(findings')
      BY <3>1, FS_AddElement
    <3>3. /\ \A g \in findings' : g.chunk_id \in DOMAIN variant'.chunks \ unexamined'
          /\ \A g, h \in findings' : g.chunk_id = h.chunk_id => g = h
      BY <2>0, <3>1 DEF AccountedOnce, TypeOK
    <3>4. IsFiniteSet(Unlocated(findings))
      BY FS_Subset
    <3>5. CASE f.expected = None
      <4>1. untraceable' = untraceable + 1
        BY <2>1, <3>5, NoneAssumption, OneFindingAStep
      <4>2. Unlocated(findings') = Unlocated(findings) \cup {f} /\ f \notin Unlocated(findings)
        BY <2>1, <3>1, <3>5
      <4>3. Cardinality(Unlocated(findings')) = Cardinality(Unlocated(findings)) + 1
        BY <3>4, <4>2, FS_AddElement
      <4> QED
        BY <3>2, <3>3, <4>1, <4>3 DEF AccountedOnce
    <3>6. CASE f.expected # None
      <4>1. untraceable' = untraceable
        BY <2>1, <3>6, OneFindingAStep
      <4>2. Unlocated(findings') = Unlocated(findings)
        BY <3>1, <3>6
      <4> QED
        BY <3>2, <3>3, <4>1, <4>2 DEF AccountedOnce
    <3> QED
      BY <3>5, <3>6
  <2>2. CASE findings' \subseteq findings
    <3>1. findings' = findings /\ untraceable' = untraceable /\ unexamined' \subseteq unexamined
      BY <2>2, NoFindingAStep DEF AccountedOnce
    <3> QED
      BY <2>0, <3>1 DEF AccountedOnce
  <2> QED
    BY <2>1, <2>2
<1>3. Inv => AccountedOnce
  OBVIOUS
<1> QED
  BY <1>1, <1>2, <1>3, TypeCorrect, PTL DEF Spec

\* The tag says what the only source located for the chunk says.
SaysTheSame(c) ==
  \E j \in LocatedOf(c) : LocatedOf(c) = {j} /\ TagOf(c) = SourceOf(c, j).entitlement

\* Of the chunks that are done with, exactly those are passed over in silence; a chunk whose
\* bound is being computed is of several sources.
SilenceIsExact ==
  /\ current # None => \A j : LocatedOf(current) # {j}
  /\ \A c \in DOMAIN variant.chunks \ unexamined : FoundFor(c) = {} <=> SaysTheSame(c)

\* `_same` is equality of the records.
LEMMA SameIsEquality ==
  ASSUME NEW a \in Entitlement, NEW b \in Entitlement
  PROVE  Same(a, b) <=> a = b
  BY DEF Same, Entitlement

\* What is reported does not say what its one source says.
LEMMA ReportedDiffers ==
  ASSUME TypeOK, SilenceIsExact, [Next]_vars, NEW f \in findings', f \notin findings
  PROVE  ~SaysTheSame(f.chunk_id)
<1>1. CASE ReportUntraceable(f.chunk_id)
  BY <1>1 DEF ReportUntraceable, SaysTheSame
<1>2. CASE ContradictSingleSource(f.chunk_id)
  <2>1. f.chunk_id \in DOMAIN variant.chunks
    BY OneFindingAStep DEF TypeOK
  <2>2. PICK j \in LocatedOf(f.chunk_id) :
          /\ LocatedOf(f.chunk_id) = {j}
          /\ ~Same(TagOf(f.chunk_id), SourceOf(f.chunk_id, j).entitlement)
    BY <1>2 DEF ContradictSingleSource
  <2>3. TagOf(f.chunk_id) # SourceOf(f.chunk_id, j).entitlement
    BY <2>1, <2>2, ViewTypes, SameIsEquality
  <2> QED
    BY <2>2, <2>3 DEF SaysTheSame
<1>3. CASE (ReportIndeterminate \/ ReportExceeding) /\ f.chunk_id = current
  BY <1>3 DEF ReportIndeterminate, ReportExceeding, SilenceIsExact, SaysTheSame
<1> QED
  BY <1>1, <1>2, <1>3, OneFindingAStep

LEMMA SilenceExactCorrect == Spec => []SilenceIsExact
<1>1. Init => SilenceIsExact
  BY DEF Init, SilenceIsExact
<1>2. TypeOK /\ AccountedOnce /\ SilenceIsExact /\ [Next]_vars => SilenceIsExact'
  <2> SUFFICES ASSUME TypeOK, AccountedOnce, SilenceIsExact, [Next]_vars
               PROVE  SilenceIsExact'
    OBVIOUS
  <2>1. /\ variant' = variant
        /\ \A c : LocatedOf(c)' = LocatedOf(c)
        /\ \A c : SaysTheSame(c)' <=> SaysTheSame(c)
    BY GivenStays, ViewStays DEF SaysTheSame
  <2>2. ASSUME current' # None PROVE \A j : LocatedOf(current') # {j}
    <3>1. CASE current' = current
      BY <2>2, <3>1 DEF SilenceIsExact
    <3>2. ASSUME NEW c \in unexamined, StartBound(c) PROVE \A j : LocatedOf(current') # {j}
      BY <3>2 DEF StartBound
    <3> QED
      BY <2>2, <3>1, <3>2
         DEF Next, ExamineChunk, ReportUntraceable, PassSingleSource, ContradictSingleSource,
             FailOnTimes, IntersectNext, ReportIndeterminate, ReportExceeding, Judge, vars
  <2>3. ASSUME NEW c \in DOMAIN variant.chunks \ unexamined'
        PROVE  FoundFor(c)' = {} <=> SaysTheSame(c)
    <3>1. ASSUME NEW f \in findings', f \notin findings
          PROVE  FoundFor(c)' = {} <=> SaysTheSame(c)
      <4>1. unexamined' = unexamined \ {f.chunk_id} /\ findings' = findings \cup {f}
        BY <3>1, OneFindingAStep
      <4>2. CASE c = f.chunk_id
        <5>1. f \in FoundFor(c)'
          BY <4>2 DEF FoundFor
        <5> QED
          BY <3>1, <4>2, <5>1, ReportedDiffers
      <4>3. CASE c # f.chunk_id
        <5>1. FoundFor(c)' = FoundFor(c)
          BY <4>1, <4>3 DEF FoundFor
        <5> QED
          BY <2>3, <4>1, <4>3, <5>1 DEF SilenceIsExact
      <4> QED
        BY <4>2, <4>3
    <3>2. CASE findings' \subseteq findings
      <4>1. findings' = findings
        BY <3>2, NoFindingAStep DEF AccountedOnce
      <4>2. FoundFor(c)' = FoundFor(c)
        BY <4>1 DEF FoundFor
      <4>3. CASE c \notin unexamined
        BY <4>2, <4>3, <2>3 DEF SilenceIsExact
      <4>4. CASE c \in unexamined
        <5>1. ASSUME NEW v, NEW x, NEW e, NEW k \in unexamined, Found(k, v, x, e) PROVE FALSE
          <6>1. [chunk_id |-> k, verdict |-> v, cause |-> x, observed |-> TagOf(k), expected |-> e]
                  \in findings
            BY <4>1, <5>1 DEF Found
          <6> QED
            BY <6>1 DEF AccountedOnce
        <5>2. PassSingleSource(c)
          BY <2>3, <4>4, <5>1
             DEF TypeOK, Next, ExamineChunk, ReportUntraceable, PassSingleSource,
                 ContradictSingleSource, FailOnTimes, StartBound, IntersectNext,
                 ReportIndeterminate, ReportExceeding, Judge, Finished, vars
        <5>3. SaysTheSame(c)
          <6>1. PICK j \in LocatedOf(c) :
                  LocatedOf(c) = {j} /\ Same(TagOf(c), SourceOf(c, j).entitlement)
            BY <5>2 DEF PassSingleSource
          <6> QED
            BY <6>1, ViewTypes, SameIsEquality DEF SaysTheSame
        <5>4. FoundFor(c) = {}
          BY <4>4 DEF FoundFor, AccountedOnce
        <5> QED
          BY <4>2, <5>3, <5>4
      <4> QED
        BY <4>3, <4>4
    <3> QED
      BY <3>1, <3>2
  <2> QED
    BY <2>1, <2>2, <2>3 DEF SilenceIsExact
<1> QED
  BY <1>1, <1>2, TypeCorrect, AccountedCorrect, PTL DEF Spec

\* A tag that says what its one source says grants what the sources grant.
LEMMA SamenessIsAgreement ==
  ASSUME TypeOK, NEW c \in DOMAIN variant.chunks, SaysTheSame(c)
  PROVE  /\ LocatedOf(c) # {}
         /\ \A p : Entitled(scenario.rule, TagOf(c), p) <=> SourcesGrant(scenario, ChunkOf(c), p)
<1>1. PICK j \in LocatedOf(c) : LocatedOf(c) = {j} /\ TagOf(c) = SourceOf(c, j).entitlement
  BY DEF SaysTheSame
<1>2. SourceEntitlements(scenario, ChunkOf(c)) = {TagOf(c)}
  BY <1>1, ViewTypes
<1> QED
  BY <1>1, <1>2 DEF SourcesGrant, EntitledByAll

\* Silence is agreement, for every rule of the closed set and every principal, whether the
\* scan runs under it or not.
THEOREM SilenceCorrect == Spec => []SilenceIsAgreement
<1>1. TypeOK /\ SilenceIsExact => SilenceIsAgreement
  BY SamenessIsAgreement DEF SilenceIsExact, SilenceIsAgreement
<1> QED
  BY <1>1, TypeCorrect, SilenceExactCorrect, PTL

\* "Discloses nothing beyond what all of them permit", for any number of sources, wherever
\* intersecting them adds nobody.
THEOREM IndeterminateCorrect == Spec => []IndeterminateDisclosesNothing
<1>1. Init => IndeterminateDisclosesNothing
  BY DEF Init, IndeterminateDisclosesNothing
<1>2. TypeOK /\ BoundIsMeet /\ IndeterminateDisclosesNothing /\ [Next]_vars
        => IndeterminateDisclosesNothing'
  <2> SUFFICES ASSUME TypeOK, BoundIsMeet, IndeterminateDisclosesNothing, [Next]_vars,
                      NEW f \in findings', f.cause = "indeterminate-source",
                      IntersectionAddsNobody(f.chunk_id)',
                      NEW p \in PrincipalsUnderTest', Entitled(scenario.rule, f.observed, p)'
               PROVE  SourcesGrant(scenario, ChunkOf(f.chunk_id), p)'
    BY DEF IndeterminateDisclosesNothing
  <2>1. /\ scenario' = scenario
        /\ p \in PrincipalsUnderTest
        /\ Entitled(scenario.rule, f.observed, p)
        /\ IntersectionAddsNobody(f.chunk_id)
    BY GivenStays, ViewStays
  <2>2. SourcesGrant(scenario, ChunkOf(f.chunk_id), p)
    <3>1. CASE f \in findings
      BY <2>1, <3>1 DEF IndeterminateDisclosesNothing
    <3>2. CASE f \notin findings
      <4>1. ReportIndeterminate /\ f.chunk_id = current /\ f.observed = TagOf(current)
        BY <3>2, OneFindingAStep
      <4>2. /\ current # None /\ left = {}
            /\ Entitled(scenario.rule, bound, p)
        BY <2>1, <4>1 DEF ReportIndeterminate, WithinBound
      <4>3. p \in Principal
        BY <2>1, <4>2, ViewTypes DEF TypeOK
      <4> QED
        BY <2>1, <4>1, <4>2, <4>3, BoundGrantsAtMost
    <3> QED
      BY <3>1, <3>2
  <2> QED
    BY <2>1, <2>2, ViewStays
<1> QED
  BY <1>1, <1>2, TypeCorrect, BoundCorrect, PTL DEF Spec

\* "Grants beyond what every source permits", for any number of sources, wherever
\* intersecting them loses nobody.
THEOREM ExceedingCorrect == Spec => []ExceedingIsReal
<1>1. Init => ExceedingIsReal
  BY DEF Init, ExceedingIsReal
<1>2. TypeOK /\ BoundIsMeet /\ ExceedingIsReal /\ [Next]_vars => ExceedingIsReal'
  <2> SUFFICES ASSUME TypeOK, BoundIsMeet, ExceedingIsReal, [Next]_vars,
                      NEW f \in findings', f.cause = "exceeds-safe-bound",
                      IntersectionLosesNobody(f.chunk_id)'
               PROVE  \E p \in PrincipalsUnderTest' :
                        /\ Entitled(scenario.rule, f.observed, p)'
                        /\ ~SourcesGrant(scenario, ChunkOf(f.chunk_id), p)'
    BY DEF ExceedingIsReal
  <2>1. scenario' = scenario /\ IntersectionLosesNobody(f.chunk_id)
    BY GivenStays, ViewStays
  <2>2. \E p \in PrincipalsUnderTest :
          /\ Entitled(scenario.rule, f.observed, p)
          /\ ~SourcesGrant(scenario, ChunkOf(f.chunk_id), p)
    <3>1. CASE f \in findings
      BY <2>1, <3>1 DEF ExceedingIsReal
    <3>2. CASE f \notin findings
      <4>1. ReportExceeding /\ f.chunk_id = current /\ f.observed = TagOf(current)
        BY <3>2, OneFindingAStep
      <4>2. current # None /\ left = {}
        BY <4>1 DEF ReportExceeding
      <4>3. PICK p \in PrincipalsUnderTest :
              Entitled(scenario.rule, TagOf(current), p) /\ ~Entitled(scenario.rule, bound, p)
        BY <4>1 DEF ReportExceeding, WithinBound
      <4>4. p \in Principal
        BY <4>2, <4>3, ViewTypes DEF TypeOK
      <4>5. ~SourcesGrant(scenario, ChunkOf(current), p)
        BY <2>1, <4>1, <4>2, <4>3, <4>4, BoundGrantsAtLeast
      <4> QED
        BY <4>1, <4>3, <4>5
    <3> QED
      BY <3>1, <3>2
  <2> QED
    BY <2>1, <2>2, ViewStays
<1> QED
  BY <1>1, <1>2, TypeCorrect, BoundCorrect, PTL DEF Spec

----------------------------------------------------------------------------
(* What is found, chunk by chunk *)

\* i comes right before j in S.
Adjacent(S, i, j) ==
  /\ i \in S /\ j \in S /\ i < j
  /\ \A k \in S : k <= i \/ j <= k

\* What safe_bound makes of the sources in S of c, one bound after the other: the first is
\* what the first source says, each later one the one before intersected with the next source.
IsBounding(c, S, b) ==
  /\ b \in [S -> Entitlement]
  /\ \A j \in S : (\A k \in S : j <= k) => b[j] = SourceOf(c, j).entitlement
  /\ \A i, j \in S : Adjacent(S, i, j) => b[j] = Intersect(b[i], SourceOf(c, j).entitlement)

\* The bound of the last source is the one that counts.
IsSafeBound(c, S, e) ==
  \E b : /\ IsBounding(c, S, b)
         /\ \E j \in S : (\A k \in S : k <= j) /\ e = b[j]

\* The verdict on a chunk, from nothing but what was given: the finding f is the one that its
\* tag, its sources and the identities under test call for.
IsVerdict(f) ==
  LET c == f.chunk_id
      Reports(verdict, cause) == f.verdict = verdict /\ f.cause = cause
  IN  /\ f.observed = TagOf(c)
      /\ \/ /\ LocatedOf(c) = {}
            /\ Reports("unverifiable", "undetermined") /\ f.expected = None
         \/ \E j \in LocatedOf(c) :
              /\ LocatedOf(c) = {j}
              /\ f.expected = SourceOf(c, j).entitlement /\ f.expected # TagOf(c)
              /\ Reports("contradicted", CauseFromTimestamps(ChunkOf(c), SourceOf(c, j)))
         \/ /\ \A j : LocatedOf(c) # {j}
            /\ IsSafeBound(c, LocatedOf(c), f.expected)
            /\ IF WithinBound(scenario.rule, TagOf(c), f.expected, PrincipalsUnderTest)
               THEN Reports("unverifiable", "indeterminate-source")
               ELSE Reports("contradicted", "exceeds-safe-bound")

LEMMA LeastNumber ==
  ASSUME NEW S, S \subseteq Nat, S # {}
  PROVE  \E m \in S : \A k \in S : m <= k
<1>1. PICK m \in S : \A k \in S : <<k, m>> \notin OpToRel(<, Nat)
  BY NatLessThanWellFounded, WFMin
<1>2. \A k \in S : ~(k < m)
  BY <1>1 DEF OpToRel
<1> QED
  BY <1>2

\* Whatever is not first has another right before it.
LEMMA OneBefore ==
  ASSUME NEW S, S \subseteq Nat, NEW j \in S, NEW n \in S, n < j
  PROVE  \E i \in S : Adjacent(S, i, j)
<1> DEFINE Gaps == {j - k : k \in {l \in S : l < j}}
<1>1. Gaps \subseteq Nat /\ j - n \in Gaps
  OBVIOUS
<1>2. PICK g \in Gaps : \A h \in Gaps : g <= h
  BY <1>1, LeastNumber
<1>3. PICK i \in S : i < j /\ g = j - i
  OBVIOUS
<1>4. \A k \in S : k < j => j - i <= j - k
  BY <1>2, <1>3
<1>5. ASSUME NEW k \in S, k < j PROVE k <= i
  <2>1. i \in Nat /\ j \in Nat /\ k \in Nat
    OBVIOUS
  <2> QED
    BY <1>4, <1>5, <2>1
<1>6. \A k \in S : k <= i \/ j <= k
  <2>1. \A k \in S : k \in Nat /\ j \in Nat
    OBVIOUS
  <2> QED
    BY <1>5, <2>1
<1> QED
  BY <1>3, <1>6 DEF Adjacent

\* There is one way to compute them: two computations that differed would differ first at
\* some source, and it is neither the first one nor one after another.
LEMMA BoundingUnique ==
  ASSUME NEW c, NEW S, S \subseteq Nat, NEW a, IsBounding(c, S, a), NEW b, IsBounding(c, S, b)
  PROVE  a = b
<1> DEFINE Differ == {j \in S : a[j] # b[j]}
<1>1. a \in [S -> Entitlement] /\ b \in [S -> Entitlement]
  BY DEF IsBounding
<1>2. ASSUME NEW n \in Differ PROVE FALSE
  <2>1. PICK m \in Differ : \A k \in Differ : m <= k
    BY LeastNumber
  <2>2. CASE \A k \in S : m <= k
    BY <2>1, <2>2 DEF IsBounding
  <2>3. CASE \E k \in S : k < m
    <3>1. PICK i \in S : Adjacent(S, i, m)
      BY <2>1, <2>3, OneBefore
    <3>2. i \notin Differ
      BY <2>1, <3>1 DEF Adjacent
    <3>3. /\ a[m] = Intersect(a[i], SourceOf(c, m).entitlement)
          /\ b[m] = Intersect(b[i], SourceOf(c, m).entitlement)
      BY <2>1, <3>1 DEF IsBounding
    <3> QED
      BY <2>1, <3>1, <3>2, <3>3
  <2> QED
    BY <2>1, <2>2, <2>3
<1>3. \A j \in S : a[j] = b[j]
  BY <1>2
<1>4. a = [j \in S |-> a[j]] /\ b = [j \in S |-> b[j]]
  BY <1>1
<1> QED
  BY <1>3, <1>4, Zenon

LEMMA SafeBoundUnique ==
  ASSUME NEW c, NEW S, S \subseteq Nat, NEW d, IsSafeBound(c, S, d), NEW e, IsSafeBound(c, S, e)
  PROVE  d = e
<1>1. PICK a : IsBounding(c, S, a) /\ \E i \in S : (\A k \in S : k <= i) /\ d = a[i]
  BY DEF IsSafeBound
<1>2. PICK b : IsBounding(c, S, b) /\ \E i \in S : (\A k \in S : k <= i) /\ e = b[i]
  BY DEF IsSafeBound
<1>3. a = b
  BY <1>1, <1>2, BoundingUnique
<1>4. PICK i \in S : (\A k \in S : k <= i) /\ d = a[i]
  BY <1>1
<1>5. PICK j \in S : (\A k \in S : k <= j) /\ e = b[j]
  BY <1>2
<1>6. i = j
  <2>1. i <= j /\ j <= i /\ i \in Nat /\ j \in Nat
    BY <1>4, <1>5
  <2> QED
    BY <2>1
<1> QED
  BY <1>3, <1>4, <1>5, <1>6

\* So a chunk calls for one finding at most.
LEMMA VerdictUnique ==
  ASSUME TypeOK, NEW f \in PropagationFinding, NEW g \in PropagationFinding,
         f.chunk_id = g.chunk_id, f.chunk_id \in DOMAIN variant.chunks, IsVerdict(f), IsVerdict(g)
  PROVE  f = g
<1> DEFINE c == f.chunk_id
<1>1. LocatedOf(c) \subseteq Nat
  BY ViewTypes
<1>2. f.observed = g.observed
  BY DEF IsVerdict
<1>3. f.expected = g.expected /\ f.verdict = g.verdict /\ f.cause = g.cause
  <2>1. CASE LocatedOf(c) = {}
    <3>1. ~\E e : IsSafeBound(c, LocatedOf(c), e)
      BY <2>1 DEF IsSafeBound
    <3> QED
      BY <2>1, <3>1 DEF IsVerdict
  <2>2. CASE \E j : LocatedOf(c) = {j}
    BY <2>2 DEF IsVerdict
  <2>3. CASE LocatedOf(c) # {} /\ \A j : LocatedOf(c) # {j}
    <3>1. IsSafeBound(c, LocatedOf(c), f.expected) /\ IsSafeBound(c, LocatedOf(c), g.expected)
      BY <2>3 DEF IsVerdict
    <3>2. f.expected = g.expected
      BY <1>1, <3>1, SafeBoundUnique
    <3> QED
      BY <2>3, <3>2 DEF IsVerdict
  <2> QED
    BY <2>1, <2>2, <2>3
<1> QED
  BY <1>2, <1>3 DEF PropagationFinding

\* `safe_bound` in the middle: the sources folded come before those left, and the accumulator
\* is the safe bound of the former.
BoundIsSafe ==
  current # None =>
    LET folded == LocatedOf(current) \ left
    IN  /\ \A i \in folded, j \in left : i < j
        /\ IsSafeBound(current, folded, bound)

LEMMA BoundSafeCorrect == Spec => []BoundIsSafe
<1>1. Init => BoundIsSafe
  BY DEF Init, BoundIsSafe
<1>2. TypeOK /\ BoundIsSafe /\ [Next]_vars => BoundIsSafe'
  <2> SUFFICES ASSUME TypeOK, BoundIsSafe, [Next]_vars PROVE BoundIsSafe'
    OBVIOUS
  <2>0. \A c, S, e : IsSafeBound(c, S, e)' <=> IsSafeBound(c, S, e)
    <3>1. \A c, j : SourceOf(c, j)' = SourceOf(c, j)
      BY ViewStays
    <3> QED
      BY <3>1 DEF IsSafeBound, IsBounding
  <2>1. ASSUME NEW c \in unexamined, StartBound(c) PROVE BoundIsSafe'
    <3>1. PICK first \in LocatedOf(c) :
            /\ \A j \in LocatedOf(c) : first <= j
            /\ left' = LocatedOf(c) \ {first} /\ bound' = SourceOf(c, first).entitlement
      BY <2>1 DEF StartBound
    <3>2. current' = c /\ c \in DOMAIN variant.chunks
      BY <2>1 DEF StartBound, TypeOK
    <3>3. LocatedOf(c) \subseteq Nat /\ SourceOf(c, first).entitlement \in Entitlement
      BY <3>2, ViewTypes
    <3>4. LocatedOf(c)' = LocatedOf(c) /\ LocatedOf(c) \ left' = {first}
      BY <3>1, ViewStays
    <3>5. (LocatedOf(current) \ left)' = {first}
      BY <3>2, <3>4 DEF LocatedOf, ChunkOf
    <3>6. \A i \in {first}, j \in left' : i < j
      BY <3>1, <3>3
    <3>7. IsSafeBound(c, {first}, bound')
      <4> DEFINE b == [j \in {first} |-> SourceOf(c, first).entitlement]
      <4>1. ~\E i, j \in {first} : Adjacent({first}, i, j)
        BY <3>3 DEF Adjacent
      <4>2. IsBounding(c, {first}, b)
        BY <3>3, <4>1 DEF IsBounding
      <4>3. b[first] = bound' /\ \A k \in {first} : k <= first
        BY <3>1, <3>3
      <4> QED
        BY <4>2, <4>3 DEF IsSafeBound
    <3> QED
      BY <2>0, <3>2, <3>5, <3>6, <3>7 DEF BoundIsSafe
  <2>2. ASSUME IntersectNext PROVE BoundIsSafe'
    <3> DEFINE folded == LocatedOf(current) \ left
    <3>1. current # None /\ current' = current /\ current \in DOMAIN variant.chunks
      BY <2>2 DEF IntersectNext, TypeOK
    <3>2. PICK j \in left :
            /\ \A k \in left : j <= k
            /\ bound' = Intersect(bound, SourceOf(current, j).entitlement)
            /\ left' = left \ {j}
      BY <2>2 DEF IntersectNext
    <3>3. /\ left \subseteq LocatedOf(current) /\ LocatedOf(current) \subseteq Nat
          /\ bound' \in Entitlement
          /\ LocatedOf(current)' = LocatedOf(current)
      BY <3>1, <3>2, ViewTypes, ViewStays, IntersectType DEF TypeOK
    <3>4. (LocatedOf(current) \ left)' = folded \cup {j}
      BY <3>1, <3>2, <3>3
    <3>5. \A i \in folded, k \in left : i < k
      BY <3>1 DEF BoundIsSafe
    <3>6. PICK b : /\ IsBounding(current, folded, b)
                   /\ \E i \in folded : (\A k \in folded : k <= i) /\ bound = b[i]
      BY <3>1 DEF BoundIsSafe, IsSafeBound
    <3> HIDE DEF folded
    <3>7. PICK last \in folded : (\A k \in folded : k <= last) /\ bound = b[last]
      BY <3>6
    <3> DEFINE more == folded \cup {j}
               d == [k \in more |-> IF k = j THEN bound' ELSE b[k]]
    <3>8. folded \subseteq Nat /\ j \in Nat /\ \A k \in folded : k < j
      BY <3>2, <3>3, <3>5 DEF folded
    <3>9. IsBounding(current, more, d)
      <4>1. d \in [more -> Entitlement]
        BY <3>3, <3>6 DEF IsBounding
      <4>2. ASSUME NEW i \in more, \A k \in more : i <= k
            PROVE  d[i] = SourceOf(current, i).entitlement
        <5>1. i \in folded /\ i # j
          BY <3>8, <3>7, <4>2
        <5> QED
          BY <3>6, <4>2, <5>1 DEF IsBounding
      <4>3. ASSUME NEW i \in more, NEW k \in more, Adjacent(more, i, k)
            PROVE  d[k] = Intersect(d[i], SourceOf(current, k).entitlement)
        <5>1. i \in folded /\ i < k
          BY <3>8, <4>3 DEF Adjacent
        <5>2. i # j /\ d[i] = b[i]
          BY <3>8, <5>1
        <5>3. CASE k = j
          <6>1. i = last
            BY <3>8, <3>7, <4>3, <5>1, <5>3 DEF Adjacent
          <6> QED
            BY <3>2, <3>7, <5>2, <5>3, <6>1
        <5>4. CASE k # j
          <6>1. k \in folded /\ Adjacent(folded, i, k)
            BY <4>3, <5>1, <5>4 DEF Adjacent
          <6> QED
            BY <3>6, <5>1, <5>2, <5>4, <6>1 DEF IsBounding
        <5> QED
          BY <5>3, <5>4
      <4> QED
        BY <4>1, <4>2, <4>3 DEF IsBounding
    <3>10. IsSafeBound(current, more, bound')
      <4>1. j \in more /\ d[j] = bound' /\ \A k \in more : k <= j
        BY <3>8
      <4> QED
        BY <3>9, <4>1 DEF IsSafeBound
    <3>11. \A i \in more, k \in left' : i < k
      BY <3>2, <3>3, <3>5, <3>8
    <3> QED
      BY <2>0, <3>1, <3>4, <3>10, <3>11 DEF BoundIsSafe
  <2>3. CASE current' = current /\ left' = left /\ bound' = bound
    BY <2>0, <2>3, ViewStays DEF BoundIsSafe
  <2>4. CASE current' = None
    BY <2>4 DEF BoundIsSafe
  <2> QED
    BY <2>1, <2>2, <2>3, <2>4
       DEF Next, vars, ExamineChunk, ReportUntraceable, PassSingleSource, ContradictSingleSource,
           FailOnTimes, ReportIndeterminate, ReportExceeding, Judge
<1> QED
  BY <1>1, <1>2, TypeCorrect, PTL DEF Spec

\* Of the chunks that are done with, what was found is the verdict on each and nothing else,
\* in whatever order the dict held them: no finding depends on another chunk.
VerdictsOn(done) == {f \in PropagationFinding : f.chunk_id \in done /\ IsVerdict(f)}

FindingsAreVerdicts == findings = VerdictsOn(DOMAIN variant.chunks \ unexamined)

AllVerdicts == \A f \in findings : IsVerdict(f)

LEMMA AllVerdictsCorrect == Spec => []AllVerdicts
<1>1. Init => AllVerdicts
  BY DEF Init, AllVerdicts
<1>2. TypeOK /\ SilenceIsExact /\ BoundIsSafe /\ AllVerdicts /\ [Next]_vars => AllVerdicts'
  <2> SUFFICES ASSUME TypeOK, SilenceIsExact, BoundIsSafe, AllVerdicts, [Next]_vars,
                      NEW f \in findings'
               PROVE  IsVerdict(f)'
    BY DEF AllVerdicts
  <2>0. IsVerdict(f)' <=> IsVerdict(f)
    <3>1. /\ scenario' = scenario
          /\ \A c, j : SourceOf(c, j)' = SourceOf(c, j)
          /\ \A c : /\ ChunkOf(c)' = ChunkOf(c) /\ TagOf(c)' = TagOf(c)
                    /\ LocatedOf(c)' = LocatedOf(c)
          /\ PrincipalsUnderTest' = PrincipalsUnderTest
      BY GivenStays, ViewStays
    <3>2. \A c, S, e : IsSafeBound(c, S, e)' <=> IsSafeBound(c, S, e)
      BY <3>1 DEF IsSafeBound, IsBounding
    <3> QED
      BY <3>1, <3>2 DEF IsVerdict
  <2>1. CASE f \in findings
    BY <2>0, <2>1 DEF AllVerdicts
  <2>2. CASE f \notin findings
    <3> DEFINE c == f.chunk_id
    <3>1. c \in DOMAIN variant.chunks /\ findings' = findings \cup {f}
      BY <2>2, OneFindingAStep DEF TypeOK
    <3>2. CASE ReportUntraceable(c)
      <4>1. f = [chunk_id |-> c, verdict |-> "unverifiable", cause |-> "undetermined",
                 observed |-> TagOf(c), expected |-> None]
        BY <2>2, <3>2 DEF ReportUntraceable, Found
      <4> HIDE DEF c
      <4>2. /\ f.observed = TagOf(c) /\ f.expected = None
            /\ f.verdict = "unverifiable" /\ f.cause = "undetermined"
        BY <4>1
      <4> QED
        BY <2>0, <3>2, <4>2 DEF ReportUntraceable, IsVerdict, c
    <3>3. CASE ContradictSingleSource(c)
      <4>1. PICK j \in LocatedOf(c) :
              /\ LocatedOf(c) = {j}
              /\ ~Same(TagOf(c), SourceOf(c, j).entitlement)
              /\ Found(c, "contradicted", CauseFromTimestamps(ChunkOf(c), SourceOf(c, j)),
                       SourceOf(c, j).entitlement)
        BY <3>3 DEF ContradictSingleSource
      <4>2. TagOf(c) # SourceOf(c, j).entitlement
        BY <3>1, <4>1, ViewTypes, SameIsEquality
      <4>3. f = [chunk_id |-> c, verdict |-> "contradicted",
                 cause |-> CauseFromTimestamps(ChunkOf(c), SourceOf(c, j)),
                 observed |-> TagOf(c), expected |-> SourceOf(c, j).entitlement]
        BY <2>2, <4>1 DEF Found
      <4> HIDE DEF c
      <4>4. /\ f.observed = TagOf(c) /\ f.expected = SourceOf(c, j).entitlement
            /\ f.verdict = "contradicted"
            /\ f.cause = CauseFromTimestamps(ChunkOf(c), SourceOf(c, j))
        BY <4>3
      <4> QED
        BY <2>0, <4>1, <4>2, <4>4 DEF IsVerdict, c
    <3>4. ASSUME ReportIndeterminate \/ ReportExceeding, c = current PROVE IsVerdict(f)
      <4>1. current # None /\ left = {}
        BY <3>4 DEF ReportIndeterminate, ReportExceeding
      <4>2. IsSafeBound(c, LocatedOf(c), bound) /\ \A j : LocatedOf(c) # {j}
        BY <3>4, <4>1 DEF BoundIsSafe, SilenceIsExact
      <4>3. f.observed = TagOf(c) /\ f.expected = bound
        BY <2>2, <3>4 DEF ReportIndeterminate, ReportExceeding, Judge, Found
      <4>4. CASE ReportIndeterminate
        <5>1. f.verdict = "unverifiable" /\ f.cause = "indeterminate-source"
          BY <2>2, <4>4 DEF ReportIndeterminate, Judge, Found
        <5> QED
          BY <3>4, <4>2, <4>3, <4>4, <5>1 DEF IsVerdict, ReportIndeterminate
      <4>5. CASE ReportExceeding
        <5>1. f.verdict = "contradicted" /\ f.cause = "exceeds-safe-bound"
          BY <2>2, <4>5 DEF ReportExceeding, Judge, Found
        <5> QED
          BY <3>4, <4>2, <4>3, <4>5, <5>1 DEF IsVerdict, ReportExceeding
      <4> QED
        BY <3>4, <4>4, <4>5
    <3> QED
      BY <2>0, <2>2, <3>2, <3>3, <3>4, OneFindingAStep
  <2> QED
    BY <2>1, <2>2
<1> QED
  BY <1>1, <1>2, TypeCorrect, SilenceExactCorrect, BoundSafeCorrect, PTL DEF Spec

\* check_propagation computes the verdict on every chunk, for any number of chunks and sources.
THEOREM FindingsCorrect == Spec => []FindingsAreVerdicts
<1>1. TypeOK /\ AccountedOnce /\ SilenceIsExact /\ AllVerdicts => FindingsAreVerdicts
  <2> SUFFICES ASSUME TypeOK, AccountedOnce, SilenceIsExact, AllVerdicts
               PROVE  FindingsAreVerdicts
    OBVIOUS
  <2> DEFINE done == DOMAIN variant.chunks \ unexamined
  <2>1. findings \subseteq VerdictsOn(done)
    BY DEF TypeOK, AccountedOnce, AllVerdicts, VerdictsOn
  <2>2. ASSUME NEW f \in VerdictsOn(done) PROVE f \in findings
    <3>1. f \in PropagationFinding /\ f.chunk_id \in done /\ IsVerdict(f)
      BY <2>2 DEF VerdictsOn
    <3>2. ~SaysTheSame(f.chunk_id)
      <4>1. \A j : LocatedOf(f.chunk_id) = {j} /\ TagOf(f.chunk_id) = SourceOf(f.chunk_id, j).entitlement
              => FALSE
        BY <3>1 DEF IsVerdict
      <4> QED
        BY <4>1 DEF SaysTheSame
    <3>3. PICK g \in findings : g.chunk_id = f.chunk_id
      BY <3>1, <3>2 DEF SilenceIsExact, FoundFor
    <3>4. g \in PropagationFinding /\ IsVerdict(g)
      BY DEF TypeOK, AllVerdicts
    <3>5. f = g
      BY <3>1, <3>3, <3>4, VerdictUnique
    <3> QED
      BY <3>5
  <2> QED
    BY <2>1, <2>2 DEF FindingsAreVerdicts
<1> QED
  BY <1>1, TypeCorrect, AccountedCorrect, SilenceExactCorrect, AllVerdictsCorrect, PTL
=============================================================================
