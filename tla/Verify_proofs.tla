---------------------------- MODULE Verify_proofs ----------------------------
(***************************************************************************)
(* A verification as a whole: what is proved of each axis on its own holds *)
(* in their composition, and adds up to what a zero exit status claims.    *)
(***************************************************************************)
EXTENDS Verify, FiniteSetTheorems, WellFoundedInduction, TLAPS

\* The axes again, with what is proved of them.
PropagationProved == INSTANCE CheckPropagation_proofs WITH failed <- propagationFailed
DifferentialProved ==
  INSTANCE RunProbes_proofs
    WITH failed <- probesFailed, ScenarioFiles <- {}, VariantFiles <- {}

----------------------------------------------------------------------------
(* An instance has its own copy of every operator it extends; the copies   *)
(* are the same operators.                                                 *)

LEMMA PropagationWorld ==
  /\ \A s, k : PropagationProved!Located(s, k) = Located(s, k)
  /\ \A s, k : Propagation!Located(s, k) = Located(s, k)
  /\ \A s, k, j : PropagationProved!SourceAt(s, k, j) = SourceAt(s, k, j)
  /\ \A s, k, j : Propagation!SourceAt(s, k, j) = SourceAt(s, k, j)
  /\ \A r, e, p : PropagationProved!Entitled(r, e, p) <=> Entitled(r, e, p)
  /\ \A r, e, p : Propagation!Entitled(r, e, p) <=> Entitled(r, e, p)
  /\ \A a, b : PropagationProved!Intersect(a, b) = Propagation!Intersect(a, b)
<1>1. /\ \A s, k : PropagationProved!Located(s, k) = Located(s, k)
      /\ \A s, k : Propagation!Located(s, k) = Located(s, k)
      /\ \A s, k, j : PropagationProved!SourceAt(s, k, j) = SourceAt(s, k, j)
      /\ \A s, k, j : Propagation!SourceAt(s, k, j) = SourceAt(s, k, j)
  BY DEF Located, SourceAt, Propagation!Located, Propagation!SourceAt,
         PropagationProved!Located, PropagationProved!SourceAt
<1>2. \A a, b : PropagationProved!Intersect(a, b) = Propagation!Intersect(a, b)
  BY DEF PropagationProved!Intersect, Propagation!Intersect,
         PropagationProved!IntersectRoles, Propagation!IntersectRoles,
         PropagationProved!UnknownEntitlement, Propagation!UnknownEntitlement
<1>3. \A r, e, p : PropagationProved!Entitled(r, e, p) <=> Entitled(r, e, p)
  BY DEF Entitled, ClausesGrant, Combine, TenantClause, RoleClause, DirectClause,
         PropagationProved!Entitled, PropagationProved!ClausesGrant, PropagationProved!Combine,
         PropagationProved!TenantClause, PropagationProved!RoleClause,
         PropagationProved!DirectClause
<1>4. \A r, e, p : Propagation!Entitled(r, e, p) <=> Entitled(r, e, p)
  BY DEF Entitled, ClausesGrant, Combine, TenantClause, RoleClause, DirectClause,
         Propagation!Entitled, Propagation!ClausesGrant, Propagation!Combine,
         Propagation!TenantClause, Propagation!RoleClause, Propagation!DirectClause
<1> QED
  BY <1>1, <1>2, <1>3, <1>4

\* What the loop over the chunks looks at.
LEMMA SameView ==
  /\ \A c : Propagation!ChunkOf(c) = PropagationProved!ChunkOf(c)
  /\ \A c : Propagation!TagOf(c) = PropagationProved!TagOf(c)
  /\ \A c : Propagation!LocatedOf(c) = PropagationProved!LocatedOf(c)
  /\ \A c, j : Propagation!SourceOf(c, j) = PropagationProved!SourceOf(c, j)
  /\ Propagation!PrincipalsUnderTest = PropagationProved!PrincipalsUnderTest
<1>1. \A c : Propagation!ChunkOf(c) = PropagationProved!ChunkOf(c)
  BY DEF Propagation!ChunkOf, PropagationProved!ChunkOf
<1> QED
  BY <1>1, PropagationWorld
     DEF Propagation!TagOf, PropagationProved!TagOf, Propagation!LocatedOf,
         PropagationProved!LocatedOf, Propagation!SourceOf, PropagationProved!SourceOf,
         Propagation!PrincipalsUnderTest, PropagationProved!PrincipalsUnderTest

LEMMA SamePropagationSteps ==
  /\ Propagation!Init <=> PropagationProved!Init
  /\ Propagation!Next <=> PropagationProved!Next
<1> USE PropagationWorld, SameView
<1>1. Propagation!Init <=> PropagationProved!Init
  BY DEF Propagation!Init, PropagationProved!Init
<1>2. /\ \A c, v, x, e : Propagation!Found(c, v, x, e) <=> PropagationProved!Found(c, v, x, e)
      /\ \A c : Propagation!Finished(c) <=> PropagationProved!Finished(c)
      /\ \A c : Propagation!NextChunk(c) <=> PropagationProved!NextChunk(c)
      /\ \A a, b : Propagation!Same(a, b) <=> PropagationProved!Same(a, b)
      /\ \A a, b : Propagation!TimesKnown(a, b) <=> PropagationProved!TimesKnown(a, b)
      /\ \A a, b : Propagation!TimesComparable(a, b) <=> PropagationProved!TimesComparable(a, b)
  BY DEF Propagation!Found, PropagationProved!Found, Propagation!Finished,
         PropagationProved!Finished, Propagation!NextChunk, PropagationProved!NextChunk,
         Propagation!Same, PropagationProved!Same, Propagation!TimesKnown,
         PropagationProved!TimesKnown, Propagation!TimesComparable,
         PropagationProved!TimesComparable
<1>3. \A a, b : Propagation!CauseFromTimestamps(a, b) = PropagationProved!CauseFromTimestamps(a, b)
  BY <1>2 DEF Propagation!CauseFromTimestamps, PropagationProved!CauseFromTimestamps
<1>4. \A r, t, b, ps : Propagation!WithinBound(r, t, b, ps) <=> PropagationProved!WithinBound(r, t, b, ps)
  BY DEF Propagation!WithinBound, PropagationProved!WithinBound
<1>5. \A v, x : Propagation!Judge(v, x) <=> PropagationProved!Judge(v, x)
  BY <1>2 DEF Propagation!Judge, PropagationProved!Judge
<1>6. ASSUME NEW c
      PROVE  Propagation!ExamineChunk(c) <=> PropagationProved!ExamineChunk(c)
  <2>1. Propagation!ReportUntraceable(c) <=> PropagationProved!ReportUntraceable(c)
    BY <1>2 DEF Propagation!ReportUntraceable, PropagationProved!ReportUntraceable
  <2>2. Propagation!PassSingleSource(c) <=> PropagationProved!PassSingleSource(c)
    BY <1>2 DEF Propagation!PassSingleSource, PropagationProved!PassSingleSource
  <2>3. Propagation!ContradictSingleSource(c) <=> PropagationProved!ContradictSingleSource(c)
    BY <1>2, <1>3
       DEF Propagation!ContradictSingleSource, PropagationProved!ContradictSingleSource
  <2>4. Propagation!FailOnTimes(c) <=> PropagationProved!FailOnTimes(c)
    BY <1>2 DEF Propagation!FailOnTimes, PropagationProved!FailOnTimes
  <2>5. Propagation!StartBound(c) <=> PropagationProved!StartBound(c)
    BY <1>2 DEF Propagation!StartBound, PropagationProved!StartBound
  <2> QED
    BY <2>1, <2>2, <2>3, <2>4, <2>5 DEF Propagation!ExamineChunk, PropagationProved!ExamineChunk
<1>7. /\ Propagation!IntersectNext <=> PropagationProved!IntersectNext
      /\ Propagation!ReportIndeterminate <=> PropagationProved!ReportIndeterminate
      /\ Propagation!ReportExceeding <=> PropagationProved!ReportExceeding
  BY <1>4, <1>5
     DEF Propagation!IntersectNext, PropagationProved!IntersectNext,
         Propagation!ReportIndeterminate, PropagationProved!ReportIndeterminate,
         Propagation!ReportExceeding, PropagationProved!ReportExceeding
<1> QED
  BY <1>1, <1>6, <1>7 DEF Propagation!Next, PropagationProved!Next

\* The propagation axis of a verification is a run of check_propagation: nothing else that a
\* verification does touches its state.
LEMMA RunsCheckPropagation == Spec => PropagationProved!Spec
<1>1. Init => PropagationProved!Init
  BY SamePropagationSteps DEF Init
<1>2. [Next]_vars => [PropagationProved!Next]_(PropagationProved!vars)
  <2> SUFFICES ASSUME [Next]_vars
               PROVE  PropagationProved!Next \/ UNCHANGED PropagationProved!vars
    OBVIOUS
  <2>1. CASE CheckPropagation
    BY <2>1, SamePropagationSteps DEF CheckPropagation
  <2>2. CASE RunProbes
    <3>1. scenario' = scenario /\ variant' = variant
      BY <2>2 DEF RunProbes, Differential!Next, Differential!FailOnEnforcement,
         Differential!SkipProbe, Differential!FailOnPrincipal, Differential!FailOnRetrieve,
         Differential!Ask, Differential!NextProbe
    <3> QED
      BY <2>2, <3>1 DEF RunProbes, propagationVars, PropagationProved!vars
  <2>3. CASE PropagationReturns \/ MakeReport \/ Exit \/ Raise \/ UNCHANGED vars
    BY <2>3 DEF PropagationReturns, MakeReport, Exit, Raise, vars, propagationVars,
       PropagationProved!vars
  <2> QED
    BY <2>1, <2>2, <2>3 DEF Next
<1> QED
  BY <1>1, <1>2, PTL DEF Spec, PropagationProved!Spec

----------------------------------------------------------------------------
(* The same for the differential axis. *)

LEMMA DifferentialWorld ==
  /\ \A s, k : DifferentialProved!Located(s, k) = Located(s, k)
  /\ \A s, k : Differential!Located(s, k) = Located(s, k)
  /\ \A s, k : DifferentialProved!SourceEntitlements(s, k) = SourceEntitlements(s, k)
  /\ \A s, k : Differential!SourceEntitlements(s, k) = SourceEntitlements(s, k)
  /\ \A s, k, p : DifferentialProved!SourcesGrant(s, k, p) <=> SourcesGrant(s, k, p)
  /\ \A s, k, p : Differential!SourcesGrant(s, k, p) <=> SourcesGrant(s, k, p)
  /\ \A r, m, e, p : DifferentialProved!Enforce(r, m, e, p) <=> Differential!Enforce(r, m, e, p)
  /\ \A f : DifferentialProved!Range(f) = Range(f)
  /\ \A f : Differential!Range(f) = Range(f)
<1>1. /\ \A s, k : DifferentialProved!Located(s, k) = Located(s, k)
      /\ \A s, k : Differential!Located(s, k) = Located(s, k)
      /\ \A s, k, j : DifferentialProved!SourceAt(s, k, j) = SourceAt(s, k, j)
      /\ \A s, k, j : Differential!SourceAt(s, k, j) = SourceAt(s, k, j)
      /\ \A f : DifferentialProved!Range(f) = Range(f)
      /\ \A f : Differential!Range(f) = Range(f)
  BY DEF Located, SourceAt, Range, Differential!Located, Differential!SourceAt,
         Differential!Range, DifferentialProved!Located, DifferentialProved!SourceAt,
         DifferentialProved!Range
<1>2. /\ \A s, k : DifferentialProved!SourceEntitlements(s, k) = SourceEntitlements(s, k)
      /\ \A s, k : Differential!SourceEntitlements(s, k) = SourceEntitlements(s, k)
  BY <1>1 DEF SourceEntitlements, Differential!SourceEntitlements,
     DifferentialProved!SourceEntitlements
<1>3. \A r, e, p : DifferentialProved!Entitled(r, e, p) <=> Entitled(r, e, p)
  BY DEF Entitled, ClausesGrant, Combine, TenantClause, RoleClause, DirectClause,
         DifferentialProved!Entitled, DifferentialProved!ClausesGrant,
         DifferentialProved!Combine, DifferentialProved!TenantClause,
         DifferentialProved!RoleClause, DifferentialProved!DirectClause
<1>4. \A r, e, p : Differential!Entitled(r, e, p) <=> Entitled(r, e, p)
  BY DEF Entitled, ClausesGrant, Combine, TenantClause, RoleClause, DirectClause,
         Differential!Entitled, Differential!ClausesGrant, Differential!Combine,
         Differential!TenantClause, Differential!RoleClause, Differential!DirectClause
<1>5. /\ \A s, k, p : DifferentialProved!SourcesGrant(s, k, p) <=> SourcesGrant(s, k, p)
      /\ \A s, k, p : Differential!SourcesGrant(s, k, p) <=> SourcesGrant(s, k, p)
  BY <1>2, <1>3, <1>4 DEF SourcesGrant, EntitledByAll, Differential!SourcesGrant,
     Differential!EntitledByAll, DifferentialProved!SourcesGrant,
     DifferentialProved!EntitledByAll
<1>6. \A r, e, p : DifferentialProved!AdmittedByNaiveFilter(r, e, p)
                     <=> Differential!AdmittedByNaiveFilter(r, e, p)
  BY DEF DifferentialProved!AdmittedByNaiveFilter, DifferentialProved!Combine,
         DifferentialProved!TenantClause, DifferentialProved!RoleClause,
         DifferentialProved!DirectClause, Differential!AdmittedByNaiveFilter,
         Differential!Combine, Differential!TenantClause, Differential!RoleClause,
         Differential!DirectClause
<1>7. \A r, m, e, p : DifferentialProved!Enforce(r, m, e, p) <=> Differential!Enforce(r, m, e, p)
  BY <1>3, <1>4, <1>6 DEF DifferentialProved!Enforce, Differential!Enforce
<1> QED
  BY <1>1, <1>2, <1>5, <1>7

LEMMA SameDifferentialSteps ==
  /\ Differential!Init <=> DifferentialProved!Init
  /\ Differential!Next <=> DifferentialProved!Next
<1> USE DifferentialWorld
<1>1. /\ Differential!Init <=> DifferentialProved!Init
      /\ Differential!Probes = DifferentialProved!Probes
      /\ Differential!Indexed = DifferentialProved!Indexed
      /\ Differential!Started <=> DifferentialProved!Started
      /\ \A p : Differential!Runnable(p) <=> DifferentialProved!Runnable(p)
      /\ \A s, n : Differential!Slice(s, n) = DifferentialProved!Slice(s, n)
      /\ \A o, u : Differential!Outcome(o, u) = DifferentialProved!Outcome(o, u)
  BY DEF Differential!Init, DifferentialProved!Init, Differential!Probes,
         DifferentialProved!Probes, Differential!Indexed, DifferentialProved!Indexed,
         Differential!Started, DifferentialProved!Started, Differential!EnforcementModels,
         DifferentialProved!EnforcementModels, Differential!Runnable,
         DifferentialProved!Runnable, Differential!Slice, DifferentialProved!Slice,
         Differential!Outcome, DifferentialProved!Outcome
<1>2. /\ \A i : Differential!Matches(i) = DifferentialProved!Matches(i)
      /\ \A i, p : Differential!SimulatedAnswer(i, p) = DifferentialProved!SimulatedAnswer(i, p)
      /\ \A c : Differential!Traceable(c) <=> DifferentialProved!Traceable(c)
      /\ \A c, p : Differential!Permitted(c, p) <=> DifferentialProved!Permitted(c, p)
      /\ Differential!InProbe <=> DifferentialProved!InProbe
      /\ Differential!Running <=> DifferentialProved!Running
      /\ Differential!Turn <=> DifferentialProved!Turn
      /\ Differential!PrincipalOnTurn = DifferentialProved!PrincipalOnTurn
  BY <1>1 DEF Differential!Matches, DifferentialProved!Matches, Differential!SimulatedAnswer,
     DifferentialProved!SimulatedAnswer, Differential!Traceable, DifferentialProved!Traceable,
     Differential!Permitted, DifferentialProved!Permitted, Differential!InProbe,
     DifferentialProved!InProbe, Differential!Running, DifferentialProved!Running,
     Differential!Turn, DifferentialProved!Turn, Differential!PrincipalOnTurn,
     DifferentialProved!PrincipalOnTurn
<1>3. /\ \A i, p : Differential!Truth(i, p) = DifferentialProved!Truth(i, p)
      /\ \A i : Differential!Absent(i) = DifferentialProved!Absent(i)
      /\ \A i, a : Differential!Extras(i, a) = DifferentialProved!Extras(i, a)
  BY <1>1, <1>2 DEF Differential!Truth, DifferentialProved!Truth, Differential!Absent,
     DifferentialProved!Absent, Differential!Extras, DifferentialProved!Extras
<1>4. \A i, a : Differential!Undetermined(i, a) = DifferentialProved!Undetermined(i, a)
  BY <1>1, <1>2, <1>3 DEF Differential!Undetermined, DifferentialProved!Undetermined
<1>5. \A i, p, a : Differential!Returned(i, p, a) = DifferentialProved!Returned(i, p, a)
  BY <1>1, <1>2, <1>3 DEF Differential!Returned, DifferentialProved!Returned
<1>6. \A i, k, p, a : Differential!Judged(i, k, p, a) = DifferentialProved!Judged(i, k, p, a)
  <2> SUFFICES ASSUME NEW i, NEW k, NEW p, NEW a
               PROVE  Differential!Judged(i, k, p, a) = DifferentialProved!Judged(i, k, p, a)
    OBVIOUS
  <2>1. Differential!Returned(i, p, a) = DifferentialProved!Returned(i, p, a)
    BY <1>5
  <2>2. Differential!Undetermined(i, a) = DifferentialProved!Undetermined(i, a)
    BY <1>4
  <2>3. Differential!Truth(i, p) = DifferentialProved!Truth(i, p)
    BY <1>3
  <2>4. Differential!Absent(i) = DifferentialProved!Absent(i)
    BY <1>3
  <2>5. \A o, u : Differential!Outcome(o, u) = DifferentialProved!Outcome(o, u)
    BY <1>1
  <2>6. Differential!Probes = DifferentialProved!Probes
    BY <1>1
  <2> QED
    BY ONLY <2>1, <2>2, <2>3, <2>4, <2>5, <2>6, Zenon
       DEF Differential!Judged, DifferentialProved!Judged
<1>7. \A a : Differential!Ask(a) <=> DifferentialProved!Ask(a)
  BY <1>2, <1>6 DEF Differential!Ask, DifferentialProved!Ask
<1>8. /\ Differential!FailOnEnforcement <=> DifferentialProved!FailOnEnforcement
      /\ Differential!SkipProbe <=> DifferentialProved!SkipProbe
      /\ Differential!FailOnPrincipal <=> DifferentialProved!FailOnPrincipal
      /\ Differential!FailOnRetrieve <=> DifferentialProved!FailOnRetrieve
      /\ Differential!NextProbe <=> DifferentialProved!NextProbe
  BY <1>1, <1>2 DEF Differential!FailOnEnforcement, DifferentialProved!FailOnEnforcement,
     Differential!SkipProbe, DifferentialProved!SkipProbe, Differential!FailOnPrincipal,
     DifferentialProved!FailOnPrincipal, Differential!FailOnRetrieve,
     DifferentialProved!FailOnRetrieve, Differential!NextProbe, DifferentialProved!NextProbe
<1> QED
  BY <1>1, <1>7, <1>8 DEF Differential!Next, DifferentialProved!Next

\* The differential axis of a verification is a run of run_probes.
LEMMA RunsRunProbes == Spec => DifferentialProved!Spec
<1>1. Init => DifferentialProved!Init
  BY SameDifferentialSteps DEF Init
<1>2. [Next]_vars => [DifferentialProved!Next]_(DifferentialProved!vars)
  <2> SUFFICES ASSUME [Next]_vars
               PROVE  DifferentialProved!Next \/ UNCHANGED DifferentialProved!vars
    OBVIOUS
  <2>1. CASE RunProbes
    BY <2>1, SameDifferentialSteps DEF RunProbes
  <2>2. CASE CheckPropagation
    <3>1. scenario' = scenario /\ variant' = variant
      BY <2>2 DEF CheckPropagation, Propagation!Next, Propagation!ExamineChunk,
         Propagation!ReportUntraceable, Propagation!PassSingleSource,
         Propagation!ContradictSingleSource, Propagation!FailOnTimes, Propagation!StartBound,
         Propagation!IntersectNext, Propagation!ReportIndeterminate,
         Propagation!ReportExceeding, Propagation!Judge
    <3> QED
      BY <2>2, <3>1 DEF CheckPropagation, probesVars, DifferentialProved!vars
  <2>3. CASE PropagationReturns \/ MakeReport \/ Exit \/ Raise \/ UNCHANGED vars
    BY <2>3 DEF PropagationReturns, MakeReport, Exit, Raise, vars, probesVars,
       DifferentialProved!vars
  <2> QED
    BY <2>1, <2>2, <2>3 DEF Next
<1> QED
  BY <1>1, <1>2, PTL DEF Spec, DifferentialProved!Spec

----------------------------------------------------------------------------
(* What is proved of the axes, in the words of Verify. *)

\* The tag says what the only source located for the chunk says.
SaysTheSame(c) ==
  \E j \in Located(scenario, variant.chunks[c]) :
    /\ Located(scenario, variant.chunks[c]) = {j}
    /\ variant.chunks[c].entitlement = SourceAt(scenario, variant.chunks[c], j).entitlement

PropagationFacts ==
  /\ scenario \in Scenarios /\ variant \in Variants
  /\ findings \subseteq Propagation!PropagationFinding
  /\ untraceable \in Nat
  /\ unexamined = {} => current = None
  /\ \A f \in findings : f.chunk_id \in DOMAIN variant.chunks
  /\ \A c \in DOMAIN variant.chunks \ unexamined :
       (\A f \in findings : f.chunk_id # c) <=> SaysTheSame(c)

\* What the axis assumes of the scenarios and the variants is what Verify assumes of them.
LEMMA PropagationAssumptions ==
  /\ NoTenant \notin Tenants
  /\ None \notin ChunkIds
  /\ None \notin PropagationProved!Entitlement
  /\ None \notin [at: Nat, aware: BOOLEAN]
  /\ \A s \in Scenarios : PropagationProved!IsScenario(s)
  /\ \A v \in Variants : PropagationProved!IsVariant(v)
<1>1. /\ PropagationProved!Entitlement = Entitlement
      /\ PropagationProved!Principal = Principal
      /\ PropagationProved!Time = Time
      /\ PropagationProved!Probe = Probe
      /\ PropagationProved!Rule = Rule
  BY DEF PropagationProved!Entitlement, Entitlement, PropagationProved!Principal, Principal,
         PropagationProved!Time, Time, PropagationProved!Probe, Probe, PropagationProved!Rule, Rule,
         PropagationProved!TenantClauses, TenantClauses, PropagationProved!RoleClauses, RoleClauses,
         PropagationProved!DirectClauses, DirectClauses, PropagationProved!Combinators, Combinators
<1>2. /\ PropagationProved!SourceDocument = SourceDocument
      /\ PropagationProved!Chunk = Chunk
  BY <1>1 DEF PropagationProved!SourceDocument, SourceDocument, PropagationProved!Chunk, Chunk
<1>3. \A f, S, T : PropagationProved!IsDict(f, S, T) <=> IsDict(f, S, T)
  BY DEF PropagationProved!IsDict, IsDict, PropagationProved!IsFiniteSet, IsFiniteSet
<1>4. \A s : PropagationProved!IsScenario(s) <=> IsScenario(s)
  BY <1>1, <1>2, <1>3 DEF PropagationProved!IsScenario, IsScenario
<1>5. \A v : PropagationProved!IsVariant(v) <=> IsVariant(v)
  BY <1>1, <1>2, <1>3 DEF PropagationProved!IsVariant, IsVariant
<1> QED
  BY <1>1, <1>4, <1>5, NoTenantAssumption, NoneAssumption, ScenariosAssumption,
     VariantsAssumption

\* What the axis assumes of the scenarios and the variants is what Verify assumes of them.
LEMMA DifferentialAssumptions ==
  /\ NoTenant \notin Tenants
  /\ None \notin ChunkIds
  /\ None \notin DifferentialProved!Entitlement
  /\ None \notin [at: Nat, aware: BOOLEAN]
  /\ \A s \in Scenarios : DifferentialProved!IsScenario(s)
  /\ \A v \in Variants : DifferentialProved!IsVariant(v)
<1>1. /\ DifferentialProved!Entitlement = Entitlement
      /\ DifferentialProved!Principal = Principal
      /\ DifferentialProved!Time = Time
      /\ DifferentialProved!Probe = Probe
      /\ DifferentialProved!Rule = Rule
  BY DEF DifferentialProved!Entitlement, Entitlement, DifferentialProved!Principal, Principal,
         DifferentialProved!Time, Time, DifferentialProved!Probe, Probe, DifferentialProved!Rule, Rule,
         DifferentialProved!TenantClauses, TenantClauses, DifferentialProved!RoleClauses, RoleClauses,
         DifferentialProved!DirectClauses, DirectClauses, DifferentialProved!Combinators, Combinators
<1>2. /\ DifferentialProved!SourceDocument = SourceDocument
      /\ DifferentialProved!Chunk = Chunk
  BY <1>1 DEF DifferentialProved!SourceDocument, SourceDocument, DifferentialProved!Chunk, Chunk
<1>3. \A f, S, T : DifferentialProved!IsDict(f, S, T) <=> IsDict(f, S, T)
  BY DEF DifferentialProved!IsDict, IsDict, DifferentialProved!IsFiniteSet, IsFiniteSet
<1>4. \A s : DifferentialProved!IsScenario(s) <=> IsScenario(s)
  BY <1>1, <1>2, <1>3 DEF DifferentialProved!IsScenario, IsScenario
<1>5. \A v : DifferentialProved!IsVariant(v) <=> IsVariant(v)
  BY <1>1, <1>2, <1>3 DEF DifferentialProved!IsVariant, IsVariant
<1> QED
  BY <1>1, <1>4, <1>5, NoTenantAssumption, NoneAssumption, ScenariosAssumption,
     VariantsAssumption

LEMMA PropagationFactsCorrect == Spec => []PropagationFacts
<1>1. PropagationProved!Spec => []PropagationProved!TypeOK
  BY PropagationProved!TypeCorrect, PropagationAssumptions
<1>2. PropagationProved!Spec => []PropagationProved!AccountedOnce
  BY PropagationProved!AccountedCorrect, PropagationAssumptions
<1>3. PropagationProved!Spec => []PropagationProved!SilenceIsExact
  BY PropagationProved!SilenceExactCorrect, PropagationAssumptions
<1>4. PropagationProved!TypeOK /\ PropagationProved!AccountedOnce /\ PropagationProved!SilenceIsExact
        => PropagationFacts
  <2> SUFFICES ASSUME PropagationProved!TypeOK, PropagationProved!AccountedOnce,
                      PropagationProved!SilenceIsExact
               PROVE  PropagationFacts
    OBVIOUS
  <2>1. /\ scenario \in Scenarios /\ variant \in Variants /\ untraceable \in Nat
        /\ unexamined = {} => current = None
        /\ findings \subseteq PropagationProved!PropagationFinding
    BY DEF PropagationProved!TypeOK
  <2>2. PropagationProved!PropagationFinding = Propagation!PropagationFinding
    BY DEF PropagationProved!PropagationFinding, Propagation!PropagationFinding,
       PropagationProved!Verdicts, Propagation!Verdicts, PropagationProved!Causes,
       Propagation!Causes, PropagationProved!Entitlement, Propagation!Entitlement
  <2>3. \A f \in findings : f.chunk_id \in DOMAIN variant.chunks
    BY DEF PropagationProved!AccountedOnce
  <2>4. ASSUME NEW c
        PROVE  PropagationProved!SaysTheSame(c) <=> SaysTheSame(c)
    BY PropagationWorld
       DEF SaysTheSame, PropagationProved!SaysTheSame, PropagationProved!LocatedOf,
           PropagationProved!ChunkOf, PropagationProved!SourceOf, PropagationProved!TagOf
  <2>5. ASSUME NEW c \in DOMAIN variant.chunks \ unexamined
        PROVE  (\A f \in findings : f.chunk_id # c) <=> SaysTheSame(c)
    <3>1. PropagationProved!FoundFor(c) = {} <=> PropagationProved!SaysTheSame(c)
      BY DEF PropagationProved!SilenceIsExact
    <3>2. PropagationProved!FoundFor(c) = {} <=> \A f \in findings : f.chunk_id # c
      BY DEF PropagationProved!FoundFor
    <3> QED
      BY <2>4, <3>1, <3>2
  <2> QED
    BY <2>1, <2>2, <2>3, <2>5 DEF PropagationFacts
<1> QED
  BY <1>1, <1>2, <1>3, <1>4, RunsCheckPropagation, PTL

Principals(i) == scenario.probes[i].principals
Listed(i) == Range(scenario.probes[i].matches)
Asker(r) == scenario.principals[r.principal_id]
HasSource(c) == Located(scenario, variant.chunks[c]) # {}
Granted(c, p) == SourcesGrant(scenario, variant.chunks[c], p)

\* What a result of the differential axis is, given the answer it judges.
ResultFacts(r) ==
  /\ r.probe \in DOMAIN scenario.probes /\ Len(Principals(r.probe)) >= 2
  /\ r.turn \in DOMAIN Principals(r.probe)
  /\ r.principal_id = Principals(r.probe)[r.turn]
  /\ r.principal_id \in DOMAIN scenario.principals
  /\ r.answer \in SUBSET ChunkIds
  /\ r.absent_from_index = Listed(r.probe) \ DOMAIN variant.chunks
  /\ r.verdict = "contradicted" <=>
       \/ \E c \in r.answer \cap DOMAIN variant.chunks : HasSource(c) /\ ~Granted(c, Asker(r))
       \/ \E c \in Listed(r.probe) \cap DOMAIN variant.chunks :
            Granted(c, Asker(r)) /\ c \notin r.answer

\* Two results that say the same.
SaysAs(r, s) ==
  /\ r.returned = s.returned
  /\ r.over_retrieved = s.over_retrieved /\ r.under_retrieved = s.under_retrieved
  /\ r.undetermined_returned = s.undetermined_returned
  /\ r.absent_from_index = s.absent_from_index
  /\ r.outcome = s.outcome

DifferentialFacts ==
  /\ results \subseteq Differential!ProbeResult /\ IsFiniteSet(results)
  /\ skipped \subseteq Nat
  /\ probe \in Nat \ {0} /\ probe <= Len(scenario.probes) + 1 /\ turn \in Nat \ {0}
  /\ \A r \in results : ResultFacts(r)
  /\ \A r \in results : r.verdict = "contradicted" <=> r.over_retrieved # {} \/ r.under_retrieved # {}
  /\ ~live => \A r, s \in results :
                r.probe = s.probe /\ r.principal_id = s.principal_id => SaysAs(r, s)
  /\ \A r \in results : r.probe < probe \/ (r.probe = probe /\ r.turn < turn)
  /\ \A i \in skipped : i \in 1..(probe - 1) /\ Len(Principals(i)) < 2
  /\ \A i \in 1..(probe - 1) \ skipped :
       /\ Len(Principals(i)) >= 2
       /\ \A k \in DOMAIN Principals(i) : \E r \in results : r.probe = i /\ r.turn = k

LEMMA DifferentialFactsCorrect == Spec => []DifferentialFacts
<1>1. DifferentialProved!Spec => []DifferentialProved!TypeOK
  BY DifferentialProved!TypeCorrect, DifferentialAssumptions
<1>2. DifferentialProved!Spec => []DifferentialProved!ResultsJudged
  BY DifferentialProved!ResultsJudgedCorrect, DifferentialAssumptions
<1>3. DifferentialProved!Spec =>
        [](DifferentialProved!TurnsAnswered /\ DifferentialProved!SkippedOrFullyAsked)
  BY DifferentialProved!TurnsAnsweredCorrect, DifferentialAssumptions
<1>4. DifferentialProved!Spec => []DifferentialProved!OverRetrievalIsDisclosure
  BY DifferentialProved!OverRetrievalCorrect, DifferentialAssumptions
<1>5. DifferentialProved!Spec => []DifferentialProved!UnderRetrievalIsStarvation
  BY DifferentialProved!UnderRetrievalCorrect, DifferentialAssumptions
<1>7. DifferentialProved!Spec => []DifferentialProved!IsFiniteSet(results)
  BY DifferentialProved!FinitelyManyCorrect, DifferentialAssumptions
<1>6. DifferentialProved!TypeOK
      /\ DifferentialProved!IsFiniteSet(results)
      /\ DifferentialProved!ResultsJudged
      /\ DifferentialProved!TurnsAnswered /\ DifferentialProved!SkippedOrFullyAsked
      /\ DifferentialProved!OverRetrievalIsDisclosure
      /\ DifferentialProved!UnderRetrievalIsStarvation
        => DifferentialFacts
  <2> SUFFICES ASSUME DifferentialProved!TypeOK,
                      DifferentialProved!IsFiniteSet(results),
                      DifferentialProved!ResultsJudged,
                      DifferentialProved!TurnsAnswered, DifferentialProved!SkippedOrFullyAsked,
                      DifferentialProved!OverRetrievalIsDisclosure,
                      DifferentialProved!UnderRetrievalIsStarvation
               PROVE  DifferentialFacts
    OBVIOUS
  <2>1. /\ DifferentialProved!Probes = scenario.probes
        /\ DifferentialProved!Indexed = DOMAIN variant.chunks
        /\ \A r : DifferentialProved!PrincipalOf(r) = Asker(r)
        /\ \A i : DifferentialProved!Matches(i) = Listed(i)
        /\ \A c : DifferentialProved!HasSource(c) <=> HasSource(c)
        /\ \A c, p : DifferentialProved!Granted(c, p) <=> Granted(c, p)
    BY DifferentialWorld
       DEF DifferentialProved!Probes, DifferentialProved!Indexed,
           DifferentialProved!PrincipalOf, DifferentialProved!Matches,
           DifferentialProved!HasSource, DifferentialProved!Granted, Asker, Listed, HasSource,
           Granted
  <2>2. /\ results \subseteq DifferentialProved!ProbeResult
        /\ probe \in Nat \ {0} /\ probe <= Len(scenario.probes) + 1 /\ turn \in Nat \ {0}
        /\ skipped \subseteq 1..(probe - 1)
    BY <2>1 DEF DifferentialProved!TypeOK
  <2>3. DifferentialProved!ProbeResult = Differential!ProbeResult
    BY DEF DifferentialProved!ProbeResult, Differential!ProbeResult,
       DifferentialProved!Outcomes, Differential!Outcomes
  <2>4. ASSUME NEW r \in results PROVE ResultFacts(r)
    <3>1. DifferentialProved!IsJudgement(r)
      BY DEF DifferentialProved!ResultsJudged
    <3>2. /\ r.probe \in DOMAIN scenario.probes /\ Len(Principals(r.probe)) >= 2
          /\ r.turn \in DOMAIN Principals(r.probe)
          /\ r.principal_id = Principals(r.probe)[r.turn]
          /\ r.principal_id \in DOMAIN scenario.principals
          /\ r.answer \in SUBSET ChunkIds
      BY <2>1, <3>1
         DEF DifferentialProved!IsJudgement, DifferentialProved!Runnable, Principals
    <3>3. /\ r.absent_from_index = DifferentialProved!Absent(r.probe)
          /\ r.verdict = "contradicted" <=> r.over_retrieved # {} \/ r.under_retrieved # {}
      BY <3>1, DifferentialProved!JudgementFields, DifferentialAssumptions
    <3>4. r.over_retrieved =
            {c \in r.answer \cap DOMAIN variant.chunks : HasSource(c) /\ ~Granted(c, Asker(r))}
      BY <2>1 DEF DifferentialProved!OverRetrievalIsDisclosure
    <3>5. r.under_retrieved =
            {c \in Listed(r.probe) \cap DOMAIN variant.chunks :
               Granted(c, Asker(r)) /\ c \notin r.answer}
      BY <2>1 DEF DifferentialProved!UnderRetrievalIsStarvation
    <3>6. DifferentialProved!Absent(r.probe) = Listed(r.probe) \ DOMAIN variant.chunks
      BY <2>1 DEF DifferentialProved!Absent
    <3> QED
      BY <3>2, <3>3, <3>4, <3>5, <3>6 DEF ResultFacts
  <2>5. \A r \in results : r.probe < probe \/ (r.probe = probe /\ r.turn < turn)
    BY DEF DifferentialProved!TurnsAnswered
  <2>8. ASSUME NEW r \in results
        PROVE  r.verdict = "contradicted" <=> r.over_retrieved # {} \/ r.under_retrieved # {}
    <3>1. DifferentialProved!IsJudgement(r)
      BY DEF DifferentialProved!ResultsJudged
    <3> QED
      BY <3>1, DifferentialProved!JudgementFields, DifferentialAssumptions
  <2>9. ASSUME ~live, NEW r \in results, NEW s \in results,
               r.probe = s.probe, r.principal_id = s.principal_id
        PROVE  SaysAs(r, s)
    <3>1. DifferentialProved!IsJudgement(r) /\ DifferentialProved!IsJudgement(s)
      BY DEF DifferentialProved!ResultsJudged
    <3>2. DifferentialProved!PrincipalOf(r) = DifferentialProved!PrincipalOf(s)
      BY <2>1, <2>9 DEF Asker
    <3>3. r.answer = s.answer
      BY <2>9, <3>1, <3>2 DEF DifferentialProved!IsJudgement
    <3> DEFINE p == DifferentialProved!PrincipalOf(r)
               a == r.answer
    <3>4. /\ r = DifferentialProved!Judged(r.probe, r.turn, p, a)
          /\ s = DifferentialProved!Judged(r.probe, s.turn, p, a)
      BY <2>9, <3>1, <3>2, <3>3 DEF DifferentialProved!IsJudgement
    <3> HIDE DEF p, a
    <3> QED
      BY <3>4 DEF DifferentialProved!Judged, SaysAs
  <2>6. \A i \in skipped : Len(Principals(i)) < 2
    BY <2>1 DEF DifferentialProved!SkippedOrFullyAsked, Principals
  <2>7. \A i \in 1..(probe - 1) \ skipped :
          /\ Len(Principals(i)) >= 2
          /\ \A k \in DOMAIN Principals(i) : \E r \in results : r.probe = i /\ r.turn = k
    BY <2>1 DEF DifferentialProved!SkippedOrFullyAsked, Principals
  <2>10. IsFiniteSet(results)
    BY DEF DifferentialProved!IsFiniteSet, IsFiniteSet
  <2> QED
    BY <2>2, <2>3, <2>4, <2>5, <2>6, <2>7, <2>8, <2>9, <2>10 DEF DifferentialFacts
<1> QED
  BY <1>1, <1>2, <1>3, <1>4, <1>5, <1>6, <1>7, RunsRunProbes, PTL

----------------------------------------------------------------------------
(* verify and the commands *)

\* The report of what the axes have left behind.
ReportOfState ==
  [chunks_examined |-> Cardinality(DOMAIN variant.chunks), chunks_untraceable |-> untraceable,
   propagation |-> findings, probes |-> results, probes_skipped |-> skipped,
   partial |-> Partial]

\* There is a report once both axes have returned, it stays what they left, and the exit
\* status is read off it.
Phased ==
  /\ phase \in Phases
  /\ status \in {None, "zero", "one", "raised"}
  /\ status = None <=> phase # "exited"
  /\ phase = "run_probes" => Propagation!Returned
  /\ phase \in {"check_propagation", "run_probes"} => report = None
  /\ phase = "report" \/ status \in {"zero", "one"} => report = ReportOfState
  /\ report = None
     \/ (report = ReportOfState /\ Propagation!Returned /\ Differential!Done)
  /\ status \in {"zero", "one"} => status = ExitStatus(report)

LEMMA PhasedCorrect == Spec => []Phased
<1>1. Init => Phased
  BY NoOutcomeAssumption DEF Init, Phased, Phases
<1>2. Phased /\ [Next]_vars => Phased'
  <2> SUFFICES ASSUME Phased, [Next]_vars PROVE Phased'
    OBVIOUS
  <2>0. None \notin {"zero", "one", "raised"}
    BY NoOutcomeAssumption
  <2>1. CASE CheckPropagation
    BY <2>0, <2>1 DEF CheckPropagation, Phased, Phases
  <2>2. CASE RunProbes
    BY <2>0, <2>2 DEF RunProbes, Phased, Phases, propagationVars, Propagation!Returned
  <2>3. CASE PropagationReturns
    BY <2>0, <2>3 DEF PropagationReturns, Phased, Phases, propagationVars, Propagation!Returned
  <2> DEFINE Kept == UNCHANGED <<scenario, variant, propagationVars, probesVars>>
  <2>4. ASSUME Kept
        PROVE  /\ ReportOfState' = ReportOfState
               /\ Propagation!Returned' <=> Propagation!Returned
               /\ Differential!Done' <=> Differential!Done
    BY <2>4 DEF ReportOfState, Partial, propagationVars, probesVars, Propagation!Returned,
       Differential!Done, Differential!Started, Differential!InProbe, Differential!Probes
  <2>5. CASE MakeReport
    <3>1. Kept /\ report' = ReportOfState /\ Differential!Done /\ phase = "run_probes"
      BY <2>5 DEF MakeReport, ReportOfState
    <3>2. phase' = "report" /\ status' = status
      BY <2>5 DEF MakeReport
    <3> QED
      BY <2>0, <2>4, <3>1, <3>2 DEF Phased, Phases
  <2>6. CASE Exit
    <3>1. Kept /\ report' = report /\ phase = "report" /\ phase' = "exited"
      BY <2>6 DEF Exit
    <3>2. status' = ExitStatus(report) /\ status' \in {"zero", "one"}
      BY <2>6 DEF Exit, ExitStatus
    <3>3. ExitStatus(report)' = ExitStatus(report)
      BY <3>1
    <3> QED
      BY <2>0, <2>4, <3>1, <3>2, <3>3 DEF Phased, Phases
  <2>7. CASE Raise
    <3>1. Kept /\ report' = report /\ phase' = "exited" /\ status' = "raised"
      BY <2>7 DEF Raise
    <3> QED
      BY <2>0, <2>4, <3>1 DEF Phased, Phases
  <2>8. CASE UNCHANGED vars
    <3>1. Kept /\ UNCHANGED <<phase, report, status>>
      BY <2>8 DEF vars
    <3> QED
      BY <2>4, <3>1 DEF Phased
  <2> QED
    BY <2>1, <2>2, <2>3, <2>5, <2>6, <2>7, <2>8 DEF Next
<1> QED
  BY <1>1, <1>2, PTL DEF Spec

LEMMA ReportType ==
  ASSUME PropagationFacts, DifferentialFacts
  PROVE  ReportOfState \in VerificationReport /\ ReportOfState # None
<1>1. Cardinality(DOMAIN variant.chunks) \in Nat
  BY VariantsAssumption, FS_CardinalityType DEF PropagationFacts, IsVariant, IsDict
<1>2. Partial \in BOOLEAN
  BY DEF Partial
<1>3. ReportOfState \in VerificationReport
  BY <1>1, <1>2 DEF ReportOfState, VerificationReport, PropagationFacts, DifferentialFacts
<1> QED
  BY <1>3, NoOutcomeAssumption

\* The types of a verification's own state: a status only once the report is there.
THEOREM TypeCorrect == Spec => []TypeOK
<1>1. PropagationFacts /\ DifferentialFacts /\ Phased => TypeOK
  BY ReportType, NoOutcomeAssumption DEF Phased, TypeOK
<1> QED
  BY <1>1, PropagationFactsCorrect, DifferentialFactsCorrect, PhasedCorrect, PTL

\* A chunk that says what its one source says grants what the sources grant.
LEMMA SamenessIsAgreement ==
  ASSUME PropagationFacts, NEW c \in DOMAIN variant.chunks, SaysTheSame(c), NEW p
  PROVE  /\ HasSource(c)
         /\ SourceEntitlements(scenario, variant.chunks[c]) = {variant.chunks[c].entitlement}
         /\ Entitled(scenario.rule, variant.chunks[c].entitlement, p) <=> Granted(c, p)
<1>1. PICK j \in Located(scenario, variant.chunks[c]) :
        /\ Located(scenario, variant.chunks[c]) = {j}
        /\ variant.chunks[c].entitlement = SourceAt(scenario, variant.chunks[c], j).entitlement
  BY DEF SaysTheSame
<1>2. SourceEntitlements(scenario, variant.chunks[c]) = {variant.chunks[c].entitlement}
  BY <1>1 DEF SourceEntitlements
<1> QED
  BY <1>1, <1>2 DEF HasSource, Granted, SourcesGrant, EntitledByAll

\* Where there is a report, both axes have gone through all they were given.
LEMMA ReportedFacts ==
  ASSUME PropagationFacts, DifferentialFacts, Phased, report # None
  PROVE  /\ report = ReportOfState
         /\ unexamined = {} /\ current = None
         /\ ~propagationFailed /\ ~probesFailed
         /\ \A c \in DOMAIN variant.chunks : (\A f \in findings : f.chunk_id # c) <=> SaysTheSame(c)
         /\ probe = Len(scenario.probes) + 1
         /\ DOMAIN scenario.probes = 1..(probe - 1)
<1>1. report = ReportOfState /\ Propagation!Returned /\ Differential!Done
  BY DEF Phased
<1>2. unexamined = {} /\ ~propagationFailed /\ ~probesFailed
  BY <1>1 DEF Propagation!Returned, Differential!Done
<1>3. scenario.probes \in Seq(Probe)
  BY ScenariosAssumption DEF PropagationFacts, IsScenario
<1>4. probe \notin DOMAIN scenario.probes
  BY <1>1 DEF Differential!Done, Differential!InProbe, Differential!Probes
<1>5. probe = Len(scenario.probes) + 1
  BY <1>3, <1>4 DEF DifferentialFacts
<1>6. DOMAIN scenario.probes = 1..(probe - 1)
  BY <1>3, <1>5
<1> QED
  BY <1>1, <1>2, <1>5, <1>6 DEF PropagationFacts

\* A zero status means that the store serves nobody what the sources refuse and starves
\* nobody, for every scenario, index, rule and store.
THEOREM ZeroCorrect == Spec => []ZeroMeansEnforced
<1>1. PropagationFacts /\ DifferentialFacts /\ Phased => ZeroMeansEnforced
  <2> SUFFICES ASSUME PropagationFacts, DifferentialFacts, Phased, status = "zero"
               PROVE  ZeroMeansEnforced
    BY DEF ZeroMeansEnforced
  <2>1. report # None /\ report = ReportOfState /\ ExitStatus(report) = "zero"
    BY ReportType DEF Phased
  <2>2. /\ findings = {}
        /\ report.probes = results
        /\ \A r \in results : r.verdict # "contradicted"
    BY <2>1 DEF ExitStatus, ReportOfState
  <2>3. \A c \in DOMAIN variant.chunks : SaysTheSame(c)
    BY <2>1, <2>2, ReportedFacts
  <2>4. ASSUME NEW r \in results
        PROVE  LET p == scenario.principals[r.principal_id]
                   granted == {c \in DOMAIN variant.chunks : SourcesGrant(scenario, variant.chunks[c], p)}
               IN  /\ r.answer \cap DOMAIN variant.chunks \subseteq granted
                   /\ Range(scenario.probes[r.probe].matches) \cap granted \subseteq r.answer
                   /\ \A c \in DOMAIN variant.chunks :
                        Entitled(scenario.rule, variant.chunks[c].entitlement, p) <=> c \in granted
    <3>1. ResultFacts(r) /\ r.verdict # "contradicted"
      BY <2>2 DEF DifferentialFacts
    <3>2. \A c \in DOMAIN variant.chunks :
            /\ HasSource(c)
            /\ Entitled(scenario.rule, variant.chunks[c].entitlement, Asker(r)) <=> Granted(c, Asker(r))
      BY <2>3, SamenessIsAgreement
    <3> QED
      BY <3>1, <3>2 DEF ResultFacts, Granted, Asker, Listed
  <2> QED
    BY <2>2, <2>4 DEF ZeroMeansEnforced
<1> QED
  BY <1>1, PropagationFactsCorrect, DifferentialFactsCorrect, PhasedCorrect, PTL

\* A zero status leaves no entry out: every probe lists two identities at least, distinct or
\* not, was put under every one of them, over chunks the index holds, and no answer departed
\* from the sources in either direction ("A partial run's silence is not a pass", data-model.md:113).
ZeroIsExhaustive ==
  status = "zero" =>
    /\ report # None /\ report.propagation = {}
    /\ \A i \in DOMAIN scenario.probes :
         /\ Len(Principals(i)) >= 2
         /\ Listed(i) \subseteq DOMAIN variant.chunks
         /\ \A k \in DOMAIN Principals(i) :
              \E r \in report.probes :
                /\ r.probe = i /\ r.principal_id = Principals(i)[k]
                /\ r.over_retrieved = {} /\ r.under_retrieved = {}

THEOREM ZeroExhaustiveCorrect == Spec => []ZeroIsExhaustive
<1>1. PropagationFacts /\ DifferentialFacts /\ Phased => ZeroIsExhaustive
  <2> SUFFICES ASSUME PropagationFacts, DifferentialFacts, Phased, status = "zero"
               PROVE  ZeroIsExhaustive
    BY DEF ZeroIsExhaustive
  <2>1. report # None /\ report = ReportOfState /\ ExitStatus(report) = "zero"
    BY ReportType DEF Phased
  <2>2. /\ report.propagation = {} /\ report.probes = results
        /\ \A r \in results : r.verdict # "contradicted"
        /\ skipped = {} /\ \A r \in results : r.absent_from_index = {}
    BY <2>1 DEF ExitStatus, ReportOfState, Partial
  <2>3. ASSUME NEW i \in DOMAIN scenario.probes
        PROVE  /\ Len(Principals(i)) >= 2
               /\ \A k \in DOMAIN Principals(i) : \E r \in results : r.probe = i /\ r.turn = k
    BY <2>1, <2>2, ReportedFacts DEF DifferentialFacts
  <2>4. ASSUME NEW i \in DOMAIN scenario.probes, NEW k \in DOMAIN Principals(i)
        PROVE  \E r \in report.probes :
                 /\ r.probe = i /\ r.principal_id = Principals(i)[k]
                 /\ r.over_retrieved = {} /\ r.under_retrieved = {}
    <3>1. PICK r \in results : r.probe = i /\ r.turn = k
      BY <2>3
    <3>2. ResultFacts(r) /\ r.over_retrieved = {} /\ r.under_retrieved = {}
      BY <2>2 DEF DifferentialFacts
    <3> QED
      BY <2>2, <3>1, <3>2 DEF ResultFacts
  <2>5. ASSUME NEW i \in DOMAIN scenario.probes
        PROVE  Listed(i) \subseteq DOMAIN variant.chunks
    <3>1. scenario.probes \in Seq(Probe)
      BY ScenariosAssumption DEF PropagationFacts, IsScenario
    <3>2. scenario.probes[i] \in Probe
      BY <3>1
    <3>3. Principals(i) \in Seq(PrincipalIds)
      BY <3>2 DEF Probe, Principals
    <3>4. 1 \in DOMAIN Principals(i)
      BY <2>3, <3>3
    <3>5. PICK r \in results : r.probe = i
      BY <2>3, <3>4
    <3> QED
      BY <2>2, <3>5 DEF DifferentialFacts, ResultFacts
  <2> QED
    BY <2>1, <2>2, <2>3, <2>4, <2>5 DEF ZeroIsExhaustive
<1> QED
  BY <1>1, PropagationFactsCorrect, DifferentialFactsCorrect, PhasedCorrect, PTL

----------------------------------------------------------------------------
(* The report as a function of the fixtures *)

\* The report that scenario and index call for, without a store: the verdict on every chunk,
\* the simulated result of every turn of every runnable probe.
TheReport ==
  LET found == PropagationProved!VerdictsOn(DOMAIN variant.chunks)
      judged == DifferentialProved!SimulatedResults(Len(scenario.probes) + 1, 1)
      unrunnable == {i \in DOMAIN scenario.probes : Len(Principals(i)) < 2}
  IN  [chunks_examined |-> Cardinality(DOMAIN variant.chunks),
       chunks_untraceable |-> Cardinality({f \in found : f.expected = None}),
       propagation |-> found,
       probes |-> judged,
       probes_skipped |-> unrunnable,
       partial |-> unrunnable # {} \/ \E r \in judged : r.absent_from_index # {}]

\* The same fixtures yield the same report and exit status, in whatever order their chunks
\* come; of a live store only the answers matter, and neither the findings nor the probes
\* skipped depend on them.
ReportIsDetermined ==
  report # None =>
    /\ report.propagation = TheReport.propagation
    /\ report.chunks_untraceable = TheReport.chunks_untraceable
    /\ report.probes_skipped = TheReport.probes_skipped
    /\ ~live => report = TheReport
    /\ ~live /\ status \in {"zero", "one"} => status = ExitStatus(TheReport)

\* What the axes compute, carried over.
Computed ==
  /\ findings = PropagationProved!VerdictsOn(DOMAIN variant.chunks \ unexamined)
  /\ untraceable = Cardinality({f \in findings : f.expected = None})
  /\ ~live => results = DifferentialProved!SimulatedResults(probe, turn)
  /\ skipped = {i \in 1..(probe - 1) : Len(Principals(i)) < 2}

LEMMA ComputedCorrect == Spec => []Computed
<1>1. PropagationProved!Spec => []PropagationProved!FindingsAreVerdicts
  BY PropagationProved!FindingsCorrect, PropagationAssumptions
<1>2. PropagationProved!Spec => []PropagationProved!AccountedOnce
  BY PropagationProved!AccountedCorrect, PropagationAssumptions
<1>3. DifferentialProved!Spec => []DifferentialProved!ResultsAreSimulated
  BY DifferentialProved!ResultsCorrect, DifferentialAssumptions
<1>4. /\ PropagationProved!FindingsAreVerdicts /\ PropagationProved!AccountedOnce
      /\ DifferentialProved!ResultsAreSimulated /\ PropagationFacts /\ DifferentialFacts
      => Computed
  <2> SUFFICES ASSUME PropagationProved!FindingsAreVerdicts, PropagationProved!AccountedOnce,
                      DifferentialProved!ResultsAreSimulated, PropagationFacts, DifferentialFacts
               PROVE  Computed
    OBVIOUS
  <2>1. untraceable = Cardinality({f \in findings : f.expected = None})
    BY DEF PropagationProved!AccountedOnce, PropagationProved!Cardinality, Cardinality
  <2>2. \A i \in 1..(probe - 1) :
          ~DifferentialProved!Runnable(DifferentialProved!Probes[i]) <=> Len(Principals(i)) < 2
    <3>1. scenario.probes \in Seq(Probe)
      BY ScenariosAssumption DEF PropagationFacts, IsScenario
    <3>2. ASSUME NEW i \in 1..(probe - 1) PROVE Len(Principals(i)) \in Nat
      <4>1. i \in DOMAIN scenario.probes
        BY <3>1 DEF DifferentialFacts
      <4>2. scenario.probes[i] \in Probe
        BY <3>1, <4>1
      <4> QED
        BY <4>2 DEF Probe, Principals
    <3>3. DifferentialProved!Probes = scenario.probes
      BY DEF DifferentialProved!Probes
    <3> QED
      BY <3>2, <3>3 DEF DifferentialProved!Runnable, Principals
  <2>3. skipped = {i \in 1..(probe - 1) : Len(Principals(i)) < 2}
    BY <2>2 DEF DifferentialProved!ResultsAreSimulated
  <2> QED
    BY <2>1, <2>3
       DEF Computed, PropagationProved!FindingsAreVerdicts, DifferentialProved!ResultsAreSimulated
<1> QED
  BY <1>1, <1>2, <1>3, <1>4, PropagationFactsCorrect, DifferentialFactsCorrect,
     RunsCheckPropagation, RunsRunProbes, PTL

\* A verification is a function of its fixtures, whatever they are.
THEOREM ReportDeterminedCorrect == Spec => []ReportIsDetermined
<1>1. PropagationFacts /\ DifferentialFacts /\ Phased /\ Computed => ReportIsDetermined
  <2> SUFFICES ASSUME PropagationFacts, DifferentialFacts, Phased, Computed, report # None
               PROVE  ReportIsDetermined
    BY DEF ReportIsDetermined
  <2> DEFINE found == PropagationProved!VerdictsOn(DOMAIN variant.chunks)
             judged == DifferentialProved!SimulatedResults(Len(scenario.probes) + 1, 1)
             unrunnable == {i \in DOMAIN scenario.probes : Len(Principals(i)) < 2}
  <2>1. /\ report = ReportOfState /\ unexamined = {}
        /\ probe = Len(scenario.probes) + 1 /\ DOMAIN scenario.probes = 1..(probe - 1)
    BY ReportedFacts
  <2>2. findings = found
    <3>1. DOMAIN variant.chunks \ unexamined = DOMAIN variant.chunks
      BY <2>1
    <3> QED
      BY <3>1 DEF Computed
  <2>3. untraceable = Cardinality({f \in found : f.expected = None})
    BY <2>2 DEF Computed
  <2>4. skipped = unrunnable
    BY <2>1 DEF Computed
  <2>5. ASSUME ~live PROVE results = judged
    <3>1. DifferentialProved!Probes = scenario.probes
      BY DEF DifferentialProved!Probes
    <3>2. \A i \in DOMAIN scenario.probes :
            DifferentialProved!TurnsBefore(i, probe, turn) = DifferentialProved!TurnsBefore(i, probe, 1)
      <4>1. \A i \in DOMAIN scenario.probes : i < probe
        BY <2>1 DEF DifferentialFacts
      <4> QED
        BY <4>1 DEF DifferentialProved!TurnsBefore
    <3>3. DifferentialProved!SimulatedResults(probe, turn)
            = DifferentialProved!SimulatedResults(probe, 1)
      BY <3>1, <3>2 DEF DifferentialProved!SimulatedResults
    <3> QED
      BY <2>1, <2>5, <3>3 DEF Computed
  <2>6. /\ TheReport.propagation = found
        /\ TheReport.chunks_untraceable = Cardinality({f \in found : f.expected = None})
        /\ TheReport.probes_skipped = unrunnable
    BY DEF TheReport
  <2>7. /\ report.propagation = findings /\ report.chunks_untraceable = untraceable
        /\ report.probes_skipped = skipped
    BY <2>1 DEF ReportOfState
  <2>8. ASSUME ~live PROVE report = TheReport
    <3> HIDE DEF found, judged, unrunnable
    <3>1. TheReport =
            [chunks_examined |-> Cardinality(DOMAIN variant.chunks),
             chunks_untraceable |-> Cardinality({f \in found : f.expected = None}),
             propagation |-> found,
             probes |-> judged,
             probes_skipped |-> unrunnable,
             partial |-> unrunnable # {} \/ \E r \in judged : r.absent_from_index # {}]
      BY DEF TheReport, found, judged, unrunnable
    <3>2. results = judged
      BY <2>5, <2>8
    <3> QED
      BY <2>1, <2>2, <2>3, <2>4, <3>1, <3>2 DEF ReportOfState, Partial
  <2>9. ASSUME ~live, status \in {"zero", "one"} PROVE status = ExitStatus(TheReport)
    BY <2>8, <2>9 DEF Phased
  <2> QED
    BY <2>2, <2>3, <2>4, <2>6, <2>7, <2>8, <2>9 DEF ReportIsDetermined
<1> QED
  BY <1>1, PropagationFactsCorrect, DifferentialFactsCorrect, PhasedCorrect, ComputedCorrect, PTL

----------------------------------------------------------------------------
(* The contract *)

\* What was answered, as the contract sees it.
Answers == {[probe |-> r.probe, turn |-> r.turn, ids |-> r.answer] : r \in results}

LEMMA ContractWorld ==
  /\ \A s, k : Contract!Located(s, k) = Located(s, k)
  /\ \A s, k, j : Contract!SourceAt(s, k, j) = SourceAt(s, k, j)
  /\ \A s, k, p : Contract!SourcesGrant(s, k, p) <=> SourcesGrant(s, k, p)
  /\ \A f : Contract!Range(f) = Range(f)
<1>1. /\ \A s, k : Contract!Located(s, k) = Located(s, k)
      /\ \A s, k, j : Contract!SourceAt(s, k, j) = SourceAt(s, k, j)
      /\ \A f : Contract!Range(f) = Range(f)
  BY DEF Located, SourceAt, Range, Contract!Located, Contract!SourceAt, Contract!Range
<1>2. \A s, k : Contract!SourceEntitlements(s, k) = SourceEntitlements(s, k)
  BY <1>1 DEF SourceEntitlements, Contract!SourceEntitlements
<1>3. \A r, e, p : Contract!Entitled(r, e, p) <=> Entitled(r, e, p)
  BY DEF Entitled, ClausesGrant, Combine, TenantClause, RoleClause, DirectClause,
         Contract!Entitled, Contract!ClausesGrant, Contract!Combine, Contract!TenantClause,
         Contract!RoleClause, Contract!DirectClause
<1>4. \A s, k, p : Contract!SourcesGrant(s, k, p) <=> SourcesGrant(s, k, p)
  BY <1>2, <1>3 DEF SourcesGrant, EntitledByAll, Contract!SourcesGrant, Contract!EntitledByAll
<1> QED
  BY <1>1, <1>4

\* The store answered a question faithfully exactly when its result does not contradict.
LEMMA FaithfulIsUncontradicted ==
  ASSUME NEW r, ResultFacts(r)
  PROVE  Contract!Faithful([probe |-> r.probe, turn |-> r.turn, ids |-> r.answer])
           <=> r.verdict # "contradicted"
<1> DEFINE a == [probe |-> r.probe, turn |-> r.turn, ids |-> r.answer]
           p == Asker(r)
<1>1. scenario.principals[scenario.probes[a.probe].principals[a.turn]] = p
  BY DEF ResultFacts, Asker, Principals
<1>2. \A ids : Contract!Grants(ids, p) = {c \in ids \cap DOMAIN variant.chunks : Granted(c, p)}
  BY ContractWorld DEF Contract!Grants, Granted
<1>3. \A ids : Contract!Unjudged(ids) =
                 {c \in ids : c \in DOMAIN variant.chunks => ~HasSource(c)}
  BY ContractWorld DEF Contract!Unjudged, HasSource
<1>4. Contract!Range(scenario.probes[a.probe].matches) = Listed(r.probe)
  BY ContractWorld DEF Listed
<1>5. Contract!Faithful(a) <=>
        /\ r.answer \subseteq Contract!Grants(r.answer, p) \cup Contract!Unjudged(r.answer)
        /\ Contract!Grants(Listed(r.probe), p) \subseteq r.answer
  BY <1>1, <1>4 DEF Contract!Faithful
<1> HIDE DEF a, p
<1>6. r.verdict = "contradicted" <=>
        \/ \E c \in r.answer \cap DOMAIN variant.chunks : HasSource(c) /\ ~Granted(c, p)
        \/ \E c \in Listed(r.probe) \cap DOMAIN variant.chunks : Granted(c, p) /\ c \notin r.answer
  BY DEF ResultFacts, p
<1>7. Contract!Faithful(a) <=> r.verdict # "contradicted"
  BY <1>2, <1>3, <1>5, <1>6
<1> QED
  BY <1>7 DEF a

\* The exit status is zero exactly when there is nothing left to explain.
LEMMA ZeroIsClean ==
  ASSUME PropagationFacts, DifferentialFacts, Phased, report # None
  PROVE  ExitStatus(report) = "zero" <=> Contract!Clean
<1>1. /\ report = ReportOfState
      /\ \A c \in DOMAIN variant.chunks : (\A f \in findings : f.chunk_id # c) <=> SaysTheSame(c)
      /\ DOMAIN scenario.probes = 1..(probe - 1)
  BY ReportedFacts
<1>2. ExitStatus(report) = "zero" <=>
        /\ findings = {}
        /\ \A r \in results : r.verdict # "contradicted"
        /\ skipped = {} /\ \A r \in results : r.absent_from_index = {}
  BY <1>1 DEF ExitStatus, ReportOfState, Partial
<1>3. findings = {} <=> \A c \in DOMAIN variant.chunks : Contract!SaysWhatItsSourceSays(variant.chunks[c])
  <2>1. ASSUME NEW c \in DOMAIN variant.chunks
        PROVE  SaysTheSame(c) <=> Contract!SaysWhatItsSourceSays(variant.chunks[c])
    BY ContractWorld DEF SaysTheSame, Contract!SaysWhatItsSourceSays, Located
  <2>2. findings = {} <=> \A c \in DOMAIN variant.chunks : SaysTheSame(c)
    BY <1>1 DEF PropagationFacts
  <2> QED
    BY <2>1, <2>2
<1>4. (\A r \in results : r.verdict # "contradicted") <=> \A a \in Answers : Contract!Faithful(a)
  <2>1. \A r \in results : ResultFacts(r)
    BY DEF DifferentialFacts
  <2>2. \A r \in results :
          Contract!Faithful([probe |-> r.probe, turn |-> r.turn, ids |-> r.answer])
            <=> r.verdict # "contradicted"
    BY <2>1, FaithfulIsUncontradicted
  <2> QED
    BY <2>2 DEF Answers
<1>5. (skipped = {} /\ \A r \in results : r.absent_from_index = {})
        <=> \A i \in DOMAIN scenario.probes : Contract!Exercised(i)
  <2>0. \A i : Contract!Exercised(i) <=>
                 Len(Principals(i)) >= 2 /\ Listed(i) \subseteq DOMAIN variant.chunks
    BY ContractWorld DEF Contract!Exercised, Contract!Comparison, Principals, Listed
  <2>1. ASSUME skipped = {}, \A r \in results : r.absent_from_index = {},
               NEW i \in DOMAIN scenario.probes
        PROVE  Contract!Exercised(i)
    <3>1. /\ Len(Principals(i)) >= 2
          /\ \A k \in DOMAIN Principals(i) : \E r \in results : r.probe = i /\ r.turn = k
      BY <1>1, <2>1 DEF DifferentialFacts
    <3>2. Principals(i) \in Seq(PrincipalIds)
      <4>1. scenario.probes \in Seq(Probe)
        BY ScenariosAssumption DEF PropagationFacts, IsScenario
      <4>2. scenario.probes[i] \in Probe
        BY <2>1, <4>1
      <4> QED
        BY <4>2 DEF Probe, Principals
    <3>3. 1 \in DOMAIN Principals(i)
      BY <3>1, <3>2
    <3>4. PICK r \in results : r.probe = i
      BY <3>1, <3>3
    <3>5. ResultFacts(r) /\ r.absent_from_index = {}
      BY <2>1 DEF DifferentialFacts
    <3>6. Listed(i) \subseteq DOMAIN variant.chunks
      BY <3>4, <3>5 DEF ResultFacts
    <3> QED
      BY <2>0, <3>1, <3>6
  <2>2. ASSUME \A i \in DOMAIN scenario.probes : Contract!Exercised(i)
        PROVE  skipped = {} /\ \A r \in results : r.absent_from_index = {}
    <3>1. ASSUME NEW i \in skipped PROVE FALSE
      <4>1. i \in DOMAIN scenario.probes /\ Len(Principals(i)) < 2
        BY <1>1 DEF DifferentialFacts
      <4>2. Len(Principals(i)) \in Nat
        <5>1. scenario.probes \in Seq(Probe)
          BY ScenariosAssumption DEF PropagationFacts, IsScenario
        <5>2. scenario.probes[i] \in Probe
          BY <4>1, <5>1
        <5> QED
          BY <5>2 DEF Probe, Principals
      <4> QED
        BY <2>0, <2>2, <4>1, <4>2
    <3>2. ASSUME NEW r \in results PROVE r.absent_from_index = {}
      <4>1. ResultFacts(r)
        BY DEF DifferentialFacts
      <4> QED
        BY <2>0, <2>2, <4>1 DEF ResultFacts
    <3> QED
      BY <3>1, <3>2
  <2> QED
    BY <2>1, <2>2
<1> QED
  BY <1>2, <1>3, <1>4, <1>5 DEF Contract!Clean, Answers

\* A turn of run_probes puts a question that was not put before.
LEMMA AskAnswers ==
  ASSUME PropagationFacts, DifferentialFacts, Phased, phase = "run_probes",
         NEW answer \in SUBSET ChunkIds, Differential!Ask(answer), status' = status
  PROVE  \E q \in Contract!Questions, ids \in SUBSET ChunkIds : Contract!Answer(q[1], q[2], ids)
<1> DEFINE p == scenario.principals[Differential!PrincipalOnTurn]
           new == Differential!Judged(probe, turn, p, answer)
           q == <<probe, turn>>
<1>1. /\ probe \in DOMAIN scenario.probes /\ Len(Principals(probe)) >= 2
      /\ Differential!PrincipalOnTurn = Principals(probe)[turn]
      /\ turn \in Nat \ {0} => turn \in DOMAIN Principals(probe)
  <2>1. /\ probe \in DOMAIN scenario.probes /\ Len(Principals(probe)) >= 2
        /\ turn <= Len(Principals(probe))
        /\ Differential!PrincipalOnTurn = Principals(probe)[turn]
    BY DEF Differential!Ask, Differential!Turn, Differential!Running, Differential!InProbe,
       Differential!Probes, Differential!Runnable, Differential!PrincipalOnTurn, Principals
  <2>2. scenario.probes \in Seq(Probe)
    BY ScenariosAssumption DEF PropagationFacts, IsScenario
  <2>3. scenario.probes[probe] \in Probe
    BY <2>1, <2>2
  <2>4. Principals(probe) \in Seq(PrincipalIds)
    BY <2>3 DEF Probe, Principals
  <2> QED
    BY <2>1, <2>4
<1>2. turn \in Nat \ {0}
  BY DEF DifferentialFacts
<1>3. q \in Contract!Questions
  BY <1>1, <1>2 DEF Contract!Questions, Principals
<1>4. new.probe = probe /\ new.turn = turn /\ new.answer = answer
  BY DEF Differential!Judged
<1>5. /\ results' = results \cup {new}
      /\ scenario' = scenario /\ variant' = variant
      /\ Differential!PrincipalOnTurn \in DOMAIN scenario.principals
  BY DEF Differential!Ask
<1> HIDE DEF new
<1>6. Answers' = Answers \cup {[probe |-> probe, turn |-> turn, ids |-> answer]}
  BY <1>4, <1>5 DEF Answers
<1>7. \A a \in Answers : <<a.probe, a.turn>> # <<probe, turn>>
  <2>1. \A r \in results : r.probe \in Nat /\ r.turn \in Nat
    BY DEF DifferentialFacts, Differential!ProbeResult
  <2>2. \A r \in results : r.probe # probe \/ r.turn # turn
    BY <1>2, <2>1 DEF DifferentialFacts
  <2> QED
    BY <2>2 DEF Answers
<1>8. status = None
  BY DEF Phased
<1>9. Contract!Answer(probe, turn, answer)
  BY <1>1, <1>2, <1>5, <1>6, <1>7, <1>8
     DEF Contract!Answer, Contract!Comparison, Answers, Principals
<1>10. q[1] = probe /\ q[2] = turn
  OBVIOUS
<1> HIDE DEF q
<1> QED
  BY <1>3, <1>9, <1>10

\* A verification keeps its contract: the exit status is zero exactly when every chunk, every
\* probe and every answer leaves nothing to explain, and no question is put twice.
THEOREM Refinement == Spec => RefinesContract
<1>1. Init => Contract!Init
  BY DEF Init, Propagation!Init, Differential!Init, Contract!Init
<1>2. PropagationFacts /\ DifferentialFacts /\ Phased /\ [Next]_vars
        => [Contract!Next]_(Contract!vars)
  <2> SUFFICES ASSUME PropagationFacts, DifferentialFacts, Phased, [Next]_vars
               PROVE  Contract!Next \/ UNCHANGED Contract!vars
    OBVIOUS
  <2>0. UNCHANGED <<scenario, variant, results, status>> => UNCHANGED Contract!vars
    BY DEF Contract!vars
  <2>1. CASE CheckPropagation
    <3>1. scenario' = scenario /\ variant' = variant
      BY <2>1 DEF CheckPropagation, Propagation!Next, Propagation!ExamineChunk,
         Propagation!ReportUntraceable, Propagation!PassSingleSource,
         Propagation!ContradictSingleSource, Propagation!FailOnTimes, Propagation!StartBound,
         Propagation!IntersectNext, Propagation!ReportIndeterminate,
         Propagation!ReportExceeding, Propagation!Judge
    <3> QED
      BY <2>0, <2>1, <3>1 DEF CheckPropagation, probesVars
  <2>2. CASE RunProbes
    <3>1. phase = "run_probes" /\ status' = status
      BY <2>2 DEF RunProbes
    <3>2. ASSUME NEW answer \in SUBSET ChunkIds, Differential!Ask(answer)
          PROVE  Contract!Next
      BY <3>1, <3>2, AskAnswers DEF Contract!Next
    <3>3. \/ \E answer \in SUBSET ChunkIds : Differential!Ask(answer)
          \/ UNCHANGED <<scenario, variant, results>>
      BY <2>2 DEF RunProbes, Differential!Next, Differential!FailOnEnforcement,
         Differential!SkipProbe, Differential!FailOnPrincipal, Differential!FailOnRetrieve,
         Differential!NextProbe
    <3> QED
      BY <2>0, <3>1, <3>2, <3>3
  <2>3. CASE PropagationReturns \/ MakeReport \/ UNCHANGED vars
    BY <2>0, <2>3 DEF PropagationReturns, MakeReport, vars, probesVars
  <2>4. CASE Exit
    <3>1. /\ phase = "report" /\ status' = ExitStatus(report)
          /\ UNCHANGED <<scenario, variant, results>>
      BY <2>4 DEF Exit, probesVars
    <3>2. status = None /\ report # None
      BY <3>1, ReportType DEF Phased
    <3>3. Contract!AllAnswered
      <4> SUFFICES ASSUME NEW q \in Contract!Questions, Contract!Comparison(q[1])
                   PROVE  \E a \in Answers : a.probe = q[1] /\ a.turn = q[2]
        BY DEF Contract!AllAnswered, Answers
      <4>1. q[1] \in DOMAIN scenario.probes /\ q[2] \in DOMAIN Principals(q[1])
        BY DEF Contract!Questions, Principals
      <4>2. q[1] \in 1..(probe - 1)
        BY <3>2, <4>1, ReportedFacts
      <4>3. q[1] \notin skipped
        <5>1. Len(scenario.probes[q[1]].principals) >= 2
          BY DEF Contract!Comparison
        <5>2. scenario.probes \in Seq(Probe)
          BY ScenariosAssumption DEF PropagationFacts, IsScenario
        <5>3. scenario.probes[q[1]].principals \in Seq(PrincipalIds)
          <6> DEFINE p == scenario.probes[q[1]]
          <6>1. p \in Probe
            BY <4>1, <5>2
          <6> HIDE DEF p
          <6>2. p.principals \in Seq(PrincipalIds)
            BY <6>1 DEF Probe
          <6> QED
            BY <6>2 DEF p
        <5>4. Len(scenario.probes[q[1]].principals) \in Nat
          BY <5>3
        <5>5. \A i \in skipped : Len(scenario.probes[i].principals) < 2
          BY DEF DifferentialFacts, Principals
        <5> QED
          BY <5>1, <5>4, <5>5
      <4>4. PICK r \in results : r.probe = q[1] /\ r.turn = q[2]
        BY <4>1, <4>2, <4>3 DEF DifferentialFacts
      <4> DEFINE a == [probe |-> r.probe, turn |-> r.turn, ids |-> r.answer]
      <4>5. a \in Answers
        BY <4>4 DEF Answers
      <4>6. a.probe = q[1] /\ a.turn = q[2]
        BY <4>4
      <4> QED
        BY <4>5, <4>6
    <3>4. ExitStatus(report) = IF Contract!Clean THEN "zero" ELSE "one"
      BY <3>2, ZeroIsClean DEF ExitStatus
    <3>5. Contract!Exit
      BY <3>1, <3>2, <3>3, <3>4 DEF Contract!Exit
    <3> QED
      BY <3>5 DEF Contract!Next
  <2>5. CASE Raise
    <3>1. Contract!Raise
      BY <2>5 DEF Raise, probesVars, Contract!Raise, Phased
    <3> QED
      BY <3>1 DEF Contract!Next
  <2> QED
    BY <2>1, <2>2, <2>3, <2>4, <2>5 DEF Next
<1> QED
  BY <1>1, <1>2, PropagationFactsCorrect, DifferentialFactsCorrect, PhasedCorrect, PTL
     DEF Spec, RefinesContract, Contract!Spec

----------------------------------------------------------------------------
(* The run comes to an end: every step leaves less to do.                  *)

\* What is left of a run, the weightiest first.
PhasesLeft ==
  CASE phase = "check_propagation" -> 3
    [] phase = "run_probes" -> 2
    [] phase = "report" -> 1
    [] OTHER -> 0
AxesLeft == (IF propagationFailed THEN 0 ELSE 1) + (IF probesFailed THEN 0 ELSE 1)
ChunksLeft == Cardinality(unexamined)
ChunkUnbegun == IF current = None THEN 1 ELSE 0
SourcesLeft == Cardinality(left)
ProbesLeft == Len(scenario.probes) + 1 - probe
TurnsLeft == IF Differential!InProbe THEN Len(Principals(probe)) + 1 - turn ELSE 0

Remaining ==
  <<PhasesLeft, AxesLeft, ChunksLeft, ChunkUnbegun, SourcesLeft, ProbesLeft, TurnsLeft>>

\* Seven numbers are less than seven others when they are at the first place that differs.
Counts == [1..7 -> Nat]
NatBelow == {ss \in Nat \X Nat : ss[1] < ss[2]}
Fewer == LexProductOrdering(NatBelow, Nat, 7)

\* They cannot become less for ever.
LEMMA FewerIsWellFounded == IsWellFoundedOn(Fewer, Counts)
<1>1. NatBelow = OpToRel(<, Nat)
  BY DEF NatBelow, OpToRel
<1>2. IsWellFoundedOn(NatBelow, Nat)
  BY <1>1, NatLessThanWellFounded
<1>3. 7 \in Nat
  OBVIOUS
<1> QED
  BY <1>2, <1>3, WFLexProductOrdering DEF Fewer, Counts

LEMMA FewerAt ==
  ASSUME NEW a \in Counts, NEW b \in Counts, NEW j \in 1..7,
         \A i \in 1..(j - 1) : a[i] = b[i], a[j] < b[j]
  PROVE  <<a, b>> \in Fewer
<1>1. a[j] \in Nat /\ b[j] \in Nat
  BY DEF Counts
<1>2. <<a[j], b[j]>> \in NatBelow
  BY <1>1 DEF NatBelow
<1>3. \E k \in 1..7 : /\ \A i \in 1..(k - 1) : a[i] = b[i]
                      /\ <<a[k], b[k]>> \in NatBelow
  BY <1>2
<1> QED
  BY <1>3 DEF Fewer, LexProductOrdering, Counts

\* Some count is less, and none that weighs more has changed.
SomethingDone ==
  \/ PhasesLeft' < PhasesLeft
  \/ /\ UNCHANGED PhasesLeft
     /\ AxesLeft' < AxesLeft
  \/ /\ UNCHANGED <<PhasesLeft, AxesLeft>>
     /\ ChunksLeft' < ChunksLeft
  \/ /\ UNCHANGED <<PhasesLeft, AxesLeft, ChunksLeft>>
     /\ ChunkUnbegun' < ChunkUnbegun
  \/ /\ UNCHANGED <<PhasesLeft, AxesLeft, ChunksLeft, ChunkUnbegun>>
     /\ SourcesLeft' < SourcesLeft
  \/ /\ UNCHANGED <<PhasesLeft, AxesLeft, ChunksLeft, ChunkUnbegun, SourcesLeft>>
     /\ ProbesLeft' < ProbesLeft
  \/ /\ UNCHANGED <<PhasesLeft, AxesLeft, ChunksLeft, ChunkUnbegun, SourcesLeft, ProbesLeft>>
     /\ TurnsLeft' < TurnsLeft

LEMMA DoneIsFewer ==
  ASSUME Remaining \in Counts, Remaining' \in Counts, SomethingDone
  PROVE  <<Remaining', Remaining>> \in Fewer
<1> DEFINE a == Remaining'
           b == Remaining
<1>1. /\ a[1] = PhasesLeft' /\ a[2] = AxesLeft' /\ a[3] = ChunksLeft' /\ a[4] = ChunkUnbegun'
      /\ a[5] = SourcesLeft' /\ a[6] = ProbesLeft' /\ a[7] = TurnsLeft'
      /\ b[1] = PhasesLeft /\ b[2] = AxesLeft /\ b[3] = ChunksLeft /\ b[4] = ChunkUnbegun
      /\ b[5] = SourcesLeft /\ b[6] = ProbesLeft /\ b[7] = TurnsLeft
  BY DEF Remaining
<1>2. a \in Counts /\ b \in Counts
  OBVIOUS
<1> HIDE DEF a, b
<1>3. \E j \in 1..7 : (\A i \in 1..(j - 1) : a[i] = b[i]) /\ a[j] < b[j]
  <2>1. CASE a[1] < b[1]
    BY <2>1, 1 \in 1..7
  <2>2. CASE a[1] = b[1] /\ a[2] < b[2]
    BY <2>2, 2 \in 1..7
  <2>3. CASE a[1] = b[1] /\ a[2] = b[2] /\ a[3] < b[3]
    BY <2>3, 3 \in 1..7
  <2>4. CASE a[1] = b[1] /\ a[2] = b[2] /\ a[3] = b[3] /\ a[4] < b[4]
    BY <2>4, 4 \in 1..7
  <2>5. CASE a[1] = b[1] /\ a[2] = b[2] /\ a[3] = b[3] /\ a[4] = b[4] /\ a[5] < b[5]
    BY <2>5, 5 \in 1..7
  <2>6. CASE a[1] = b[1] /\ a[2] = b[2] /\ a[3] = b[3] /\ a[4] = b[4] /\ a[5] = b[5] /\ a[6] < b[6]
    BY <2>6, 6 \in 1..7
  <2>7. CASE /\ a[1] = b[1] /\ a[2] = b[2] /\ a[3] = b[3] /\ a[4] = b[4] /\ a[5] = b[5]
             /\ a[6] = b[6] /\ a[7] < b[7]
    BY <2>7, 7 \in 1..7
  <2> QED
    BY <1>1, <2>1, <2>2, <2>3, <2>4, <2>5, <2>6, <2>7 DEF SomethingDone
<1>4. <<a, b>> \in Fewer
  BY <1>2, <1>3, FewerAt
<1> QED
  BY <1>4 DEF a, b

LEMMA GivenStays ==
  ASSUME [Next]_vars
  PROVE  scenario' = scenario /\ variant' = variant
<1>1. CASE CheckPropagation
  BY <1>1 DEF CheckPropagation, Propagation!Next, Propagation!ExamineChunk,
     Propagation!ReportUntraceable, Propagation!PassSingleSource,
     Propagation!ContradictSingleSource, Propagation!FailOnTimes, Propagation!StartBound,
     Propagation!IntersectNext, Propagation!ReportIndeterminate,
     Propagation!ReportExceeding, Propagation!Judge
<1>2. CASE RunProbes
  BY <1>2 DEF RunProbes, Differential!Next, Differential!FailOnEnforcement,
     Differential!SkipProbe, Differential!FailOnPrincipal, Differential!FailOnRetrieve,
     Differential!Ask, Differential!NextProbe
<1>3. CASE PropagationReturns \/ MakeReport \/ Exit \/ Raise \/ UNCHANGED vars
  BY <1>3 DEF PropagationReturns, MakeReport, Exit, Raise, vars
<1> QED
  BY <1>1, <1>2, <1>3 DEF Next

\* A turn other than the first is one of a probe that is run.
TurnFacts == turn # 1 => Differential!InProbe /\ Len(Principals(probe)) >= 2

LEMMA TurnFactsCorrect == Spec => []TurnFacts
<1>1. Init => TurnFacts
  BY DEF Init, Differential!Init, TurnFacts
<1>2. TurnFacts /\ [Next]_vars => TurnFacts'
  <2> SUFFICES ASSUME TurnFacts, [Next]_vars PROVE TurnFacts'
    OBVIOUS
  <2>1. scenario' = scenario
    BY GivenStays
  <2>2. CASE turn' = turn /\ probe' = probe
    BY <2>1, <2>2 DEF TurnFacts, Differential!InProbe, Differential!Probes, Principals
  <2>3. CASE turn' = 1
    BY <2>3 DEF TurnFacts
  <2>4. CASE RunProbes
    <3>1. CASE \E answer \in SUBSET ChunkIds : Differential!Ask(answer)
      <4>1. Differential!Turn /\ probe' = probe
        BY <3>1 DEF Differential!Ask
      <4> QED
        BY <2>1, <4>1 DEF TurnFacts, Differential!Turn, Differential!Running,
           Differential!Runnable, Differential!InProbe, Differential!Probes, Principals
    <3>2. CASE Differential!SkipProbe \/ Differential!NextProbe
      BY <2>3, <3>2 DEF Differential!SkipProbe, Differential!NextProbe
    <3>3. CASE Differential!FailOnEnforcement \/ Differential!FailOnPrincipal
               \/ Differential!FailOnRetrieve
      BY <2>2, <3>3 DEF Differential!FailOnEnforcement, Differential!FailOnPrincipal,
         Differential!FailOnRetrieve
    <3> QED
      BY <2>4, <3>1, <3>2, <3>3 DEF RunProbes, Differential!Next
  <2>5. CASE CheckPropagation \/ PropagationReturns \/ MakeReport \/ Exit \/ Raise \/ UNCHANGED vars
    BY <2>2, <2>5 DEF CheckPropagation, PropagationReturns, MakeReport, Exit, Raise, vars, probesVars
  <2> QED
    BY <2>4, <2>5 DEF Next
<1> QED
  BY <1>1, <1>2, PTL DEF Spec

\* Where the loops are: within what they were given.
LoopFacts ==
  /\ unexamined \subseteq DOMAIN variant.chunks
  /\ current \in unexamined \cup {None}
  /\ current # None => left \subseteq Located(scenario, variant.chunks[current])
  /\ current = None => left = {}
  /\ Differential!InProbe => turn <= Len(Principals(probe)) + 1
  /\ TurnFacts

LEMMA LoopFactsCorrect == Spec => []LoopFacts
<1>1. PropagationProved!Spec => []PropagationProved!TypeOK
  BY PropagationProved!TypeCorrect, PropagationAssumptions
<1>2. DifferentialProved!Spec => []DifferentialProved!TypeOK
  BY DifferentialProved!TypeCorrect, DifferentialAssumptions
<1>3. PropagationProved!TypeOK /\ DifferentialProved!TypeOK /\ TurnFacts => LoopFacts
  <2> SUFFICES ASSUME PropagationProved!TypeOK, DifferentialProved!TypeOK, TurnFacts
               PROVE  LoopFacts
    OBVIOUS
  <2>1. /\ unexamined \subseteq DOMAIN variant.chunks
        /\ current \in unexamined \cup {None}
        /\ current = None => left = {}
        /\ current # None => left \subseteq PropagationProved!LocatedOf(current)
    BY DEF PropagationProved!TypeOK
  <2>2. \A c : PropagationProved!LocatedOf(c) = Located(scenario, variant.chunks[c])
    BY PropagationWorld DEF PropagationProved!LocatedOf, PropagationProved!ChunkOf
  <2>3. DifferentialProved!InProbe => turn <= Len(DifferentialProved!Probes[probe].principals) + 1
    BY DEF DifferentialProved!TypeOK
  <2>4. Differential!InProbe => turn <= Len(Principals(probe)) + 1
    BY <2>3 DEF DifferentialProved!InProbe, Differential!InProbe, DifferentialProved!Probes,
       Differential!Probes, Principals
  <2> QED
    BY <2>1, <2>2, <2>4 DEF LoopFacts
<1> QED
  BY <1>1, <1>2, <1>3, TurnFactsCorrect, RunsCheckPropagation, RunsRunProbes, PTL

\* Why an axis failed: what it could not go through is in what it was given, or in the store.
WhyLost ==
  /\ propagationFailed => \E c \in DOMAIN variant.chunks : HasIncomparableTimes(variant.chunks[c])
  /\ probesFailed =>
       \/ live \/ ~EnforcementIsKnown
       \/ \E i \in DOMAIN scenario.probes : NamesUnknownIdentity(scenario.probes[i])

\* The one step of the propagation axis that fails meets a chunk with incomparable times.
LEMMA PropagationFailsOnTimes ==
  ASSUME PropagationFacts, NEW c \in unexamined, Propagation!FailOnTimes(c)
  PROVE  HasIncomparableTimes(variant.chunks[c])
<1>1. PICK j \in Propagation!LocatedOf(c) :
        /\ Propagation!LocatedOf(c) = {j}
        /\ ~Propagation!Same(Propagation!TagOf(c), Propagation!SourceOf(c, j).entitlement)
        /\ Propagation!TimesKnown(Propagation!ChunkOf(c), Propagation!SourceOf(c, j))
        /\ ~Propagation!TimesComparable(Propagation!ChunkOf(c), Propagation!SourceOf(c, j))
  BY DEF Propagation!FailOnTimes
<1>2. /\ Propagation!LocatedOf(c) = Located(scenario, variant.chunks[c])
      /\ Propagation!ChunkOf(c) = variant.chunks[c]
      /\ Propagation!TagOf(c) = variant.chunks[c].entitlement
      /\ Propagation!SourceOf(c, j) = SourceAt(scenario, variant.chunks[c], j)
  BY DEF Propagation!LocatedOf, Propagation!ChunkOf, Propagation!TagOf, Propagation!SourceOf,
         Propagation!Located, Located, Propagation!SourceAt, SourceAt
<1>3. variant.chunks[c].entitlement # SourceAt(scenario, variant.chunks[c], j).entitlement
  BY <1>1, <1>2 DEF Propagation!Same
<1> QED
  BY <1>1, <1>2, <1>3 DEF HasIncomparableTimes, Propagation!TimesKnown,
     Propagation!TimesComparable

LEMMA WhyLostCorrect == Spec => []WhyLost
<1>1. Init => WhyLost
  BY DEF Init, Propagation!Init, Differential!Init, WhyLost
<1>2. WhyLost /\ PropagationFacts /\ DifferentialFacts /\ LoopFacts /\ [Next]_vars => WhyLost'
  <2> SUFFICES ASSUME WhyLost, PropagationFacts, DifferentialFacts, LoopFacts, [Next]_vars PROVE WhyLost'
    OBVIOUS
  <2>1. scenario' = scenario /\ variant' = variant
    BY GivenStays
  <2>2. /\ \A chunk : HasIncomparableTimes(chunk)' <=> HasIncomparableTimes(chunk)
        /\ EnforcementIsKnown' <=> EnforcementIsKnown
        /\ \A p : NamesUnknownIdentity(p)' <=> NamesUnknownIdentity(p)
    BY <2>1 DEF HasIncomparableTimes, Located, SourceAt, EnforcementIsKnown, NamesUnknownIdentity
  <2>3. CASE live' = live /\ propagationFailed' = propagationFailed /\ probesFailed' = probesFailed
    BY <2>1, <2>2, <2>3 DEF WhyLost
  <2>4. CASE CheckPropagation
    <3>1. probesFailed' = probesFailed /\ live' = live
      BY <2>4 DEF CheckPropagation, probesVars
    <3>2. CASE \E c \in unexamined : Propagation!FailOnTimes(c)
      <4>1. PICK c \in unexamined : Propagation!FailOnTimes(c)
        BY <3>2
      <4>2. HasIncomparableTimes(variant.chunks[c]) /\ c \in DOMAIN variant.chunks
        BY <4>1, PropagationFailsOnTimes DEF LoopFacts
      <4> QED
        BY <2>1, <2>2, <3>1, <4>2 DEF WhyLost
    <3>3. CASE propagationFailed' = propagationFailed
      BY <2>3, <3>1, <3>3
    <3> QED
      BY <2>4, <3>2, <3>3 DEF CheckPropagation, Propagation!Next, Propagation!ExamineChunk,
         Propagation!ReportUntraceable, Propagation!PassSingleSource,
         Propagation!ContradictSingleSource, Propagation!StartBound, Propagation!IntersectNext,
         Propagation!ReportIndeterminate, Propagation!ReportExceeding, Propagation!Judge
  <2>5. CASE RunProbes
    <3>1. propagationFailed' = propagationFailed
      BY <2>5 DEF RunProbes, propagationVars
    <3>2. live' = live
      BY <2>5 DEF RunProbes, Differential!Next, Differential!FailOnEnforcement,
         Differential!SkipProbe, Differential!FailOnPrincipal, Differential!FailOnRetrieve,
         Differential!Ask, Differential!NextProbe
    <3>3. CASE Differential!FailOnEnforcement
      <4>1. ~EnforcementIsKnown
        BY <3>3 DEF Differential!FailOnEnforcement, Differential!Started, EnforcementIsKnown,
           Differential!EnforcementModels, EnforcementModels
      <4> QED
        BY <2>1, <2>2, <3>1, <4>1 DEF WhyLost
    <3>4. CASE Differential!FailOnPrincipal
      <4>1. /\ probe \in DOMAIN scenario.probes /\ turn \in Nat \ {0}
            /\ Len(scenario.probes[probe].principals) >= 2
            /\ turn <= Len(scenario.probes[probe].principals)
            /\ scenario.probes[probe].principals[turn] \notin DOMAIN scenario.principals
        BY <3>4 DEF Differential!FailOnPrincipal, Differential!Turn, Differential!Running,
           Differential!Runnable, Differential!InProbe, Differential!Probes,
           Differential!PrincipalOnTurn, DifferentialFacts
      <4>2. scenario.probes[probe].principals \in Seq(PrincipalIds)
        <5>1. scenario.probes \in Seq(Probe)
          BY ScenariosAssumption DEF PropagationFacts, IsScenario
        <5>2. scenario.probes[probe] \in Probe
          BY <4>1, <5>1
        <5> QED
          BY <5>2 DEF Probe
      <4>3. turn \in DOMAIN scenario.probes[probe].principals
        BY <4>1, <4>2
      <4>4. NamesUnknownIdentity(scenario.probes[probe])
        BY <4>1, <4>3 DEF NamesUnknownIdentity, Range
      <4> QED
        BY <2>1, <2>2, <3>1, <4>1, <4>4 DEF WhyLost
    <3>5. CASE Differential!FailOnRetrieve
      <4>1. live
        BY <3>5 DEF Differential!FailOnRetrieve
      <4> QED
        BY <2>1, <2>2, <3>1, <3>2, <4>1 DEF WhyLost
    <3>6. CASE probesFailed' = probesFailed
      BY <2>3, <3>1, <3>2, <3>6
    <3> QED
      BY <2>5, <3>3, <3>4, <3>5, <3>6 DEF RunProbes, Differential!Next, Differential!SkipProbe,
         Differential!Ask, Differential!NextProbe
  <2>6. CASE PropagationReturns \/ MakeReport \/ Exit \/ Raise \/ UNCHANGED vars
    BY <2>3, <2>6 DEF PropagationReturns, MakeReport, Exit, Raise, vars, propagationVars, probesVars
  <2> QED
    BY <2>4, <2>5, <2>6 DEF Next
<1> QED
  BY <1>1, <1>2, PropagationFactsCorrect, DifferentialFactsCorrect, LoopFactsCorrect, PTL DEF Spec

\* A failing axis leaves no report: one that is there covers every chunk and every probe.  One
\* that is lost is lost to what the fixtures hold, or to a live store.
THEOREM ReportCompleteCorrect == Spec => []ReportIsComplete
<1>1. PropagationFacts /\ DifferentialFacts /\ Phased /\ WhyLost => ReportIsComplete
  <2> SUFFICES ASSUME PropagationFacts, DifferentialFacts, Phased, WhyLost
               PROVE  ReportIsComplete
    OBVIOUS
  <2>1. ASSUME report # None
        PROVE  /\ report.propagation = findings /\ report.probes = results
               /\ report.probes_skipped = skipped
    BY <2>1, ReportedFacts DEF ReportOfState
  <2>2. ASSUME report # None, NEW c \in DOMAIN variant.chunks
        PROVE  \/ \E f \in findings : f.chunk_id = c
               \/ SourceEntitlements(scenario, variant.chunks[c]) = {variant.chunks[c].entitlement}
    <3>1. CASE SaysTheSame(c)
      BY <3>1, SamenessIsAgreement
    <3> QED
      BY <2>2, <3>1, ReportedFacts
  <2>3. ASSUME report # None, NEW i \in DOMAIN scenario.probes, i \notin skipped
        PROVE  \A k \in DOMAIN scenario.probes[i].principals :
                 \E r \in results : r.probe = i /\ r.turn = k
    BY <2>3, ReportedFacts DEF DifferentialFacts, Principals
  <2>4. report # None => unexamined = {} /\ current = None /\ ~propagationFailed /\ ~probesFailed
    BY ReportedFacts
  <2> QED
    BY <2>1, <2>2, <2>3, <2>4 DEF ReportIsComplete, WhyLost
<1> QED
  BY <1>1, PropagationFactsCorrect, DifferentialFactsCorrect, PhasedCorrect, WhyLostCorrect, PTL

\* The dict of chunks and the list of a chunk's sources are finite.
LEMMA LoopsFinite ==
  ASSUME PropagationFacts, LoopFacts
  PROVE  IsFiniteSet(unexamined) /\ IsFiniteSet(left) /\ left \subseteq Int
<1>1. IsFiniteSet(DOMAIN variant.chunks)
  BY VariantsAssumption DEF PropagationFacts, IsVariant, IsDict
<1>2. IsFiniteSet(unexamined)
  BY <1>1, FS_Subset DEF LoopFacts
<1>3. CASE current = None
  BY <1>2, <1>3, FS_EmptySet DEF LoopFacts
<1>4. CASE current # None
  <2>1. variant.chunks[current] \in Chunk
    BY <1>4, VariantsAssumption DEF PropagationFacts, LoopFacts, IsVariant, IsDict
  <2> DEFINE ids == variant.chunks[current].source_document_ids
  <2>2. ids \in Seq(DocIds)
    BY <2>1 DEF Chunk
  <2>3. DOMAIN ids = 1..Len(ids) /\ Len(ids) \in Nat
    BY <2>2
  <2>4. IsFiniteSet(DOMAIN ids)
    BY <2>3, FS_Interval
  <2>5. left \subseteq DOMAIN ids
    BY <1>4 DEF LoopFacts, Located
  <2>6. IsFiniteSet(left)
    BY <2>4, <2>5, FS_Subset
  <2>7. left \subseteq Int
    BY <2>3, <2>5
  <2> QED
    BY <1>2, <2>6, <2>7
<1> QED
  BY <1>3, <1>4

LEMMA RemainingTyped ==
  ASSUME PropagationFacts, DifferentialFacts, LoopFacts
  PROVE  /\ Remaining \in Counts
         /\ PhasesLeft \in 0..3 /\ AxesLeft \in 0..2 /\ ChunkUnbegun \in 0..1
         /\ ChunksLeft \in Nat /\ SourcesLeft \in Nat
         /\ ProbesLeft \in Nat /\ TurnsLeft \in Nat
<1>1. PhasesLeft \in 0..3 /\ AxesLeft \in 0..2 /\ ChunkUnbegun \in 0..1
  BY DEF PhasesLeft, AxesLeft, ChunkUnbegun
<1>2. ChunksLeft \in Nat /\ SourcesLeft \in Nat
  BY LoopsFinite, FS_CardinalityType DEF ChunksLeft, SourcesLeft
<1>3. scenario.probes \in Seq(Probe)
  BY ScenariosAssumption DEF PropagationFacts, IsScenario
<1>4. ProbesLeft \in Nat
  BY <1>3 DEF ProbesLeft, DifferentialFacts
<1>5. TurnsLeft \in Nat
  <2>1. CASE Differential!InProbe
    <3>1. Len(Principals(probe)) \in Nat
      BY <1>3, <2>1 DEF Differential!InProbe, Differential!Probes, Probe, Principals
    <3> QED
      BY <2>1, <3>1 DEF TurnsLeft, LoopFacts, DifferentialFacts
  <2> QED
    BY <2>1 DEF TurnsLeft
<1>6. Remaining \in Counts
  <2>1. PhasesLeft \in Nat /\ AxesLeft \in Nat /\ ChunkUnbegun \in Nat
    BY <1>1
  <2> QED
    BY <1>2, <1>4, <1>5, <2>1 DEF Remaining, Counts
<1> QED
  BY <1>1, <1>2, <1>4, <1>5, <1>6

\* One fewer.
LEMMA RemovedIsFewer ==
  ASSUME NEW S, IsFiniteSet(S), NEW x \in S
  PROVE  Cardinality(S \ {x}) < Cardinality(S)
<1>1. Cardinality(S \ {x}) = Cardinality(S) - 1 /\ Cardinality(S) \in Nat
  BY FS_RemoveElement, FS_CardinalityType
<1> QED
  BY <1>1

LEMMA PropagationDoes ==
  ASSUME PropagationFacts, DifferentialFacts, LoopFacts, CheckPropagation
  PROVE  SomethingDone
<1>1. UNCHANGED PhasesLeft /\ probesFailed' = probesFailed
  BY DEF CheckPropagation, PhasesLeft, probesVars
<1>2. ASSUME NEW c \in unexamined, unexamined' = unexamined \ {c},
             propagationFailed' = propagationFailed
      PROVE  SomethingDone
  <2>1. ChunksLeft' < ChunksLeft
    BY <1>2, LoopsFinite, RemovedIsFewer DEF ChunksLeft
  <2>2. UNCHANGED AxesLeft
    BY <1>1, <1>2 DEF AxesLeft
  <2> QED
    BY <1>1, <2>1, <2>2 DEF SomethingDone
<1>3. ASSUME NEW c \in unexamined, Propagation!ExamineChunk(c)
      PROVE  SomethingDone
  <2>1. CASE \/ Propagation!ReportUntraceable(c) \/ Propagation!PassSingleSource(c)
             \/ Propagation!ContradictSingleSource(c)
    BY <1>2, <2>1 DEF Propagation!ReportUntraceable, Propagation!PassSingleSource,
       Propagation!ContradictSingleSource, Propagation!Finished
  <2>2. CASE Propagation!FailOnTimes(c)
    <3>1. ~propagationFailed /\ propagationFailed'
      BY <2>2 DEF Propagation!FailOnTimes, Propagation!NextChunk
    <3>2. AxesLeft' < AxesLeft
      BY <1>1, <3>1 DEF AxesLeft
    <3> QED
      BY <1>1, <3>2 DEF SomethingDone
  <2>3. CASE Propagation!StartBound(c)
    <3>1. /\ current = None /\ current' = c
          /\ unexamined' = unexamined /\ propagationFailed' = propagationFailed
      BY <2>3 DEF Propagation!StartBound, Propagation!NextChunk
    <3>2. c # None
      <4>1. c \in ChunkIds
        BY VariantsAssumption DEF PropagationFacts, LoopFacts, IsVariant, IsDict
      <4> QED
        BY <4>1, NoneAssumption
    <3>3. ChunkUnbegun' < ChunkUnbegun
      BY <3>1, <3>2 DEF ChunkUnbegun
    <3>4. UNCHANGED AxesLeft /\ UNCHANGED ChunksLeft
      BY <1>1, <3>1 DEF AxesLeft, ChunksLeft
    <3> QED
      BY <1>1, <3>3, <3>4 DEF SomethingDone
  <2> QED
    BY <1>3, <2>1, <2>2, <2>3 DEF Propagation!ExamineChunk
<1>4. CASE Propagation!IntersectNext
  <2>1. PICK j \in left : left' = left \ {j}
    BY <1>4 DEF Propagation!IntersectNext
  <2>2. UNCHANGED <<unexamined, current, propagationFailed>>
    BY <1>4 DEF Propagation!IntersectNext
  <2>3. SourcesLeft' < SourcesLeft
    BY <2>1, LoopsFinite, RemovedIsFewer DEF SourcesLeft
  <2>4. UNCHANGED AxesLeft /\ UNCHANGED ChunksLeft /\ UNCHANGED ChunkUnbegun
    BY <1>1, <2>2 DEF AxesLeft, ChunksLeft, ChunkUnbegun
  <2> QED
    BY <1>1, <2>3, <2>4 DEF SomethingDone
<1>5. CASE Propagation!ReportIndeterminate \/ Propagation!ReportExceeding
  <2>1. /\ current # None /\ unexamined' = unexamined \ {current}
        /\ propagationFailed' = propagationFailed
    BY <1>5 DEF Propagation!ReportIndeterminate, Propagation!ReportExceeding,
       Propagation!Judge, Propagation!Finished
  <2>2. current \in unexamined
    BY <2>1 DEF LoopFacts
  <2> QED
    BY <1>2, <2>1, <2>2
<1> QED
  BY <1>3, <1>4, <1>5 DEF CheckPropagation, Propagation!Next

LEMMA DifferentialDoes ==
  ASSUME PropagationFacts, DifferentialFacts, LoopFacts, RunProbes
  PROVE  SomethingDone
<1>1. /\ UNCHANGED PhasesLeft /\ UNCHANGED ChunksLeft /\ UNCHANGED ChunkUnbegun
      /\ UNCHANGED SourcesLeft /\ propagationFailed' = propagationFailed
  BY DEF RunProbes, PhasesLeft, ChunksLeft, ChunkUnbegun, SourcesLeft, propagationVars
<1>2. scenario' = scenario
  BY GivenStays DEF Next
<1>3. probesFailed' = probesFailed => UNCHANGED AxesLeft
  BY <1>1 DEF AxesLeft
<1>4. CASE Differential!FailOnEnforcement \/ Differential!FailOnPrincipal
           \/ Differential!FailOnRetrieve
  <2>1. ~probesFailed /\ probesFailed'
    BY <1>4 DEF Differential!FailOnEnforcement, Differential!FailOnPrincipal,
       Differential!FailOnRetrieve, Differential!Turn, Differential!Running
  <2>2. AxesLeft' < AxesLeft
    BY <1>1, <2>1 DEF AxesLeft
  <2> QED
    BY <1>1, <2>2 DEF SomethingDone
<1>5. CASE Differential!SkipProbe \/ Differential!NextProbe
  <2>1. probe' = probe + 1 /\ probesFailed' = probesFailed
    BY <1>5 DEF Differential!SkipProbe, Differential!NextProbe
  <2> DEFINE n == Len(scenario.probes)
  <2>2. ProbesLeft = n + 1 - probe /\ ProbesLeft' = n + 1 - (probe + 1)
    BY <1>2, <2>1 DEF ProbesLeft
  <2>3. n \in Nat /\ probe \in Nat
    <3>1. scenario.probes \in Seq(Probe)
      BY ScenariosAssumption DEF PropagationFacts, IsScenario
    <3> QED
      BY <3>1 DEF DifferentialFacts
  <2> HIDE DEF n
  <2>4. ProbesLeft' < ProbesLeft
    BY <2>2, <2>3
  <2> QED
    BY <1>1, <1>3, <2>1, <2>4 DEF SomethingDone
<1>6. CASE \E answer \in SUBSET ChunkIds : Differential!Ask(answer)
  <2>1. /\ Differential!InProbe /\ turn <= Len(Principals(probe))
        /\ turn' = turn + 1 /\ probe' = probe /\ probesFailed' = probesFailed
    BY <1>6 DEF Differential!Ask, Differential!Turn, Differential!Running, Differential!Probes,
       Principals
  <2>2. Differential!InProbe' /\ Principals(probe)' = Principals(probe)
    BY <1>2, <2>1 DEF Differential!InProbe, Differential!Probes, Principals
  <2>3. /\ TurnsLeft = Len(Principals(probe)) + 1 - turn
        /\ TurnsLeft' = Len(Principals(probe)) + 1 - (turn + 1)
    BY <2>1, <2>2 DEF TurnsLeft
  <2>4. Len(Principals(probe)) \in Nat /\ turn \in Nat
    <3>1. scenario.probes \in Seq(Probe)
      BY ScenariosAssumption DEF PropagationFacts, IsScenario
    <3> QED
      BY <2>1, <3>1 DEF Differential!InProbe, Differential!Probes, Probe, Principals,
         DifferentialFacts
  <2>5. TurnsLeft' < TurnsLeft
    BY <2>3, <2>4
  <2>6. UNCHANGED ProbesLeft
    BY <1>2, <2>1 DEF ProbesLeft
  <2> QED
    BY <1>1, <1>3, <2>1, <2>5, <2>6 DEF SomethingDone
<1> QED
  BY <1>4, <1>5, <1>6 DEF RunProbes, Differential!Next

\* Every step of a verification brings it nearer to its end, in an order in which nothing can
\* come nearer for ever: no index, no probes and no store keep it going.
LessLeft == <<Remaining', Remaining>> \in Fewer
RunsDown == [][LessLeft]_vars

THEOREM RunsDownCorrect == Spec => [](Remaining \in Counts) /\ RunsDown
<1> DEFINE Facts == PropagationFacts /\ DifferentialFacts /\ LoopFacts
<1>1. Facts => Remaining \in Counts
  BY RemainingTyped
<1> HIDE DEF Facts
<1>2. Facts' => (Remaining \in Counts)'
  BY <1>1, PTL
<1>3. Facts /\ Facts' /\ [Next]_vars => [LessLeft]_vars
  <2> SUFFICES ASSUME Facts, Facts', Next
               PROVE  <<Remaining', Remaining>> \in Fewer
    BY DEF LessLeft
  <2> USE DEF Facts
  <2>1. CASE CheckPropagation
    BY <2>1, <1>1, <1>2, PropagationDoes, DoneIsFewer
  <2>2. CASE RunProbes
    BY <2>2, <1>1, <1>2, DifferentialDoes, DoneIsFewer
  <2>3. CASE PropagationReturns \/ MakeReport \/ Exit \/ Raise
    <3>1. PhasesLeft' < PhasesLeft
      BY <2>3 DEF PropagationReturns, MakeReport, Exit, Raise, PhasesLeft
    <3> QED
      BY <1>1, <1>2, <3>1, DoneIsFewer DEF SomethingDone
  <2> QED
    BY <2>1, <2>2, <2>3 DEF Next
<1>4. Spec => []Facts
  BY PropagationFactsCorrect, DifferentialFactsCorrect, LoopFactsCorrect, PTL DEF Facts
<1> QED
  BY <1>1, <1>3, <1>4, PTL DEF Spec, RunsDown

LEMMA LeastNatural ==
  ASSUME NEW S, S \subseteq Nat, S # {}
  PROVE  \E x \in S : \A y \in S : x <= y
<1>1. PICK x \in S : \A y \in S : <<y, x>> \notin OpToRel(<, Nat)
  BY NatLessThanWellFounded, WFMin
<1>2. \A y \in S : ~(y < x)
  BY <1>1 DEF OpToRel
<1> QED
  BY <1>2

\* The conditions of the steps of the axes, apart from what the steps do.
PropagationCanStep ==
  \/ \E c \in unexamined :
       /\ Propagation!NextChunk(c)
       /\ \/ Propagation!LocatedOf(c) = {}
          \/ \E j \in Propagation!LocatedOf(c) : \A k \in Propagation!LocatedOf(c) : j <= k
  \/ current # None /\ \E j \in left : \A k \in left : j <= k
  \/ current # None /\ left = {}

DifferentialCanStep ==
  \/ ~probesFailed /\ ~Differential!Started
  \/ Differential!Running /\ turn = 1 /\ ~Differential!Runnable(scenario.probes[probe])
  \/ /\ Differential!Running /\ Differential!Runnable(scenario.probes[probe])
     /\ turn > Len(Principals(probe))
  \/ /\ Differential!Turn
     /\ \/ Differential!PrincipalOnTurn \notin DOMAIN scenario.principals
        \/ live
        \/ Differential!SimulatedAnswer(probe, scenario.principals[Differential!PrincipalOnTurn])
             \in SUBSET ChunkIds

\* And those of a verification: an axis goes on, has returned or has failed.
CanStep ==
  \/ phase = "check_propagation" /\ (PropagationCanStep \/ Propagation!Returned \/ propagationFailed)
  \/ phase = "run_probes" /\ (DifferentialCanStep \/ Differential!Done \/ probesFailed)
  \/ phase = "report"

\* No state of a verification but the last is without a next step.
NeverStuck == phase # "exited" => CanStep

LEMMA PropagationNeverStuck ==
  ASSUME PropagationFacts, LoopFacts
  PROVE  PropagationCanStep \/ Propagation!Returned \/ propagationFailed
<1> SUFFICES ASSUME unexamined # {}, ~propagationFailed
             PROVE  PropagationCanStep
  BY DEF Propagation!Returned
<1>1. CASE current = None
  <2>1. PICK c \in unexamined : TRUE
    OBVIOUS
  <2>2. Propagation!NextChunk(c)
    BY <1>1 DEF Propagation!NextChunk
  <2>3. Propagation!LocatedOf(c) \subseteq Nat
    <3>1. variant.chunks[c] \in Chunk
      BY VariantsAssumption DEF PropagationFacts, LoopFacts, IsVariant, IsDict
    <3>2. DOMAIN variant.chunks[c].source_document_ids \subseteq Nat
      BY <3>1 DEF Chunk
    <3> QED
      BY <3>2, PropagationWorld DEF Propagation!LocatedOf, Propagation!ChunkOf, Located
  <2>4. \/ Propagation!LocatedOf(c) = {}
        \/ \E j \in Propagation!LocatedOf(c) : \A k \in Propagation!LocatedOf(c) : j <= k
    BY <2>3, LeastNatural
  <2> QED
    BY <2>2, <2>4 DEF PropagationCanStep
<1>2. CASE current # None
  <2>1. left \subseteq Nat
    <3>1. variant.chunks[current] \in Chunk
      BY <1>2, VariantsAssumption DEF PropagationFacts, LoopFacts, IsVariant, IsDict
    <3>2. DOMAIN variant.chunks[current].source_document_ids \subseteq Nat
      BY <3>1 DEF Chunk
    <3> QED
      BY <1>2, <3>2 DEF LoopFacts, Located
  <2>2. left # {} => \E j \in left : \A k \in left : j <= k
    BY <2>1, LeastNatural
  <2> QED
    BY <1>2, <2>2 DEF PropagationCanStep
<1> QED
  BY <1>1, <1>2

LEMMA DifferentialNeverStuck ==
  ASSUME PropagationFacts, DifferentialFacts, LoopFacts
  PROVE  DifferentialCanStep \/ Differential!Done \/ probesFailed
<1> SUFFICES ASSUME Differential!Started, Differential!InProbe, ~probesFailed
             PROVE  DifferentialCanStep
  BY DEF DifferentialCanStep, Differential!Done
<1> DEFINE n == Len(Principals(probe))
<1>1. Differential!Running /\ (Differential!Runnable(scenario.probes[probe]) <=> n >= 2)
  BY DEF Differential!Running, Differential!Runnable, Principals
<1>2. n \in Nat /\ turn \in Nat
  <2>1. scenario.probes \in Seq(Probe)
    BY ScenariosAssumption DEF PropagationFacts, IsScenario
  <2> QED
    BY <2>1 DEF Differential!InProbe, Differential!Probes, Probe, Principals, DifferentialFacts
<1>3. CASE ~Differential!Runnable(scenario.probes[probe])
  <2>1. turn = 1
    BY <1>1, <1>3 DEF LoopFacts, TurnFacts
  <2> QED
    BY <1>1, <1>3, <2>1 DEF DifferentialCanStep
<1>4. CASE Differential!Runnable(scenario.probes[probe]) /\ turn > n
  BY <1>1, <1>4 DEF DifferentialCanStep
<1>5. CASE Differential!Runnable(scenario.probes[probe]) /\ turn <= n
  <2>1. Differential!Turn
    BY <1>1, <1>5 DEF Differential!Turn, Differential!Probes, Principals
  <2>2. \A p : Differential!SimulatedAnswer(probe, p) \in SUBSET ChunkIds
    <3>1. DOMAIN variant.chunks \subseteq ChunkIds
      BY VariantsAssumption DEF PropagationFacts, IsVariant, IsDict
    <3> QED
      BY <3>1 DEF Differential!SimulatedAnswer, Differential!Indexed
  <2> QED
    BY <2>1, <2>2 DEF DifferentialCanStep
<1> QED
  BY <1>2, <1>3, <1>4, <1>5

\* A verification never waits on itself: whatever the store answered and wherever an axis is,
\* some step of it has its conditions met until it has exited.
THEOREM NeverStuckCorrect == Spec => []NeverStuck
<1>1. PropagationFacts /\ DifferentialFacts /\ LoopFacts /\ Phased => NeverStuck
  BY PropagationNeverStuck, DifferentialNeverStuck DEF NeverStuck, CanStep, Phased, Phases
<1> QED
  BY <1>1, PropagationFactsCorrect, DifferentialFactsCorrect, LoopFactsCorrect, PhasedCorrect, PTL
==============================================================================
