-------------------------- MODULE CheckPropagation --------------------------
(***************************************************************************)
(* The propagation axis, `check_propagation` of tearline.verify: every     *)
(* chunk of the index compared with the source documents behind it.  The   *)
(* tag is a claim, the sources' entitlements are the facts (DEC-005).      *)
(*                                                                         *)
(* One step is one way through the body of the loop over the chunks; for a *)
(* chunk of several sources the loop of `safe_bound` takes a step a        *)
(* source.  The dict's order is left open: the chunks are independent.     *)
(***************************************************************************)
EXTENDS Domain

CONSTANTS
  Scenarios,  (* what the source system's side may be                      *)
  Variants    (* what the index's side may be                              *)

ASSUME ScenariosAssumption == \A s \in Scenarios : IsScenario(s)
ASSUME VariantsAssumption == \A v \in Variants : IsVariant(v)

VARIABLES
  scenario,    (* given; never changed                                     *)
  variant,     (* given; never changed                                     *)
  unexamined,  (* ids of the chunks the loop has still to finish           *)
  current,     (* id of the multi-source chunk being bounded, or None      *)
  left,        (* positions of its sources that safe_bound has still to    *)
               (* intersect                                                *)
  bound,       (* safe_bound's accumulator, None outside it                *)
  findings,    (* the PropagationFindings                                  *)
  untraceable, (* the count returned beside them                           *)
  failed       (* an exception has left check_propagation                  *)

vars == <<scenario, variant, unexamined, current, left, bound, findings, untraceable, failed>>

Verdicts == {"contradicted", "unverifiable"}
Causes ==
  {"propagation-fault", "drift", "undetermined", "indeterminate-source", "exceeds-safe-bound"}

PropagationFinding ==
  [chunk_id: ChunkIds, verdict: Verdicts, cause: Causes,
   observed: Entitlement, expected: Entitlement \cup {None}]

ChunkOf(c) == variant.chunks[c]
LocatedOf(c) == Located(scenario, ChunkOf(c))
SourceOf(c, j) == SourceAt(scenario, ChunkOf(c), j)
TagOf(c) == ChunkOf(c).entitlement

TypeOK ==
  /\ scenario \in Scenarios
  /\ variant \in Variants
  /\ unexamined \subseteq DOMAIN variant.chunks
  /\ current \in unexamined \cup {None}
  /\ IF current = None
     THEN bound = None /\ left = {}
     ELSE bound \in Entitlement /\ left \subseteq LocatedOf(current)
  /\ findings \subseteq PropagationFinding
  /\ untraceable \in Nat
  /\ failed \in BOOLEAN

Init ==
  /\ scenario \in Scenarios
  /\ variant \in Variants
  /\ unexamined = DOMAIN variant.chunks
  /\ current = None
  /\ left = {}
  /\ bound = None
  /\ findings = {}
  /\ untraceable = 0
  /\ failed = FALSE

----------------------------------------------------------------------------
(* Helpers of verify.py *)

\* A wrong `_same` that compares only the tenants.
SameTenants(a, b) == a.tenants = b.tenants

\* `_same`: every field a decision reads.
Same(a, b) ==
  /\ a.state = b.state
  /\ a.tenants = b.tenants
  /\ a.roles = b.roles
  /\ a.principals = b.principals

\* A wrong `_within_bound` content with one principal that the bound allows.
WithinBoundForSome(rule, tag, b, principals) ==
  \E p \in principals : Entitled(rule, tag, p) => Entitled(rule, b, p)

\* A wrong `_within_bound` that compares the records instead of what they grant.
WithinBoundBySubset(rule, tag, b, principals) ==
  tag.tenants \subseteq b.tenants /\ tag.roles \subseteq b.roles

\* `_within_bound`: the tag grants to no identity under test that the bound excludes.
WithinBound(rule, tag, b, principals) ==
  \A p \in principals : Entitled(rule, tag, p) => Entitled(rule, b, p)

PrincipalsUnderTest == {scenario.principals[id] : id \in DOMAIN scenario.principals}

\* `_cause_from_timestamps` for the one source of a chunk.
TimesKnown(chunk, source) == chunk.ingested_at # None /\ source.acl_modified_at # None

TimesComparable(chunk, source) ==
  chunk.ingested_at.aware = source.acl_modified_at.aware

\* A wrong comparison, the other way round.
CauseTurnedRound(chunk, source) ==
  IF ~TimesKnown(chunk, source) THEN "undetermined"
  ELSE IF chunk.ingested_at.at > source.acl_modified_at.at THEN "drift"
  ELSE "propagation-fault"

CauseFromTimestamps(chunk, source) ==
  IF ~TimesKnown(chunk, source) THEN "undetermined"
  ELSE IF source.acl_modified_at.at > chunk.ingested_at.at THEN "drift"
  ELSE "propagation-fault"

----------------------------------------------------------------------------
(* The loop over the chunks *)

NextChunk(c) == ~failed /\ current = None /\ c \in unexamined

Found(c, verdict, cause, expected) ==
  findings' = findings \cup
    {[chunk_id |-> c, verdict |-> verdict, cause |-> cause,
      observed |-> TagOf(c), expected |-> expected]}

Finished(c) == unexamined' = unexamined \ {c}

\* A wrong handling of a chunk without sources: reported, and not counted.
ReportUntraceableUncounted(c) ==
  /\ NextChunk(c)
  /\ LocatedOf(c) = {}
  /\ Found(c, "unverifiable", "undetermined", None)
  /\ Finished(c)
  /\ UNCHANGED <<scenario, variant, current, left, bound, untraceable, failed>>

\* No source document is there to compare the tag with.
ReportUntraceable(c) ==
  /\ NextChunk(c)
  /\ LocatedOf(c) = {}
  /\ untraceable' = untraceable + 1
  /\ Found(c, "unverifiable", "undetermined", None)
  /\ Finished(c)
  /\ UNCHANGED <<scenario, variant, current, left, bound, failed>>

\* One source, and the tag says what it says: nothing to report.
PassSingleSource(c) ==
  /\ NextChunk(c)
  /\ \E j \in LocatedOf(c) :
       LocatedOf(c) = {j} /\ Same(TagOf(c), SourceOf(c, j).entitlement)
  /\ Finished(c)
  /\ UNCHANGED <<scenario, variant, current, left, bound, findings, untraceable, failed>>

\* One source, and the tag says something else.
ContradictSingleSource(c) ==
  /\ NextChunk(c)
  /\ \E j \in LocatedOf(c) :
       /\ LocatedOf(c) = {j}
       /\ ~Same(TagOf(c), SourceOf(c, j).entitlement)
       /\ TimesKnown(ChunkOf(c), SourceOf(c, j)) => TimesComparable(ChunkOf(c), SourceOf(c, j))
       /\ Found(c, "contradicted", CauseFromTimestamps(ChunkOf(c), SourceOf(c, j)),
                SourceOf(c, j).entitlement)
  /\ Finished(c)
  /\ UNCHANGED <<scenario, variant, current, left, bound, untraceable, failed>>

\* The comparison of a naive and an aware datetime is a TypeError, and no caller catches it.
FailOnTimes(c) ==
  /\ NextChunk(c)
  /\ \E j \in LocatedOf(c) :
       /\ LocatedOf(c) = {j}
       /\ ~Same(TagOf(c), SourceOf(c, j).entitlement)
       /\ TimesKnown(ChunkOf(c), SourceOf(c, j))
       /\ ~TimesComparable(ChunkOf(c), SourceOf(c, j))
  /\ failed' = TRUE
  /\ UNCHANGED <<scenario, variant, unexamined, current, left, bound, findings, untraceable>>

\* A wrong start that crosses the chunk off before it is judged.
StartBoundAndFinish(c) ==
  /\ NextChunk(c)
  /\ \E first \in LocatedOf(c) :
       /\ LocatedOf(c) # {first}
       /\ \A j \in LocatedOf(c) : first <= j
       /\ left' = LocatedOf(c) \ {first}
       /\ bound' = SourceOf(c, first).entitlement
  /\ current' = c
  /\ Finished(c)
  /\ UNCHANGED <<scenario, variant, findings, untraceable, failed>>

\* Several sources: safe_bound starts from the first.
StartBound(c) ==
  /\ NextChunk(c)
  /\ \E first \in LocatedOf(c) :
       /\ LocatedOf(c) # {first}
       /\ \A j \in LocatedOf(c) : first <= j
       /\ left' = LocatedOf(c) \ {first}
       /\ bound' = SourceOf(c, first).entitlement
  /\ current' = c
  /\ UNCHANGED <<scenario, variant, unexamined, findings, untraceable, failed>>

\* The next of the others, in the order the chunk names them.
IntersectNext ==
  /\ current # None
  /\ \E j \in left :
       /\ \A k \in left : j <= k
       /\ bound' = Intersect(bound, SourceOf(current, j).entitlement)
       /\ left' = left \ {j}
  /\ UNCHANGED <<scenario, variant, unexamined, current, findings, untraceable, failed>>

Judge(verdict, cause) ==
  /\ Found(current, verdict, cause, bound)
  /\ Finished(current)
  /\ current' = None
  /\ bound' = None
  /\ UNCHANGED <<scenario, variant, left, untraceable, failed>>

\* The tag stays within the bound: the sources never said what the tag should be.
ReportIndeterminate ==
  /\ current # None /\ left = {}
  /\ WithinBound(scenario.rule, TagOf(current), bound, PrincipalsUnderTest)
  /\ Judge("unverifiable", "indeterminate-source")

\* The tag grants to somebody the bound excludes.
ReportExceeding ==
  /\ current # None /\ left = {}
  /\ ~WithinBound(scenario.rule, TagOf(current), bound, PrincipalsUnderTest)
  /\ Judge("contradicted", "exceeds-safe-bound")

ExamineChunk(c) ==
  \/ ReportUntraceable(c)
  \/ PassSingleSource(c)
  \/ ContradictSingleSource(c)
  \/ FailOnTimes(c)
  \/ StartBound(c)

Next ==
  \/ \E c \in unexamined : ExamineChunk(c)
  \/ IntersectNext
  \/ ReportIndeterminate
  \/ ReportExceeding

Spec == Init /\ [][Next]_vars

Returned == unexamined = {} /\ ~failed

----------------------------------------------------------------------------
(* Properties *)

\* The sources of a chunk have a tenant, respectively a role, in common.
CommonTenant(c) == \E t \in Tenants : \A j \in LocatedOf(c) : t \in SourceOf(c, j).entitlement.tenants
CommonRole(c) == \E r \in Roles : \A j \in LocatedOf(c) : r \in SourceOf(c, j).entitlement.roles

\* The sources of a chunk say the same on one axis.
SameTenantsStated(c) ==
  \A j, k \in LocatedOf(c) : SourceOf(c, j).entitlement.tenants = SourceOf(c, k).entitlement.tenants
SameRolesStated(c) ==
  \A j, k \in LocatedOf(c) : SourceOf(c, j).entitlement.roles = SourceOf(c, k).entitlement.roles
SamePrincipalsStated(c) ==
  \A j, k \in LocatedOf(c) : SourceOf(c, j).entitlement.principals = SourceOf(c, k).entitlement.principals

FoundFor(c) == {f \in findings : f.chunk_id = c}

\* Every chunk is accounted for once: a finding is about a chunk of the index that is done
\* with, no chunk has two (evaluate.score keys them by chunk id and would lose one), and
\* chunks_untraceable counts exactly the findings that had no document to expect anything
\* from (data-model.md 11).
AccountedOnce ==
  /\ \A f \in findings : f.chunk_id \in DOMAIN variant.chunks \ unexamined
  /\ \A f, g \in findings : f.chunk_id = g.chunk_id => f = g
  /\ untraceable = Cardinality({f \in findings : f.expected = None})

\* Silence is a claim: a chunk that was examined and not reported has located sources, and
\* its tag grants every principal exactly what the located sources all grant, so an index
\* enforcing the rule over that tag serves the right people.
SilenceIsAgreement ==
  \A c \in DOMAIN variant.chunks \ unexamined :
    FoundFor(c) = {} =>
      /\ LocatedOf(c) # {}
      /\ \A p \in Principal :
           Entitled(scenario.rule, TagOf(c), p) <=> SourcesGrant(scenario, ChunkOf(c), p)

\* When intersecting the sources' sets cannot loosen what they permit: no set is emptied
\* that the rule, or `intersect`, would then read as unrestricted, and a required-roles
\* rule meets one set of roles only.
IntersectionAddsNobody(c) ==
  /\ \/ scenario.rule.tenant # "member-or-unrestricted"
     \/ CommonTenant(c)
     \/ SameTenantsStated(c)
  /\ \/ scenario.rule.role = "ignored"
     \/ SameRolesStated(c)
     \/ CommonRole(c) /\ scenario.rule.role # "subset"

\* When intersecting the sources' sets cannot refuse somebody whom every source admits:
\* they differ on one axis at most, and it is not the roles.
IntersectionLosesNobody(c) ==
  SameRolesStated(c) /\ (SameTenantsStated(c) \/ SamePrincipalsStated(c))

\* What `safe_bound` has accumulated after any number of its sources: known exactly when
\* they all are, and then the tenants and the direct grants they all state, and the roles
\* too when the sources have one in common or agree on them.
BoundIsMeet ==
  current # None =>
    LET folded == LocatedOf(current) \ left
        Says(j) == SourceOf(current, j).entitlement
    IN  /\ folded # {}
        /\ bound.state = "stated" <=> \A j \in folded : Says(j).state = "stated"
        /\ bound.state = "stated" =>
             /\ bound.tenants = {t \in Tenants : \A j \in folded : t \in Says(j).tenants}
             /\ bound.principals = {i \in PrincipalIds : \A j \in folded : i \in Says(j).principals}
             /\ CommonRole(current) \/ SameRolesStated(current) =>
                  bound.roles = {r \in Roles : \A j \in folded : r \in Says(j).roles}

\* "Discloses nothing beyond what all of them permit": where intersecting adds nobody, a
\* chunk called indeterminate-source grants no principal under test more than every source
\* grants, whatever the number of its sources (DEC-015).
IndeterminateDisclosesNothing ==
  \A f \in findings :
    f.cause = "indeterminate-source" /\ IntersectionAddsNobody(f.chunk_id) =>
      \A p \in PrincipalsUnderTest :
        Entitled(scenario.rule, f.observed, p) => SourcesGrant(scenario, ChunkOf(f.chunk_id), p)

\* "The tag grants beyond what every source permits": where intersecting loses nobody, a
\* chunk accused of exceeding the bound does grant a principal under test what some
\* source refuses (DEC-015).
ExceedingIsReal ==
  \A f \in findings :
    f.cause = "exceeds-safe-bound" /\ IntersectionLosesNobody(f.chunk_id) =>
      \E p \in PrincipalsUnderTest :
        Entitled(scenario.rule, f.observed, p) /\ ~SourcesGrant(scenario, ChunkOf(f.chunk_id), p)

----------------------------------------------------------------------------
(* What the documents and the findings' own wording say, without the       *)
(* conditions under which the properties above hold.                       *)

\* "sources diverge and the tag discloses nothing beyond what all of them permit"
\* (verify.py:125): a tag granting a principal what some source refuses is never called
\* unverifiable (data-model.md 11, DEC-015).
UnverifiableDisclosesNothing ==
  \A f \in findings :
    f.cause = "indeterminate-source" =>
      \A p \in PrincipalsUnderTest :
        Entitled(scenario.rule, f.observed, p) => SourcesGrant(scenario, ChunkOf(f.chunk_id), p)

\* "`indeterminate-source` (sources diverge and the tag satisfies the safe bound)"
\* (data-model.md 10): the sources it is reported for do not all say the same.
IndeterminateSourcesDiverge ==
  \A f \in findings :
    f.cause = "indeterminate-source" =>
      \E j, k \in LocatedOf(f.chunk_id) :
        SourceOf(f.chunk_id, j).entitlement # SourceOf(f.chunk_id, k).entitlement

\* "Where the source document cannot be located, the result is `unverifiable`" (DEC-005): a
\* chunk that passes has every source it names located.
SilentChunkHasAllSources ==
  \A c \in DOMAIN variant.chunks \ unexamined :
    FoundFor(c) = {} => LocatedOf(c) = DOMAIN ChunkOf(c).source_document_ids
=============================================================================
