-------------------------- MODULE RunProbes_proofs --------------------------
(***************************************************************************)
(* The invariants of RunProbes hold for every scenario, variant and store: *)
(* any number of probes and identities, any rule, any answer; and the      *)
(* validator of the fixtures computes what a simulated run reports.        *)
(*                                                                         *)
(* All but the bookkeeping follow from one fact, ResultsJudged: a result   *)
(* is what Judged makes of some answer, for an identity the scenario has.  *)
(***************************************************************************)
EXTENDS ValidateFixtures, Fixtures, Entitlements_proofs, SequenceTheorems, FiniteSetTheorems

\* Nothing in the loops touches what it was given (DEC-004: the tool only reads).
LEMMA GivenStays ==
  ASSUME [Next]_vars
  PROVE  scenario' = scenario /\ variant' = variant /\ live' = live
  BY DEF Next, vars, FailOnEnforcement, SkipProbe, FailOnPrincipal, FailOnRetrieve, Ask, NextProbe

\* What a probe, a turn and an indexed chunk are.
LEMMA ViewTypes ==
  ASSUME TypeOK
  PROVE  /\ scenario.rule \in Rule
         /\ Probes \in Seq(Probe)
         /\ DOMAIN scenario.principals \subseteq PrincipalIds
         /\ \A id \in DOMAIN scenario.principals : scenario.principals[id] \in Principal
         /\ Indexed \subseteq ChunkIds
         /\ \A c \in Indexed : variant.chunks[c] \in Chunk /\ variant.chunks[c].entitlement \in Entitlement
         /\ \A i \in DOMAIN Probes :
              /\ Probes[i].principals \in Seq(PrincipalIds)
              /\ Probes[i].matches \in Seq(ChunkIds)
              /\ Matches(i) \subseteq ChunkIds
<1>1. IsScenario(scenario) /\ IsVariant(variant)
  BY ScenariosAssumption, VariantsAssumption DEF TypeOK
<1>2. Probes \in Seq(Probe)
  BY <1>1 DEF Probes, IsScenario
<1>3. ASSUME NEW i \in DOMAIN Probes
      PROVE  /\ Probes[i].principals \in Seq(PrincipalIds)
             /\ Probes[i].matches \in Seq(ChunkIds)
             /\ Matches(i) \subseteq ChunkIds
  <2>1. Probes[i] \in Probe
    BY <1>2, <1>3
  <2>2. Probes[i].principals \in Seq(PrincipalIds) /\ Probes[i].matches \in Seq(ChunkIds)
    BY <2>1 DEF Probe
  <2> QED
    BY <2>2 DEF Matches, Range
<1>4. ASSUME NEW c \in Indexed
      PROVE  variant.chunks[c] \in Chunk /\ variant.chunks[c].entitlement \in Entitlement
  BY <1>1 DEF IsVariant, IsDict, Indexed, Chunk
<1> QED
  BY <1>1, <1>2, <1>3, <1>4 DEF IsScenario, IsVariant, IsDict, Indexed

\* Slicing adds nothing, whatever the limit.
LEMMA SliceWithin ==
  ASSUME NEW S, NEW s \in Seq(S), NEW n \in Int \cup {None}
  PROVE  Range(Slice(s, n)) \subseteq Range(s)
<1>1. ASSUME NEW m \in Int, m <= Len(s)
      PROVE  Range(SubSeq(s, 1, m)) \subseteq Range(s)
  <2> SUFFICES ASSUME NEW k \in DOMAIN SubSeq(s, 1, m)
               PROVE  \E j \in DOMAIN s : s[j] = SubSeq(s, 1, m)[k]
    BY DEF Range
  <2>1. k \in DOMAIN s /\ SubSeq(s, 1, m)[k] = s[k]
    BY <1>1
  <2> QED
    BY <2>1
<1>2. CASE n = None \/ n = 0
  BY <1>2 DEF Slice
<1>3. CASE n # None /\ n # 0
  <2>1. n \in Int /\ Len(s) \in Nat
    BY <1>3
  <2>2. CASE n > 0
    <3> DEFINE m == IF n < Len(s) THEN n ELSE Len(s)
    <3>1. m \in Int /\ m <= Len(s)
      BY <2>1, <2>2
    <3>2. Slice(s, n) = SubSeq(s, 1, m)
      BY <1>3, <2>2 DEF Slice
    <3> QED
      BY <1>1, <3>1, <3>2
  <2>3. CASE ~(n > 0)
    <3>1. Len(s) + n \in Int /\ Len(s) + n <= Len(s)
      BY <2>1, <2>3
    <3>2. Slice(s, n) = SubSeq(s, 1, Len(s) + n)
      BY <1>3, <2>3 DEF Slice
    <3> QED
      BY <1>1, <3>1, <3>2
  <2> QED
    BY <2>2, <2>3
<1> QED
  BY <1>2, <1>3

\* Judging an answer yields a ProbeResult.
LEMMA JudgedType ==
  ASSUME TypeOK, NEW i \in DOMAIN Probes, NEW k \in DOMAIN Probes[i].principals, NEW p,
         NEW answer \in SUBSET ChunkIds
  PROVE  Judged(i, k, p, answer) \in ProbeResult
<1>1. /\ Matches(i) \subseteq ChunkIds /\ Indexed \subseteq ChunkIds
      /\ i \in Nat /\ k \in Nat /\ Probes[i].principals[k] \in PrincipalIds
  BY ViewTypes
<1>2. Returned(i, p, answer) \subseteq ChunkIds
  BY <1>1 DEF Returned, Extras
<1>3. Truth(i, p) \subseteq ChunkIds /\ Absent(i) \subseteq ChunkIds
  BY <1>1 DEF Truth, Absent
<1>4. \A over, under : Outcome(over, under) \in Outcomes
  BY DEF Outcome, Outcomes
<1> QED
  BY <1>1, <1>2, <1>3, <1>4 DEF Judged, ProbeResult

\* The types of the loops' state: a turn is within the probe it is of.
THEOREM TypeCorrect == Spec => []TypeOK
<1>1. Init => TypeOK
  <2> SUFFICES ASSUME Init PROVE TypeOK
    OBVIOUS
  <2>1. /\ scenario \in Scenarios /\ variant \in Variants /\ live \in BOOLEAN
        /\ probe = 1 /\ turn = 1 /\ results = {} /\ skipped = {}
    BY DEF Init
  <2>2. failed \in BOOLEAN
    BY DEF Init
  <2>3. Probes \in Seq(Probe)
    BY <2>1, ScenariosAssumption DEF IsScenario, Probes
  <2>4. InProbe => Probes[probe].principals \in Seq(PrincipalIds)
    <3>1. \A i \in DOMAIN Probes : Probes[i] \in Probe
      BY <2>3
    <3> QED
      BY <3>1 DEF InProbe, Probe
  <2> QED
    BY <2>1, <2>2, <2>3, <2>4 DEF TypeOK
<1>2. TypeOK /\ [Next]_vars => TypeOK'
  <2> SUFFICES ASSUME TypeOK, [Next]_vars PROVE TypeOK'
    OBVIOUS
  <2>0. /\ scenario' = scenario /\ variant' = variant /\ live' = live
        /\ Probes' = Probes /\ Probes \in Seq(Probe)
        /\ \A i \in DOMAIN Probes : Probes[i].principals \in Seq(PrincipalIds)
    BY GivenStays, ViewTypes DEF Probes
  <2>1. CASE FailOnEnforcement
    BY <2>0, <2>1 DEF TypeOK, FailOnEnforcement, InProbe
  <2>2. CASE SkipProbe
    BY <2>0, <2>2 DEF TypeOK, SkipProbe, Running, InProbe
  <2>3. CASE FailOnPrincipal
    BY <2>0, <2>3 DEF TypeOK, FailOnPrincipal, InProbe
  <2>4. CASE FailOnRetrieve
    BY <2>0, <2>4 DEF TypeOK, FailOnRetrieve, InProbe
  <2>5. ASSUME NEW answer \in SUBSET ChunkIds, Ask(answer) PROVE TypeOK'
    <3>1. /\ probe \in DOMAIN Probes
          /\ turn \in DOMAIN Probes[probe].principals
          /\ turn + 1 <= Len(Probes[probe].principals) + 1
      BY <2>0, <2>5 DEF TypeOK, Ask, Turn, Running, InProbe
    <3>2. results' \subseteq ProbeResult
      BY <2>5, <3>1, JudgedType DEF TypeOK, Ask
    <3> QED
      BY <2>0, <2>5, <3>1, <3>2 DEF TypeOK, Ask, InProbe
  <2>6. CASE NextProbe
    BY <2>0, <2>6 DEF TypeOK, NextProbe, Running, InProbe
  <2>7. CASE UNCHANGED vars
    BY <2>0, <2>7 DEF TypeOK, vars, InProbe
  <2> QED
    BY <2>1, <2>2, <2>3, <2>4, <2>5, <2>6, <2>7 DEF Next
<1> QED
  BY <1>1, <1>2, PTL DEF Spec

----------------------------------------------------------------------------
(* What every result is *)

\* A result is the judgement of some answer, of the store or of the tags, to a question that
\* a runnable probe asks for an identity the scenario has.
IsJudgement(r) ==
  /\ Started
  /\ r.probe \in DOMAIN Probes /\ Runnable(Probes[r.probe])
  /\ r.turn \in DOMAIN Probes[r.probe].principals
  /\ r.principal_id = Probes[r.probe].principals[r.turn]
  /\ r.principal_id \in DOMAIN scenario.principals
  /\ r.answer \in SUBSET ChunkIds
  /\ ~live => r.answer = SimulatedAnswer(r.probe, PrincipalOf(r))
  /\ r = Judged(r.probe, r.turn, PrincipalOf(r), r.answer)

ResultsJudged == \A r \in results : IsJudgement(r)

\* The view of the given that a judgement reads does not change.
LEMMA JudgementStays ==
  ASSUME [Next]_vars, NEW r
  PROVE  /\ IsJudgement(r)' <=> IsJudgement(r)
         /\ PrincipalOf(r)' = PrincipalOf(r)
         /\ Probes' = Probes
<1>1. scenario' = scenario /\ variant' = variant /\ live' = live
  BY GivenStays
<1>2. Probes' = Probes /\ Indexed' = Indexed /\ PrincipalOf(r)' = PrincipalOf(r)
  BY <1>1 DEF Probes, Indexed, PrincipalOf
<1>3. \A i : Matches(i)' = Matches(i)
  BY <1>2 DEF Matches
<1>4. \A i, p : SimulatedAnswer(i, p)' = SimulatedAnswer(i, p)
  BY <1>1, <1>2 DEF SimulatedAnswer
<1>5. /\ \A c : Traceable(c)' <=> Traceable(c)
      /\ \A c, p : Permitted(c, p)' <=> Permitted(c, p)
  BY <1>1 DEF Traceable, Permitted
<1>6. \A i, a : Undetermined(i, a)' = Undetermined(i, a)
  BY <1>2, <1>3, <1>5 DEF Undetermined, Extras
<1>7. \A i, p, a : Returned(i, p, a)' = Returned(i, p, a)
  BY <1>2, <1>3, <1>5 DEF Returned, Extras
<1>8. \A i, p : Truth(i, p)' = Truth(i, p) /\ Absent(i)' = Absent(i)
  BY <1>2, <1>3, <1>5 DEF Truth, Absent
<1>9. \A i, k, p, a : Judged(i, k, p, a)' = Judged(i, k, p, a)
  BY <1>2, <1>6, <1>7, <1>8 DEF Judged
<1> QED
  BY <1>1, <1>2, <1>4, <1>9 DEF IsJudgement, Started

LEMMA ResultsJudgedCorrect == Spec => []ResultsJudged
<1>1. Init => ResultsJudged
  BY DEF Init, ResultsJudged
<1>2. TypeOK /\ ResultsJudged /\ [Next]_vars => ResultsJudged'
  <2> SUFFICES ASSUME TypeOK, ResultsJudged, [Next]_vars PROVE ResultsJudged'
    OBVIOUS
  <2>1. CASE results' = results
    BY <2>1, JudgementStays DEF ResultsJudged
  <2>2. ASSUME NEW answer \in SUBSET ChunkIds, Ask(answer) PROVE ResultsJudged'
    <3> DEFINE p == scenario.principals[PrincipalOnTurn]
               r == Judged(probe, turn, p, answer)
    <3>1. /\ Started
          /\ probe \in DOMAIN Probes /\ Runnable(Probes[probe])
          /\ turn \in DOMAIN Probes[probe].principals
      BY <2>2, ViewTypes DEF TypeOK, Ask, Turn, Running, InProbe
    <3>2. /\ r.probe = probe /\ r.turn = turn
          /\ r.principal_id = Probes[probe].principals[turn] /\ r.answer = answer
      BY DEF Judged
    <3>3. PrincipalOf(r) = p
      BY <3>2 DEF PrincipalOf, PrincipalOnTurn
    <3>4. r.principal_id \in DOMAIN scenario.principals
      BY <2>2, <3>2 DEF Ask, PrincipalOnTurn
    <3>5. ~live => answer = SimulatedAnswer(probe, p)
      BY <2>2 DEF Ask
    <3>6. IsJudgement(r)
      <4> HIDE DEF p, r
      <4>1. r = Judged(r.probe, r.turn, PrincipalOf(r), r.answer)
        BY <3>2, <3>3 DEF r
      <4> QED
        BY <3>1, <3>2, <3>3, <3>4, <3>5, <4>1 DEF IsJudgement
    <3>7. results' = results \cup {r}
      BY <2>2 DEF Ask
    <3> QED
      BY <3>6, <3>7, JudgementStays DEF ResultsJudged
  <2> QED
    BY <2>1, <2>2
       DEF Next, vars, FailOnEnforcement, SkipProbe, FailOnPrincipal, FailOnRetrieve, NextProbe
<1> QED
  BY <1>1, <1>2, TypeCorrect, PTL DEF Spec

\* Results come one at a time.
LEMMA FinitelyManyCorrect == Spec => []IsFiniteSet(results)
<1>1. Init => IsFiniteSet(results)
  BY FS_EmptySet DEF Init
<1>2. IsFiniteSet(results) /\ [Next]_vars => IsFiniteSet(results)'
  <2> SUFFICES ASSUME IsFiniteSet(results), [Next]_vars PROVE IsFiniteSet(results)'
    OBVIOUS
  <2>1. CASE results' = results
    BY <2>1
  <2>2. ASSUME NEW answer \in SUBSET ChunkIds, Ask(answer) PROVE IsFiniteSet(results)'
    <3>1. \E r : results' = results \cup {r}
      BY <2>2 DEF Ask
    <3> QED
      BY <3>1, FS_AddElement
  <2> QED
    BY <2>1, <2>2
       DEF Next, vars, FailOnEnforcement, SkipProbe, FailOnPrincipal, FailOnRetrieve, NextProbe
<1> QED
  BY <1>1, <1>2, PTL DEF Spec

\* The fields of a judgement that accuse.
LEMMA JudgementFields ==
  ASSUME NEW r, IsJudgement(r)
  PROVE  LET p == PrincipalOf(r) IN
         /\ r.over_retrieved =
              (Returned(r.probe, p, r.answer) \ Truth(r.probe, p)) \ Undetermined(r.probe, r.answer)
         /\ r.under_retrieved = Truth(r.probe, p) \ Returned(r.probe, p, r.answer)
         /\ r.undetermined_returned =
              Returned(r.probe, p, r.answer) \cap Undetermined(r.probe, r.answer)
         /\ r.absent_from_index = Absent(r.probe)
         /\ r.verdict = "contradicted" <=> r.over_retrieved # {} \/ r.under_retrieved # {}
  BY DEF IsJudgement, Judged

\* What the judge calls permitted and traceable is what the sources grant and where there is
\* one; only a traceable chunk is permitted.
LEMMA JudgedByTheSources ==
  /\ \A c, p : Permitted(c, p) <=> Granted(c, p)
  /\ \A c : Traceable(c) <=> HasSource(c)
  /\ \A c, p : Granted(c, p) => HasSource(c)
  BY DEF Permitted, Granted, SourcesGrant, EntitledByAll, SourceEntitlements, Traceable, HasSource

----------------------------------------------------------------------------
(* The accusations *)

\* No entitled, untraceable or unknown id is ever accused as a disclosure and no disclosure
\* is missed, whatever the store answers.
THEOREM OverRetrievalCorrect == Spec => []OverRetrievalIsDisclosure
<1>1. ResultsJudged => OverRetrievalIsDisclosure
  <2> SUFFICES ASSUME ResultsJudged, NEW r \in results
               PROVE  r.over_retrieved =
                        {c \in r.answer \cap Indexed : HasSource(c) /\ ~Granted(c, PrincipalOf(r))}
    BY DEF OverRetrievalIsDisclosure
  <2>1. IsJudgement(r)
    BY DEF ResultsJudged
  <2> QED
    BY <2>1, JudgementFields, JudgedByTheSources DEF Returned, Truth, Undetermined, Extras
<1> QED
  BY <1>1, ResultsJudgedCorrect, PTL

\* Under-retrieval is starvation, no more and no less, whatever the store answers.
THEOREM UnderRetrievalCorrect == Spec => []UnderRetrievalIsStarvation
<1>1. ResultsJudged => UnderRetrievalIsStarvation
  <2> SUFFICES ASSUME ResultsJudged, NEW r \in results
               PROVE  r.under_retrieved =
                        {c \in Matches(r.probe) \cap Indexed :
                           Granted(c, PrincipalOf(r)) /\ c \notin r.answer}
    BY DEF UnderRetrievalIsStarvation
  <2>1. IsJudgement(r)
    BY DEF ResultsJudged
  <2> QED
    BY <2>1, JudgementFields, JudgedByTheSources DEF Returned, Truth, Extras
<1> QED
  BY <1>1, ResultsJudgedCorrect, PTL

\* Nothing a store serves goes unreported.
THEOREM EveryAnswerCorrect == Spec => []EveryAnswerReported
<1>1. ResultsJudged => EveryAnswerReported
  <2> SUFFICES ASSUME ResultsJudged, NEW r \in results, NEW c \in r.answer
               PROVE  \/ c \in Indexed /\ Granted(c, PrincipalOf(r))
                      \/ c \in r.over_retrieved \cup r.undetermined_returned
                               \cup r.absent_from_index
    BY DEF EveryAnswerReported
  <2>1. IsJudgement(r)
    BY DEF ResultsJudged
  <2> QED
    BY <2>1, JudgementFields, JudgedByTheSources DEF Returned, Truth, Undetermined, Extras, Absent
<1> QED
  BY <1>1, ResultsJudgedCorrect, PTL

----------------------------------------------------------------------------
(* The fixtures as they are written *)

\* What an entry left open is loaded as: not stated, and so entitling nobody.
LEMMA OpenIsNotStated ==
  ASSUME NEW rows, NEW id, LeftOpen(rows, id)
  PROVE  id \in Ids(rows) /\ EntitlementFrom(Tag(RowOf(rows, id))).state # "stated"
  BY DEF LeftOpen, EntitlementFrom, Get

\* An entry without an entitlement is not one without restrictions, whatever the rule.
THEOREM OpenEntriesCorrect == Spec => []OpenEntriesServeNobody
<1>1. ASSUME TypeOK, ResultsJudged, NEW f \in DOMAIN VariantOf, variant = VariantOf[f],
             variant.enforcement = "rule", ~live, NEW r \in results, NEW id \in r.returned
      PROVE  ~LeftOpen(f.chunks, id)
  <2>1. IsJudgement(r)
    BY <1>1 DEF ResultsJudged
  <2>2. id \in r.answer
    BY <1>1, <2>1 DEF IsJudgement, Judged, Returned, Extras
  <2>3. id \in Indexed /\ Entitled(scenario.rule, variant.chunks[id].entitlement, PrincipalOf(r))
    BY <1>1, <2>1, <2>2 DEF IsJudgement, SimulatedAnswer, Enforce
  <2>4. variant.chunks = LoadChunks(f)
    BY <1>1 DEF VariantOf, LoadVariant
  <2>5. id \in Ids(f.chunks) => variant.chunks[id].entitlement = EntitlementFrom(Tag(RowOf(f.chunks, id)))
    BY <2>4 DEF LoadChunks
  <2> QED
    BY <2>3, <2>5, OpenIsNotStated DEF Entitled
<1>2. ASSUME ResultsJudged, OverRetrievalIsDisclosure, UnderRetrievalIsStarvation,
             NEW f \in DOMAIN ScenarioOf, scenario = ScenarioOf[f], NEW r \in results,
             NEW id \in Indexed \cap (r.returned \cup r.under_retrieved),
             NEW d \in Range(variant.chunks[id].source_document_ids),
             LeftOpen(f.documents.documents, d)
      PROVE  id \in r.over_retrieved
  <2>1. IsJudgement(r)
    BY <1>2 DEF ResultsJudged
  <2>2. scenario.documents = LoadDocuments(f.documents)
    BY <1>2 DEF ScenarioOf, LoadScenario
  <2>3. /\ d \in DOMAIN scenario.documents
        /\ scenario.documents[d].entitlement.state # "stated"
    BY <1>2, <2>2, OpenIsNotStated DEF LoadDocuments
  <2>4. PICK j \in DOMAIN variant.chunks[id].source_document_ids :
             variant.chunks[id].source_document_ids[j] = d
    BY <1>2 DEF Range
  <2>5. j \in Located(scenario, variant.chunks[id])
    BY <2>3, <2>4 DEF Located
  <2>6. HasSource(id) /\ ~Granted(id, PrincipalOf(r))
    BY <2>3, <2>4, <2>5
       DEF HasSource, Granted, SourcesGrant, EntitledByAll, SourceEntitlements, SourceAt, Entitled
  <2>7. id \notin r.under_retrieved
    BY <1>2, <2>6 DEF UnderRetrievalIsStarvation
  <2>8. id \in r.answer
    BY <1>2, <2>1, <2>7 DEF IsJudgement, Judged, Returned, Extras
  <2> QED
    BY <1>2, <2>6, <2>8 DEF OverRetrievalIsDisclosure
<1>3. TypeOK /\ ResultsJudged /\ OverRetrievalIsDisclosure /\ UnderRetrievalIsStarvation
        => OpenEntriesServeNobody
  BY <1>1, <1>2 DEF OpenEntriesServeNobody
<1> QED
  BY <1>3, TypeCorrect, ResultsJudgedCorrect, OverRetrievalCorrect, UnderRetrievalCorrect, PTL

----------------------------------------------------------------------------
(* The simulated run *)

\* The answer computed from the tags when nothing is truncated.
LEMMA UntruncatedAnswer ==
  ASSUME NEW i, NEW p, variant.ann_limit \in {None, 0}
  PROVE  SimulatedAnswer(i, p) =
           {c \in Matches(i) \cap Indexed :
              Enforce(scenario.rule, variant.enforcement, variant.chunks[c].entitlement, p)}
  BY DEF SimulatedAnswer, Slice, Matches

\* An index looks at nothing the probe does not list.
LEMMA CandidatesWithin ==
  ASSUME TypeOK, NEW i \in DOMAIN Probes
  PROVE  Range(Slice(Probes[i].matches, variant.ann_limit)) \subseteq Matches(i)
<1>1. Probes[i].matches \in Seq(ChunkIds)
  BY ViewTypes
<1>2. variant.ann_limit \in Int \cup {None}
  BY VariantsAssumption DEF TypeOK, IsVariant
<1> QED
  BY <1>1, <1>2, SliceWithin DEF Matches

\* A wrong tag is found by asking, although the index that answers agrees with it.
THEOREM SimulatedVerdictCorrect == Spec => []SimulatedVerdictTellsTheTags
<1>1. ResultsJudged /\ OverRetrievalIsDisclosure /\ UnderRetrievalIsStarvation
        => SimulatedVerdictTellsTheTags
  <2> SUFFICES ASSUME ResultsJudged, OverRetrievalIsDisclosure, UnderRetrievalIsStarvation,
                      ~live, variant.enforcement = "rule", variant.ann_limit \in {None, 0},
                      NEW r \in results
               PROVE  r.verdict = "contradicted" <=>
                        \E c \in Matches(r.probe) \cap Indexed :
                          HasSource(c) /\ ~TagTellsTruth(c, PrincipalOf(r))
    BY DEF SimulatedVerdictTellsTheTags
  <2> DEFINE p == PrincipalOf(r)
  <2>1. IsJudgement(r)
    BY DEF ResultsJudged
  <2>2. r.answer = {c \in Matches(r.probe) \cap Indexed :
                      Entitled(scenario.rule, variant.chunks[c].entitlement, p)}
    BY <2>1, UntruncatedAnswer DEF IsJudgement, Enforce
  <2>3. r.over_retrieved = {c \in r.answer \cap Indexed : HasSource(c) /\ ~Granted(c, p)}
    BY DEF OverRetrievalIsDisclosure
  <2>4. r.under_retrieved =
          {c \in Matches(r.probe) \cap Indexed : Granted(c, p) /\ c \notin r.answer}
    BY DEF UnderRetrievalIsStarvation
  <2>5. r.verdict = "contradicted" <=> r.over_retrieved # {} \/ r.under_retrieved # {}
    BY <2>1, JudgementFields
  <2> HIDE DEF p
  <2>6. \A c : Granted(c, p) => HasSource(c)
    BY JudgedByTheSources
  <2> QED
    BY <2>2, <2>3, <2>4, <2>5, <2>6 DEF TagTellsTruth, p
<1> QED
  BY <1>1, ResultsJudgedCorrect, OverRetrievalCorrect, UnderRetrievalCorrect, PTL

\* With tags that tell the truth, only the naive filter discloses and only truncation
\* starves.
THEOREM SimulatedDefectsCorrect == Spec => []SimulatedDefectsHaveTheirCause
<1>1. TypeOK /\ ResultsJudged /\ OverRetrievalIsDisclosure /\ UnderRetrievalIsStarvation
        => SimulatedDefectsHaveTheirCause
  <2> SUFFICES ASSUME TypeOK, ResultsJudged, OverRetrievalIsDisclosure, UnderRetrievalIsStarvation,
                      ~live, NEW r \in results,
                      \A c \in Matches(r.probe) \cap Indexed : TagTellsTruth(c, PrincipalOf(r))
               PROVE  /\ r.over_retrieved # {} => variant.enforcement = "naive-tenant-exclusion"
                      /\ r.under_retrieved # {} => variant.ann_limit \notin {None, 0}
    BY DEF SimulatedDefectsHaveTheirCause
  <2> DEFINE p == PrincipalOf(r)
             tag(c) == variant.chunks[c].entitlement
             enforced(c) == Enforce(scenario.rule, variant.enforcement, tag(c), p)
  <2>1. IsJudgement(r)
    BY DEF ResultsJudged
  <2>2. r.answer = SimulatedAnswer(r.probe, p) /\ variant.enforcement \in EnforcementModels
    BY <2>1 DEF IsJudgement, Started
  <2>3. \A c \in Matches(r.probe) \cap Indexed :
          Entitled(scenario.rule, tag(c), p) <=> Granted(c, p)
    BY DEF TagTellsTruth
  <2>4. ASSUME variant.enforcement # "naive-tenant-exclusion", NEW c \in r.over_retrieved
        PROVE  FALSE
    <3>1. c \in r.answer \cap Indexed /\ ~Granted(c, p)
      BY <2>4 DEF OverRetrievalIsDisclosure
    <3>2. Range(Slice(Probes[r.probe].matches, variant.ann_limit)) \subseteq Matches(r.probe)
      BY <2>1, CandidatesWithin DEF IsJudgement
    <3>3. c \in Matches(r.probe) /\ enforced(c)
      BY <2>2, <3>1, <3>2 DEF SimulatedAnswer
    <3>4. Entitled(scenario.rule, tag(c), p)
      BY <2>2, <2>4, <3>3 DEF Enforce, EnforcementModels
    <3> QED
      BY <2>3, <3>1, <3>3, <3>4
  <2>5. ASSUME variant.ann_limit \in {None, 0}, NEW c \in r.under_retrieved
        PROVE  FALSE
    <3>1. c \in Matches(r.probe) \cap Indexed /\ Granted(c, p) /\ c \notin r.answer
      BY <2>5 DEF UnderRetrievalIsStarvation
    <3>2. Entitled(scenario.rule, tag(c), p)
      BY <2>3, <3>1
    <3>3. scenario.rule \in Rule /\ tag(c) \in Entitlement /\ p \in Principal
      BY <2>1, <3>1, ViewTypes DEF IsJudgement, PrincipalOf
    <3> HIDE DEF p, tag
    <3>4. AdmittedByNaiveFilter(scenario.rule, tag(c), p)
      BY <3>2, <3>3, NaiveFilterAdmitsTheEntitled
    <3>5. enforced(c)
      BY <3>2, <3>4 DEF Enforce
    <3> QED
      BY <2>2, <2>5, <3>1, <3>5, UntruncatedAnswer DEF p, tag
  <2> QED
    BY <2>4, <2>5
<1> QED
  BY <1>1, TypeCorrect, ResultsJudgedCorrect, OverRetrievalCorrect, UnderRetrievalCorrect, PTL

\* The verifier reports of a simulated run what the validator derives from the fixtures
\* alone, for every probe whose chunks the index holds.
THEOREM ValidatorCorrect == Spec => []ValidatorAgrees
<1>1. TypeOK /\ ResultsJudged => ValidatorAgrees
  <2> SUFFICES ASSUME TypeOK, ResultsJudged, ~live, ~ValidatorRaises, NEW r \in results
               PROVE  FixtureRow(r.probe, PrincipalOf(r)) =
                        [visible |-> r.returned, over_retrieved |-> r.over_retrieved,
                         under_retrieved |-> r.under_retrieved,
                         undetermined_returned |-> r.undetermined_returned]
    BY DEF ValidatorAgrees
  <2> DEFINE i == r.probe
             p == PrincipalOf(r)
  <2>1. IsJudgement(r)
    BY DEF ResultsJudged
  <2>2. Matches(i) \subseteq Indexed
    <3>1. i \in Comparisons /\ Probes[i].principals # <<>>
      BY <2>1 DEF Comparisons, IsJudgement, Runnable
    <3> QED
      BY <3>1 DEF ValidatorRaises
  <2>3. Candidates(i) \subseteq Matches(i)
    BY <2>1, CandidatesWithin DEF IsJudgement, Candidates
  <2>4. r.answer = FixtureVisible(i, p)
    <3>1. r.answer = SimulatedAnswer(i, p)
      BY <2>1 DEF IsJudgement
    <3> QED
      BY <2>2, <2>3, <3>1 DEF SimulatedAnswer, FixtureVisible, Candidates
  <2>5. FixtureVisible(i, p) \subseteq Matches(i)
    BY DEF FixtureVisible
  <2>6. Returned(i, p, r.answer) = FixtureVisible(i, p)
    BY <2>2, <2>4, <2>5 DEF Returned, Extras
  <2>7. Undetermined(i, r.answer) = FixtureUndetermined(i)
    BY <2>2, <2>4, <2>5 DEF Undetermined, Extras, FixtureUndetermined, Traceable
  <2>8. Truth(i, p) = FixtureTruth(i, p)
    BY <2>2 DEF Truth, FixtureTruth, FixtureUndetermined, Traceable, Permitted
  <2>9. r.returned = Returned(i, p, r.answer)
    BY <2>1 DEF IsJudgement, Judged
  <2> QED
    BY <2>1, <2>6, <2>7, <2>8, <2>9, JudgementFields DEF FixtureRow
<1> QED
  BY <1>1, TypeCorrect, ResultsJudgedCorrect, PTL

----------------------------------------------------------------------------
(* The bookkeeping *)

\* Every result is of a turn that is over; every turn that is over, of a probe that was not
\* skipped, has one.
TurnsAnswered ==
  /\ \A r \in results :
       r.probe < probe \/ (r.probe = probe /\ r.turn < turn /\ Runnable(Probes[probe]))
  /\ InProbe => \A k \in 1..(turn - 1) :
       \E r \in results :
         r.probe = probe /\ r.turn = k /\ r.principal_id = Probes[probe].principals[k]

BookkeepingInv == TypeOK /\ ResultsJudged /\ TurnsAnswered /\ SkippedOrFullyAsked

LEMMA TurnsAnsweredCorrect == Spec => [](TurnsAnswered /\ SkippedOrFullyAsked)
<1>1. Init => TurnsAnswered /\ SkippedOrFullyAsked
  BY DEF Init, TurnsAnswered, SkippedOrFullyAsked
<1>2. BookkeepingInv /\ [Next]_vars => TurnsAnswered' /\ SkippedOrFullyAsked'
  <2> SUFFICES ASSUME BookkeepingInv, [Next]_vars
               PROVE  TurnsAnswered' /\ SkippedOrFullyAsked'
    OBVIOUS
  <2>0. /\ Probes' = Probes
        /\ probe \in Nat \ {0} /\ turn \in Nat \ {0} /\ probe <= Len(Probes) + 1
        /\ skipped \subseteq 1..(probe - 1)
        /\ results \subseteq ProbeResult
        /\ Probes \in Seq(Probe)
        /\ \A i \in DOMAIN Probes : Probes[i].principals \in Seq(PrincipalIds)
    BY JudgementStays, ViewTypes DEF BookkeepingInv, TypeOK
  <2>1. CASE UNCHANGED <<probe, turn, results, skipped>>
    <3>1. TurnsAnswered'
      BY <2>0, <2>1 DEF BookkeepingInv, TurnsAnswered, InProbe
    <3>2. SkippedOrFullyAsked'
      BY <2>0, <2>1 DEF BookkeepingInv, SkippedOrFullyAsked
    <3> QED
      BY <3>1, <3>2
  <2>2. CASE SkipProbe
    <3>1. /\ probe' = probe + 1 /\ turn' = 1 /\ turn = 1 /\ results' = results
          /\ skipped' = skipped \cup {probe} /\ ~Runnable(Probes[probe])
      BY <2>2 DEF SkipProbe
    <3>2. \A r \in results : r.probe < probe /\ r.probe \in Nat
      BY <2>0, <3>1 DEF BookkeepingInv, TurnsAnswered, ProbeResult
    <3>3. TurnsAnswered'
      BY <2>0, <3>1, <3>2 DEF TurnsAnswered
    <3>4. \A i \in 1..(probe' - 1) \ skipped' : i \in 1..(probe - 1) \ skipped
      BY <2>0, <3>1
    <3>5. \A i \in skipped' : Len(Probes[i].principals) < 2
      <4>1. Probes[probe].principals \in Seq(PrincipalIds)
        BY <2>0, <2>2 DEF SkipProbe, Running, InProbe
      <4>2. Len(Probes[probe].principals) < 2
        BY <3>1, <4>1 DEF Runnable
      <4> QED
        BY <3>1, <4>2 DEF BookkeepingInv, SkippedOrFullyAsked
    <3>6. SkippedOrFullyAsked'
      BY <2>0, <3>1, <3>2, <3>4, <3>5 DEF BookkeepingInv, SkippedOrFullyAsked
    <3> QED
      BY <3>3, <3>6
  <2>3. ASSUME NEW answer \in SUBSET ChunkIds, Ask(answer)
        PROVE  TurnsAnswered' /\ SkippedOrFullyAsked'
    <3> DEFINE new == Judged(probe, turn, scenario.principals[PrincipalOnTurn], answer)
    <3>1. /\ probe' = probe /\ turn' = turn + 1 /\ skipped' = skipped
          /\ results' = results \cup {new} /\ Runnable(Probes[probe])
      BY <2>3 DEF Ask, Turn
    <3>2. new.probe = probe /\ new.turn = turn /\ new.principal_id = Probes[probe].principals[turn]
      BY DEF Judged, PrincipalOnTurn
    <3> HIDE DEF new
    <3>3. \A r \in results :
            r.probe \in Nat /\ r.turn \in Nat /\ (r.probe < probe \/ (r.probe = probe /\ r.turn < turn))
      BY <2>0 DEF BookkeepingInv, TurnsAnswered, ProbeResult
    <3>4. TurnsAnswered'
      <4>1. \A r \in results' :
              r.probe < probe' \/ (r.probe = probe' /\ r.turn < turn' /\ Runnable(Probes[probe]))
        BY <2>0, <3>1, <3>2, <3>3
      <4>2. ASSUME InProbe, NEW k \in 1..(turn' - 1)
            PROVE  \E r \in results' :
                     r.probe = probe /\ r.turn = k /\ r.principal_id = Probes[probe].principals[k]
        <5>1. CASE k = turn
          BY <3>1, <3>2, <5>1
        <5>2. CASE k \in 1..(turn - 1)
          BY <3>1, <4>2, <5>2 DEF BookkeepingInv, TurnsAnswered
        <5> QED
          BY <2>0, <3>1, <5>1, <5>2
      <4> QED
        BY <2>0, <3>1, <4>1, <4>2 DEF TurnsAnswered, InProbe
    <3>5. probe \notin skipped
      BY <2>0
    <3>6. \A r, s \in results' : r.probe = s.probe /\ r.turn = s.turn => r = s
      BY <2>0, <3>1, <3>2, <3>3 DEF BookkeepingInv, SkippedOrFullyAsked
    <3>7. SkippedOrFullyAsked'
      BY <2>0, <3>1, <3>2, <3>5, <3>6 DEF BookkeepingInv, SkippedOrFullyAsked
    <3> QED
      BY <3>4, <3>7
  <2>4. CASE NextProbe
    <3>1. /\ probe' = probe + 1 /\ turn' = 1 /\ results' = results /\ skipped' = skipped
          /\ Runnable(Probes[probe]) /\ turn > Len(Probes[probe].principals) /\ InProbe
      BY <2>4 DEF NextProbe, Running
    <3>2. Probes[probe].principals \in Seq(PrincipalIds)
      BY <2>0, <3>1 DEF InProbe
    <3>3. TurnsAnswered'
      BY <2>0, <3>1 DEF BookkeepingInv, TurnsAnswered, ProbeResult
    <3>4. /\ Len(Probes[probe].principals) >= 2
          /\ \A k \in DOMAIN Probes[probe].principals :
               \E r \in results :
                 r.probe = probe /\ r.turn = k /\ r.principal_id = Probes[probe].principals[k]
      <4>1. \A k \in DOMAIN Probes[probe].principals : k \in 1..(turn - 1)
        BY <2>0, <3>1, <3>2
      <4> QED
        BY <3>1, <4>1 DEF BookkeepingInv, TurnsAnswered, Runnable
    <3>5. \A i \in 1..(probe' - 1) \ skipped' : i = probe \/ i \in 1..(probe - 1) \ skipped
      BY <2>0, <3>1
    <3>6. /\ \A i \in skipped' : Len(Probes[i].principals) < 2
          /\ \A r \in results' : r.probe \notin skipped'
          /\ \A r, s \in results' : r.probe = s.probe /\ r.turn = s.turn => r = s
      BY <3>1 DEF BookkeepingInv, SkippedOrFullyAsked
    <3>7. ASSUME NEW i \in 1..(probe' - 1) \ skipped'
          PROVE  /\ Len(Probes[i].principals) >= 2
                 /\ \A k \in DOMAIN Probes[i].principals :
                      \E r \in results' :
                        r.probe = i /\ r.turn = k /\ r.principal_id = Probes[i].principals[k]
      <4>1. CASE i = probe
        BY <3>1, <3>4, <4>1
      <4>2. CASE i \in 1..(probe - 1) \ skipped
        BY <3>1, <4>2 DEF BookkeepingInv, SkippedOrFullyAsked
      <4> QED
        BY <3>5, <4>1, <4>2
    <3>8. SkippedOrFullyAsked'
      BY <2>0, <3>6, <3>7 DEF SkippedOrFullyAsked
    <3> QED
      BY <3>3, <3>8
  <2> QED
    BY <2>1, <2>2, <2>3, <2>4 DEF Next, vars, FailOnEnforcement, FailOnPrincipal, FailOnRetrieve
<1> QED
  BY <1>1, <1>2, TypeCorrect, ResultsJudgedCorrect, PTL DEF Spec, BookkeepingInv

\* No verdict rests on half a comparison.
THEOREM SkippedOrFullyAskedCorrect == Spec => []SkippedOrFullyAsked
  BY TurnsAnsweredCorrect, PTL

----------------------------------------------------------------------------
(* What is found without a store *)

\* The identities of probe i that were asked for before turn k of probe n.
TurnsBefore(i, n, k) ==
  {j \in DOMAIN Probes[i].principals : Runnable(Probes[i]) /\ (i < n \/ (i = n /\ j < k))}

\* What the tags answer to such a question, judged by the sources.
SimulatedResult(i, j) ==
  LET p == scenario.principals[Probes[i].principals[j]]
  IN  Judged(i, j, p, SimulatedAnswer(i, p))

SimulatedResults(n, k) ==
  UNION {{SimulatedResult(i, j) : j \in TurnsBefore(i, n, k)} : i \in DOMAIN Probes}

\* Without a store the results are what the fixtures alone make of the questions asked, and
\* the probes skipped are those whose lists have fewer than two entries.
ResultsAreSimulated ==
  /\ ~live => results = SimulatedResults(probe, turn)
  /\ skipped = {i \in 1..(probe - 1) : ~Runnable(Probes[i])}

\* run_probes computes them, whatever the probes, the enforcement model and the limit.
THEOREM ResultsCorrect == Spec => []ResultsAreSimulated
<1>1. TypeOK /\ ResultsJudged /\ TurnsAnswered /\ SkippedOrFullyAsked => ResultsAreSimulated
  <2> SUFFICES ASSUME TypeOK, ResultsJudged, TurnsAnswered, SkippedOrFullyAsked
               PROVE  ResultsAreSimulated
    OBVIOUS
  <2>0. /\ Probes \in Seq(Probe) /\ probe \in Nat \ {0} /\ turn \in Nat \ {0}
        /\ probe <= Len(Probes) + 1
        /\ \A i \in DOMAIN Probes : Probes[i].principals \in Seq(PrincipalIds)
        /\ skipped \subseteq 1..(probe - 1)
    BY ViewTypes DEF TypeOK
  <2>1. \A i \in 1..(probe - 1) : i \in skipped <=> ~Runnable(Probes[i])
    <3>1. ASSUME NEW i \in 1..(probe - 1)
          PROVE  i \in skipped <=> ~Runnable(Probes[i])
      <4>1. Len(Probes[i].principals) \in Nat
        BY <2>0
      <4> QED
        BY <4>1 DEF SkippedOrFullyAsked, Runnable
    <3> QED
      BY <3>1
  <2>2. skipped = {i \in 1..(probe - 1) : ~Runnable(Probes[i])}
    BY <2>0, <2>1
  <2>3. ASSUME ~live, NEW r \in results
        PROVE  \E i \in DOMAIN Probes :
                 \E j \in TurnsBefore(i, probe, turn) : r = SimulatedResult(i, j)
    <3>1. IsJudgement(r)
      BY DEF ResultsJudged
    <3>2. r = SimulatedResult(r.probe, r.turn)
      <4>1. /\ r = Judged(r.probe, r.turn, PrincipalOf(r), r.answer)
            /\ r.answer = SimulatedAnswer(r.probe, PrincipalOf(r))
            /\ PrincipalOf(r) = scenario.principals[Probes[r.probe].principals[r.turn]]
        BY <2>3, <3>1 DEF IsJudgement, PrincipalOf
      <4> QED
        BY <4>1 DEF SimulatedResult
    <3>3. r.turn \in TurnsBefore(r.probe, probe, turn)
      BY <3>1 DEF IsJudgement, TurnsAnswered, TurnsBefore
    <3> QED
      BY <3>1, <3>2, <3>3 DEF IsJudgement
  <2>4. ASSUME ~live, NEW i \in DOMAIN Probes, NEW j \in TurnsBefore(i, probe, turn)
        PROVE  SimulatedResult(i, j) \in results
    <3>1. /\ j \in DOMAIN Probes[i].principals /\ Runnable(Probes[i])
          /\ i < probe \/ (i = probe /\ j < turn)
      BY DEF TurnsBefore
    <3>2. i \in Nat \ {0} /\ j \in Nat \ {0}
      BY <2>0, <3>1
    <3>3. PICK r \in results : r.probe = i /\ r.turn = j /\ r.principal_id = Probes[i].principals[j]
      <4>1. CASE i < probe
        <5>1. i \in 1..(probe - 1) \ skipped
          BY <2>0, <2>1, <3>1, <3>2, <4>1
        <5> QED
          BY <3>1, <5>1 DEF SkippedOrFullyAsked
      <4>2. CASE i = probe /\ j < turn
        <5>1. InProbe /\ j \in 1..(turn - 1)
          BY <2>0, <3>2, <4>2 DEF InProbe
        <5> QED
          BY <4>2, <5>1 DEF TurnsAnswered
      <4> QED
        BY <3>1, <4>1, <4>2
    <3>4. /\ r = Judged(r.probe, r.turn, PrincipalOf(r), r.answer)
          /\ r.answer = SimulatedAnswer(r.probe, PrincipalOf(r))
          /\ PrincipalOf(r) = scenario.principals[Probes[i].principals[j]]
      BY <2>4, <3>3 DEF ResultsJudged, IsJudgement, PrincipalOf
    <3>5. r = SimulatedResult(i, j)
      BY <3>3, <3>4 DEF SimulatedResult
    <3> QED
      BY <3>5
  <2>5. ASSUME ~live PROVE results = SimulatedResults(probe, turn)
    BY <2>3, <2>4, <2>5 DEF SimulatedResults
  <2> QED
    BY <2>2, <2>5 DEF ResultsAreSimulated
<1> QED
  BY <1>1, TypeCorrect, ResultsJudgedCorrect, TurnsAnsweredCorrect, PTL
=============================================================================
