-------------------------- MODULE Evaluate_proofs --------------------------
(***************************************************************************)
(* What a passing score means, for every report of a simulated             *)
(* verification and every truth it can be scored against.                  *)
(*                                                                         *)
(* A pass is the absence of problems; each argument names the problem that *)
(* would be there.  What the report holds is taken from Verify_proofs, and *)
(* what the validator computes from RunProbes_proofs.                      *)
(***************************************************************************)
EXTENDS Evaluate, Verify_proofs, WellFoundedInduction

\* The report that is scored is what the axes left.
LEMMA ScoredFacts ==
  ASSUME Phased, Scored
  PROVE  /\ report = ReportOfState /\ ~live
         /\ report.probes = results /\ report.propagation = findings
         /\ report.chunks_examined = Cardinality(DOMAIN variant.chunks)
         /\ report.partial = Partial
  BY DEF Phased, Scored, ReportOfState

\* Where the results of a key are: a probe of the scenario, and a turn of it.
LEMMA PlaceOfResult ==
  ASSUME PropagationFacts, DifferentialFacts, NEW p \in results
  PROVE  /\ Len(scenario.probes) \in Nat /\ p.probe \in 1..Len(scenario.probes)
         /\ Len(Principals(p.probe)) \in Nat /\ p.turn \in 1..Len(Principals(p.probe))
<1>1. p.probe \in DOMAIN scenario.probes /\ p.turn \in DOMAIN Principals(p.probe)
  BY DEF DifferentialFacts, ResultFacts
<1>2. scenario.probes \in Seq(Probe)
  BY ScenariosAssumption DEF PropagationFacts, IsScenario
<1>3. Principals(p.probe) \in Seq(PrincipalIds)
  <2>1. scenario.probes[p.probe] \in Probe
    BY <1>1, <1>2
  <2> QED
    BY <2>1 DEF Probe, Principals
<1> QED
  BY <1>1, <1>2, <1>3

\* The key of a result has a last probe, and that a last turn: LastOn is the result of it.
LEMMA LastOnIsThere ==
  ASSUME PropagationFacts, DifferentialFacts, NEW r, r.probes = results, NEW key \in Keys(r)
  PROVE  /\ LastOn(r, key) \in results /\ On(LastOn(r, key), key)
         /\ \A q \in results : On(q, key) => NotBefore(LastOn(r, key), q)
<1> DEFINE places == {p \in results : On(p, key)}
           M == Len(scenario.probes)
           byProbe == {M - p.probe : p \in places}
<1>1. places # {}
  BY DEF Keys, On
<1>2. \A p \in places : M \in Nat /\ p.probe \in 1..M
  BY PlaceOfResult
<1>3. byProbe \subseteq Nat /\ byProbe # {}
  BY <1>1, <1>2
<1>4. PICK x \in byProbe : \A y \in byProbe : x <= y
  <2> HIDE DEF byProbe
  <2> QED
    BY <1>3, LeastNatural
<1>5. PICK latest \in places : x = M - latest.probe
  BY <1>4
<1>6. ASSUME NEW q \in places PROVE q.probe <= latest.probe
  <2>1. M - latest.probe <= M - q.probe
    BY <1>4, <1>5
  <2> QED
    BY <1>2, <2>1
<1> DEFINE N == Len(Principals(latest.probe))
           turns == {p \in places : p.probe = latest.probe}
           byTurn == {N - p.turn : p \in turns}
<1>7. \A p \in turns : N \in Nat /\ p.turn \in 1..N
  BY PlaceOfResult
<1>8. byTurn \subseteq Nat /\ byTurn # {}
  BY <1>5, <1>7
<1>9. PICK x2 \in byTurn : \A y \in byTurn : x2 <= y
  <2> HIDE DEF byTurn
  <2> QED
    BY <1>8, LeastNatural
<1>10. PICK p \in turns : x2 = N - p.turn
  BY <1>9
<1>11. ASSUME NEW q \in turns PROVE q.turn <= p.turn
  <2>1. N - p.turn <= N - q.turn
    BY <1>9, <1>10
  <2> QED
    BY <1>7, <2>1
<1>12. ASSUME NEW q \in places PROVE NotBefore(p, q)
  <2>1. CASE q.probe = latest.probe
    BY <1>10, <1>11, <2>1 DEF NotBefore
  <2>2. CASE q.probe # latest.probe
    BY <1>2, <1>6, <1>10, <2>2 DEF NotBefore
  <2> QED
    BY <2>1, <2>2
<1>13. p \in r.probes /\ On(p, key) /\ \A q \in r.probes : On(q, key) => NotBefore(p, q)
  BY <1>10, <1>12
<1> QED
  BY <1>13 DEF LastOn

\* In a simulated run the last result of a key speaks for every other of its probe; of the
\* results it does not speak for, it is of a later probe.
LEMMA LastOnSpeaksForAll ==
  ASSUME PropagationFacts, DifferentialFacts, ~live, NEW r, r.probes = results, NEW p \in results
  PROVE  LET last == LastOn(r, ResultKey(p))
         IN  /\ last \in results /\ ResultKey(last) = ResultKey(p)
             /\ SaysAs(p, last) \/ p.probe < last.probe
<1> DEFINE key == ResultKey(p)
           last == LastOn(r, key)
<1>1. key \in Keys(r)
  BY DEF Keys
<1>2. last \in results /\ On(last, key) /\ NotBefore(last, p)
  BY <1>1, LastOnIsThere DEF On
<1> HIDE DEF last
<1>3. ASSUME ~(p.probe < last.probe) PROVE SaysAs(p, last)
  <2>1. last.probe = p.probe
    BY <1>2, <1>3 DEF NotBefore
  <2>2. last.principal_id = p.principal_id
    BY <1>2 DEF On, ResultKey
  <2> QED
    BY <1>2, <2>1, <2>2 DEF DifferentialFacts
<1>4. ResultKey(last) = key
  BY <1>2 DEF On
<1> QED
  BY <1>2, <1>3, <1>4 DEF last

\* Rows compare with two results that say the same alike.
LEMMA UnlikeAlike ==
  ASSUME NEW p, NEW q, SaysAs(p, q), NEW row
  PROVE  Unlike(row, p) = Unlike(row, q)
<1>1. \A label \in DOMAIN FieldOf : p[FieldOf[label]] = q[FieldOf[label]]
  BY DEF FieldOf, SaysAs
<1>2. p.outcome = q.outcome
  BY DEF SaysAs
<1> QED
  BY <1>1, <1>2 DEF Unlike

\* No problem of any kind is left in a score that passes.
LEMMA NoProblems ==
  ASSUME NEW r, NEW truth, Passed(r, truth)
  PROVE  LET prop == Load(truth.propagation)
             vis == Load(truth.visibility)
         IN  /\ ExpectedIds(prop) = FoundIds(r)
             /\ ExpectedKeys(vis) = Keys(r)
             /\ \A row \in VisibilityRows(vis) : Unlike(row, LastOn(r, KeyOf(row))) = {}
             /\ \A p \in SilentRows(r, vis) : ~Defective(p)
<1> DEFINE prop == Load(truth.propagation)
           vis == Load(truth.visibility)
<1> HIDE DEF prop, vis
<1>1. /\ PropagationProblems(r, prop) = {} /\ VisibilityProblems(r, vis) = {}
      /\ DerivedFalsePositives(r, prop, vis) = {}
  BY DEF Passed, Problems, prop, vis
<1>2. ExpectedIds(prop) = FoundIds(r)
  <2>1. ExpectedIds(prop) \ FoundIds(r) = {}
    BY <1>1 DEF PropagationProblems
  <2>2. FoundIds(r) \ ExpectedIds(prop) = {}
    BY <1>1 DEF PropagationProblems
  <2> QED
    BY <2>1, <2>2
<1>3. ExpectedKeys(vis) = Keys(r)
  <2>1. ASSUME NEW key \in ExpectedKeys(vis) \ Keys(r) PROVE FALSE
    <3>1. <<"not produced", key>> \in RowProblems(r, vis)
      BY Zenon DEF RowProblems
    <3> QED
      BY <1>1, <3>1 DEF VisibilityProblems
  <2>2. Keys(r) \ ExpectedKeys(vis) = {}
    BY <1>1 DEF VisibilityProblems
  <2> QED
    BY <2>1, <2>2
<1>4. ASSUME NEW row \in VisibilityRows(vis) PROVE Unlike(row, LastOn(r, KeyOf(row))) = {}
  <2>1. KeyOf(row) \in Keys(r)
    BY <1>3 DEF ExpectedKeys, Validator!ExpectedKeys, VisibilityRows, KeyOf,
       Range, Validator!Range
  <2>2. ASSUME NEW label \in Unlike(row, LastOn(r, KeyOf(row)))
        PROVE  <<label, KeyOf(row)>> \in RowProblems(r, vis)
    <3> DEFINE differences(x) == {<<lb, KeyOf(x)>> : lb \in Unlike(x, LastOn(r, KeyOf(x)))}
               compared == {x \in VisibilityRows(vis) : KeyOf(x) \in Keys(r)}
    <3>1. <<label, KeyOf(row)>> \in differences(row) /\ row \in compared
      BY <2>1
    <3>2. <<label, KeyOf(row)>> \in UNION {differences(x) : x \in compared}
      BY <3>1, Zenon
    <3>3. UNION {differences(x) : x \in compared} \subseteq RowProblems(r, vis)
      BY Zenon DEF RowProblems
    <3> QED
      BY <3>2, <3>3
  <2> QED
    BY <1>1, <2>2 DEF VisibilityProblems
<1>5. \A p \in SilentRows(r, vis) : ~Defective(p)
  BY <1>1 DEF DerivedFalsePositives
<1> QED
  BY <1>2, <1>3, <1>4, <1>5 DEF prop, vis

\* Every key of the rows is the key of a row.
LEMMA KeyHasRow ==
  ASSUME NEW doc, NEW key \in ExpectedKeys(doc)
  PROVE  \E row \in VisibilityRows(doc) : KeyOf(row) = key
  BY DEF ExpectedKeys, Validator!ExpectedKeys, VisibilityRows, KeyOf, Range, Validator!Range

----------------------------------------------------------------------------
(* The theorems *)

\* A pass judges every result, the forgotten answers to an identity named twice included, but
\* for those that the result of a later probe with the same id has replaced.
THEOREM EveryResultCorrect == Spec => []PassSpeaksOfEveryResult
<1>1. PropagationFacts /\ DifferentialFacts /\ Phased => PassSpeaksOfEveryResult
  <2> SUFFICES ASSUME PropagationFacts, DifferentialFacts, Phased, Scored,
                      NEW truth \in Truths, Passed(report, truth), NEW p \in report.probes
               PROVE  \E row \in VisibilityRows(Load(truth.visibility)) :
                        /\ KeyOf(row) = ResultKey(p)
                        /\ \/ Unlike(row, p) = {}
                           \/ \E q \in report.probes :
                                ResultKey(q) = ResultKey(p) /\ p.probe < q.probe
    BY DEF PassSpeaksOfEveryResult
  <2> DEFINE key == ResultKey(p)
             vis == Load(truth.visibility)
             last == LastOn(report, key)
  <2> HIDE DEF vis
  <2>1. report.probes = results /\ ~live
    BY ScoredFacts
  <2>2. ExpectedKeys(vis) = Keys(report)
        /\ \A row \in VisibilityRows(vis) : Unlike(row, LastOn(report, KeyOf(row))) = {}
    BY NoProblems DEF vis
  <2>3. key \in ExpectedKeys(vis)
    BY <2>2 DEF Keys
  <2>4. PICK row \in VisibilityRows(vis) : KeyOf(row) = key
    BY <2>3, KeyHasRow
  <2>5. /\ last \in results /\ ResultKey(last) = ResultKey(p)
        /\ SaysAs(p, last) \/ p.probe < last.probe
    BY <2>1, LastOnSpeaksForAll
  <2>6. Unlike(row, last) = {}
    BY <2>2, <2>4
  <2>7. CASE SaysAs(p, last)
    <3> HIDE DEF key, last
    <3>1. Unlike(row, p) = {}
      BY <2>6, <2>7, UnlikeAlike
    <3> QED
      BY <2>4, <3>1 DEF key, vis
  <2>8. CASE p.probe < last.probe
    BY <2>1, <2>4, <2>5, <2>8 DEF vis
  <2> QED
    BY <2>5, <2>7, <2>8
<1> QED
  BY <1>1, PropagationFactsCorrect, DifferentialFactsCorrect, PhasedCorrect, PTL

\* The label of a row that states a defect is the field of the result it is compared with.
LEMMA StatedDefect ==
  ASSUME NEW row, NEW p, Unlike(row, p) = {},
         NEW label \in {"over_retrieved", "under_retrieved"}, Entries(row, label, {}) # {}
  PROVE  p[label] # {}
<1>1. label \in DOMAIN row
  BY DEF Entries, Validator!Entries
<1>2. label \in DOMAIN FieldOf /\ FieldOf[label] = label
  BY DEF FieldOf
<1> QED
  BY <1>1, <1>2 DEF Unlike

\* A pass tells the exit status of the command, for every truth whatever its rows leave out.
THEOREM StatusCorrect == Spec => []PassTellsTheStatus
<1>1. PropagationFacts /\ DifferentialFacts /\ Phased => PassTellsTheStatus
  <2> SUFFICES ASSUME PropagationFacts, DifferentialFacts, Phased, Scored,
                      NEW truth \in Truths, Passed(report, truth), ~report.partial
               PROVE  ExitStatus(report) = "zero" <=>
                        /\ ExpectedFindings(Load(truth.propagation)) = {}
                        /\ ExpectedDefects(Load(truth.visibility)) = {}
    BY DEF PassTellsTheStatus
  <2> DEFINE prop == Load(truth.propagation)
             vis == Load(truth.visibility)
             contradicted == \E p \in results : p.verdict = "contradicted"
  <2> HIDE DEF prop, vis
  <2>1. report.probes = results /\ ~live
    BY ScoredFacts
  <2>2. ExitStatus(report) = "zero" <=> report.propagation = {} /\ ~contradicted
    BY <2>1 DEF ExitStatus
  <2>3. report.propagation = {} <=> ExpectedFindings(prop) = {}
    <3>1. ExpectedIds(prop) = FoundIds(report)
      BY NoProblems DEF prop
    <3> QED
      BY <3>1 DEF ExpectedIds, FoundIds
  <2>4. ASSUME NEW p \in results, p.verdict = "contradicted"
        PROVE  ExpectedDefects(vis) # {}
    <3>1. Defective(p)
      BY <2>4 DEF DifferentialFacts, Defective
    <3>2. p \notin SilentRows(report, vis)
      BY <3>1, NoProblems DEF vis
    <3> QED
      BY <2>1, <3>2 DEF SilentRows
  <2>5. ASSUME NEW key \in ExpectedDefects(vis)
        PROVE  contradicted
    <3>1. PICK row \in VisibilityRows(vis) :
            /\ KeyOf(row) = key
            /\ \/ Entries(row, "over_retrieved", {}) # {}
               \/ Entries(row, "under_retrieved", {}) # {}
      BY <2>5 DEF ExpectedDefects
    <3>2. Unlike(row, LastOn(report, key)) = {}
      BY <3>1, NoProblems DEF vis
    <3>3. key \in Keys(report)
      <4>1. key \in ExpectedKeys(vis)
        BY <3>1 DEF ExpectedKeys, Validator!ExpectedKeys, VisibilityRows, KeyOf,
           Range, Validator!Range
      <4> QED
        BY <4>1, NoProblems DEF vis
    <3>4. LastOn(report, key) \in results
      BY <2>1, <3>3, LastOnIsThere
    <3>5. LastOn(report, key).over_retrieved # {} \/ LastOn(report, key).under_retrieved # {}
      BY <3>1, <3>2, StatedDefect
    <3> QED
      BY <3>4, <3>5 DEF DifferentialFacts
  <2> QED
    BY <2>2, <2>3, <2>4, <2>5 DEF prop, vis
<1> QED
  BY <1>1, PropagationFactsCorrect, DifferentialFactsCorrect, PhasedCorrect, PTL

\* Tagging the members of a set makes no more of them.
LEMMA NoMoreImages ==
  ASSUME NEW S, IsFiniteSet(S), NEW f, f \in [S -> Range(f)]
  PROVE  IsFiniteSet(Range(f)) /\ Cardinality(Range(f)) <= Cardinality(S)
<1>1. f \in Surjection(S, Range(f))
  BY DEF Surjection, Range
<1> QED
  BY <1>1, FS_Surjection

\* The chunks flagged are among the chunks counted: expected findings on chunks the index
\* holds are each one chunk less.
LEMMA ChunksWithin ==
  ASSUME PropagationFacts, Phased, Scored, NEW prop, ExpectedIds(prop) \subseteq DOMAIN variant.chunks
  PROVE  LET flagged == {<<"chunk", c>> : c \in FoundIds(report) \ ExpectedIds(prop)}
         IN  /\ IsFiniteSet(flagged)
             /\ Cardinality(flagged) <= SilentChunks(report, prop)
             /\ SilentChunks(report, prop) \in Nat
<1> DEFINE D == DOMAIN variant.chunks
           E == ExpectedIds(prop)
           A == FoundIds(report) \ E
           f == [c \in A |-> <<"chunk", c>>]
<1>1. IsFiniteSet(D)
  BY VariantsAssumption DEF PropagationFacts, IsVariant, IsDict
<1>2. A \subseteq D \ E
  BY ScoredFacts DEF FoundIds, PropagationFacts
<1>3. /\ IsFiniteSet(D \ E) /\ Cardinality(D \ E) \in Nat
      /\ Cardinality(D \ E) = Cardinality(D) - Cardinality(E)
      /\ Cardinality(D) \in Nat /\ Cardinality(E) \in Nat
  <2>1. D \cap E = E /\ IsFiniteSet(E)
    BY <1>1, FS_Subset
  <2> QED
    BY <1>1, <2>1, FS_Difference, FS_CardinalityType
<1>4. IsFiniteSet(A) /\ Cardinality(A) <= Cardinality(D \ E) /\ Cardinality(A) \in Nat
  BY <1>2, <1>3, FS_Subset, FS_CardinalityType
<1>5. SilentChunks(report, prop) = Cardinality(D \ E)
  BY <1>3, ScoredFacts DEF SilentChunks
<1>6. Range(f) = {<<"chunk", c>> : c \in A} /\ f \in [A -> Range(f)]
  BY DEF Range
<1>7. IsFiniteSet(Range(f)) /\ Cardinality(Range(f)) <= Cardinality(A)
  <2> HIDE DEF f, A
  <2> QED
    BY <1>4, <1>6, NoMoreImages
<1>8. Cardinality(Range(f)) \in Nat
  BY <1>7, FS_CardinalityType
<1> HIDE DEF f
<1> QED
  BY <1>3, <1>4, <1>5, <1>6, <1>7, <1>8

\* The rows flagged are among the rows counted.
LEMMA RowsWithin ==
  ASSUME DifferentialFacts, Phased, Scored, NEW vis
  PROVE  LET flagged == {<<"row", p.probe, p.turn>> :
                           p \in {p \in SilentRows(report, vis) : Defective(p)}}
         IN  /\ IsFiniteSet(flagged)
             /\ Cardinality(flagged) <= Cardinality(SilentRows(report, vis))
             /\ Cardinality(SilentRows(report, vis)) \in Nat
<1> DEFINE S == SilentRows(report, vis)
           A == {p \in S : Defective(p)}
           f == [p \in A |-> <<"row", p.probe, p.turn>>]
<1>1. IsFiniteSet(S)
  BY ScoredFacts, FS_Subset DEF SilentRows, DifferentialFacts
<1>2. IsFiniteSet(A) /\ Cardinality(A) <= Cardinality(S)
  BY <1>1, FS_Subset
<1>3. Cardinality(A) \in Nat /\ Cardinality(S) \in Nat
  BY <1>1, <1>2, FS_CardinalityType
<1>4. Range(f) = {<<"row", p.probe, p.turn>> : p \in A} /\ f \in [A -> Range(f)]
  BY DEF Range
<1>5. IsFiniteSet(Range(f)) /\ Cardinality(Range(f)) <= Cardinality(A)
  <2> HIDE DEF f, A
  <2> QED
    BY <1>2, <1>4, NoMoreImages
<1>6. Cardinality(Range(f)) \in Nat
  BY <1>5, FS_CardinalityType
<1> HIDE DEF f
<1> QED
  BY <1>2, <1>3, <1>4, <1>5, <1>6

\* No rate of false positives above one, for every index and every truth whose expected
\* findings are on chunks the index holds.
THEOREM FalsePositivesCorrect == Spec => []FalsePositivesWithinSubjects
<1>1. PropagationFacts /\ DifferentialFacts /\ Phased => FalsePositivesWithinSubjects
  <2> SUFFICES ASSUME PropagationFacts, DifferentialFacts, Phased, Scored, NEW truth \in Truths,
                      ExpectedIds(Load(truth.propagation)) \subseteq DOMAIN variant.chunks
               PROVE  Cardinality(DerivedFalsePositives(report, Load(truth.propagation),
                                                        Load(truth.visibility)))
                        <= NegativeSubjects(report, Load(truth.propagation), Load(truth.visibility))
    BY DEF FalsePositivesWithinSubjects
  <2> DEFINE prop == Load(truth.propagation)
             vis == Load(truth.visibility)
             chunks == {<<"chunk", c>> : c \in FoundIds(report) \ ExpectedIds(prop)}
             rows == {<<"row", p.probe, p.turn>> :
                        p \in {p \in SilentRows(report, vis) : Defective(p)}}
  <2>1. /\ IsFiniteSet(chunks)
        /\ Cardinality(chunks) <= SilentChunks(report, prop)
        /\ SilentChunks(report, prop) \in Nat
    <3> HIDE DEF prop
    <3> QED
      BY ChunksWithin DEF prop
  <2>2. /\ IsFiniteSet(rows)
        /\ Cardinality(rows) <= Cardinality(SilentRows(report, vis))
        /\ Cardinality(SilentRows(report, vis)) \in Nat
    <3> HIDE DEF vis
    <3> QED
      BY RowsWithin
  <2>3. DerivedFalsePositives(report, prop, vis) = chunks \cup rows
    BY DEF DerivedFalsePositives
  <2> HIDE DEF prop, vis, chunks, rows
  <2>4. Cardinality(chunks \cup rows) <= Cardinality(chunks) + Cardinality(rows)
    <3>1. Cardinality(chunks \cup rows) =
            Cardinality(chunks) + Cardinality(rows) - Cardinality(chunks \cap rows)
      BY <2>1, <2>2, FS_Union
    <3>2. Cardinality(chunks \cap rows) \in Nat /\ Cardinality(chunks) \in Nat
          /\ Cardinality(rows) \in Nat
      BY <2>1, <2>2, FS_Intersection, FS_CardinalityType
    <3> QED
      BY <3>1, <3>2
  <2>5. Cardinality(chunks \cup rows) \in Nat /\ Cardinality(chunks) \in Nat
        /\ Cardinality(rows) \in Nat
    BY <2>1, <2>2, FS_Union, FS_CardinalityType
  <2> QED
    BY <2>1, <2>2, <2>3, <2>4, <2>5 DEF NegativeSubjects, prop, vis
<1> QED
  BY <1>1, PropagationFactsCorrect, DifferentialFactsCorrect, PhasedCorrect, PTL

----------------------------------------------------------------------------
(* Chains of documents: loading one is merging it from the first on *)

\* What a set holds that holds zero and with a number below N the next.
LEMMA UpTo ==
  ASSUME NEW N \in Nat, NEW S, 0 \in S, \A n \in 0..(N - 1) : n \in S => n + 1 \in S
  PROVE  0..N \subseteq S
<1>1. SUFFICES ASSUME 0..N \ S # {} PROVE FALSE
  OBVIOUS
<1>2. PICK x \in 0..N \ S : \A y \in 0..N \ S : x <= y
  <2>1. 0..N \ S \subseteq Nat
    OBVIOUS
  <2> QED
    BY <1>1, <2>1, LeastNatural
<1>3. x # 0 /\ x - 1 \in 0..(N - 1) /\ x - 1 + 1 = x
  BY <1>2
<1>4. x - 1 \in S
  BY <1>2, <1>3
<1> QED
  BY <1>2, <1>3, <1>4

\* One round of the fold behind Load.
Folded(g, chain, s) == IF s = {} THEN <<>> ELSE Merged(g[s \ {Max(s)}], chain[Max(s)])

LEMMA MaxOfSome ==
  ASSUME NEW n \in Nat, NEW s \in SUBSET (1..(n + 1)), n + 1 \in s
  PROVE  Max(s) = n + 1 /\ s \ {Max(s)} \in SUBSET (1..n)
<1>1. n + 1 \in s /\ \A y \in s : n + 1 >= y
  OBVIOUS
<1>2. \A x \in s : x \in Int
  OBVIOUS
<1>3. Max(s) \in s /\ \A y \in s : Max(s) >= y
  BY <1>1 DEF Max
<1>4. Max(s) = n + 1
  <2>1. Max(s) \in Int /\ Max(s) >= n + 1 /\ n + 1 >= Max(s)
    BY <1>1, <1>2, <1>3
  <2> HIDE DEF Max
  <2> QED
    BY <2>1
<1> QED
  BY <1>4

LEMMA MaxWithin ==
  ASSUME NEW n \in Nat, NEW s \in SUBSET (1..(n + 1)), n + 1 \notin s
  PROVE  s \in SUBSET (1..n)
OBVIOUS

LEMMA FoldIsThere ==
  ASSUME NEW chain, NEW N \in Nat
  PROVE  \E g : g = [s \in SUBSET (1..N) |-> Folded(g, chain, s)]
<1> DEFINE IsFold(g, n) == g = [s \in SUBSET (1..n) |-> Folded(g, chain, s)]
           S == {n \in 0..N : \E g : IsFold(g, n)}
<1>1. 0 \in S
  <2> DEFINE g == [s \in SUBSET (1..0) |-> <<>>]
  <2>1. \A s \in SUBSET (1..0) : s = {}
    OBVIOUS
  <2>2. IsFold(g, 0)
    BY <2>1 DEF Folded
  <2>3. \E x : IsFold(x, 0)
    <3> HIDE DEF g, IsFold
    <3> QED
      BY <2>2
  <2> QED
    BY <2>3
<1>2. ASSUME NEW n \in 0..(N - 1), n \in S
      PROVE  n + 1 \in S
  <2>1. PICK g : IsFold(g, n)
    BY <1>2
  <2> DEFINE h == [s \in SUBSET (1..(n + 1)) |->
                     IF n + 1 \in s THEN Merged(g[s \ {n + 1}], chain[n + 1]) ELSE g[s]]
  <2>2. ASSUME NEW s \in SUBSET (1..n) PROVE h[s] = g[s]
    OBVIOUS
  <2>3. ASSUME NEW s \in SUBSET (1..n), s # {} PROVE s \ {Max(s)} \in SUBSET (1..n)
    OBVIOUS
  <2> HIDE DEF h
  <2>4. ASSUME NEW s \in SUBSET (1..(n + 1)), n + 1 \in s
        PROVE  h[s] = Folded(h, chain, s)
    <3>1. Max(s) = n + 1 /\ s \ {Max(s)} \in SUBSET (1..n) /\ s # {}
      BY <2>4, MaxOfSome
    <3>2. h[s] = Merged(g[s \ {n + 1}], chain[n + 1])
      BY <2>4 DEF h
    <3>3. h[s \ {n + 1}] = g[s \ {n + 1}]
      BY <2>2, <3>1
    <3> QED
      BY <3>1, <3>2, <3>3 DEF Folded
  <2>5. ASSUME NEW s \in SUBSET (1..(n + 1)), n + 1 \notin s
        PROVE  h[s] = Folded(h, chain, s)
    <3>1. s \in SUBSET (1..n)
      BY <2>5, MaxWithin
    <3>2. h[s] = g[s] /\ g[s] = Folded(g, chain, s)
      <4>1. g[s] = Folded(g, chain, s)
        <5> DEFINE F(t) == Folded(g, chain, t)
        <5>1. g = [t \in SUBSET (1..n) |-> F(t)]
          BY <2>1
        <5> HIDE DEF F
        <5>2. g[s] = F(s)
          BY <3>1, <5>1
        <5> QED
          BY <5>2 DEF F
      <4> QED
        BY <2>2, <3>1, <4>1
    <3>3. s # {} => h[s \ {Max(s)}] = g[s \ {Max(s)}]
      BY <2>2, <2>3, <3>1
    <3> QED
      BY <3>2, <3>3 DEF Folded
  <2>6. h = [s \in SUBSET (1..(n + 1)) |-> h[s]]
    BY DEF h
  <2>7. \A s \in SUBSET (1..(n + 1)) : h[s] = Folded(h, chain, s)
    BY <2>4, <2>5
  <2>8. [s \in SUBSET (1..(n + 1)) |-> h[s]] = [s \in SUBSET (1..(n + 1)) |-> Folded(h, chain, s)]
    BY <2>7, Zenon
  <2>9. IsFold(h, n + 1)
    BY <2>6, <2>8
  <2> HIDE DEF IsFold
  <2> QED
    BY <2>9
<1>3. N \in S
  <2> HIDE DEF S
  <2> QED
    BY <1>1, <1>2, UpTo
<1> QED
  BY <1>3

\* Loading a chain is merging its documents one after the other.
LEMMA LoadIsMerging ==
  ASSUME NEW chain, NEW N \in Nat, DOMAIN chain = 1..N
  PROVE  \E read :
           /\ read[0] = <<>>
           /\ \A n \in 1..N : read[n] = Merged(read[n - 1], chain[n])
           /\ Load(chain) = read[N]
<1> DEFINE body(g) == [s \in SUBSET (1..N) |-> Folded(g, chain, s)]
           f == CHOOSE g : g = body(g)
           read == [n \in 0..N |-> f[1..n]]
<1>1. Load(chain) = f[1..N]
  BY DEF Load, FoldLeft, MapThenFoldSet, Folded
<1>2. f = body(f)
  <2>1. \E g : g = body(g)
    BY FoldIsThere
  <2> HIDE DEF body
  <2> QED
    BY <2>1
<1> HIDE DEF f
<1>3. \A s \in SUBSET (1..N) : f[s] = Folded(f, chain, s)
  <2> DEFINE F(t) == Folded(f, chain, t)
  <2>1. f = [t \in SUBSET (1..N) |-> F(t)]
    BY <1>2
  <2> HIDE DEF F
  <2>2. \A s \in SUBSET (1..N) : f[s] = F(s)
    BY <2>1
  <2> QED
    BY <2>2 DEF F
<1>4. read[0] = <<>>
  <2>1. 1..0 = {} /\ 0 \in 0..N /\ {} \in SUBSET (1..N)
    OBVIOUS
  <2>2. f[{}] = <<>>
    BY <1>3, <2>1 DEF Folded
  <2>3. read[0] = f[1..0]
    BY <2>1
  <2> QED
    BY <2>1, <2>2, <2>3
<1>5. ASSUME NEW n \in 1..N PROVE read[n] = Merged(read[n - 1], chain[n])
  <2>1. 1..n \in SUBSET (1..N) /\ 1..n # {}
    <3>1. 1 \in 1..n
      OBVIOUS
    <3>2. 1..n \subseteq 1..N
      OBVIOUS
    <3> QED
      BY <3>1, <3>2
  <2>2. Max(1..n) = n
    <3>1. n - 1 \in Nat /\ 1..n \in SUBSET (1..(n - 1 + 1)) /\ n - 1 + 1 \in 1..n
      OBVIOUS
    <3> QED
      BY <3>1, MaxOfSome
  <2>3. (1..n) \ {n} = 1..(n - 1)
    OBVIOUS
  <2>4. f[1..n] = Merged(f[1..(n - 1)], chain[n])
    BY <1>3, <2>1, <2>2, <2>3 DEF Folded
  <2> QED
    BY <2>4
<1>6. read[N] = f[1..N]
  OBVIOUS
<1> HIDE DEF read
<1> QED
  BY <1>1, <1>4, <1>5, <1>6

\* What a key holds of two merged documents.
LEMMA MergedKey ==
  ASSUME NEW inherited, NEW own, NEW key
  PROVE  /\ key \in DOMAIN Merged(inherited, own) <=> key \in DOMAIN inherited \/ key \in DOMAIN own
         /\ key \in DOMAIN inherited \ DOMAIN own => Merged(inherited, own)[key] = inherited[key]
         /\ key \in DOMAIN own =>
              Merged(inherited, own)[key] =
                IF IsList(own, key) /\ IsList(inherited, key) THEN inherited[key] \o own[key]
                ELSE own[key]
  BY DEF Merged

LEMMA LoadOfOne ==
  ASSUME NEW chain, DOMAIN chain = 1..1, NEW key
  PROVE  /\ key \in DOMAIN Load(chain) <=> key \in DOMAIN chain[1]
         /\ \A empty : Entries(Load(chain), key, empty) = Entries(chain[1], key, empty)
<1>1. Load(chain) = Merged(<<>>, chain[1])
  <2>1. PICK read : /\ read[0] = <<>>
                    /\ \A n \in 1..1 : read[n] = Merged(read[n - 1], chain[n])
                    /\ Load(chain) = read[1]
    <3>1. 1 \in Nat
      OBVIOUS
    <3> QED
      BY <3>1, LoadIsMerging, Zenon
  <2> QED
    BY <2>1
<1>2. DOMAIN <<>> = {}
  OBVIOUS
<1>3. /\ key \in DOMAIN Load(chain) <=> key \in DOMAIN chain[1]
      /\ key \in DOMAIN chain[1] => Load(chain)[key] = chain[1][key]
  BY <1>1, <1>2, MergedKey DEF IsList
<1> QED
  BY <1>3 DEF Entries, Validator!Entries

\* Two lists under one key: the own one is kept, and so is the inherited one unless the heir
\* empties the key.
LEMMA MergedLists ==
  ASSUME NEW U, None \notin Seq(U), NEW key, key \notin CountFields, NEW inherited, NEW own,
         Entries(inherited, key, <<>>) \in Seq(U), Entries(own, key, <<>>) \in Seq(U)
  PROVE  LET merged == Entries(Merged(inherited, own), key, <<>>)
         IN  /\ merged \in Seq(U)
             /\ Range(Entries(own, key, <<>>)) \subseteq Range(merged)
             /\ (key \in DOMAIN own => own[key] # None)
                  => Range(Entries(inherited, key, <<>>)) \subseteq Range(merged)
<1> DEFINE both == Merged(inherited, own)
           a == Entries(inherited, key, <<>>)
           b == Entries(own, key, <<>>)
           all == Entries(both, key, <<>>)
<1> SUFFICES /\ all \in Seq(U) /\ Range(b) \subseteq Range(all)
             /\ (key \in DOMAIN own => own[key] # None) => Range(a) \subseteq Range(all)
  OBVIOUS
<1>1. /\ a = IF key \in DOMAIN inherited /\ inherited[key] # None THEN inherited[key] ELSE <<>>
      /\ b = IF key \in DOMAIN own /\ own[key] # None THEN own[key] ELSE <<>>
      /\ all = IF key \in DOMAIN both /\ both[key] # None THEN both[key] ELSE <<>>
  BY DEF Entries, Validator!Entries
<1>2. Range(<<>>) = {}
  BY DEF Range
<1>3. /\ key \in DOMAIN both <=> key \in DOMAIN inherited \/ key \in DOMAIN own
      /\ key \in DOMAIN inherited \ DOMAIN own => both[key] = inherited[key]
      /\ key \in DOMAIN own =>
           both[key] = IF IsList(own, key) /\ IsList(inherited, key) THEN inherited[key] \o own[key]
                       ELSE own[key]
  BY MergedKey
<1>4. a \in Seq(U) /\ b \in Seq(U)
  OBVIOUS
<1> HIDE DEF both, a, b, all
<1>5. CASE key \notin DOMAIN own
  BY <1>1, <1>2, <1>3, <1>4, <1>5
<1>6. CASE key \in DOMAIN own /\ own[key] = None
  BY <1>1, <1>2, <1>3, <1>4, <1>6 DEF IsList
<1>7. CASE key \in DOMAIN own /\ own[key] # None /\ ~IsList(inherited, key)
  BY <1>1, <1>2, <1>3, <1>4, <1>7 DEF IsList
<1>8. CASE key \in DOMAIN own /\ own[key] # None /\ IsList(inherited, key)
  <2>1. a = inherited[key] /\ b = own[key] /\ both[key] = a \o b
    BY <1>1, <1>3, <1>8 DEF IsList
  <2>2. a \o b \in Seq(U)
    BY <1>4
  <2>3. all = a \o b
    BY <1>1, <1>3, <1>8, <2>1, <2>2
  <2>4. Range(a) \subseteq Range(a \o b)
    <3>1. \A k \in DOMAIN a : k \in DOMAIN (a \o b) /\ (a \o b)[k] = a[k]
      BY <1>4
    <3> QED
      BY <3>1 DEF Range
  <2>5. Range(b) \subseteq Range(a \o b)
    <3>1. \A k \in DOMAIN b : Len(a) + k \in DOMAIN (a \o b) /\ (a \o b)[Len(a) + k] = b[k]
      BY <1>4
    <3> QED
      BY <3>1 DEF Range
  <2> QED
    BY <2>2, <2>3, <2>4, <2>5
<1> QED
  BY <1>5, <1>6, <1>7, <1>8

\* What a document lists is in what is loaded, unless an heir empties the key.
LEMMA InheritedLists ==
  ASSUME NEW chain, NEW key, key \notin CountFields, IsChain(chain, key), NEW n \in DOMAIN chain,
         \A m \in n..Len(chain) : key \in DOMAIN chain[m] => chain[m][key] # None
  PROVE  Range(Entries(chain[n], key, <<>>)) \subseteq Range(Entries(Load(chain), key, <<>>))
<1> DEFINE N == Len(chain)
           U == UNION {Range(Entries(doc, key, <<>>)) : doc \in Range(chain)}
           listed(doc) == Entries(doc, key, <<>>)
<1>1. N \in Nat /\ DOMAIN chain = 1..N
  BY DEF IsChain, IsSequence
<1>2. None \notin Seq(U) /\ \A m \in 1..N : Entries(chain[m], key, <<>>) \in Seq(U)
  BY <1>1 DEF IsChain, Lists, Range
<1> HIDE DEF N, U
<1>3. PICK read : /\ read[0] = <<>>
                  /\ \A m \in 1..N : read[m] = Merged(read[m - 1], chain[m])
                  /\ Load(chain) = read[N]
  BY <1>1, LoadIsMerging
<1> DEFINE S == {m \in 0..N : /\ listed(read[m]) \in Seq(U)
                              /\ m >= n => Range(listed(chain[n])) \subseteq Range(listed(read[m]))}
<1>4. 0 \in S
  <2>1. listed(read[0]) = <<>>
    BY <1>3 DEF Entries, Validator!Entries
  <2>2. ~(0 >= n) /\ 0 \in 0..N
    BY <1>1
  <2>3. <<>> \in Seq(U)
    OBVIOUS
  <2> HIDE DEF listed
  <2> QED
    BY <2>1, <2>2, <2>3
<1>5. ASSUME NEW m \in 0..(N - 1), m \in S
      PROVE  m + 1 \in S
  <2>1. m + 1 \in 1..N /\ m + 1 \in 0..N /\ m + 1 - 1 = m
    BY <1>1
  <2>2. read[m + 1] = Merged(read[m], chain[m + 1])
    BY <1>3, <2>1
  <2>3. listed(read[m]) \in Seq(U) /\ listed(chain[m + 1]) \in Seq(U)
    BY <1>2, <1>5, <2>1
  <2>4. /\ listed(read[m + 1]) \in Seq(U)
        /\ Range(listed(chain[m + 1])) \subseteq Range(listed(read[m + 1]))
        /\ (key \in DOMAIN chain[m + 1] => chain[m + 1][key] # None)
             => Range(listed(read[m])) \subseteq Range(listed(read[m + 1]))
    BY <1>2, <2>2, <2>3, MergedLists
  <2>5. CASE m + 1 < n
    BY <1>1, <2>1, <2>4, <2>5
  <2>6. CASE m + 1 = n
    BY <2>1, <2>4, <2>6
  <2>7. CASE m + 1 > n
    <3>1. m >= n /\ m + 1 \in n..N
      BY <1>1, <2>1, <2>7
    <3>2. key \in DOMAIN chain[m + 1] => chain[m + 1][key] # None
      BY <3>1 DEF N
    <3> QED
      BY <1>5, <2>1, <2>4, <3>1, <3>2
  <2> QED
    BY <1>1, <2>1, <2>5, <2>6, <2>7
<1>6. N \in S
  <2> HIDE DEF S
  <2>1. 0..N \subseteq S
    BY <1>1, <1>4, <1>5, UpTo
  <2> QED
    BY <1>1, <2>1
<1> QED
  BY <1>1, <1>3, <1>6

\* What a document forbids stays forbidden, for chains of any length.
THEOREM InheritedCorrect == Spec => []InheritedStaysForbidden
<1>1. InheritedStaysForbidden
  <2> SUFFICES ASSUME Scored, NEW truth \in Truths, Passed(report, truth),
                      NEW n \in DOMAIN truth.clean,
                      \A m \in n..Len(truth.clean) :
                        "must_not_flag" \in DOMAIN truth.clean[m] => truth.clean[m].must_not_flag # None,
                      NEW s \in ForbiddenSubjects(truth.clean[n])
               PROVE  Entries(s, "chunk", None) \notin FoundIds(report)
    BY DEF InheritedStaysForbidden
  <2> DEFINE clean == Load(truth.clean)
  <2> HIDE DEF clean
  <2>1. Range(Entries(truth.clean[n], "must_not_flag", <<>>))
          \subseteq Range(Entries(clean, "must_not_flag", <<>>))
    <3>1. IsChain(truth.clean, "must_not_flag") /\ "must_not_flag" \notin CountFields
      BY TruthsAssumption DEF CountFields
    <3> QED
      BY <3>1, InheritedLists DEF clean
  <2>2. s \in ForbiddenSubjects(clean)
    BY <2>1 DEF ForbiddenSubjects
  <2>3. NamedFalsePositives(report, clean) = {}
    BY DEF Passed, Problems, clean
  <2>4. \A c \in FoundIds(report) : Entries(s, "chunk", None) # c
    BY <2>2, <2>3 DEF NamedFalsePositives
  <2> QED
    BY <2>4
<1> QED
  BY <1>1, PTL

----------------------------------------------------------------------------
(* Truths that the validator accepts *)

\* The validator sees the scenario and the index that the axis sees.
LEMMA ValidatorWorld ==
  /\ Validator!ValidatorAgrees <=> DifferentialProved!ValidatorAgrees
  /\ \A f : Validator!Range(f) = Range(f)
  /\ \A p : Validator!Runnable(p) <=> Len(p.principals) >= 2
<1>1. /\ \A s, k : Validator!Located(s, k) = DifferentialProved!Located(s, k)
      /\ \A f : Validator!Range(f) = Range(f) /\ DifferentialProved!Range(f) = Range(f)
      /\ \A s, n : Validator!Slice(s, n) = DifferentialProved!Slice(s, n)
      /\ \A p : Validator!Runnable(p) <=> Len(p.principals) >= 2
      /\ \A p : DifferentialProved!Runnable(p) <=> Len(p.principals) >= 2
      /\ Validator!Probes = DifferentialProved!Probes
      /\ Validator!Indexed = DifferentialProved!Indexed
      /\ Validator!EnforcementModels = DifferentialProved!EnforcementModels
      /\ \A r : Validator!PrincipalOf(r) = DifferentialProved!PrincipalOf(r)
  BY DEF Range, Validator!Located, DifferentialProved!Located, Validator!Range,
     DifferentialProved!Range, Validator!Slice, DifferentialProved!Slice, Validator!Runnable,
     DifferentialProved!Runnable, Validator!Probes, DifferentialProved!Probes, Validator!Indexed,
     DifferentialProved!Indexed, Validator!EnforcementModels,
     DifferentialProved!EnforcementModels, Validator!PrincipalOf, DifferentialProved!PrincipalOf
<1>2. \A r, e, p : Validator!Entitled(r, e, p) <=> DifferentialProved!Entitled(r, e, p)
  BY DEF Validator!Entitled, Validator!ClausesGrant, Validator!Combine, Validator!TenantClause,
         Validator!RoleClause, Validator!DirectClause, DifferentialProved!Entitled,
         DifferentialProved!ClausesGrant, DifferentialProved!Combine,
         DifferentialProved!TenantClause, DifferentialProved!RoleClause,
         DifferentialProved!DirectClause
<1>3. \A r, e, p : Validator!AdmittedByNaiveFilter(r, e, p)
                     <=> DifferentialProved!AdmittedByNaiveFilter(r, e, p)
  BY DEF Validator!AdmittedByNaiveFilter, Validator!Combine, Validator!TenantClause,
         Validator!RoleClause, Validator!DirectClause, DifferentialProved!AdmittedByNaiveFilter,
         DifferentialProved!Combine, DifferentialProved!TenantClause,
         DifferentialProved!RoleClause, DifferentialProved!DirectClause
<1>4. \A r, m, e, p : Validator!Enforce(r, m, e, p) <=> DifferentialProved!Enforce(r, m, e, p)
  BY <1>2, <1>3 DEF Validator!Enforce, DifferentialProved!Enforce
<1>5. \A s, k, p : Validator!SourcesGrant(s, k, p) <=> DifferentialProved!SourcesGrant(s, k, p)
  <2>1. \A s, k : Validator!SourceEntitlements(s, k) = DifferentialProved!SourceEntitlements(s, k)
    BY <1>1 DEF Validator!SourceEntitlements, DifferentialProved!SourceEntitlements,
       Validator!SourceAt, DifferentialProved!SourceAt
  <2> QED
    BY <1>2, <2>1 DEF Validator!SourcesGrant, Validator!EntitledByAll,
       DifferentialProved!SourcesGrant, DifferentialProved!EntitledByAll
<1>6. /\ \A i : Validator!Matches(i) = DifferentialProved!Matches(i)
      /\ \A i : Validator!Candidates(i) = DifferentialProved!Candidates(i)
      /\ Validator!Comparisons = DifferentialProved!Comparisons
  BY <1>1 DEF Validator!Matches, DifferentialProved!Matches, Validator!Candidates,
     DifferentialProved!Candidates, Validator!Comparisons, DifferentialProved!Comparisons
<1>7. \A i : Validator!FixtureUndetermined(i) = DifferentialProved!FixtureUndetermined(i)
  BY <1>1, <1>6 DEF Validator!FixtureUndetermined, DifferentialProved!FixtureUndetermined
<1>8. /\ \A i, p : Validator!FixtureTruth(i, p) = DifferentialProved!FixtureTruth(i, p)
      /\ \A i, p : Validator!FixtureVisible(i, p) = DifferentialProved!FixtureVisible(i, p)
  BY <1>4, <1>5, <1>6, <1>7 DEF Validator!FixtureTruth, DifferentialProved!FixtureTruth,
     Validator!FixtureVisible, DifferentialProved!FixtureVisible
<1>9. \A i, p : Validator!FixtureRow(i, p) = DifferentialProved!FixtureRow(i, p)
  BY <1>7, <1>8 DEF Validator!FixtureRow, DifferentialProved!FixtureRow
<1>10. Validator!ValidatorRaises <=> DifferentialProved!ValidatorRaises
  BY <1>1, <1>6 DEF Validator!ValidatorRaises, DifferentialProved!ValidatorRaises
<1> QED
  BY <1>1, <1>9, <1>10 DEF Validator!ValidatorAgrees, DifferentialProved!ValidatorAgrees

LEMMA ValidatorAgreesCorrect == Spec => []Validator!ValidatorAgrees
<1>1. DifferentialProved!Spec => []DifferentialProved!ValidatorAgrees
  BY DifferentialProved!ValidatorCorrect, DifferentialAssumptions
<1> QED
  BY <1>1, RunsRunProbes, ValidatorWorld, PTL

\* The questions that the validator's loops reach are those the results answer, and the keys
\* they are compared under are those of the report.
LEMMA SeenIsReported ==
  ASSUME PropagationFacts, DifferentialFacts, Phased, Scored
  PROVE  /\ \A r \in results : /\ <<r.probe, r.principal_id>> \in Validator!Asked
                               /\ Validator!KeyOfQuestion(<<r.probe, r.principal_id>>) = ResultKey(r)
         /\ Validator!Seen = Keys(report)
         /\ {Validator!Probes[i].id : i \in DOMAIN Validator!Probes \ Validator!Comparisons}
              = SkippedIds(report)
<1>1. report.probes = results /\ report.probes_skipped = skipped /\ report = ReportOfState
  BY DEF Phased, Scored, ReportOfState
<1>2. report # None
  BY <1>1, ReportType
<1>3. DOMAIN scenario.probes = 1..(probe - 1)
  BY <1>2, ReportedFacts
<1>4. Validator!Comparisons = {i \in DOMAIN scenario.probes : Len(Principals(i)) >= 2}
  BY ValidatorWorld DEF Validator!Comparisons, Validator!Probes, Principals
<1>5. DOMAIN scenario.probes \ Validator!Comparisons = skipped
  <2>1. \A i \in DOMAIN scenario.probes : Len(Principals(i)) \in Nat
    <3> SUFFICES ASSUME NEW i \in DOMAIN scenario.probes PROVE Len(Principals(i)) \in Nat
      OBVIOUS
    <3>1. scenario.probes \in Seq(Probe)
      BY ScenariosAssumption DEF PropagationFacts, IsScenario
    <3>2. scenario.probes[i] \in Probe
      BY <3>1
    <3> QED
      BY <3>2 DEF Probe, Principals
  <2> QED
    BY <1>3, <1>4, <2>1 DEF DifferentialFacts
<1>6. \A q : q \in Validator!Asked <=>
        \E i \in Validator!Comparisons : \E id \in Range(Principals(i)) : q = <<i, id>>
  BY ValidatorWorld DEF Validator!Asked, Validator!Probes, Principals
<1>7. \A i, id : Validator!KeyOfQuestion(<<i, id>>) = <<scenario.probes[i].id, id>>
  BY DEF Validator!KeyOfQuestion, Validator!Probes
<1>8. ASSUME NEW r \in results
      PROVE  /\ <<r.probe, r.principal_id>> \in Validator!Asked
             /\ Validator!KeyOfQuestion(<<r.probe, r.principal_id>>) = ResultKey(r)
  <2>1. /\ r.probe \in Validator!Comparisons
        /\ r.turn \in DOMAIN Principals(r.probe) /\ r.principal_id = Principals(r.probe)[r.turn]
    BY <1>4 DEF DifferentialFacts, ResultFacts
  <2>2. r.principal_id \in Range(Principals(r.probe))
    BY <2>1 DEF Range
  <2> QED
    BY <1>6, <1>7, <2>1, <2>2 DEF ResultKey, ProbeIdOf
<1>9. ASSUME NEW key \in Validator!Seen PROVE key \in Keys(report)
  <2>1. PICK q \in Validator!Asked : key = Validator!KeyOfQuestion(q)
    BY <1>9 DEF Validator!Seen
  <2>2. PICK i \in Validator!Comparisons : \E id \in Range(Principals(i)) : q = <<i, id>>
    BY <1>6
  <2>3. PICK k \in DOMAIN Principals(i) : q = <<i, Principals(i)[k]>>
    BY <2>2 DEF Range
  <2>4. i \in 1..(probe - 1) \ skipped
    BY <1>3, <1>4, <1>5, <2>2
  <2>5. PICK r \in results : r.probe = i /\ r.turn = k
    BY <2>3, <2>4 DEF DifferentialFacts
  <2>6. r.principal_id = Principals(i)[k]
    BY <2>5 DEF DifferentialFacts, ResultFacts
  <2>7. key = ResultKey(r)
    BY <1>8, <2>1, <2>3, <2>5, <2>6
  <2> QED
    BY <1>1, <2>7 DEF Keys
<1>10. ASSUME NEW key \in Keys(report) PROVE key \in Validator!Seen
  <2>1. PICK r \in results : key = ResultKey(r)
    BY <1>1, <1>10 DEF Keys
  <2> QED
    BY <1>8, <2>1 DEF Validator!Seen
<1>11. {Validator!Probes[i].id : i \in DOMAIN Validator!Probes \ Validator!Comparisons}
         = SkippedIds(report)
  BY <1>1, <1>5 DEF Validator!Probes, SkippedIds
<1> QED
  BY <1>8, <1>9, <1>10, <1>11

\* Where no two rows speak of one key, the row of a key is the one the validator compares.
LEMMA TheRowOfAKey ==
  ASSUME NEW U, NEW doc, Validator!Rows(doc) \in Seq(U), NEW row \in VisibilityRows(doc),
         \A other \in VisibilityRows(doc) : KeyOf(row) = KeyOf(other) => row = other
  PROVE  Validator!ExpectedRow(doc, KeyOf(row)) = row
<1> DEFINE rows == Validator!Rows(doc)
           places == {n \in DOMAIN rows : Validator!KeyOf(rows[n]) = KeyOf(row)}
<1>1. PICK n \in DOMAIN rows : rows[n] = row
  BY DEF VisibilityRows, Range
<1>2. n \in places
  BY <1>1 DEF KeyOf
<1>3. Validator!Max(places) \in places
  <2> DEFINE gaps == {Len(rows) - m : m \in places}
  <2>1. \A m \in places : m \in 1..Len(rows) /\ Len(rows) \in Nat
    OBVIOUS
  <2>2. gaps \subseteq Nat /\ gaps # {}
    BY <1>2, <2>1
  <2>3. PICK x \in gaps : \A y \in gaps : x <= y
    <3> HIDE DEF gaps
    <3> QED
      BY <2>2, LeastNatural
  <2>4. PICK last \in places : x = Len(rows) - last
    BY <2>3
  <2>5. \A m \in places : last >= m
    <3> SUFFICES ASSUME NEW m \in places PROVE last >= m
      OBVIOUS
    <3>1. Len(rows) - last <= Len(rows) - m
      BY <2>3, <2>4
    <3> QED
      BY <2>1, <3>1
  <2> HIDE DEF places
  <2> QED
    BY <2>4, <2>5 DEF Validator!Max
<1>4. rows[Validator!Max(places)] = row
  <2>1. rows[Validator!Max(places)] \in VisibilityRows(doc)
    BY <1>3 DEF VisibilityRows, Range
  <2>2. KeyOf(rows[Validator!Max(places)]) = KeyOf(row)
    BY <1>3 DEF KeyOf
  <2> QED
    BY <2>1, <2>2
<1> QED
  BY <1>4 DEF Validator!ExpectedRow

\* Whatever the validator accepts, the report of a simulated run bears out but for the two
\* columns that the validator leaves out.
LEMMA AcceptedPasses ==
  ASSUME PropagationFacts, DifferentialFacts, Phased, Validator!ValidatorAgrees, Scored,
         NEW doc, NEW U, Validator!Rows(doc) \in Seq(U),
         ~Validator!ValidatorRaises, Validator!CheckProblems(doc) = {},
         \A row, other \in VisibilityRows(doc) : KeyOf(row) = KeyOf(other) => row = other,
         NEW problem \in VisibilityProblems(report, doc)
  PROVE  problem[1] \in {"outcome", "absent_from_index"}
<1>1. report.probes = results /\ ~live
  BY ScoredFacts
<1>2. /\ \A r \in results : /\ <<r.probe, r.principal_id>> \in Validator!Asked
                            /\ Validator!KeyOfQuestion(<<r.probe, r.principal_id>>) = ResultKey(r)
      /\ Validator!Seen = Keys(report)
      /\ {Validator!Probes[i].id : i \in DOMAIN Validator!Probes \ Validator!Comparisons}
           = SkippedIds(report)
  BY SeenIsReported
<1>3. Validator!Seen = ExpectedKeys(doc)
  <2>1. ASSUME NEW key \in Validator!Seen \ Validator!ExpectedKeys(doc) PROVE FALSE
    <3>1. <<"not expected", key>> \in Validator!CheckProblems(doc)
      BY Zenon DEF Validator!CheckProblems
    <3> QED
      BY <3>1
  <2>2. ASSUME NEW key \in Validator!ExpectedKeys(doc) \ Validator!Seen PROVE FALSE
    <3>1. <<"never run", key>> \in Validator!CheckProblems(doc)
      BY Zenon DEF Validator!CheckProblems
    <3> QED
      BY <3>1
  <2> QED
    BY <2>1, <2>2 DEF ExpectedKeys
<1>4. Range(Entries(doc, "probes_skipped", <<>>)) = SkippedIds(report)
  <2>1. Validator!Range(Validator!Entries(doc, "probes_skipped", <<>>))
          = {Validator!Probes[i].id : i \in DOMAIN Validator!Probes \ Validator!Comparisons}
    BY DEF Validator!CheckProblems
  <2> QED
    BY <1>2, <2>1, ValidatorWorld DEF Entries
<1>5. ASSUME NEW row \in VisibilityRows(doc), KeyOf(row) \in Keys(report),
             NEW label \in Unlike(row, LastOn(report, KeyOf(row)))
      PROVE  label \in {"outcome", "absent_from_index"}
  <2> DEFINE key == KeyOf(row)
             last == LastOn(report, key)
             q == <<last.probe, last.principal_id>>
             computed == Validator!FixtureRow(q[1], scenario.principals[q[2]])
  <2>1. SUFFICES ASSUME label \in Validator!ValidatedLabels PROVE FALSE
    BY DEF Unlike, FieldOf, Validator!ValidatedLabels
  <2>2. last \in results /\ On(last, key)
    BY <1>1, <1>5, LastOnIsThere
  <2> HIDE DEF last
  <2>3. computed = Validator!FixtureRow(last.probe, Validator!PrincipalOf(last))
    BY DEF Validator!PrincipalOf
  <2>4. computed = [visible |-> last.returned, over_retrieved |-> last.over_retrieved,
                    under_retrieved |-> last.under_retrieved,
                    undetermined_returned |-> last.undetermined_returned]
    BY <1>1, <2>2, <2>3 DEF Validator!ValidatorAgrees
  <2>9. q \in Validator!Asked /\ Validator!KeyOfQuestion(q) = key
    BY <1>2, <2>2 DEF On
  <2> HIDE DEF computed, q
  <2>5. computed[label] = last[FieldOf[label]]
    BY <2>1, <2>4 DEF Validator!ValidatedLabels, FieldOf
  <2>6. Validator!ExpectedRow(doc, key) = row
    BY TheRowOfAKey
  <2>7. Entries(row, label, {}) = computed[label]
    <3>1. Validator!Disagreeing(doc, q) = {}
      <4>1. q \in {o \in Validator!Asked : Validator!KeyOfQuestion(o) \in Validator!ExpectedKeys(doc)}
        BY <1>3, <1>5, <1>2, <2>9 DEF ExpectedKeys
      <4>2. ASSUME NEW lb \in Validator!Disagreeing(doc, q)
            PROVE  <<lb, key>> \in Validator!CheckProblems(doc)
        <5> DEFINE problems(o) == {<<l, Validator!KeyOfQuestion(o)>> : l \in Validator!Disagreeing(doc, o)}
                   asked == {o \in Validator!Asked :
                               Validator!KeyOfQuestion(o) \in Validator!ExpectedKeys(doc)}
        <5>1. <<lb, key>> \in problems(q) /\ q \in asked
          BY <2>9, <4>1, <4>2
        <5> HIDE DEF asked, problems
        <5>2. <<lb, key>> \in UNION {problems(o) : o \in asked}
          BY <5>1, Zenon
        <5>3. UNION {problems(o) : o \in asked} \subseteq Validator!CheckProblems(doc)
          BY Zenon DEF Validator!CheckProblems, problems, asked
        <5> QED
          BY <5>2, <5>3
      <4> QED
        BY <4>2
    <3> QED
      BY <2>1, <2>6, <2>9, <3>1 DEF Validator!Disagreeing, Entries, computed
  <2>8. Entries(row, label, {}) # last[FieldOf[label]]
    BY <1>5, <2>1 DEF Unlike, Validator!ValidatedLabels, last
  <2> QED
    BY <2>5, <2>7, <2>8
<1>6. problem \in {<<"not produced", key>> : key \in ExpectedKeys(doc) \ Keys(report)} => FALSE
  BY <1>2, <1>3
<1>7. problem \in {<<"not expected", key>> : key \in Keys(report) \ ExpectedKeys(doc)} => FALSE
  BY <1>2, <1>3
<1>8. problem \in {x \in {<<"probes_skipped">>} :
                     /\ "probes_skipped" \in DOMAIN doc
                     /\ Range(Entries(doc, "probes_skipped", <<>>)) # SkippedIds(report)} => FALSE
  BY <1>4
<1> DEFINE differences(row) == {<<label, KeyOf(row)>> : label \in Unlike(row, LastOn(report, KeyOf(row)))}
           compared == {row \in VisibilityRows(doc) : KeyOf(row) \in Keys(report)}
<1>9. ASSUME problem \in UNION {differences(row) : row \in compared}
      PROVE  problem[1] \in {"outcome", "absent_from_index"}
  <2>1. PICK row \in compared : problem \in differences(row)
    BY <1>9, Zenon
  <2>2. PICK label \in Unlike(row, LastOn(report, KeyOf(row))) : problem = <<label, KeyOf(row)>>
    BY <2>1
  <2>3. label \in {"outcome", "absent_from_index"}
    BY <1>5, <2>1, <2>2
  <2> QED
    BY <2>2, <2>3
<1>10. problem \in RowProblems(report, doc)
         \/ problem \in {<<"not expected", key>> : key \in Keys(report) \ ExpectedKeys(doc)}
  BY DEF VisibilityProblems
<1>11. problem \in RowProblems(report, doc) =>
         \/ problem \in {<<"not produced", key>> : key \in ExpectedKeys(doc) \ Keys(report)}
         \/ problem \in {x \in {<<"probes_skipped">>} :
                     /\ "probes_skipped" \in DOMAIN doc
                     /\ Range(Entries(doc, "probes_skipped", <<>>)) # SkippedIds(report)}
         \/ problem \in UNION {differences(row) : row \in compared}
  BY Zenon DEF RowProblems
<1> QED
  BY <1>6, <1>7, <1>8, <1>9, <1>10, <1>11

\* Of a chain of one document the comparison is with that document.
LEMMA ProblemsOfOne ==
  ASSUME NEW chain, DOMAIN chain = 1..1, NEW r
  PROVE  VisibilityProblems(r, Load(chain)) = VisibilityProblems(r, chain[1])
<1> DEFINE vis == Load(chain)
           doc == chain[1]
<1> HIDE DEF vis, doc
<1>1. /\ "probes_skipped" \in DOMAIN vis <=> "probes_skipped" \in DOMAIN doc
      /\ \A key, empty : Entries(vis, key, empty) = Entries(doc, key, empty)
  BY LoadOfOne DEF vis, doc
<1>2. Validator!Rows(vis) = Validator!Rows(doc)
  BY <1>1 DEF Validator!Rows, Entries
<1>3. VisibilityRows(vis) = VisibilityRows(doc) /\ ExpectedKeys(vis) = ExpectedKeys(doc)
  BY <1>2 DEF VisibilityRows, ExpectedKeys, Validator!ExpectedKeys
<1>4. RowProblems(r, vis) = RowProblems(r, doc)
  BY <1>1, <1>3, Zenon DEF RowProblems
<1>5. VisibilityProblems(r, vis) = VisibilityProblems(r, doc)
  BY <1>3, <1>4, Zenon DEF VisibilityProblems
<1> QED
  BY <1>5 DEF vis, doc

\* A truth set that the validator accepts is not held against the verifier.
THEOREM ValidatedCorrect == Spec => []ValidatedPasses
<1>1. PropagationFacts /\ DifferentialFacts /\ Phased /\ Validator!ValidatorAgrees
        => ValidatedPasses
  <2> SUFFICES ASSUME PropagationFacts, DifferentialFacts, Phased, Validator!ValidatorAgrees,
                      Scored, NEW truth \in Truths, Len(truth.visibility) = 1,
                      ~Validator!ValidatorRaises,
                      Validator!CheckProblems(truth.visibility[1]) = {},
                      \A row, other \in VisibilityRows(truth.visibility[1]) :
                        KeyOf(row) = KeyOf(other) => row = other,
                      NEW problem \in VisibilityProblems(report, Load(truth.visibility))
               PROVE  problem[1] \in {"outcome", "absent_from_index"}
    BY DEF ValidatedPasses
  <2> DEFINE doc == truth.visibility[1]
  <2>1. IsChain(truth.visibility, "visibility")
    BY TruthsAssumption
  <2>2. DOMAIN truth.visibility = 1..1
    BY <2>1 DEF IsChain, IsSequence
  <2>3. doc \in Range(truth.visibility)
    BY <2>2 DEF Range
  <2>4. \E U : Validator!Rows(doc) \in Seq(U)
    BY <2>1, <2>3 DEF IsChain, Lists, Entries, Validator!Rows
  <2>5. problem \in VisibilityProblems(report, doc)
    BY <2>2, ProblemsOfOne
  <2> HIDE DEF doc
  <2> QED
    BY <2>4, <2>5, AcceptedPasses DEF doc
<1> QED
  BY <1>1, PropagationFactsCorrect, DifferentialFactsCorrect, PhasedCorrect,
     ValidatorAgreesCorrect, PTL
=============================================================================
