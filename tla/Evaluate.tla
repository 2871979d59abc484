------------------------------ MODULE Evaluate ------------------------------
(***************************************************************************)
(* Scoring a verification against what the author of a scenario expects of *)
(* it, `score` of tearline.evaluate.  A score is read by people who will   *)
(* not read the report: what it lets pass is what nobody looks at again.   *)
(*                                                                         *)
(* A Truth is an expected_dir: for each of its four files the chain of     *)
(* documents its `inherits` keys name, the inherited first (no document    *)
(* for a file that is not there).  A document is a mapping as in           *)
(* ValidateFixtures; lists are sequences.  Results are scored by the id of *)
(* their probe, which need not be its own.                                 *)
(* Left out: how many entries were checked, and how many are prose.        *)
(***************************************************************************)
EXTENDS Verify

CONSTANT Truths  (* the expected_dirs a report is scored against *)

Validator == INSTANCE ValidateFixtures WITH failed <- probesFailed

Entries(raw, key, empty) == Validator!Entries(raw, key, empty)
KeyOf(row) == Validator!KeyOf(row)
VisibilityRows(doc) == Range(Validator!Rows(doc))
ExpectedKeys(doc) == Validator!ExpectedKeys(doc)

\* The files of a chain hold lists, or nothing, under the key; None is no list of theirs.
Lists(chain, key) == Seq(UNION {Range(Entries(doc, key, <<>>)) : doc \in Range(chain)})
IsSequence(s) == s \in Seq(Range(s))
IsChain(chain, key) ==
  /\ IsSequence(chain)
  /\ None \notin Lists(chain, key)
  /\ \A doc \in Range(chain) : Entries(doc, key, <<>>) \in Lists(chain, key)

ASSUME TruthsAssumption ==
  \A truth \in Truths :
    IsChain(truth.visibility, "visibility") /\ IsChain(truth.clean, "must_not_flag")

----------------------------------------------------------------------------
(* _load *)

CountFields == {"chunks_examined", "chunks_untraceable"}

IsList(doc, key) == key \in DOMAIN doc \ CountFields /\ doc[key] # None

\* A wrong merge, where an heir that states a key replaces what it inherits.
MergedByOverriding(inherited, own) == own @@ inherited

\* Lists grow; anything else the heir states stands in place of what it inherits.
Merged(inherited, own) ==
  [key \in DOMAIN inherited \cup DOMAIN own |->
     IF key \notin DOMAIN own THEN inherited[key]
     ELSE IF IsList(own, key) /\ IsList(inherited, key) THEN inherited[key] \o own[key]
     ELSE own[key]]

Load(chain) == FoldLeft(Merged, <<>>, chain)

----------------------------------------------------------------------------
(* expected-propagation.yaml *)

ExpectedFindings(doc) == Range(Entries(doc, "expected_findings", <<>>))
ExpectedIds(doc) == {row.chunk_id : row \in ExpectedFindings(doc)}
FoundIds(r) == {f.chunk_id : f \in r.propagation}

\* What the row leaves out, or empty, agrees with anything.
Agrees(row, f) == \A field \in {"verdict", "cause"} : Entries(row, field, f[field]) = f[field]

ForbiddenOn(doc, key, field) ==
  {<<row.chunk_id, row[field]>> : row \in Range(Entries(doc, key, <<>>))}

PropagationProblems(r, doc) ==
  {<<"missed", c>> : c \in ExpectedIds(doc) \ FoundIds(r)}
    \cup {<<"differs", f.chunk_id>> : f \in
            {f \in r.propagation :
               \E row \in ExpectedFindings(doc) : row.chunk_id = f.chunk_id /\ ~Agrees(row, f)}}
    \cup {<<"unexpected", c>> : c \in FoundIds(r) \ ExpectedIds(doc)}
    \cup {<<"count", field>> : field \in
            {field \in CountFields \cap DOMAIN doc : r[field] # doc[field]}}
    \cup {<<"forbidden", f.chunk_id>> : f \in
            {f \in r.propagation :
               \/ <<f.chunk_id, f.verdict>> \in ForbiddenOn(doc, "forbidden_verdicts", "verdict")
               \/ <<f.chunk_id, f.cause>> \in ForbiddenOn(doc, "forbidden_causes", "cause")}}

----------------------------------------------------------------------------
(* expected-visibility.yaml *)

\* The fields `probe_id` of a ProbeResult and `probes_skipped` of a report.
ProbeIdOf(p) == scenario.probes[p.probe].id
SkippedIds(r) == {scenario.probes[i].id : i \in r.probes_skipped}

ResultKey(p) == <<ProbeIdOf(p), p.principal_id>>
On(p, key) == ResultKey(p) = key
Keys(r) == {ResultKey(p) : p \in r.probes}

\* Whether p was answered after q, or is q.
NotBefore(p, q) == q.probe < p.probe \/ (q.probe = p.probe /\ q.turn <= p.turn)

\* The dict `by_key`: of several results under one key the last stays, be they those of an
\* identity that a probe names twice, or of two probes with one id.
LastOn(r, key) ==
  CHOOSE p \in r.probes : On(p, key) /\ \A q \in r.probes : On(q, key) => NotBefore(p, q)

\* The labels a row may state, and the field of a ProbeResult each stands for.
FieldOf ==
  [visible |-> "returned", over_retrieved |-> "over_retrieved",
   under_retrieved |-> "under_retrieved", undetermined_returned |-> "undetermined_returned",
   absent_from_index |-> "absent_from_index"]

Unlike(row, p) ==
  {label \in DOMAIN FieldOf \cap DOMAIN row : Entries(row, label, {}) # p[FieldOf[label]]}
    \cup {label \in {"outcome"} : Entries(row, label, p.outcome) # p.outcome}

\* What the rows say: the comparison without the question which results no row speaks of.
RowProblems(r, doc) ==
  {<<"not produced", key>> : key \in ExpectedKeys(doc) \ Keys(r)}
    \cup {problem \in {<<"probes_skipped">>} :
            /\ "probes_skipped" \in DOMAIN doc
            /\ Range(Entries(doc, "probes_skipped", <<>>)) # SkippedIds(r)}
    \cup UNION {{<<label, KeyOf(row)>> : label \in Unlike(row, LastOn(r, KeyOf(row)))} :
                  row \in {row \in VisibilityRows(doc) : KeyOf(row) \in Keys(r)}}

VisibilityProblems(r, doc) ==
  RowProblems(r, doc) \cup {<<"not expected", key>> : key \in Keys(r) \ ExpectedKeys(doc)}

----------------------------------------------------------------------------
(* expected-clean.yaml, the negative set *)

Defective(p) == p.over_retrieved # {} \/ p.under_retrieved # {}

\* The rows the author expects a defect of.
ExpectedDefects(doc) ==
  {KeyOf(row) : row \in
     {row \in VisibilityRows(doc) :
        \/ Entries(row, "over_retrieved", {}) # {}
        \/ Entries(row, "under_retrieved", {}) # {}}}

\* A wrong denominator that takes the findings there are for the expected ones.
ChunksWithoutFinding(r, prop) == r.chunks_examined - Cardinality(FoundIds(r))

\* Every chunk but the expected positives, counted by subtracting: never below zero.
SilentChunks(r, prop) ==
  LET silent == r.chunks_examined - Cardinality(ExpectedIds(prop))
  IN  IF silent > 0 THEN silent ELSE 0

SilentRows(r, vis) == {p \in r.probes : ResultKey(p) \notin ExpectedDefects(vis)}

NegativeSubjects(r, prop, vis) == SilentChunks(r, prop) + Cardinality(SilentRows(r, vis))

\* Wrong false positives, of the propagation axis alone.
ChunkFalsePositives(r, prop, vis) == {<<"chunk", c>> : c \in FoundIds(r) \ ExpectedIds(prop)}

\* What was flagged among the subjects counted, of two results under one key both.
DerivedFalsePositives(r, prop, vis) ==
  {<<"chunk", c>> : c \in FoundIds(r) \ ExpectedIds(prop)}
    \cup {<<"row", p.probe, p.turn>> : p \in {p \in SilentRows(r, vis) : Defective(p)}}

\* An entry names a subject, or is prose and forbids nothing that is checked.
ForbiddenSubjects(clean) ==
  {row.subject : row \in {row \in Range(Entries(clean, "must_not_flag", <<>>)) :
                            "subject" \in DOMAIN row}}

\* What was flagged among the subjects an author named, counted or not.
NamedFalsePositives(r, clean) ==
  {<<"chunk", c>> : c \in
     {c \in FoundIds(r) : \E s \in ForbiddenSubjects(clean) : Entries(s, "chunk", None) = c}}
    \cup {<<"probe", ProbeIdOf(p)>> : p \in
     {p \in r.probes : /\ p.verdict = "contradicted"
                       /\ \E s \in ForbiddenSubjects(clean) : Entries(s, "probe", None) = ProbeIdOf(p)}}

----------------------------------------------------------------------------
(* expected-unverifiable.yaml *)

\* A subject is a chunk, a probe or the cause of the mismatch of a chunk; one in any other
\* form confirms nothing.
Confirmed(r, subject) ==
  \/ /\ subject.form = "chunk"
     /\ \E f \in r.propagation : f.chunk_id = subject.of /\ f.verdict = "unverifiable"
  \/ subject.form = "probe" /\ subject.of \in SkippedIds(r)
  \/ /\ subject.form = "cause"
     /\ \E f \in r.propagation : f.chunk_id = subject.of /\ f.cause = "undetermined"

UnverifiableProblems(r, doc) ==
  {<<"unverifiable", row.subject>> : row \in
     {row \in Range(Entries(doc, "expected_unverifiable", <<>>)) : ~Confirmed(r, row.subject)}}

----------------------------------------------------------------------------
(* score *)

Problems(r, truth) ==
  LET prop == Load(truth.propagation)
      vis == Load(truth.visibility)
      clean == Load(truth.clean)
  IN  PropagationProblems(r, prop)
        \cup VisibilityProblems(r, vis)
        \cup {<<"false positive", s>> :
                s \in DerivedFalsePositives(r, prop, vis) \cup NamedFalsePositives(r, clean)}
        \cup UnverifiableProblems(r, Load(truth.unverifiable))

Passed(r, truth) == Problems(r, truth) = {}

----------------------------------------------------------------------------
(* Properties *)

\* `evaluate` verifies without a store, and scores the report there is.
Scored == phase = "report" /\ ~live

\* A pass judges every result, also the earlier answer of an identity that a probe names
\* twice, which `by_key` has forgotten: each has its row, and what the row states is what the
\* principal got.  But a result is lost where a later probe has the same id and principal,
\* and nothing makes ids distinct (evaluate.py:120, fixtures.py:64).
PassSpeaksOfEveryResult ==
  Scored => \A truth \in Truths : Passed(report, truth) =>
    \A p \in report.probes :
      \E row \in VisibilityRows(Load(truth.visibility)) :
        /\ KeyOf(row) = ResultKey(p)
        /\ \/ Unlike(row, p) = {}
           \/ \E q \in report.probes : ResultKey(q) = ResultKey(p) /\ p.probe < q.probe

\* A pass tells the exit status of the command: unless the report is partial, an author who
\* expects no finding and no defect gets a zero status and every other author a one, even
\* where rows state no label at all (evaluate.py:155, DEC-024).
PassTellsTheStatus ==
  Scored => \A truth \in Truths : Passed(report, truth) /\ ~report.partial =>
    (ExitStatus(report) = "zero" <=>
       /\ ExpectedFindings(Load(truth.propagation)) = {}
       /\ ExpectedDefects(Load(truth.visibility)) = {})

\* No rate above one: what is wrongly flagged, the subjects an author named aside, is at
\* most what could have been, as long as the findings expected are on chunks the index holds
\* (evaluate.py:225).
FalsePositivesWithinSubjects ==
  Scored => \A truth \in Truths :
    LET prop == Load(truth.propagation)
        vis == Load(truth.visibility)
    IN  ExpectedIds(prop) \subseteq DOMAIN variant.chunks =>
          Cardinality(DerivedFalsePositives(report, prop, vis))
            <= NegativeSubjects(report, prop, vis)

\* What a document forbids stays forbidden under its heirs, unless an heir empties the key:
\* no score passes with a finding on a chunk that any of the chain names (evaluate.py:71).
InheritedStaysForbidden ==
  Scored => \A truth \in Truths : Passed(report, truth) =>
    \A n \in DOMAIN truth.clean :
      (\A m \in n..Len(truth.clean) :
         "must_not_flag" \in DOMAIN truth.clean[m] => truth.clean[m].must_not_flag # None)
      => \A s \in ForbiddenSubjects(truth.clean[n]) :
           Entries(s, "chunk", None) \notin FoundIds(report)

\* What the validator accepts the scorer does not hold against the verifier, but for the two
\* columns the validator leaves out (validate_fixtures.py:73).
ValidatedPasses ==
  Scored => \A truth \in Truths : Len(truth.visibility) = 1 =>
    LET doc == truth.visibility[1]
        problems == VisibilityProblems(report, Load(truth.visibility))
    IN  /\ ~Validator!ValidatorRaises
        /\ Validator!CheckProblems(doc) = {}
        /\ \A row, other \in VisibilityRows(doc) : KeyOf(row) = KeyOf(other) => row = other
        => \A problem \in problems : problem[1] \in {"outcome", "absent_from_index"}
=============================================================================
