-------------------------- MODULE ValidateFixtures --------------------------
(***************************************************************************)
(* scripts/validate_fixtures.py: the second computation of what the probes *)
(* of a scenario should see, from the fixtures alone.  It shares the rule  *)
(* with the verifier and nothing else, so that a verifier and a truth set  *)
(* cannot be wrong together.                                               *)
(*                                                                         *)
(* A YAML mapping is as in Loading.  `visibility` is a list of rows, every *)
(* label of a row a set of chunk ids.                                      *)
(***************************************************************************)
EXTENDS RunProbes, Loading

Rows(doc) == Entries(doc, "visibility", <<>>)
KeyOf(row) == <<row.probe, row.principal>>
ExpectedKeys(doc) == {KeyOf(row) : row \in Range(Rows(doc))}

\* The dict built from the rows: of two rows of one key the last stays.
ExpectedRow(doc, key) ==
  LET places == {n \in DOMAIN Rows(doc) : KeyOf(Rows(doc)[n]) = key}
  IN  Rows(doc)[Max(places)]

----------------------------------------------------------------------------
(* One probe under one identity *)

Comparisons == {i \in DOMAIN Probes : Runnable(Probes[i])}

\* The questions the loops reach, and the keys they are compared under: those of two probes
\* of one id share theirs.
Asked == UNION {{<<i, id>> : id \in Range(Probes[i].principals)} : i \in Comparisons}
KeyOfQuestion(q) == <<Probes[q[1]].id, q[2]>>
Seen == {KeyOfQuestion(q) : q \in Asked}

\* A wrong walk of the candidates, as if the limit were never set.
CandidatesWithoutLimit(i) == Matches(i)

Candidates(i) == Range(Slice(Probes[i].matches, variant.ann_limit))

\* No located source: neither truth nor leak (DEC-022).
FixtureUndetermined(i) == {c \in Matches(i) : Located(scenario, variant.chunks[c]) = {}}

FixtureTruth(i, p) ==
  {c \in Matches(i) \ FixtureUndetermined(i) : SourcesGrant(scenario, variant.chunks[c], p)}

FixtureVisible(i, p) ==
  {c \in Matches(i) \cap Candidates(i) :
     Enforce(scenario.rule, variant.enforcement, variant.chunks[c].entitlement, p)}

ValidatedLabels == {"visible", "over_retrieved", "under_retrieved", "undetermined_returned"}

\* A wrong row that accuses the chunks nothing is known about.
AccusingTheUndetermined(i, p) ==
  [visible |-> FixtureVisible(i, p),
   over_retrieved |-> FixtureVisible(i, p) \ FixtureTruth(i, p),
   under_retrieved |-> FixtureTruth(i, p) \ FixtureVisible(i, p),
   undetermined_returned |-> FixtureVisible(i, p) \cap FixtureUndetermined(i)]

FixtureRow(i, p) ==
  [visible |-> FixtureVisible(i, p),
   over_retrieved |-> (FixtureVisible(i, p) \ FixtureTruth(i, p)) \ FixtureUndetermined(i),
   under_retrieved |-> FixtureTruth(i, p) \ FixtureVisible(i, p),
   undetermined_returned |-> FixtureVisible(i, p) \cap FixtureUndetermined(i)]

----------------------------------------------------------------------------
(* check *)

\* An unknown identity, or a listed chunk the index lacks, is a KeyError; so is, as a
\* ValueError, an enforcement model outside the closed set.
ValidatorRaises ==
  \/ variant.enforcement \notin EnforcementModels
  \/ \E i \in Comparisons :
       \/ ~(Range(Probes[i].principals) \subseteq DOMAIN scenario.principals)
       \/ Probes[i].principals # <<>> /\ ~(Matches(i) \subseteq Indexed)

\* The labels on which the fixture gives something else than the row of the question's key;
\* one the row does not state is compared as an empty one.
Disagreeing(doc, q) ==
  {label \in ValidatedLabels :
     Entries(ExpectedRow(doc, KeyOfQuestion(q)), label, {})
       # FixtureRow(q[1], scenario.principals[q[2]])[label]}

CheckProblems(doc) ==
  {problem \in {<<"probes_skipped">>} :
     Range(Entries(doc, "probes_skipped", <<>>)) # {Probes[i].id : i \in DOMAIN Probes \ Comparisons}}
    \cup {<<"not expected", key>> : key \in Seen \ ExpectedKeys(doc)}
    \cup {<<"never run", key>> : key \in ExpectedKeys(doc) \ Seen}
    \cup UNION {{<<label, KeyOfQuestion(q)>> : label \in Disagreeing(doc, q)} :
                  q \in {q \in Asked : KeyOfQuestion(q) \in ExpectedKeys(doc)}}

----------------------------------------------------------------------------
(* Properties *)

\* Two computations of one answer, written apart so that they do not err together: what the
\* verifier reports of a simulated run is what the validator derives from the fixtures, row
\* by row, when the index holds what the probes list (validate_fixtures.py, DEC-022).
ValidatorAgrees ==
  ~live /\ ~ValidatorRaises =>
    \A r \in results :
      FixtureRow(r.probe, PrincipalOf(r)) =
        [visible |-> r.returned, over_retrieved |-> r.over_retrieved,
         under_retrieved |-> r.under_retrieved,
         undetermined_returned |-> r.undetermined_returned]
=============================================================================
