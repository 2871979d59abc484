------------------------------ MODULE MCVerify ------------------------------
(***************************************************************************)
(* Whole verifications, simulated and live, of indexes that are right, of  *)
(* indexes that are wrong on one axis or on both, of probes that compare   *)
(* and probes that do not, and with every way to fail.                     *)
(***************************************************************************)
EXTENDS Evaluate, MCWorld

MCNamedIds == MCPrincipalIds \cup {"zed"}
MCDocIds == {"d1", "d2", "d3", "gone"}
MCChunkIds == {"c1", "c2", "ghost"}

Asked(id, ids, matches) == [id |-> id, principals |-> ids, matches |-> matches]

\* The last two are of one id.
MCProbes ==
  {<<Asked("p1", <<"ana", "gil">>, <<"c1", "c2">>)>>,
   <<Asked("p1", <<"ana">>, <<"c1">>), Asked("p2", <<"noa", "ana">>, <<"c2", "c1">>)>>,
   <<Asked("p1", <<"ana", "bob">>, <<"c1", "ghost">>)>>,
   <<Asked("p1", <<"gil", "zed">>, <<"c1">>)>>,
   <<Asked("p1", <<"ana", "ana">>, <<"c1", "c2">>)>>,
   <<>>,
   <<Asked("p1", <<"ana", "gil">>, <<"c1">>), Asked("p1", <<"gil", "bob">>, <<"c2">>)>>}

MCScenarios ==
  {[documents |-> "d1" :> Doc(e1, At(2)) @@ "d2" :> Doc(SharedPublic, None)
                    @@ "d3" :> Doc(AcmeFin, NaiveAt(2)),
    principals |-> MCPrincipals, probes |-> probes, rule |-> UsualRule] :
     e1 \in {AcmeEng, GlobexEng}, probes \in MCProbes}

MCIndex(c2, enforcement, limit) ==
  [chunks |-> "c1" :> Tagged(<<"d1">>, AcmeEng, At(1)) @@ "c2" :> c2,
   enforcement |-> enforcement, ann_limit |-> limit]

MCVariants ==
  {MCIndex(c2, "rule", None) :
     c2 \in {Tagged(<<"d2">>, SharedPublic, None), Tagged(<<"d2">>, AcmeEng, None),
             Tagged(<<"d3">>, AcmeEng, At(1)), Tagged(<<"gone">>, AcmeEng, None),
             Tagged(<<"d1", "d2">>, AcmeEng, None), Tagged(<<"d1", "d2">>, AcmeFin, None)}}
    \cup {MCIndex(Tagged(<<"d2">>, SharedPublic, None), "naive-tenant-exclusion", 1),
          MCIndex(Tagged(<<"d2">>, SharedPublic, None), "as-tagged", None)}

----------------------------------------------------------------------------
(* The truths a report is scored against: around the rows the validator derives, what an  *)
(* author can leave out, get wrong or inherit.                                             *)

Fixture(s, v) ==
  INSTANCE ValidateFixtures WITH
    scenario <- s, variant <- v, live <- FALSE, probe <- 1, turn <- 1, results <- {},
    skipped <- {}, failed <- FALSE

\* Of the questions under one key the last.
LastAsked(s, v) ==
  {q \in Fixture(s, v)!Asked :
     \A other \in Fixture(s, v)!Asked :
       Fixture(s, v)!KeyOfQuestion(other) = Fixture(s, v)!KeyOfQuestion(q) => other[1] <= q[1]}

\* The rows of a fixture in the form `as` gives them.
RowsOf(s, v, as(_)) ==
  SetToSeq({[probe |-> s.probes[q[1]].id, principal |-> q[2]]
              @@ as(Fixture(s, v)!FixtureRow(q[1], s.principals[q[2]])) : q \in LastAsked(s, v)})

InFull(row) == row
Unlabelled(row) == <<>>
Shown(row) == [visible |-> row.visible, outcome |-> None]

Fixtures == {<<s, v>> \in MCScenarios \X MCVariants : ~Fixture(s, v)!ValidatorRaises}
Skipped(s) ==
  [probes_skipped |-> SetToSeq({p.id : p \in {p \in Range(s.probes) : Len(p.principals) < 2}})]

FullChains == {<<[visibility |-> RowsOf(f[1], f[2], InFull)] @@ Skipped(f[1])>> : f \in Fixtures}

VisibilityChains ==
  FullChains
    \cup {<<[visibility |-> RowsOf(f[1], f[2], Unlabelled)]>> : f \in Fixtures}
    \cup {<<[visibility |-> RowsOf(f[1], f[2], Shown)]>> : f \in Fixtures}
    \cup {<<>>, <<[visibility |-> None, probes_skipped |-> <<"p1">>], [visibility |-> <<>>]>>}

Finding(c) == [chunk_id |-> c]
Because(c, cause) == [chunk_id |-> c, verdict |-> "contradicted", cause |-> cause]
Expecting(rows) == [expected_findings |-> rows]

PropagationChains ==
  {<<>>, <<Expecting(<<>>)>>, <<Expecting(<<Finding("c1")>>)>>, <<Expecting(<<Finding("c2")>>)>>,
   <<Expecting(<<Finding("c1")>>), Expecting(<<Finding("c2")>>)>>}

\* Causes and counts, right and wrong, and a finding expected where no chunk is.
PickyPropagation ==
  {<<Expecting(<<Because("c1", "drift")>>), [chunks_examined |-> 2]>>,
   <<Expecting(<<Because("c2", "undetermined")>>), [chunks_untraceable |-> 0]>>,
   <<Expecting(<<Because("c2", None)>>)>>,
   <<[forbidden_causes |-> <<Because("c1", "drift")>>] @@ Expecting(<<Finding("c1")>>)>>,
   <<[forbidden_verdicts |-> <<Because("c2", "drift")>>] @@ Expecting(<<Finding("c2")>>)>>,
   <<Expecting(<<Finding("ghost"), Finding("c2")>>)>>}

Named(subject) == [must_not_flag |-> <<[subject |-> subject], [case |-> "prose"]>>]
OfChunk(c) == [chunk |-> c]

CleanChains ==
  {<<Named(OfChunk("c1")), Named(OfChunk("c2"))>>, <<Named(OfChunk("c2")), Named([probe |-> "p1"])>>,
   <<Named(OfChunk("c2")), [must_not_flag |-> None]>>, <<Named(OfChunk("c1")), <<>>>>}

Unverifiable(form, of) == <<[expected_unverifiable |-> <<[subject |-> [form |-> form, of |-> of]]>>]>>

UnverifiableChains ==
  {Unverifiable("chunk", "c2"), Unverifiable("cause", "c2"), Unverifiable("other", "c2"),
   Unverifiable("probe", "p1")}

Truth(propagation, visibility, clean, unverifiable) ==
  [propagation |-> propagation, visibility |-> visibility, clean |-> clean,
   unverifiable |-> unverifiable]

MCTruths ==
  {Truth(p, v, <<>>, <<>>) : p \in PropagationChains \cup PickyPropagation, v \in VisibilityChains}
    \cup {Truth(p, v, clean, <<>>) :
            p \in PropagationChains, v \in FullChains, clean \in CleanChains}
    \cup {Truth(p, v, <<>>, u) :
            p \in PropagationChains, v \in FullChains, u \in UnverifiableChains}
=============================================================================
