------------------------- MODULE MCCheckPropagation -------------------------
(***************************************************************************)
(* check_propagation over every pairing of a few source entitlements with  *)
(* a few tags: chunks of no, one, two and three sources, of a source that  *)
(* is gone, of the same source twice, with and without usable timestamps.  *)
(***************************************************************************)
EXTENDS CheckPropagation, MCWorld

MCDocIds == {"d1", "d2", "d3", "gone"}
MCChunkIds == {"c1", "c2"}

MCTags == {AcmeEng, AcmeFin, GlobexEng, SharedPublic, AcmeDirect, AnyTenantEng, UnknownEntitlement}

\* d1 has an ACL time, d2 has none, d3 has one without a time zone.
MCScenarios ==
  {[documents |-> "d1" :> Doc(e1, At(2)) @@ "d2" :> Doc(e2, None) @@ "d3" :> Doc(e3, NaiveAt(2)),
    principals |-> MCPrincipals, probes |-> <<>>, rule |-> r] :
     e1 \in MCTags, e2 \in MCTags, e3 \in {AcmeFin, SharedPublic},
     r \in {UsualRule, StrictRule, LooseRule}}

\* The scenarios under the rule of the recorded ones.
MCUsualScenarios == {s \in MCScenarios : s.rule = UsualRule}

MCSingle ==
  {Tagged(<<"d1">>, tag, time) : tag \in MCTags, time \in {None, At(2), At(1)}}
    \cup {Tagged(<<d>>, tag, At(1)) : d \in {"d2", "d3"}, tag \in MCTags}
MCSeveral ==
  {Tagged(ids, tag, None) :
     ids \in {<<"gone">>, <<"gone", "d1">>, <<"d1", "d1">>, <<"d1", "d2">>,
              <<"d2", "d1", "d3">>},
     tag \in MCTags}

MCIndex(chunks) == [chunks |-> chunks, enforcement |-> "rule", ann_limit |-> None]

MCVariants ==
  {MCIndex("c1" :> c) : c \in MCSingle \cup MCSeveral}
    \cup {MCIndex("c1" :> Tagged(<<>>, AcmeEng, None) @@ "c2" :> c) :
            c \in {Tagged(<<>>, AcmeEng, None), Tagged(<<"d1", "d2">>, GlobexEng, None)}}
=============================================================================
