---------------------------- MODULE MCRunProbes ----------------------------
(***************************************************************************)
(* run_probes over a few probes, tags and enforcement models, simulated    *)
(* and against a store that answers with any of the chunk ids: listed by   *)
(* the probe or not, held by the inventory or not.  All of it is loaded    *)
(* from files, of which some are no good.                                  *)
(***************************************************************************)
EXTENDS ValidateFixtures, Fixtures, MCWorld

\* "zed" is an identity a probe may name and no scenario holds.
MCNamedIds == MCPrincipalIds \cup {"zed"}
MCDocIds == {"d1", "d2", "gone"}
MCChunkIds == {"c1", "c2", "c3", "ghost"}

----------------------------------------------------------------------------
(* Files.  The ids of noa and of c3 are written as numbers.                                *)

MCId(x) == [text |-> x, is_text |-> TRUE]
Number(x) == [text |-> x, is_text |-> FALSE]
MCIds(xs) == [n \in DOMAIN xs |-> MCId(xs[n])]

MCEntry(e) ==
  [entitlement |-> [state |-> e.state, tenants |-> SetToSeq(e.tenants), roles |-> SetToSeq(e.roles),
                    principals |-> SetToSeq(e.principals)]]

\* Entries that are left open: no entitlement, an empty one, and one that states sets only.
Open == {<<>>, [entitlement |-> None], [entitlement |-> [tenants |-> <<"acme">>, roles |-> None]]}

MCPrincipalRow(p) ==
  [id |-> IF p.id = "noa" THEN Number(p.id) ELSE MCId(p.id), roles |-> SetToSeq(p.roles)]
    @@ IF p.tenant = NoTenant THEN <<>> ELSE [tenant |-> p.tenant]

MCPrincipalsFile ==
  [principals |-> SetToSeq({MCPrincipalRow(MCPrincipals[id]) : id \in MCPrincipalIds})]

Probed(ids, matches) ==
  [id |-> MCId("pr"), principals |-> MCIds(ids), matches |-> MCIds(matches)]

Crossed == <<Probed(<<"ana", "gil">>, <<"c1", "c2">>)>>
MCProbes ==
  {Crossed,
   <<Probed(<<"ana">>, <<"c1">>), Probed(<<"noa", "ana">>, <<"ghost", "c3">>)>>,
   <<Probed(<<"ana", "zed">>, <<"c1", "c1">>)>>,
   <<Probed(<<"ana", "ana">>, <<"c3">>), Probed(<<>>, <<>>)>>}

MCDocumentsFile(entry1) ==
  [documents |-> <<[id |-> MCId("d1")] @@ MCEntry(GlobexEng), [id |-> MCId("d1")] @@ entry1,
                   [id |-> MCId("d2"), acl_modified_at |-> None] @@ MCEntry(AcmeFin)>>]

MCScenarioFile(entry1, probes, rule) ==
  [documents |-> MCDocumentsFile(entry1), principals |-> MCPrincipalsFile,
   probes |-> [probes |-> probes], rule |-> [rule |-> rule]]

\* A rule under which empty sets restrict nobody.
OpenRule ==
  [tenant |-> "member-or-unrestricted", role |-> "ignored", direct |-> "ignored",
   combine |-> "tenant AND role"]

Good(probes) == MCScenarioFile(MCEntry(AcmeEng), probes, UsualRule)

\* Without a clause, with one outside the closed set, without probes, with a row without id,
\* with a state that is none, with a file that is not there, and with numbers for ids.
NoGood ==
  {[Good(Crossed) EXCEPT !.rule = [rule |-> [tenant |-> "member", combine |-> "tenant AND role"]]],
   [Good(Crossed) EXCEPT !.rule.rule.combine = "tenant"],
   [Good(Crossed) EXCEPT !.probes = [probes |-> None]],
   [Good(Crossed) EXCEPT !.principals = [principals |-> <<<<>>>>]],
   [Good(Crossed) EXCEPT !.documents.documents[3].entitlement.state = "open"],
   [Good(Crossed) EXCEPT !.rule = None],
   [Good(Crossed) EXCEPT !.probes.probes[1].principals = <<MCId("ana"), Number("noa")>>],
   [Good(Crossed) EXCEPT !.probes.probes[1].matches = <<Number("c3")>>]}

MCScenarioFiles ==
  {MCScenarioFile(entry, Crossed, r) :
     entry \in {MCEntry(AcmeEng), MCEntry(GlobexEng), MCEntry(SharedPublic)},
     r \in {UsualRule, StrictRule}}
    \cup {MCScenarioFile(<<>>, Crossed, r) : r \in {UsualRule, OpenRule}}
    \cup {MCScenarioFile(entry, Crossed, StrictRule) : entry \in Open}
    \cup {MCScenarioFile(MCEntry(AcmeEng), probes, r) :
            probes \in MCProbes, r \in {UsualRule, LooseRule}}
    \cup NoGood

MCRow(c, ids) == [id |-> MCId(c), source_document_ids |-> MCIds(ids)]

\* c1 is of one source, c2 of two, c3 of one that is gone or of one that is left.
MCIndexFile(entry1, ids3, rest) ==
  [chunks |-> <<MCRow("c1", <<"d2">>) @@ MCEntry(AcmeFin), MCRow("c1", <<"d1">>) @@ entry1,
                MCRow("c2", <<"d1", "d2">>) @@ MCEntry(AcmeEng),
                [id |-> Number("c3"), source_document_ids |-> MCIds(ids3)] @@ MCEntry(AcmeFin)>>]
    @@ rest

Limited(enforcement, limit) == [filter |-> enforcement, ann_limit |-> limit]

MCVariantFiles ==
  {MCIndexFile(entry, ids3, <<>>) :
     entry \in {MCEntry(AcmeEng), MCEntry(SharedPublic), <<>>},
     ids3 \in {<<"gone">>, <<"gone", "d2">>}}
    \cup {MCIndexFile(entry, <<"gone">>, [ann_limit |-> None]) : entry \in Open}
    \cup {MCIndexFile(entry, <<"gone">>, Limited(enforcement, limit)) :
            entry \in {MCEntry(AcmeEng), <<>>}, enforcement \in EnforcementModels,
            limit \in {0, 1, -1}}
    \cup {MCIndexFile(MCEntry(AcmeEng), <<"d2">>, [filter |-> "naive-tenant-exclusion"]),
          MCIndexFile(MCEntry(AcmeEng), <<"d2">>, [filter |-> None]),
          MCIndexFile([entitlement |-> [state |-> None]], <<"d2">>, <<>>),
          [MCIndexFile(<<>>, <<"d2">>, <<>>) EXCEPT !.chunks[1].source_document_ids = <<Number("d2")>>]}

MCScenarios == Range(ScenarioOf)
MCVariants == Range(VariantOf)
=============================================================================
