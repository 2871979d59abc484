------------------------------- MODULE MCScan -------------------------------
(***************************************************************************)
(* Two files, two points, two changes: a chunk ingested right or wrong     *)
(* before the scan, between the reading of its file and of the index, or   *)
(* twice; a file re-permitted, touched or removed at any step of the scan. *)
(***************************************************************************)
EXTENDS Scan, TLC

MCRoles == {"everyone", "member"}
MCGroupToTenant == "ga" :> "acme" @@ "gn" :> ""

MCRule ==
  [tenant |-> "member", role |-> "intersects-or-everyone", direct |-> "principal-listed",
   combine |-> "tenant AND (role OR direct)"]

\* ana may see what the group may; gil only what the world may.
MCText(x) == [text |-> x, is_text |-> TRUE]
MCPrincipalsFile ==
  [principals |-> <<[id |-> MCText("ana"), tenant |-> "acme", roles |-> <<"member">>],
                    [id |-> MCText("gil"), tenant |-> "acme"]>>]

MCAsked(id) ==
  [probes |-> <<[id |-> MCText("pr"), principals |-> <<MCText("ana"), id>>,
                 matches |-> <<MCText("c1"), MCText("c2")>>]>>]

MCSource == [kind |-> "filesystem", group_to_tenant |-> MCGroupToTenant]
MCTarget(source, backend) == [source |-> source, backend |-> backend, ann_limit |-> None]
MCQdrant == [kind |-> "qdrant", base_url |-> "url"]

MCTargetFiles(yaml, id, rule) ==
  [target |-> yaml, principals |-> MCPrincipalsFile, probes |-> MCAsked(id), rule |-> rule]

MCGood == MCTargetFiles(MCTarget(MCSource, MCQdrant), MCText("gil"), [rule |-> MCRule])

\* Targets that state too little, of which the scan finds out sooner or later: no mapping of
\* the groups, no clause about direct grants, no connection to read the index by.
MCNoGood ==
  {[MCGood EXCEPT !.target.source = [kind |-> "filesystem", group_to_tenant |-> <<>>]],
   [MCGood EXCEPT !.target = [source |-> MCSource]],
   [MCGood EXCEPT !.rule.rule = [tenant |-> "member", role |-> "intersects", combine |-> "tenant AND role"]],
   [MCGood EXCEPT !.target.backend = [kind |-> "pgvector", dsn |-> "dsn"]]}

\* A group mapped to nothing, another not mapped, and no probes.
MCNull ==
  [MCGood EXCEPT !.target.source = [kind |-> "filesystem", group_to_tenant |-> "ga" :> None],
                 !.probes = [probes |-> <<>>]]

MCTargets == {MCGood, MCNull} \cup MCNoGood

MCGrant(role) ==
  [state |-> "stated", tenants |-> {"acme"}, roles |-> {role}, principals |-> {}]
MCTags == {MCGrant("everyone"), MCGrant("member"), UnknownEntitlement}

MCFile(g, w) == [group |-> g, world_readable |-> w, ctime |-> 0]
MCPoint(c, ds, tag, time) ==
  [chunk_id |-> c, source_document_ids |-> ds, entitlement |-> tag, ingested_at |-> time]

\* A file that the group may read, with a chunk for the world; two files, one of no tenant,
\* with a chunk made of both, whose tag is what the other says.
MCWorlds ==
  {[files |-> "d1" :> MCFile("ga", FALSE),
    points |-> 1 :> MCPoint("c1", <<"d1">>, MCGrant("everyone"), None)],
   [files |-> "d1" :> MCFile("gn", TRUE) @@ "d2" :> MCFile("ga", TRUE),
    points |-> 2 :> MCPoint("c2", <<"d1", "d2">>, MCGrant("everyone"), None)]}
=============================================================================
