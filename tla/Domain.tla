------------------------------- MODULE Domain -------------------------------
(***************************************************************************)
(* What a verification works on: the documents, chunks, principals and     *)
(* probes of tearline.domain, gathered in the Scenario (the source         *)
(* system's side) and the Variant (the index's side) of tearline.fixtures. *)
(*                                                                         *)
(* A dict is a function whose domain is the keys it holds; the key is the  *)
(* record's id, so records that only live in a dict carry no id field.     *)
(***************************************************************************)
EXTENDS Entitlements, Sequences

CONSTANTS
  DocIds,    (* ids a chunk can name as its sources, located or not        *)
  ChunkIds,  (* ids a probe can name and a store can answer                *)
  None       (* Python's None, for an optional value                       *)

\* None is a value of its own: no id, no entitlement and no time is equal to it.
ASSUME NoneAssumption ==
  None \notin ChunkIds /\ None \notin Entitlement /\ None \notin [at: Nat, aware: BOOLEAN]

\* A dict whose keys are among S and whose values are in T.
IsDict(f, S, T) == DOMAIN f \subseteq S /\ IsFiniteSet(DOMAIN f) /\ f \in [DOMAIN f -> T]

----------------------------------------------------------------------------
(* domain.py *)

\* A datetime: when, and whether it carries a time zone.  Python orders two datetimes
\* only when both do or neither does.
Time == [at: Nat, aware: BOOLEAN]

SourceDocument == [entitlement: Entitlement, acl_modified_at: Time \cup {None}]

Chunk ==
  [source_document_ids: Seq(DocIds), entitlement: Entitlement, ingested_at: Time \cup {None}]

\* Nothing makes the ids of the probes distinct.
Probe == [id: STRING, principals: Seq(PrincipalIds), matches: Seq(ChunkIds)]

----------------------------------------------------------------------------
(* fixtures.py *)

IsScenario(s) ==
  /\ IsDict(s.documents, DocIds, SourceDocument)
  /\ IsDict(s.principals, PrincipalIds, Principal)
  /\ s.probes \in Seq(Probe)
  /\ s.rule \in Rule

\* `enforcement` is the text the variant or the target declares; nothing checks it against
\* the closed set until `enforcement_for` does.
IsVariant(v) ==
  /\ IsDict(v.chunks, ChunkIds, Chunk)
  /\ v.enforcement \in STRING
  /\ v.ann_limit \in Int \cup {None}

----------------------------------------------------------------------------
(* verify.py: the sources of a chunk that the scenario holds. *)

\* The positions in source_document_ids whose document is there: the list comprehension
\* keeps their order, and keeps a document named twice twice.
Located(scenario, chunk) ==
  {j \in DOMAIN chunk.source_document_ids :
     chunk.source_document_ids[j] \in DOMAIN scenario.documents}

SourceAt(scenario, chunk, j) == scenario.documents[chunk.source_document_ids[j]]

SourceEntitlements(scenario, chunk) ==
  {SourceAt(scenario, chunk, j).entitlement : j \in Located(scenario, chunk)}

\* What the sources jointly permit: `entitled_by_all` over the located sources.
SourcesGrant(scenario, chunk, p) ==
  EntitledByAll(scenario.rule, SourceEntitlements(scenario, chunk), p)
=============================================================================
