------------------------------ MODULE Fixtures ------------------------------
(***************************************************************************)
(* The simulated verification of fixtures as they are written: what comes  *)
(* of an entry that people left open.                                      *)
(***************************************************************************)
EXTENDS RunProbes, Loading

CONSTANTS
  ScenarioFiles,  (* what the files under `shared` may hold                *)
  VariantFiles    (* what an index.yaml may hold                           *)

ScenarioOf == [f \in {g \in ScenarioFiles : ~ScenarioRaises(g)} |-> LoadScenario(f)]
VariantOf == [f \in {g \in VariantFiles : ~VariantRaises(g)} |-> LoadVariant(f)]

\* No entry of that id states an entitlement, or the one that counts does not say it does.
LeftOpen(rows, id) ==
  id \in Ids(rows) /\ Get(Tag(RowOf(rows, id)), "state", None) # "stated"

----------------------------------------------------------------------------
(* Properties *)

\* An entry without an entitlement is not one without restrictions, although a rule may read
\* an empty set as unrestricted: a chunk left open is served to nobody by an index that
\* enforces the rule, and of a document left open every chunk served is over-retrieved and
\* none is missed (fixtures.py:18, domain.py:70).
OpenEntriesServeNobody ==
  /\ \A f \in DOMAIN VariantOf :
       variant = VariantOf[f] /\ variant.enforcement = "rule" /\ ~live =>
         \A r \in results : \A id \in r.returned : ~LeftOpen(f.chunks, id)
  /\ \A f \in DOMAIN ScenarioOf :
       scenario = ScenarioOf[f] =>
         \A r \in results : \A id \in Indexed \cap (r.returned \cup r.under_retrieved) :
           (\E d \in Range(variant.chunks[id].source_document_ids) :
              LeftOpen(f.documents.documents, d))
           => id \in r.over_retrieved
=============================================================================
