--------------------------- MODULE MCQdrantScroll ---------------------------
(***************************************************************************)
(* Collections of up to five points, in pages of two: the last page full,  *)
(* half full and empty, and two writes wherever they hurt.                 *)
(***************************************************************************)
EXTENDS QdrantScroll

MCPointIds == 1..5

Says(c, tag) == [chunk_id |-> c, tag |-> tag]

\* Points 1 and 4 may be of one chunk; each of the others is of its own.
MCChunkOf(i) == <<"c1", "c2", "c3", "c1", "c5">>[i]
MCCollections ==
  {[i \in ids |-> Says(MCChunkOf(i), "acme")] : ids \in SUBSET MCPointIds}
    \cup {[i \in {1, 4} |-> Says("c1", IF i = 1 THEN "acme" ELSE "globex")],
          [i \in {2, 3} |-> IF i = 2 THEN Says("c2", "acme") ELSE Says(None, "acme")]}

\* Tags of both tenants, and one that no EntitlementState is.
MCPayloads == {Says("c1", "acme"), Says("c1", "globex"), Says("c2", "globex"), Says("c2", None)}
=============================================================================
