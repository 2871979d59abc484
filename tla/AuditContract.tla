--------------------------- MODULE AuditContract ---------------------------
(***************************************************************************)
(* What one verification promises to whoever reads its exit status and     *)
(* nothing else (DEC-024): the store is asked under each entry of a list   *)
(* of identities at most once, and the status is zero exactly when nothing *)
(* is left to explain.  How findings are computed, in which order and      *)
(* through which loops, is Verify's business.                              *)
(***************************************************************************)
EXTENDS Domain, SequencesExt

CONSTANTS Scenarios, Variants

VARIABLES
  scenario,  (* the source system's side                                   *)
  variant,   (* the index's side                                           *)
  answers,   (* what was answered to which turn of which probe             *)
  status     (* None while running, then the exit status or "raised"       *)

vars == <<scenario, variant, answers, status>>

Questions ==
  UNION {{<<i, k>> : k \in DOMAIN scenario.probes[i].principals} : i \in DOMAIN scenario.probes}

\* A probe that lists fewer than two identities is not asked; nobody looks whether they differ.
Comparison(i) == Len(scenario.probes[i].principals) >= 2

Init ==
  /\ scenario \in Scenarios
  /\ variant \in Variants
  /\ answers = {}
  /\ status = None

Answer(i, k, ids) ==
  /\ status = None
  /\ Comparison(i)
  /\ scenario.probes[i].principals[k] \in DOMAIN scenario.principals
  /\ \A a \in answers : <<a.probe, a.turn>> # <<i, k>>
  /\ answers' = answers \cup {[probe |-> i, turn |-> k, ids |-> ids]}
  /\ UNCHANGED <<scenario, variant, status>>

\* The tag says what the only source behind the chunk says.
SaysWhatItsSourceSays(chunk) ==
  \E j \in DOMAIN chunk.source_document_ids :
    Located(scenario, chunk) = {j} /\ chunk.entitlement = SourceAt(scenario, chunk, j).entitlement

\* The chunks of the index that the sources grant p, and those no source is there to judge.
Grants(ids, p) == {c \in ids \cap DOMAIN variant.chunks : SourcesGrant(scenario, variant.chunks[c], p)}
Unjudged(ids) ==
  {c \in ids : c \in DOMAIN variant.chunks => Located(scenario, variant.chunks[c]) = {}}

\* The answer to a listed question is what the sources grant: nothing else, unless nothing
\* is known about it, and all of what the probe lists.
Faithful(a) ==
  LET p == scenario.principals[scenario.probes[a.probe].principals[a.turn]]
  IN  /\ a.ids \subseteq Grants(a.ids, p) \cup Unjudged(a.ids)
      /\ Grants(Range(scenario.probes[a.probe].matches), p) \subseteq a.ids

\* The probe was run, and the index holds what it asks for.
Exercised(i) ==
  /\ Comparison(i)
  /\ Range(scenario.probes[i].matches) \subseteq DOMAIN variant.chunks

Clean ==
  /\ \A c \in DOMAIN variant.chunks : SaysWhatItsSourceSays(variant.chunks[c])
  /\ \A i \in DOMAIN scenario.probes : Exercised(i)
  /\ \A a \in answers : Faithful(a)

\* No exit status before every probe that is run was put under every entry of its list.
AllAnswered ==
  \A q \in Questions :
    Comparison(q[1]) => \E a \in answers : a.probe = q[1] /\ a.turn = q[2]

Exit ==
  /\ status = None
  /\ AllAnswered
  /\ status' = IF Clean THEN "zero" ELSE "one"
  /\ UNCHANGED <<scenario, variant, answers>>

\* Whatever leaves the program as an exception leaves no report.
Raise ==
  /\ status = None
  /\ status' = "raised"
  /\ UNCHANGED <<scenario, variant, answers>>

Next ==
  \/ \E q \in Questions, ids \in SUBSET ChunkIds : Answer(q[1], q[2], ids)
  \/ Exit
  \/ Raise

Spec == Init /\ [][Next]_vars
=============================================================================
