----------------------------- MODULE RunProbes -----------------------------
(***************************************************************************)
(* The differential axis, `run_probes` of tearline.verify: the same query  *)
(* under several identities, what each was given compared with what the    *)
(* source system entitles it to.                                           *)
(*                                                                         *)
(* One step is one identity of one probe: the store is asked and its       *)
(* answer judged.  A live store is outside this code and may answer with   *)
(* any chunk ids, those of the inventory or others; without one the answer *)
(* is computed from the tags.  Answers are sets: their order and their     *)
(* repetitions decide nothing.                                             *)
(***************************************************************************)
EXTENDS Domain, SequencesExt

CONSTANTS
  Scenarios,  (* what the source system's side may be                      *)
  Variants    (* what the index's side may be                              *)

ASSUME ScenariosAssumption == \A s \in Scenarios : IsScenario(s)
ASSUME VariantsAssumption == \A v \in Variants : IsVariant(v)

VARIABLES
  scenario,  (* given; never changed                                       *)
  variant,   (* given; never changed                                       *)
  live,      (* a `retrieve` was given: a store answers; never changed     *)
  probe,     (* position of the probe the outer loop is at                 *)
  turn,      (* position, among its principals, of the inner loop          *)
  results,   (* the ProbeResults                                           *)
  skipped,   (* positions of the probes that were not run                  *)
  failed     (* an exception has left run_probes                           *)

vars == <<scenario, variant, live, probe, turn, results, skipped, failed>>

Outcomes == {"clean", "over-retrieval", "under-retrieval", "both"}

\* A ProbeResult, named by the turn it was issued at.  `answer` is no field of it: it is
\* what the store answered, kept for the properties.
ProbeResult ==
  [probe: Nat, turn: Nat, principal_id: PrincipalIds,
   returned: SUBSET ChunkIds, over_retrieved: SUBSET ChunkIds, under_retrieved: SUBSET ChunkIds,
   verdict: {"verified", "contradicted"}, outcome: Outcomes,
   absent_from_index: SUBSET ChunkIds, undetermined_returned: SUBSET ChunkIds,
   answer: SUBSET ChunkIds]

Probes == scenario.probes
InProbe == probe \in DOMAIN Probes
Matches(i) == Range(Probes[i].matches)
Indexed == DOMAIN variant.chunks

TypeOK ==
  /\ scenario \in Scenarios
  /\ variant \in Variants
  /\ live \in BOOLEAN
  /\ probe \in Nat \ {0} /\ probe <= Len(Probes) + 1
  /\ turn \in Nat \ {0}
  /\ InProbe => turn <= Len(Probes[probe].principals) + 1
  /\ results \subseteq ProbeResult
  /\ skipped \subseteq 1..(probe - 1)
  /\ failed \in BOOLEAN

Init ==
  /\ scenario \in Scenarios
  /\ variant \in Variants
  /\ live \in BOOLEAN
  /\ probe = 1
  /\ turn = 1
  /\ results = {}
  /\ skipped = {}
  /\ failed = FALSE

----------------------------------------------------------------------------
(* Judging an answer *)

\* A wrong `runnable` that lets a single identity through.
RunnableByOne(p) == Len(p.principals) >= 1

\* Probe.runnable.
Runnable(p) == Len(p.principals) >= 2

\* A wrong `matches[:n]` that takes a limit of zero, "no limit", for "nothing".
SliceWhateverTheLimit(s, n) ==
  IF n = None THEN s
  ELSE IF n >= 0 THEN SubSeq(s, 1, IF n < Len(s) THEN n ELSE Len(s))
  ELSE SubSeq(s, 1, Len(s) + n)

\* `matches[:n]`: no limit and a limit of zero keep everything, a negative one counts
\* from the end.
Slice(s, n) ==
  IF n = None \/ n = 0 THEN s
  ELSE IF n > 0 THEN SubSeq(s, 1, IF n < Len(s) THEN n ELSE Len(s))
  ELSE SubSeq(s, 1, Len(s) + n)

\* A wrong judge that asks the index, not the sources, what is permitted.
TagPermits(c, p) == Entitled(scenario.rule, variant.chunks[c].entitlement, p)

\* What the source system entitles p to.
Permitted(c, p) == SourcesGrant(scenario, variant.chunks[c], p)

\* Some source document establishes who may see the chunk.
Traceable(c) == Located(scenario, variant.chunks[c]) # {}

\* A wrong simulation, of a store that obeys the sources instead of its tags.
SimulatedBySources(i, p) ==
  {c \in Range(Slice(Probes[i].matches, variant.ann_limit)) \cap Indexed : Permitted(c, p)}

\* What the probe would get from an index that takes the nearest candidates first and
\* filters them by the tags afterwards.
SimulatedAnswer(i, p) ==
  {c \in Range(Slice(Probes[i].matches, variant.ann_limit)) \cap Indexed :
     Enforce(scenario.rule, variant.enforcement, variant.chunks[c].entitlement, p)}

\* A wrong truth, over what the index looks at instead of the full relevance set.
TruthWithinLimit(i, p) ==
  {c \in Range(Slice(Probes[i].matches, variant.ann_limit)) \cap Indexed :
     Traceable(c) /\ Permitted(c, p)}

\* The listed chunks that the sources grant p: computed from the source system over the
\* probe's full relevance set, never from what came back.
Truth(i, p) == {c \in Matches(i) \cap Indexed : Traceable(c) /\ Permitted(c, p)}

Absent(i) == Matches(i) \ Indexed

\* A wrong reading of the answer that trusts whatever the probe did not list.
IgnoreExtras(i, answer) == {}

\* Answered ids the probe does not list; relevance is not under test, entitlement is.
Extras(i, answer) == answer \ Matches(i)

Undetermined(i, answer) ==
  {c \in Matches(i) \cap Indexed : ~Traceable(c)}
    \cup {c \in Extras(i, answer) : c \notin Indexed \/ ~Traceable(c)}

\* An entitled extra is left out; so is an answered id that the probe lists and the
\* inventory lacks.
Returned(i, p, answer) ==
  (Matches(i) \cap Indexed \cap answer)
    \cup {c \in Extras(i, answer) : c \notin Indexed \/ ~Traceable(c) \/ ~Permitted(c, p)}

Outcome(over, under) ==
  IF over # {} /\ under # {} THEN "both"
  ELSE IF over # {} THEN "over-retrieval"
  ELSE IF under # {} THEN "under-retrieval"
  ELSE "clean"

Judged(i, k, p, answer) ==
  LET returned == Returned(i, p, answer)
      undetermined == Undetermined(i, answer)
      over == (returned \ Truth(i, p)) \ undetermined
      under == Truth(i, p) \ returned
  IN  [probe |-> i, turn |-> k, principal_id |-> Probes[i].principals[k],
       returned |-> returned,
       over_retrieved |-> over,
       under_retrieved |-> under,
       verdict |-> IF over # {} \/ under # {} THEN "contradicted" ELSE "verified",
       outcome |-> Outcome(over, under),
       absent_from_index |-> Absent(i),
       undetermined_returned |-> returned \cap undetermined,
       answer |-> answer]

----------------------------------------------------------------------------
(* The loops *)

Started == variant.enforcement \in EnforcementModels

\* `enforcement_for` refuses a model outside the closed set, before any probe.
FailOnEnforcement ==
  /\ ~failed /\ ~Started
  /\ failed' = TRUE
  /\ UNCHANGED <<scenario, variant, live, probe, turn, results, skipped>>

Running == ~failed /\ Started /\ InProbe

SkipProbe ==
  /\ Running /\ turn = 1
  /\ ~Runnable(Probes[probe])
  /\ skipped' = skipped \cup {probe}
  /\ probe' = probe + 1
  /\ UNCHANGED <<scenario, variant, live, turn, results, failed>>

Turn == Running /\ Runnable(Probes[probe]) /\ turn <= Len(Probes[probe].principals)

PrincipalOnTurn == Probes[probe].principals[turn]

\* The probe names an identity the scenario does not have: a KeyError.
FailOnPrincipal ==
  /\ Turn
  /\ PrincipalOnTurn \notin DOMAIN scenario.principals
  /\ failed' = TRUE
  /\ UNCHANGED <<scenario, variant, live, probe, turn, results, skipped>>

\* The store cannot be asked, or not now: whatever `retrieve` raises, nothing catches it.
FailOnRetrieve ==
  /\ Turn /\ live
  /\ PrincipalOnTurn \in DOMAIN scenario.principals
  /\ failed' = TRUE
  /\ UNCHANGED <<scenario, variant, live, probe, turn, results, skipped>>

Ask(answer) ==
  /\ Turn
  /\ PrincipalOnTurn \in DOMAIN scenario.principals
  /\ live \/ answer = SimulatedAnswer(probe, scenario.principals[PrincipalOnTurn])
  /\ results' = results \cup
       {Judged(probe, turn, scenario.principals[PrincipalOnTurn], answer)}
  /\ turn' = turn + 1
  /\ UNCHANGED <<scenario, variant, live, probe, skipped, failed>>

\* A wrong inner loop that does not start from the first identity again.
NextProbeSameTurn ==
  /\ Running /\ Runnable(Probes[probe])
  /\ turn > Len(Probes[probe].principals)
  /\ probe' = probe + 1
  /\ UNCHANGED <<scenario, variant, live, turn, results, skipped, failed>>

\* The inner loop is over.
NextProbe ==
  /\ Running /\ Runnable(Probes[probe])
  /\ turn > Len(Probes[probe].principals)
  /\ probe' = probe + 1
  /\ turn' = 1
  /\ UNCHANGED <<scenario, variant, live, results, skipped, failed>>

Next ==
  \/ FailOnEnforcement
  \/ SkipProbe
  \/ FailOnPrincipal
  \/ FailOnRetrieve
  \/ \E answer \in SUBSET ChunkIds : Ask(answer)
  \/ NextProbe

Spec == Init /\ [][Next]_vars

Done == Started /\ ~InProbe /\ ~failed

----------------------------------------------------------------------------
(* Properties *)

PrincipalOf(r) == scenario.principals[r.principal_id]
HasSource(c) == Located(scenario, variant.chunks[c]) # {}
Granted(c, p) == SourcesGrant(scenario, variant.chunks[c], p)

\* Over-retrieval is exactly disclosure: the ids the store answered with, listed by the
\* probe or not, of indexed chunks whose located sources do not all grant the principal.
\* No entitled, untraceable or unknown id is ever accused and no disclosure is missed
\* (DEC-011, DEC-022).
OverRetrievalIsDisclosure ==
  \A r \in results :
    r.over_retrieved =
      {c \in r.answer \cap Indexed : HasSource(c) /\ ~Granted(c, PrincipalOf(r))}

\* Under-retrieval is exactly starvation: the chunks the probe lists, the index holds and
\* the sources grant, that the store did not answer with (DEC-008).
UnderRetrievalIsStarvation ==
  \A r \in results :
    r.under_retrieved =
      {c \in Matches(r.probe) \cap Indexed : Granted(c, PrincipalOf(r)) /\ c \notin r.answer}

\* Nothing a store serves goes unreported: every answered id is one the sources grant, or
\* stands in the result as over-retrieved, as undetermined or as absent from the index.
EveryAnswerReported ==
  \A r \in results : \A c \in r.answer :
    \/ c \in Indexed /\ Granted(c, PrincipalOf(r))
    \/ c \in r.over_retrieved \cup r.undetermined_returned \cup r.absent_from_index

\* The tag of a chunk grants the principal what its sources do.
TagTellsTruth(c, p) ==
  Entitled(scenario.rule, variant.chunks[c].entitlement, p) <=> Granted(c, p)

\* A simulated run that filters by the rule and truncates nothing contradicts a principal
\* exactly when the tag of some traceable listed chunk is wrong about them: an index that
\* agrees with its own wrong tags still registers (run_probes).
SimulatedVerdictTellsTheTags ==
  ~live /\ variant.enforcement = "rule" /\ variant.ann_limit \in {None, 0} =>
    \A r \in results :
      r.verdict = "contradicted" <=>
        \E c \in Matches(r.probe) \cap Indexed : HasSource(c) /\ ~TagTellsTruth(c, PrincipalOf(r))

\* Truncation before the filter can starve a principal but never disclose to them, and the
\* naive filter can disclose but not starve: with tags that tell the truth, the direction of
\* a simulated defect names its cause (DEC-003, DEC-019).
SimulatedDefectsHaveTheirCause ==
  ~live =>
    \A r \in results :
      (\A c \in Matches(r.probe) \cap Indexed : TagTellsTruth(c, PrincipalOf(r))) =>
        /\ r.over_retrieved # {} => variant.enforcement = "naive-tenant-exclusion"
        /\ r.under_retrieved # {} => variant.ann_limit \notin {None, 0}

\* A probe is either skipped, and that only for listing fewer than two identities, and then
\* contributes no result at all, or asked under every entry of its list, exactly once each: no
\* verdict rests on half a list.  Two entries may be one identity: see ZeroComparesIdentities.
SkippedOrFullyAsked ==
  /\ \A i \in skipped : Len(Probes[i].principals) < 2
  /\ \A r \in results : r.probe \notin skipped
  /\ \A r, s \in results : r.probe = s.probe /\ r.turn = s.turn => r = s
  /\ \A i \in 1..(probe - 1) \ skipped :
       /\ Len(Probes[i].principals) >= 2
       /\ \A k \in DOMAIN Probes[i].principals :
            \E r \in results :
              r.probe = i /\ r.turn = k /\ r.principal_id = Probes[i].principals[k]
=============================================================================
