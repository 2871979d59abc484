------------------------------- MODULE Verify -------------------------------
(***************************************************************************)
(* A whole verification, as the commands run it: `verify` puts the two     *)
(* axes one after the other and gathers them in a report, `_cmd_verify`    *)
(* and `_cmd_scan` turn the report into an exit status.                    *)
(*                                                                         *)
(* The axes are CheckPropagation and RunProbes on the same scenario and    *)
(* variant, each with its own `failed`.                                    *)
(***************************************************************************)
EXTENDS Domain, SequencesExt

CONSTANTS Scenarios, Variants

ASSUME ScenariosAssumption == \A s \in Scenarios : IsScenario(s)
ASSUME VariantsAssumption == \A v \in Variants : IsVariant(v)

VARIABLES
  scenario, variant,                                              (* given *)
  unexamined, current, left, bound, findings, untraceable,
  propagationFailed,                                   (* CheckPropagation *)
  live, probe, turn, results, skipped, probesFailed,          (* RunProbes *)
  phase,   (* where `verify` and its caller are                            *)
  report,  (* the VerificationReport, None before there is one             *)
  status   (* None while running, then how it ended: "zero" or "one", the       *)
           (* exit statuses of a report, or "raised", without one          *)

propagationVars == <<unexamined, current, left, bound, findings, untraceable, propagationFailed>>
probesVars == <<live, probe, turn, results, skipped, probesFailed>>
vars == <<scenario, variant, propagationVars, probesVars, phase, report, status>>

Propagation == INSTANCE CheckPropagation WITH failed <- propagationFailed
Differential == INSTANCE RunProbes WITH failed <- probesFailed

Phases == {"check_propagation", "run_probes", "report", "exited"}

VerificationReport ==
  [chunks_examined: Nat, chunks_untraceable: Nat,
   propagation: SUBSET Propagation!PropagationFinding,
   probes: SUBSET Differential!ProbeResult, probes_skipped: SUBSET Nat, partial: BOOLEAN]

\* None is neither a report nor an outcome.
ASSUME NoOutcomeAssumption == None \notin VerificationReport \cup {"zero", "one", "raised"}

TypeOK ==
  /\ phase \in Phases
  /\ report \in VerificationReport \cup {None}
  /\ status \in {None, "zero", "one", "raised"}
  /\ status = None <=> phase # "exited"
  /\ status \in {"zero", "one"} => report # None

Init ==
  /\ Propagation!Init
  /\ Differential!Init
  /\ phase = "check_propagation"
  /\ report = None
  /\ status = None

----------------------------------------------------------------------------
(* verify *)

CheckPropagation ==
  /\ phase = "check_propagation"
  /\ Propagation!Next
  /\ UNCHANGED <<probesVars, phase, report, status>>

RunProbes ==
  /\ phase = "run_probes"
  /\ Differential!Next
  /\ UNCHANGED <<propagationVars, phase, report, status>>

\* A wrong `verify` that goes on after the propagation axis failed.
PropagationReturnsOrFails ==
  /\ phase = "check_propagation"
  /\ Propagation!Returned \/ propagationFailed
  /\ phase' = "run_probes"
  /\ UNCHANGED <<scenario, variant, propagationVars, probesVars, report, status>>

PropagationReturns ==
  /\ phase = "check_propagation"
  /\ Propagation!Returned
  /\ phase' = "run_probes"
  /\ UNCHANGED <<scenario, variant, propagationVars, probesVars, report, status>>

\* A wrong `partial` that forgets the probes whose chunks the index lacks.
PartialBySkipping == skipped # {}

\* A skipped probe, or one asking for chunks the index does not hold.
Partial == skipped # {} \/ \E r \in results : r.absent_from_index # {}

MakeReport ==
  /\ phase = "run_probes"
  /\ Differential!Done
  /\ report' = [chunks_examined |-> Cardinality(DOMAIN variant.chunks),
                chunks_untraceable |-> untraceable,
                propagation |-> findings,
                probes |-> results,
                probes_skipped |-> skipped,
                partial |-> Partial]
  /\ phase' = "report"
  /\ UNCHANGED <<scenario, variant, propagationVars, probesVars, status>>

----------------------------------------------------------------------------
(* The commands *)

\* The exit status as it was before DEC-024: no probe counted.
ExitStatusWithoutProbes(r) == IF r.propagation # {} \/ r.partial THEN "one" ELSE "zero"

\* `exit_status`.
ExitStatus(r) ==
  IF \/ r.propagation # {}
     \/ \E p \in r.probes : p.verdict = "contradicted"
     \/ r.partial
  THEN "one"
  ELSE "zero"

Exit ==
  /\ phase = "report"
  /\ status' = ExitStatus(report)
  /\ phase' = "exited"
  /\ UNCHANGED <<scenario, variant, propagationVars, probesVars, report>>

\* A wrong command that tries again what failed, for ever.
RetryForever ==
  /\ phase \in {"check_propagation", "run_probes"}
  /\ propagationFailed \/ probesFailed
  /\ propagationFailed' = FALSE /\ probesFailed' = FALSE
  /\ UNCHANGED <<scenario, variant, unexamined, current, left, bound, findings, untraceable,
                 live, probe, turn, results, skipped, phase, report, status>>

\* A wrong command that notes the exception and does not leave.
RaiseWithoutLeaving ==
  /\ phase \in {"check_propagation", "run_probes"}
  /\ propagationFailed \/ probesFailed
  /\ status' = "raised"
  /\ UNCHANGED <<scenario, variant, propagationVars, probesVars, phase, report>>

\* No caller of `verify` catches anything: a traceback, no report.
Raise ==
  /\ phase \in {"check_propagation", "run_probes"}
  /\ propagationFailed \/ probesFailed
  /\ status' = "raised"
  /\ phase' = "exited"
  /\ UNCHANGED <<scenario, variant, propagationVars, probesVars, report>>

Next == CheckPropagation \/ RunProbes \/ PropagationReturns \/ MakeReport \/ Exit \/ Raise

Spec == Init /\ [][Next]_vars

\* The program is sequential and nothing stops it; a live store is assumed to answer or to
\* fail (the Qdrant client gives up a request after 15 seconds, qdrant.py:62).
FairSpec == Spec /\ WF_vars(Next)

----------------------------------------------------------------------------
(* Properties *)

Contract ==
  INSTANCE AuditContract
    WITH answers <- {[probe |-> r.probe, turn |-> r.turn, ids |-> r.answer] : r \in results}

\* The exit status is zero exactly when every tag says what its one source says, every probe
\* lists two identities or more, and chunks the index holds, and every answer was what the
\* sources grant; the store is asked for nothing else, and once under each entry of a list
\* (DEC-024).
RefinesContract == Contract!Spec

\* The run comes to an end, whatever the scenario, the index and the store: with a status
\* or with an exception, never waiting on itself.
EventuallyExits == <>(phase = "exited")

\* What loses a report: times that cannot be compared, behind a chunk whose tag differs from
\* its one source; a model of enforcement outside the closed set; an identity the scenario
\* does not hold, named by a probe that is run.
HasIncomparableTimes(chunk) ==
  \E j \in Located(scenario, chunk) :
    LET doc == SourceAt(scenario, chunk, j)
    IN  /\ Located(scenario, chunk) = {j} /\ chunk.entitlement # doc.entitlement
        /\ chunk.ingested_at # None /\ doc.acl_modified_at # None
        /\ chunk.ingested_at.aware # doc.acl_modified_at.aware
EnforcementIsKnown == variant.enforcement \in EnforcementModels
NamesUnknownIdentity(p) ==
  Len(p.principals) >= 2 /\ ~(Range(p.principals) \subseteq DOMAIN scenario.principals)

\* One axis failing leaves nothing of the other behind: a report exists only when both axes
\* went through all they were given.  And a report is lost only for what the fixtures hold,
\* or to a live store: one chunk or one identity is enough (verify.py:45, verify.py:168).
ReportIsComplete ==
  /\ report # None =>
       /\ unexamined = {} /\ current = None
       /\ ~propagationFailed /\ ~probesFailed
       /\ \A c \in DOMAIN variant.chunks :
            \/ \E f \in report.propagation : f.chunk_id = c
            \/ SourceEntitlements(scenario, variant.chunks[c]) = {variant.chunks[c].entitlement}
       /\ \A i \in DOMAIN scenario.probes :
            \/ i \in report.probes_skipped
            \/ \A k \in DOMAIN scenario.probes[i].principals :
                 \E r \in report.probes : r.probe = i /\ r.turn = k
  /\ propagationFailed => \E c \in DOMAIN variant.chunks : HasIncomparableTimes(variant.chunks[c])
  /\ probesFailed =>
       \/ live \/ ~EnforcementIsKnown
       \/ \E i \in DOMAIN scenario.probes : NamesUnknownIdentity(scenario.probes[i])

\* A zero status is a claim about every chunk: none is served, to anybody, that its sources
\* refuse, unless the inventory never saw it; and nobody went without a chunk that a probe
\* lists for them.
ZeroMeansEnforced ==
  status = "zero" =>
    \A r \in report.probes :
      LET p == scenario.principals[r.principal_id]
          granted == {c \in DOMAIN variant.chunks : SourcesGrant(scenario, variant.chunks[c], p)}
      IN  /\ r.answer \cap DOMAIN variant.chunks \subseteq granted
          /\ Range(scenario.probes[r.probe].matches) \cap granted \subseteq r.answer
          /\ \A c \in DOMAIN variant.chunks :
               Entitled(scenario.rule, variant.chunks[c].entitlement, p) <=> c \in granted

----------------------------------------------------------------------------
(* What the documents say, without the conditions of the properties above. *)

\* "A differential probe compares what two or more distinct identities receive for the same
\* query" (DEC-007): no zero status rests on a probe that names one identity only.
ZeroComparesIdentities ==
  status = "zero" =>
    \A i \in DOMAIN scenario.probes : Cardinality(Range(scenario.probes[i].principals)) >= 2
=============================================================================
