-------------------------------- MODULE Scan --------------------------------
(***************************************************************************)
(* A scan of live systems: `scan` reads the permissions of the files       *)
(* (FilesystemSource.documents), then the whole index, and verifies the    *)
(* one against the other while a live store answers the probes.            *)
(*                                                                         *)
(* Nobody stops for a scan: files are re-permitted, edited and removed,    *)
(* and points ingested, mislabelled and discarded, before it and between   *)
(* its steps.  The files and the store are outside this code; the store    *)
(* filters by tenant (qdrant.py), and orders by distance, that is, anyhow. *)
(* The inventory is one step here; QdrantScroll has its pages.             *)
(***************************************************************************)
EXTENDS Loading

CONSTANTS
  Owners,         (* group owners of files                                 *)
  PointIds,       (* ids of the points of the index                        *)
  Tags,           (* what the ingesting pipeline tags a chunk with         *)
  Worlds,         (* what the files and the index may be to begin with     *)
  Targets,        (* what the files of the target directory may hold       *)
  MaxTime,        (* bound on the clock                                    *)
  MaxChanges      (* bound on the changes of files and points              *)

ASSUME TagsAssumption == Tags \subseteq Entitlement
ASSUME RolesAssumption == {"everyone", "member"} \subseteq Roles
ASSUME PointIdsAssumption == PointIds \subseteq Int
ASSUME BoundsAssumption == MaxTime \in Nat /\ MaxChanges \in Nat

VARIABLES
  files, points,  (* the source and the index, as they are                 *)
  now,            (* the clock that stamps both                            *)
  changes,        (* how often either has changed                          *)
  quiet,          (* whether neither has since the scan began              *)
  history,        (* of each point since its ingestion, see History        *)
  target,         (* what the files of the target directory hold           *)
  listed,         (* paths that documents() has still to look at           *)
  pending,        (* the path it has found to be a file, or None           *)
  documents,      (* the SourceDocuments read                              *)
  inventoried,    (* the point behind each chunk of the inventory          *)
  scenario, variant, unexamined, current, left, bound, findings, untraceable,
  propagationFailed, live, probe, turn, results, skipped, probesFailed, phase, report,
  status          (* of Verify                                             *)

worldVars == <<files, points, now, changes, quiet, history>>
readVars == <<target, listed, pending, documents, inventoried>>
propagationVars == <<unexamined, current, left, bound, findings, untraceable, propagationFailed>>
probesVars == <<live, probe, turn, results, skipped, probesFailed>>
verifyVars == <<scenario, variant, propagationVars, probesVars, phase, report, status>>
vars == <<worldVars, readVars, verifyVars>>

File == [group: Owners, world_readable: BOOLEAN, ctime: Nat]

\* A point: the payload the adapter makes a Chunk of, and the chunk_id in it.
Point ==
  [chunk_id: ChunkIds, source_document_ids: Seq(DocIds), entitlement: Entitlement,
   ingested_at: Time \cup {None}]

\* What became of a point between its ingestion and the reading of its file: whether its tag
\* has ever said what the file said, whether the file's permission changed, whether it was
\* only touched, and whether the point is younger than that reading.
History == [matched: BOOLEAN, changed: BOOLEAN, touched: BOOLEAN, late: BOOLEAN]

\* What is there to begin with has stood since before the clock started, and nobody knows
\* when its points were ingested.
ASSUME WorldsAssumption ==
  \A w \in Worlds :
    /\ IsDict(w.files, DocIds, File) /\ \A d \in DOMAIN w.files : w.files[d].ctime = 0
    /\ IsDict(w.points, PointIds, Point) /\ \A i \in DOMAIN w.points : w.points[i].ingested_at = None

\* None is no path, and no text of a clause.
ASSUME NoTextAssumption ==
  None \notin DocIds \cup TenantClauses \cup RoleClauses \cup DirectClauses \cup Combinators

IsList(rows) == rows \in Seq(Range(rows))

Source(t) == IF t.target = None THEN <<>> ELSE Entries(t.target, "source", <<>>)

\* What the files of a target state, unless they raise, is of the types the dataclasses give;
\* what a group is mapped to is a tenant when str has made a text of it, or the empty text.
ASSUME TargetsAssumption ==
  \A t \in Targets :
    /\ Range(LoadGroups(Source(t))) \subseteq Tenants \cup {""}
    /\ ~TargetRaises(t.target) =>
         /\ Text(Get(t.target, "enforcement", "rule")) \in STRING
         /\ Get(t.target, "ann_limit", None) \in Int \cup {None}
    /\ ~PrincipalsRaise(t.principals) =>
         /\ IsList(t.principals.principals)
         /\ \A row \in Range(t.principals.principals) :
              /\ row.id.text \in PrincipalIds
              /\ Entries(row, "tenant", NoTenant) \in Tenants \cup {NoTenant}
              /\ Elements(row, "roles") \subseteq Roles
    /\ ~ProbesRaise(t.probes) =>
         /\ IsList(t.probes.probes)
         /\ \A row \in Range(t.probes.probes) :
              /\ row.id.text \in STRING
              /\ References(row.principals) \in Seq(PrincipalIds)
              /\ References(row.matches) \in Seq(ChunkIds)

----------------------------------------------------------------------------
(* FilesystemSource *)

\* `_tenant_for`
TenantFor(file) == Get(LoadGroups(Source(target)), file.group, None)

StatedFor(file) ==
  [state |-> "stated", tenants |-> {TenantFor(file)},
   roles |-> {IF file.world_readable THEN "everyone" ELSE "member"}, principals |-> {}]

\* A wrong entitlement that states a grant to no known tenant.
StatedWithoutTenant(file) == StatedFor(file)

\* Neither an unmapped group nor one mapped to an empty text has a tenant.
EntitlementOfFile(file) ==
  IF TenantFor(file) \in {None, ""} THEN UnknownEntitlement ELSE StatedFor(file)

DocumentOf(file) ==
  [entitlement |-> EntitlementOfFile(file),
   acl_modified_at |-> [at |-> file.ctime, aware |-> TRUE]]

----------------------------------------------------------------------------
(* What verify is given *)

Verification == INSTANCE Verify WITH Scenarios <- {}, Variants <- {}

\* None is neither a report nor an outcome.
ASSUME NoReportAssumption ==
  None \notin Verification!VerificationReport \cup {"zero", "one", "raised"}

ScenarioRead ==
  [documents |-> documents, principals |-> LoadPrincipals(target.principals),
   probes |-> LoadProbes(target.probes), rule |-> LoadRule(target.rule)]

\* `{chunk.id: chunk for chunk in ...}`: of the points of one chunk the last one read stays.
PointOfChunk(c) == Max({i \in DOMAIN points : points[i].chunk_id = c})
ChunkIdsHeld == {points[i].chunk_id : i \in DOMAIN points}

ChunkOfPoint(i) ==
  [source_document_ids |-> points[i].source_document_ids,
   entitlement |-> points[i].entitlement, ingested_at |-> points[i].ingested_at]

VariantRead ==
  [chunks |-> [c \in ChunkIdsHeld |-> ChunkOfPoint(PointOfChunk(c))],
   enforcement |-> LoadTarget(target.target).enforcement,
   ann_limit |-> LoadTarget(target.target).ann_limit]

\* A wrong default for `limit`, the store's own.
LimitOfTheStore == IF variant.ann_limit \in {None, 0} THEN 1 ELSE variant.ann_limit

\* `limit or max(len(variant.chunks), 1)`.
Limit ==
  IF variant.ann_limit \in {None, 0}
  THEN Max({Cardinality(DOMAIN variant.chunks), 1})
  ELSE variant.ann_limit

----------------------------------------------------------------------------

Phases == {"before", "list", "files", "inventory"} \cup Verification!Phases

TypeOK ==
  /\ IsDict(files, DocIds, File) /\ IsDict(points, PointIds, Point)
  /\ now \in 0..MaxTime /\ changes \in 0..MaxChanges /\ quiet \in BOOLEAN
  /\ history \in [PointIds -> History]
  /\ listed \subseteq DocIds /\ pending \in DocIds \cup {None}
  /\ IsDict(documents, DocIds, SourceDocument)
  /\ inventoried \in [DOMAIN inventoried -> PointIds]
  /\ phase \in Phases
  /\ phase \in Verification!Phases /\ status # "raised" => IsScenario(scenario) /\ IsVariant(variant)
  /\ status \in {None, "zero", "one", "raised"}

Init ==
  /\ \E w \in Worlds : files = w.files /\ points = w.points
  /\ target \in Targets
  /\ now = 0 /\ changes = 0 /\ quiet = TRUE
  /\ history = [i \in PointIds |-> [matched |-> FALSE, changed |-> FALSE, touched |-> FALSE,
                                    late |-> FALSE]]
  /\ listed = {} /\ pending = None
  /\ documents = <<>> /\ inventoried = <<>>
  /\ scenario = None /\ variant = None
  /\ unexamined = {} /\ current = None /\ left = {} /\ bound = None
  /\ findings = {} /\ untraceable = 0 /\ propagationFailed = FALSE
  /\ live = TRUE /\ probe = 1 /\ turn = 1 /\ results = {} /\ skipped = {} /\ probesFailed = FALSE
  /\ phase = "before" /\ report = None /\ status = None

----------------------------------------------------------------------------
(* The files and the index *)

\* check_propagation reads neither, so what happens during it may as well happen after.
ChangesAreSeen == phase \in {"before", "list", "files", "inventory", "run_probes"}

Changed ==
  /\ ChangesAreSeen /\ changes < MaxChanges
  /\ changes' = changes + 1
  /\ quiet' = (quiet /\ phase = "before")
  /\ UNCHANGED <<now, readVars, verifyVars>>

\* History is kept until the file is read, and not after the inventory is.
Recorded(d, i) ==
  /\ d \notin DOMAIN documents /\ phase \in {"before", "list", "files", "inventory"}
  /\ i \in DOMAIN points /\ points[i].source_document_ids = <<d>>

\* chmod, chgrp, or a write to the file, which moves the ctime too.
Touch(d, file) ==
  /\ d \in DOMAIN files
  /\ files' = [files EXCEPT ![d] = file]
  /\ LET new == EntitlementOfFile(file) # EntitlementOfFile(files[d])
     IN  history' =
           [i \in PointIds |->
              IF ~Recorded(d, i) THEN history[i]
              ELSE [history[i] EXCEPT
                      !.matched = @ \/ points[i].entitlement = EntitlementOfFile(file),
                      !.changed = @ \/ new,
                      !.touched = @ \/ ~new]]
  /\ Changed
  /\ UNCHANGED points

Remove(d) ==
  /\ d \in DOMAIN files
  /\ files' = [e \in DOMAIN files \ {d} |-> files[e]]
  /\ Changed
  /\ UNCHANGED <<points, history>>

\* A pipeline ingests a chunk of the file, with a tag, right or wrong.
Ingest(i, c, d, tag) ==
  /\ d \in DOMAIN files
  /\ points' = [j \in DOMAIN points \cup {i} |->
                  IF j # i THEN points[j]
                  ELSE [chunk_id |-> c, source_document_ids |-> <<d>>, entitlement |-> tag,
                        ingested_at |-> [at |-> now, aware |-> TRUE]]]
  /\ history' = [history EXCEPT ![i] =
                   [matched |-> tag = EntitlementOfFile(files[d]), changed |-> FALSE,
                    touched |-> FALSE, late |-> d \in DOMAIN documents]]
  /\ phase \in {"before", "list", "files", "inventory"}
  /\ Changed
  /\ UNCHANGED files

Discard(i) ==
  /\ i \in DOMAIN points
  /\ points' = [j \in DOMAIN points \ {i} |-> points[j]]
  /\ Changed
  /\ UNCHANGED <<files, history>>

Tick ==
  /\ ChangesAreSeen /\ now < MaxTime
  /\ now' = now + 1
  /\ UNCHANGED <<files, points, changes, quiet, history, readVars, verifyVars>>

World ==
  \/ \E d \in DocIds, g \in Owners, w \in BOOLEAN :
       Touch(d, [group |-> g, world_readable |-> w, ctime |-> now])
  \/ \E d \in DocIds : Remove(d)
  \/ \E i \in PointIds, c \in ChunkIds, d \in DocIds, tag \in Tags : Ingest(i, c, d, tag)
  \/ \E i \in PointIds : Discard(i)
  \/ Tick

----------------------------------------------------------------------------
(* scan *)

Reading(p, q) ==
  /\ phase = p
  /\ phase' = q
  /\ UNCHANGED <<scenario, variant, propagationVars, probesVars, report, status, worldVars, target,
                 inventoried>>

\* `load_target`, which makes the source and the backend and reads neither.
Begin ==
  /\ Reading("before", "list")
  /\ ~TargetRaises(target.target)
  /\ UNCHANGED <<listed, pending, documents>>

\* `sorted(self.root.rglob("*"))`: the whole tree is walked before any file is read.
ListFiles ==
  /\ Reading("list", "files")
  /\ listed' = DOMAIN files
  /\ UNCHANGED <<pending, documents>>

\* A wrong loop that looks at a path again and again until it is a file.
AwaitFile(d) ==
  /\ Reading("files", "files")
  /\ pending = None /\ d \in listed
  /\ listed' = IF d \in DOMAIN files THEN listed \ {d} ELSE listed
  /\ pending' = IF d \in DOMAIN files THEN d ELSE None
  /\ UNCHANGED documents

\* `if not path.is_file(): continue`
CheckFile(d) ==
  /\ Reading("files", "files")
  /\ pending = None /\ d \in listed
  /\ listed' = listed \ {d}
  /\ pending' = IF d \in DOMAIN files THEN d ELSE None
  /\ UNCHANGED documents

StatFile ==
  /\ Reading("files", "files")
  /\ pending # None /\ pending \in DOMAIN files
  /\ documents' = [d \in DOMAIN documents \cup {pending} |->
                     IF d = pending THEN DocumentOf(files[d]) ELSE documents[d]]
  /\ pending' = None
  /\ UNCHANGED listed

Raised ==
  /\ phase' = "exited" /\ status' = "raised"
  /\ UNCHANGED <<scenario, variant, propagationVars, probesVars, report, worldVars, readVars>>

\* Nothing is there to scan, whatever target.yaml says: no such directory, no connection.
FailOnTarget == phase = "before" /\ Raised

\* The file is gone since `is_file`: a FileNotFoundError, and no report.
FailOnStat == phase = "files" /\ pending # None /\ pending \notin DOMAIN files /\ Raised

InputsRaise ==
  PrincipalsRaise(target.principals) \/ ProbesRaise(target.probes) \/ RuleRaises(target.rule)

\* The identities, the probes and the rule are read after the documents.
DocumentsRead ==
  /\ Reading("files", "inventory")
  /\ listed = {} /\ pending = None
  /\ ~InputsRaise
  /\ UNCHANGED <<listed, pending, documents>>

FailOnInputs == phase = "files" /\ listed = {} /\ pending = None /\ InputsRaise /\ Raised

\* A backend that cannot be reached, or has no admin connection, or holds what is no chunk.
FailOnChunks == phase = "inventory" /\ Raised

\* `target.backend.chunks()`, after which verify has its scenario and its variant.
ReadIndex ==
  /\ phase = "inventory"
  /\ HasInventory(target.target.backend)
  /\ scenario' = ScenarioRead
  /\ variant' = VariantRead
  /\ inventoried' = [c \in ChunkIdsHeld |-> PointOfChunk(c)]
  /\ unexamined' = ChunkIdsHeld
  /\ phase' = "check_propagation"
  /\ UNCHANGED <<current, left, bound, findings, untraceable, propagationFailed, probesVars,
                 report, status, worldVars, target, listed, pending, documents>>

\* The points the store may answer p with: the nearest it finds under the tenant.
Hits(p) ==
  LET found == {i \in DOMAIN points : p.tenant \in points[i].entitlement.tenants}
  IN  {hits \in SUBSET found : Cardinality(hits) = Min({Limit, Cardinality(found)})}

AskStore ==
  /\ phase = "run_probes" /\ Verification!Differential!Turn
  /\ Verification!Differential!PrincipalOnTurn \in DOMAIN scenario.principals
  /\ \E hits \in Hits(scenario.principals[Verification!Differential!PrincipalOnTurn]) :
       Verification!Differential!Ask({points[i].chunk_id : i \in hits})
  /\ UNCHANGED <<propagationVars, phase, report, status, worldVars, readVars>>

\* The rest of verify and of the command, which neither sees nor changes the world.
VerifyOn ==
  /\ Verification!Next
  /\ results' = results
  /\ UNCHANGED <<worldVars, readVars>>

Program ==
  \/ FailOnTarget
  \/ Begin
  \/ ListFiles
  \/ \E d \in listed : CheckFile(d)
  \/ StatFile
  \/ FailOnStat
  \/ DocumentsRead
  \/ FailOnInputs
  \/ FailOnChunks
  \/ ReadIndex
  \/ AskStore
  \/ VerifyOn

Next == World \/ Program

Spec == Init /\ [][Next]_vars

\* The program is sequential; a store is assumed to answer or to fail.
FairSpec == Spec /\ WF_vars(Program)

----------------------------------------------------------------------------
(* Properties *)

\* A finding tells who is to mend what: a chunk blamed on its ingestion never had the tag its
\* file called for, and one blamed on drift was overtaken by a later change, of the
\* permission or at least of the file (DEC-006).  Excepted are chunks ingested after their
\* file was read, and a file changed in the very tick of the ingestion.
CauseTellsHistory ==
  \A f \in findings :
    f.verdict = "contradicted" /\ f.cause \in {"propagation-fault", "drift"} =>
      LET h == history[inventoried[f.chunk_id]]
          chunk == variant.chunks[f.chunk_id]
          doc == documents[chunk.source_document_ids[1]]
      IN  h.late \/ chunk.ingested_at = doc.acl_modified_at
            \/ IF f.cause = "drift" THEN h.changed \/ h.touched ELSE ~h.matched

\* No two points are of one chunk.
OnePointAChunk == \A i, j \in DOMAIN points : points[i].chunk_id = points[j].chunk_id => i = j

\* The sources of a point that are files, and what they say.
FilesOf(i) ==
  {j \in DOMAIN points[i].source_document_ids : points[i].source_document_ids[j] \in DOMAIN files}
FileSays(i, j) == EntitlementOfFile(files[points[i].source_document_ids[j]])

ChunkServed(c, p) == \E i \in DOMAIN points :
  points[i].chunk_id = c /\ p.tenant \in points[i].entitlement.tenants
ChunkHasFile(c) == \E i \in DOMAIN points : points[i].chunk_id = c /\ FilesOf(i) # {}
ChunkGranted(c, p) == \E i \in DOMAIN points :
  /\ points[i].chunk_id = c /\ FilesOf(i) # {}
  /\ \A j \in FilesOf(i) : Entitled(scenario.rule, FileSays(i, j), p)

\* While nothing changes, and without a limit, a scan is exact from end to end: it reports the
\* chunks whose tag is not what their one file says, and of each answer what the store's filter
\* lets through against the file's permission, and what it holds back against it.  No limit of
\* the tool's own takes part ("Asking for fewer would let the tool's own truncation register
\* as the store's under-retrieval").
QuietScanIsExact ==
  quiet /\ report # None /\ OnePointAChunk /\ variant.ann_limit \in {None, 0} =>
    /\ \A i \in DOMAIN points :
         (\E f \in report.propagation : f.chunk_id = points[i].chunk_id) <=>
           ~\E j \in FilesOf(i) : FilesOf(i) = {j} /\ points[i].entitlement = FileSays(i, j)
    /\ \A r \in report.probes :
         LET p == scenario.principals[r.principal_id]
         IN  /\ r.over_retrieved =
                  {c \in ChunkIdsHeld : ChunkServed(c, p) /\ ChunkHasFile(c) /\ ~ChunkGranted(c, p)}
             /\ r.under_retrieved =
                  {c \in Range(scenario.probes[r.probe].matches) \cap ChunkIdsHeld :
                     ChunkGranted(c, p) /\ ~ChunkServed(c, p)}

\* The index is read only for a target that says by what to judge it: every clause of the
\* rule as it stands there, and of a document that states an entitlement a group whose tenant
\* it is.  Nothing is filled in but the tenant 'None' of a group mapped to nothing (DEC-012,
\* DEC-020, DEC-021, scan.py:65).
JudgedByWhatIsStated ==
  variant # None =>
    LET mapping == target.target.source.group_to_tenant
    IN  /\ \A key \in DOMAIN scenario.rule :
             key \in DOMAIN target.rule.rule /\ scenario.rule[key] = target.rule.rule[key]
        /\ \A d \in DOMAIN documents : documents[d].entitlement.state = "stated" =>
             \E group \in DOMAIN mapping :
               documents[d].entitlement.tenants =
                 {IF mapping[group] = None THEN "None" ELSE mapping[group]}

\* A scan ends although files and index keep changing: in a status or in an exception.
EventuallyExits == <>(phase = "exited")
=============================================================================
