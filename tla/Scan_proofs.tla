---------------------------- MODULE Scan_proofs ----------------------------
(***************************************************************************)
(* A scan keeps its promises for every tree of files, every index, every   *)
(* target and any number of changes between its steps.                     *)
(*                                                                         *)
(* World and Program share no variable that both write: each lemma on a    *)
(* step says first what the step leaves alone.                             *)
(***************************************************************************)
EXTENDS Scan, FiniteSetTheorems, WellFoundedInduction, TLAPS

Before == {"before", "list", "files", "inventory"}
Verifying == {"check_propagation", "run_probes", "report"}

----------------------------------------------------------------------------
(* What a step leaves alone *)

LEMMA WorldFrame ==
  ASSUME World
  PROVE  UNCHANGED <<readVars, verifyVars>> /\ ChangesAreSeen
  BY DEF World, Touch, Remove, Ingest, Discard, Tick, Changed

LEMMA PropagationFrame ==
  ASSUME Verification!CheckPropagation
  PROVE  /\ UNCHANGED <<scenario, variant, probesVars, phase, report, status>>
         /\ phase = "check_propagation"
  BY DEF Verification!CheckPropagation, Verification!Propagation!Next,
     Verification!Propagation!ExamineChunk, Verification!Propagation!ReportUntraceable,
     Verification!Propagation!PassSingleSource, Verification!Propagation!ContradictSingleSource,
     Verification!Propagation!FailOnTimes, Verification!Propagation!StartBound,
     Verification!Propagation!IntersectNext, Verification!Propagation!ReportIndeterminate,
     Verification!Propagation!ReportExceeding, Verification!Propagation!Judge,
     Verification!probesVars, probesVars

LEMMA ProbesFrame ==
  ASSUME Verification!RunProbes
  PROVE  /\ UNCHANGED <<scenario, variant, live, propagationVars, phase, report, status>>
         /\ phase = "run_probes"
  BY DEF Verification!RunProbes, Verification!Differential!Next,
     Verification!Differential!FailOnEnforcement, Verification!Differential!SkipProbe,
     Verification!Differential!FailOnPrincipal, Verification!Differential!FailOnRetrieve,
     Verification!Differential!Ask, Verification!Differential!NextProbe,
     Verification!propagationVars, propagationVars

LEMMA AskFrame ==
  ASSUME AskStore
  PROVE  /\ UNCHANGED <<scenario, variant, live, propagationVars, phase, report, status, worldVars,
                        readVars>>
         /\ phase = "run_probes"
  BY DEF AskStore, Verification!Differential!Ask

\* The rest of verify takes its scenario and variant as given.
LEMMA VerifyFrame ==
  ASSUME VerifyOn
  PROVE  /\ UNCHANGED <<worldVars, readVars, scenario, variant, live, results>>
         /\ phase \in Verifying /\ phase' \in Verifying \cup {"exited"}
         /\ status' = status \/ phase' = "exited"
         /\ phase' = "exited" => status' \in {"zero", "one", "raised"}
         /\ findings' = findings \/ Verification!CheckPropagation
<1>1. UNCHANGED <<worldVars, readVars, results>>
  BY DEF VerifyOn
<1>2. CASE Verification!CheckPropagation
  BY <1>1, <1>2, PropagationFrame DEF Verifying, probesVars
<1>3. CASE Verification!RunProbes
  BY <1>1, <1>3, ProbesFrame DEF Verifying, propagationVars
<1>4. CASE Verification!PropagationReturns
  BY <1>1, <1>4 DEF Verification!PropagationReturns, Verification!propagationVars,
     Verification!probesVars, Verifying
<1>5. CASE Verification!MakeReport
  BY <1>1, <1>5 DEF Verification!MakeReport, Verification!propagationVars,
     Verification!probesVars, Verifying
<1>6. CASE Verification!Exit
  BY <1>1, <1>6 DEF Verification!Exit, Verification!propagationVars,
     Verification!probesVars, Verifying, Verification!ExitStatus
<1>7. CASE Verification!Raise
  BY <1>1, <1>7 DEF Verification!Raise, Verification!propagationVars,
     Verification!probesVars, Verifying
<1> QED
  BY <1>2, <1>3, <1>4, <1>5, <1>6, <1>7 DEF VerifyOn, Verification!Next

----------------------------------------------------------------------------
(* What is read has its type *)

\* A finite set of numbers has a largest one, because taking away what is not above an element
\* leaves fewer and fewer.
LEMMA MaxProperty ==
  ASSUME NEW S, IsFiniteSet(S), S \subseteq Int, S # {}
  PROVE  Max(S) \in S /\ \A x \in S : x <= Max(S)
<1> DEFINE Above(x) == {y \in S : x < y}
           T == {Above(x) : x \in S}
<1>1. IsWellFoundedOn(StrictSubsetOrdering(S), FiniteSubsetsOf(S))
  BY FS_StrictSubsetOrderingWellFounded
<1>2. T \subseteq FiniteSubsetsOf(S) /\ T # {}
  <2>1. ASSUME NEW x \in S PROVE Above(x) \in FiniteSubsetsOf(S)
    <3>1. Above(x) \in SUBSET S
      OBVIOUS
    <3>2. IsFiniteSet(Above(x))
      BY <3>1, FS_Subset
    <3> QED
      BY <3>1, <3>2 DEF FiniteSubsetsOf
  <2> HIDE DEF Above
  <2> QED
    BY <2>1
<1>3. PICK a \in T : \A b \in T : <<b, a>> \notin StrictSubsetOrdering(S)
  <2> HIDE DEF T
  <2> QED
    BY <1>1, <1>2, WFMin
<1>4. PICK x \in S : a = Above(x)
  BY <1>3
<1>5. ASSUME NEW y \in S, ~(y <= x) PROVE FALSE
  <2>0. x \in Int /\ y \in Int /\ x < y
    BY <1>5
  <2>1. Above(y) \subseteq Above(x) /\ y \in Above(x) /\ y \notin Above(y)
    <3>1. y \in Above(x) /\ y \notin Above(y)
      BY <2>0
    <3>2. ASSUME NEW z \in S, y < z PROVE x < z
      BY <2>0, <3>2
    <3> QED
      BY <3>1, <3>2
  <2>2. <<Above(y), Above(x)>> \in StrictSubsetOrdering(S)
    BY <2>1 DEF StrictSubsetOrdering
  <2> QED
    BY <1>3, <1>4, <2>2
<1>6. x \in S /\ \A y \in S : x >= y
  BY <1>5
<1> QED
  BY <1>6 DEF Max

LEMMA ImageFinite ==
  ASSUME NEW f, IsFiniteSet(DOMAIN f)
  PROVE  IsFiniteSet({f[x] : x \in DOMAIN f})
<1> DEFINE T == {f[x] : x \in DOMAIN f}
           g == [x \in DOMAIN f |-> f[x]]
<1>1. g \in Surjection(DOMAIN f, T)
  BY DEF Surjection
<1> QED
  BY <1>1, FS_Surjection

LEMMA ListRange ==
  ASSUME NEW s, IsList(s)
  PROVE  /\ IsFiniteSet(Range(s)) /\ IsFiniteSet(DOMAIN s) /\ DOMAIN s \subseteq Int
         /\ \A n \in DOMAIN s : s[n] \in Range(s)
         /\ s \in [1..Len(s) -> Range(s)] /\ Len(s) \in Nat
<1>1. s \in [1..Len(s) -> Range(s)] /\ Len(s) \in Nat
  BY DEF IsList
<1>2. IsFiniteSet(1..Len(s)) /\ DOMAIN s = 1..Len(s)
  BY <1>1, FS_Interval
<1>3. Range(s) = {s[n] : n \in DOMAIN s}
  BY DEF Range
<1>4. IsFiniteSet({s[n] : n \in DOMAIN s})
  BY <1>2, ImageFinite
<1> QED
  BY <1>1, <1>2, <1>3, <1>4

\* The row that counts is one of the rows, and of that id.
LEMMA RowProperty ==
  ASSUME NEW rows, IsList(rows), NEW id \in Ids(rows)
  PROVE  RowOf(rows, id) \in Range(rows) /\ RowOf(rows, id).id.text = id
<1> DEFINE places == {n \in DOMAIN rows : rows[n].id.text = id}
<1>1. PICK row \in Range(rows) : row.id.text = id
  BY DEF Ids
<1>2. PICK n \in DOMAIN rows : rows[n] = row
  BY <1>1 DEF Range
<1>3. places # {} /\ places \subseteq DOMAIN rows
  BY <1>1, <1>2
<1>4. IsFiniteSet(places) /\ places \subseteq Int
  BY <1>3, ListRange, FS_Subset
<1>5. Max(places) \in places
  <2> HIDE DEF places
  <2> QED
    BY <1>3, <1>4, MaxProperty
<1> QED
  BY <1>5, ListRange DEF RowOf

LEMMA PrincipalsTyped ==
  ASSUME NEW t \in Targets, ~PrincipalsRaise(t.principals)
  PROVE  IsDict(LoadPrincipals(t.principals), PrincipalIds, Principal)
<1> DEFINE rows == t.principals.principals
           loaded == LoadPrincipals(t.principals)
<1>1. /\ IsList(rows)
      /\ \A row \in Range(rows) :
           /\ row.id.text \in PrincipalIds
           /\ Entries(row, "tenant", NoTenant) \in Tenants \cup {NoTenant}
           /\ Elements(row, "roles") \subseteq Roles
  BY TargetsAssumption
<1>2. DOMAIN loaded = Ids(rows)
  BY DEF LoadPrincipals
<1>3. Ids(rows) \subseteq PrincipalIds
  BY <1>1 DEF Ids
<1>4. IsFiniteSet(Ids(rows))
  <2> DEFINE f == [row \in Range(rows) |-> row.id.text]
  <2>1. IsFiniteSet({f[row] : row \in DOMAIN f})
    BY <1>1, ListRange, ImageFinite
  <2> QED
    BY <2>1 DEF Ids
<1>5. ASSUME NEW id \in Ids(rows) PROVE loaded[id] \in Principal
  <2>1. RowOf(rows, id) \in Range(rows)
    BY <1>1, RowProperty
  <2>2. loaded[id] = [id |-> id, tenant |-> Entries(RowOf(rows, id), "tenant", NoTenant),
                      roles |-> Elements(RowOf(rows, id), "roles")]
    BY DEF LoadPrincipals
  <2> QED
    BY <1>1, <1>3, <2>1, <2>2 DEF Principal
<1>6. loaded \in [DOMAIN loaded -> Principal]
  <2>1. loaded = [id \in Ids(rows) |-> loaded[id]]
    BY DEF LoadPrincipals
  <2> HIDE DEF loaded
  <2> QED
    BY <1>2, <1>5, <2>1
<1> QED
  BY <1>2, <1>3, <1>4, <1>6 DEF IsDict

LEMMA ProbesTyped ==
  ASSUME NEW t \in Targets, ~ProbesRaise(t.probes)
  PROVE  LoadProbes(t.probes) \in Seq(Probe)
<1> DEFINE rows == t.probes.probes
<1>1. /\ IsList(rows)
      /\ \A row \in Range(rows) :
           /\ row.id.text \in STRING
           /\ References(row.principals) \in Seq(PrincipalIds)
           /\ References(row.matches) \in Seq(ChunkIds)
  BY TargetsAssumption
<1>2. /\ rows \in [1..Len(rows) -> Range(rows)] /\ Len(rows) \in Nat
      /\ DOMAIN rows = 1..Len(rows)
  BY <1>1, ListRange
<1>3. \A n \in 1..Len(rows) :
        [id |-> rows[n].id.text, principals |-> References(rows[n].principals),
         matches |-> References(rows[n].matches)]
          \in Probe
  BY <1>1, <1>2 DEF Probe
<1>4. LoadProbes(t.probes) \in [1..Len(rows) -> Probe]
  BY <1>2, <1>3 DEF LoadProbes
<1> QED
  BY <1>2, <1>4

LEMMA TargetTyped ==
  ASSUME NEW t \in Targets, ~TargetRaises(t.target)
  PROVE  /\ LoadTarget(t.target).enforcement \in STRING
         /\ LoadTarget(t.target).ann_limit \in Int \cup {None}
  BY TargetsAssumption DEF LoadTarget

\* What a file says depends on the file and on what the target states of its group.
Said(t, file) ==
  LET tenant == Get(LoadGroups(Source(t)), file.group, None)
  IN  IF tenant \in {None, ""} THEN UnknownEntitlement
      ELSE [state |-> "stated", tenants |-> {tenant},
            roles |-> {IF file.world_readable THEN "everyone" ELSE "member"}, principals |-> {}]

LEMMA SaidByTarget == \A file : EntitlementOfFile(file) = Said(target, file)
  BY DEF EntitlementOfFile, StatedFor, TenantFor, Said

DocumentSaid(t, file) ==
  [entitlement |-> Said(t, file), acl_modified_at |-> [at |-> file.ctime, aware |-> TRUE]]

LEMMA DocumentByTarget == \A file : DocumentOf(file) = DocumentSaid(target, file)
  BY SaidByTarget DEF DocumentOf, DocumentSaid

LEMMA FileTyped ==
  ASSUME target \in Targets, NEW file \in File
  PROVE  /\ EntitlementOfFile(file) \in Entitlement
         /\ DocumentOf(file) \in SourceDocument
<1>1. EntitlementOfFile(file) \in Entitlement
  <2> DEFINE groups == LoadGroups(Source(target))
  <2>1. Range(groups) \subseteq Tenants \cup {""}
    BY TargetsAssumption
  <2>2. file.group \in DOMAIN groups => groups[file.group] \in Tenants \cup {""}
    BY <2>1 DEF Range
  <2> HIDE DEF groups
  <2>3. TenantFor(file) \notin {None, ""} => TenantFor(file) \in Tenants
    BY <2>2 DEF TenantFor, Get, groups
  <2> QED
    BY <2>3, RolesAssumption DEF EntitlementOfFile, StatedFor, Entitlement, UnknownEntitlement
<1>2. [at |-> file.ctime, aware |-> TRUE] \in Time
  BY DEF File, Time
<1> QED
  BY <1>1, <1>2 DEF DocumentOf, SourceDocument

\* Of each chunk the index holds, the inventory has one of its points.
LEMMA IndexRead ==
  ASSUME IsDict(points, PointIds, Point)
  PROVE  /\ ChunkIdsHeld \subseteq ChunkIds /\ IsFiniteSet(ChunkIdsHeld)
         /\ \A c \in ChunkIdsHeld :
              PointOfChunk(c) \in DOMAIN points /\ points[PointOfChunk(c)].chunk_id = c
         /\ IsDict(VariantRead.chunks, ChunkIds, Chunk)
         /\ DOMAIN VariantRead.chunks = ChunkIdsHeld
         /\ \A c \in ChunkIdsHeld : VariantRead.chunks[c] = ChunkOfPoint(PointOfChunk(c))
<1>1. /\ DOMAIN points \subseteq PointIds /\ IsFiniteSet(DOMAIN points)
      /\ \A i \in DOMAIN points : points[i] \in Point
  BY DEF IsDict
<1>2. ChunkIdsHeld \subseteq ChunkIds
  BY <1>1 DEF ChunkIdsHeld, Point
<1>3. IsFiniteSet(ChunkIdsHeld)
  <2> DEFINE f == [i \in DOMAIN points |-> points[i].chunk_id]
  <2>1. IsFiniteSet({f[i] : i \in DOMAIN f})
    BY <1>1, ImageFinite
  <2> QED
    BY <2>1 DEF ChunkIdsHeld
<1>4. ASSUME NEW c \in ChunkIdsHeld
      PROVE  PointOfChunk(c) \in DOMAIN points /\ points[PointOfChunk(c)].chunk_id = c
  <2> DEFINE S == {i \in DOMAIN points : points[i].chunk_id = c}
  <2>1. S # {} /\ S \subseteq DOMAIN points
    BY DEF ChunkIdsHeld
  <2>2. IsFiniteSet(S) /\ S \subseteq Int
    BY <1>1, <2>1, FS_Subset, PointIdsAssumption
  <2>3. Max(S) \in S
    <3> HIDE DEF S
    <3> QED
      BY <2>1, <2>2, MaxProperty
  <2> QED
    BY <2>3 DEF PointOfChunk
<1>5. /\ DOMAIN VariantRead.chunks = ChunkIdsHeld
      /\ VariantRead.chunks = [c \in ChunkIdsHeld |-> ChunkOfPoint(PointOfChunk(c))]
  BY DEF VariantRead
<1>6. ASSUME NEW c \in ChunkIdsHeld PROVE ChunkOfPoint(PointOfChunk(c)) \in Chunk
  BY <1>1, <1>4 DEF ChunkOfPoint, Point, Chunk
<1> QED
  BY <1>2, <1>3, <1>4, <1>5, <1>6 DEF IsDict

----------------------------------------------------------------------------
(* Where a scan is, and what it has by then                                *)

Progress ==
  /\ target \in Targets
  /\ status # None => phase = "exited"
  /\ phase \in {"list", "files", "inventory"} => ~TargetRaises(target.target)
  /\ phase = "inventory" => ~InputsRaise
  /\ phase \in Before => variant = None /\ findings = {} /\ inventoried = <<>> /\ status = None
  /\ phase \in Verifying => IsScenario(scenario) /\ IsVariant(variant)

Typed == TypeOK /\ Progress

LEMMA Start ==
  ASSUME Init
  PROVE  Typed
<1>1. PICK w \in Worlds : files = w.files /\ points = w.points
  BY DEF Init
<1>2. IsDict(files, DocIds, File) /\ IsDict(points, PointIds, Point)
  BY <1>1, WorldsAssumption
<1>3. now \in 0..MaxTime /\ changes \in 0..MaxChanges
  BY BoundsAssumption DEF Init
<1>4. IsDict(<<>>, DocIds, SourceDocument)
  <2>1. DOMAIN <<>> = {} /\ IsFiniteSet({})
    BY FS_EmptySet
  <2> QED
    BY <2>1 DEF IsDict
<1>5. <<>> \in [DOMAIN <<>> -> PointIds]
  OBVIOUS
<1>6. history \in [PointIds -> History]
  BY DEF Init, History
<1> QED
  BY <1>2, <1>3, <1>4, <1>5, <1>6
     DEF Init, Typed, TypeOK, Progress, Before, Verifying, Phases, Verification!Phases

\* The world goes on in files and points of the same types.
LEMMA WorldStep ==
  ASSUME Typed, World
  PROVE  Typed'
<1> USE DEF Typed
<1>1. UNCHANGED <<readVars, verifyVars>> /\ ChangesAreSeen
  BY WorldFrame
<1>2. UNCHANGED <<target, listed, pending, documents, inventoried, scenario, variant, findings,
                 phase, status>>
  BY <1>1 DEF readVars, verifyVars, propagationVars
<1>3. Progress'
  BY <1>2 DEF Progress, InputsRaise
<1>4. ASSUME Changed
      PROVE  now' \in 0..MaxTime /\ changes' \in 0..MaxChanges /\ quiet' \in BOOLEAN
  BY <1>4, BoundsAssumption DEF Changed, TypeOK
<1>5. ASSUME IsDict(files, DocIds, File)', IsDict(points, PointIds, Point)',
             history' \in [PointIds -> History],
             now' \in 0..MaxTime, changes' \in 0..MaxChanges, quiet' \in BOOLEAN
      PROVE  TypeOK'
  BY <1>2, <1>5 DEF TypeOK
<1>6. ASSUME NEW d \in DocIds, NEW g \in Owners, NEW w \in BOOLEAN,
             Touch(d, [group |-> g, world_readable |-> w, ctime |-> now])
      PROVE  TypeOK'
  <2> DEFINE file == [group |-> g, world_readable |-> w, ctime |-> now]
  <2>1. file \in File
    BY DEF File, TypeOK
  <2>2. IsDict(files, DocIds, File)'
    BY <1>6, <2>1 DEF Touch, TypeOK, IsDict
  <2>3. history' \in [PointIds -> History]
    <3> DEFINE new == EntitlementOfFile(file) # EntitlementOfFile(files[d])
               h(i) == IF ~Recorded(d, i) THEN history[i]
                       ELSE [history[i] EXCEPT
                               !.matched = @ \/ points[i].entitlement = EntitlementOfFile(file),
                               !.changed = @ \/ new,
                               !.touched = @ \/ ~new]
    <3>1. history' = [i \in PointIds |-> h(i)]
      BY <1>6 DEF Touch
    <3>2. ASSUME NEW i \in PointIds PROVE h(i) \in History
      BY DEF History, TypeOK
    <3> HIDE DEF h
    <3> QED
      BY <3>1, <3>2
  <2> QED
    BY <1>4, <1>5, <1>6, <2>2, <2>3 DEF Touch, TypeOK
<1>7. ASSUME NEW d \in DocIds, Remove(d)
      PROVE  TypeOK'
  <2>1. IsDict(files, DocIds, File)'
    <3>1. files' = [e \in DOMAIN files \ {d} |-> files[e]]
      BY <1>7 DEF Remove
    <3>2. IsFiniteSet(DOMAIN files \ {d})
      BY FS_Subset DEF TypeOK, IsDict
    <3> QED
      BY <3>1, <3>2 DEF TypeOK, IsDict
  <2> QED
    BY <1>4, <1>5, <1>7, <2>1 DEF Remove, TypeOK
<1>8. ASSUME NEW i \in PointIds, NEW c \in ChunkIds, NEW d \in DocIds, NEW tag \in Tags,
             Ingest(i, c, d, tag)
      PROVE  TypeOK'
  <2>1. tag \in Entitlement
    BY TagsAssumption
  <2> DEFINE point == [chunk_id |-> c, source_document_ids |-> <<d>>, entitlement |-> tag,
                       ingested_at |-> [at |-> now, aware |-> TRUE]]
  <2>2. point \in Point
    BY <2>1 DEF Point, Time, TypeOK
  <2>3. IsDict(points, PointIds, Point)'
    <3>1. points' = [j \in DOMAIN points \cup {i} |-> IF j # i THEN points[j] ELSE point]
      BY <1>8 DEF Ingest
    <3>2. IsFiniteSet(DOMAIN points \cup {i})
      BY FS_AddElement DEF TypeOK, IsDict
    <3> HIDE DEF point
    <3> QED
      BY <2>2, <3>1, <3>2 DEF TypeOK, IsDict
  <2>4. history' \in [PointIds -> History]
    BY <1>8 DEF Ingest, TypeOK, History
  <2> QED
    BY <1>4, <1>5, <1>8, <2>3, <2>4 DEF Ingest, TypeOK
<1>9. ASSUME NEW i \in PointIds, Discard(i)
      PROVE  TypeOK'
  <2>1. IsDict(points, PointIds, Point)'
    <3>1. points' = [j \in DOMAIN points \ {i} |-> points[j]]
      BY <1>9 DEF Discard
    <3>2. IsFiniteSet(DOMAIN points \ {i})
      BY FS_Subset DEF TypeOK, IsDict
    <3> QED
      BY <3>1, <3>2 DEF TypeOK, IsDict
  <2> QED
    BY <1>4, <1>5, <1>9, <2>1 DEF Discard, TypeOK
<1>10. ASSUME Tick PROVE TypeOK'
  <2>1. now' \in 0..MaxTime
    BY <1>10, BoundsAssumption DEF Tick, TypeOK
  <2> QED
    BY <1>2, <1>10, <2>1 DEF Tick, TypeOK
<1> QED
  BY <1>3, <1>6, <1>7, <1>8, <1>9, <1>10 DEF World

\* What verify is given has the types it relies on, because the scan has raised otherwise.
LEMMA GivenTyped ==
  ASSUME Typed, phase = "inventory"
  PROVE  IsScenario(ScenarioRead) /\ IsVariant(VariantRead)
<1>1. target \in Targets /\ ~TargetRaises(target.target) /\ ~InputsRaise
  BY DEF Typed, Progress
<1>2. IsDict(ScenarioRead.documents, DocIds, SourceDocument)
  BY DEF Typed, TypeOK, ScenarioRead
<1>3. IsDict(ScenarioRead.principals, PrincipalIds, Principal)
  BY <1>1, PrincipalsTyped DEF InputsRaise, ScenarioRead
<1>4. ScenarioRead.probes \in Seq(Probe)
  BY <1>1, ProbesTyped DEF InputsRaise, ScenarioRead
<1>5. ScenarioRead.rule \in Rule
  BY <1>1 DEF InputsRaise, ScenarioRead, RuleRaises
<1>6. IsDict(VariantRead.chunks, ChunkIds, Chunk)
  BY IndexRead DEF Typed, TypeOK
<1>7. VariantRead.enforcement \in STRING /\ VariantRead.ann_limit \in Int \cup {None}
  BY <1>1, TargetTyped DEF VariantRead
<1> QED
  BY <1>2, <1>3, <1>4, <1>5, <1>6, <1>7 DEF IsScenario, IsVariant

ReadingAction ==
  \/ Begin \/ ListFiles \/ (\E d \in listed : CheckFile(d)) \/ StatFile \/ DocumentsRead

FailingAction == FailOnTarget \/ FailOnStat \/ FailOnInputs \/ FailOnChunks

LEMMA ReadingFrame ==
  ASSUME ReadingAction
  PROVE  /\ UNCHANGED <<scenario, variant, propagationVars, probesVars, report, status, worldVars,
                        target, inventoried>>
         /\ phase \in Before /\ phase' \in Before
  BY DEF ReadingAction, Begin, ListFiles, CheckFile, StatFile, DocumentsRead, Reading, Before

LEMMA FailingFrame ==
  ASSUME FailingAction
  PROVE  /\ UNCHANGED <<scenario, variant, propagationVars, probesVars, report, worldVars, readVars>>
         /\ phase \in Before /\ phase' = "exited" /\ status' = "raised"
  BY DEF FailingAction, FailOnTarget, FailOnStat, FailOnInputs, FailOnChunks, Raised, Before

LEMMA ReadingStep ==
  ASSUME Typed, ReadingAction
  PROVE  Typed'
<1> USE DEF Typed
<1>1. /\ UNCHANGED <<files, points, now, changes, quiet, history, target, inventoried, variant,
                     findings, status>>
      /\ phase \in Before /\ phase' \in Before
  BY ReadingFrame DEF worldVars, propagationVars
<1>2. /\ phase' \in {"list", "files", "inventory"} => ~TargetRaises(target.target)
      /\ phase' = "inventory" => ~InputsRaise
  BY DEF ReadingAction, Begin, ListFiles, CheckFile, StatFile, DocumentsRead, Reading, Progress
<1>3. Progress'
  BY <1>1, <1>2 DEF Progress, Before, Verifying, InputsRaise
<1>4. ASSUME listed' \subseteq DocIds, pending' \in DocIds \cup {None},
             IsDict(documents, DocIds, SourceDocument)'
      PROVE  TypeOK'
  BY <1>1, <1>4 DEF TypeOK, Before, Phases, Verification!Phases
<1>5. CASE Begin \/ DocumentsRead
  BY <1>3, <1>4, <1>5 DEF Begin, DocumentsRead, TypeOK
<1>6. CASE ListFiles
  BY <1>3, <1>4, <1>6 DEF ListFiles, TypeOK, IsDict
<1>7. CASE \E d \in listed : CheckFile(d)
  BY <1>3, <1>4, <1>7 DEF CheckFile, TypeOK
<1>8. CASE StatFile
  <2>1. pending \in DOMAIN files /\ files[pending] \in File /\ pending \in DocIds
    BY <1>8 DEF StatFile, TypeOK, IsDict
  <2>2. DocumentOf(files[pending]) \in SourceDocument
    BY <2>1, FileTyped DEF Progress
  <2>3. documents' = [d \in DOMAIN documents \cup {pending} |->
                        IF d = pending THEN DocumentOf(files[d]) ELSE documents[d]]
    BY <1>8 DEF StatFile
  <2>4. IsFiniteSet(DOMAIN documents \cup {pending})
    BY FS_AddElement DEF TypeOK, IsDict
  <2>5. IsDict(documents, DocIds, SourceDocument)'
    BY <2>1, <2>2, <2>3, <2>4 DEF TypeOK, IsDict
  <2> QED
    BY <1>3, <1>4, <1>8, <2>5 DEF StatFile, TypeOK
<1> QED
  BY <1>5, <1>6, <1>7, <1>8 DEF ReadingAction

LEMMA FailingStep ==
  ASSUME Typed, FailingAction
  PROVE  Typed'
<1>1. /\ UNCHANGED <<files, points, now, changes, quiet, history, target, listed, pending,
                     documents, inventoried, variant, findings>>
      /\ phase' = "exited" /\ status' = "raised"
  BY FailingFrame DEF worldVars, readVars, propagationVars
<1> QED
  <2>1. Progress'
    BY <1>1 DEF Typed, Progress, Before, Verifying
  <2>2. TypeOK'
    BY <1>1 DEF Typed, TypeOK, Phases, Verification!Phases
  <2> QED
    BY <2>1, <2>2 DEF Typed

LEMMA ReadIndexStep ==
  ASSUME Typed, ReadIndex
  PROVE  Typed'
<1>1. IsScenario(scenario') /\ IsVariant(variant')
  BY GivenTyped DEF ReadIndex
<1>2. /\ UNCHANGED <<files, points, now, changes, quiet, history, target, listed, pending,
                     documents, findings, status>>
      /\ phase' = "check_propagation"
  BY DEF ReadIndex, worldVars, propagationVars
<1>3. inventoried' \in [DOMAIN inventoried' -> PointIds]
  BY IndexRead DEF ReadIndex, Typed, TypeOK, IsDict
<1>4. status = None
  BY DEF Typed, Progress, ReadIndex, Before
<1> QED
  <2>1. Progress'
    BY <1>1, <1>2, <1>4 DEF Typed, Progress, Before, Verifying
  <2>2. TypeOK'
    BY <1>1, <1>2, <1>3 DEF Typed, TypeOK, Phases, Verification!Phases
  <2> QED
    BY <2>1, <2>2 DEF Typed

LEMMA VerifyStep ==
  ASSUME Typed, AskStore \/ VerifyOn
  PROVE  Typed'
<1>1. /\ UNCHANGED <<files, points, now, changes, quiet, history, target, listed, pending,
                     documents, inventoried, scenario, variant>>
      /\ phase \in Verifying /\ phase' \in Verifying \cup {"exited"}
      /\ status' = status \/ phase' = "exited"
      /\ phase' = "exited" => status' \in {"zero", "one", "raised"}
  BY AskFrame, VerifyFrame DEF worldVars, readVars, Verifying
<1> QED
  <2>1. Progress'
    BY <1>1 DEF Typed, Progress, Before, Verifying
  <2>2. IsScenario(scenario) /\ IsVariant(variant)
    BY <1>1 DEF Typed, Progress
  <2>3. TypeOK'
    BY <1>1, <2>2 DEF Typed, TypeOK, Progress, Verifying, Before, Phases, Verification!Phases
  <2> QED
    BY <2>1, <2>3 DEF Typed

LEMMA Stutter ==
  ASSUME Typed, UNCHANGED vars
  PROVE  Typed'
<1>1. UNCHANGED <<files, points, now, changes, quiet, history, target, listed, pending,
                  documents, inventoried, scenario, variant, findings, phase, status>>
  BY DEF vars, worldVars, readVars, verifyVars, propagationVars
<1>2. Progress'
  BY <1>1 DEF Typed, Progress, InputsRaise
<1>3. TypeOK'
  BY <1>1 DEF Typed, TypeOK
<1> QED
  BY <1>2, <1>3 DEF Typed

\* Every step is one of these, and the rest of the proofs goes by them.
LEMMA Steps ==
  ASSUME [Next]_vars
  PROVE  \/ World \/ ReadingAction \/ FailingAction \/ ReadIndex \/ AskStore \/ VerifyOn
         \/ UNCHANGED vars
  BY DEF Next, Program, ReadingAction, FailingAction

\* Whatever a target states and whatever becomes of files and index meanwhile, verify is given
\* a scenario and a variant of the types its own proofs start from.
THEOREM TypeCorrect == Spec => []TypeOK
<1>1. Typed /\ [Next]_vars => Typed'
  BY Steps, WorldStep, ReadingStep, FailingStep, ReadIndexStep, VerifyStep, Stutter
<1>2. Init => Typed
  BY Start
<1>3. Typed => TypeOK
  BY DEF Typed
<1> QED
  BY <1>1, <1>2, <1>3, PTL DEF Spec

\* Everything that follows starts from it.
LEMMA AlwaysTyped == Spec => []Typed
<1>1. Typed /\ [Next]_vars => Typed'
  BY Steps, WorldStep, ReadingStep, FailingStep, ReadIndexStep, VerifyStep, Stutter
<1> QED
  BY <1>1, Start, PTL DEF Spec

----------------------------------------------------------------------------
(* What the index is judged by *)

LEMMA MappingStated ==
  ASSUME NEW t \in Targets, ~TargetRaises(t.target)
  PROVE  Groups(Source(t)) = t.target.source.group_to_tenant
<1> DEFINE source == Entries(t.target, "source", <<>>)
           mapping == Entries(source, "group_to_tenant", <<>>)
<1>1. t.target # None /\ mapping # <<>>
  BY DEF TargetRaises, SourceRaises, Groups
<1>2. Groups(Source(t)) = mapping
  BY <1>1 DEF Groups, Source
<1>3. mapping = source["group_to_tenant"] /\ "group_to_tenant" \in DOMAIN source
  BY <1>1 DEF Entries
<1>4. source = t.target["source"]
  <2>1. DOMAIN <<>> = {}
    OBVIOUS
  <2> QED
    BY <1>3, <2>1 DEF Entries
<1> QED
  BY <1>2, <1>3, <1>4

\* A document that states an entitlement states a group of the mapping.
DocumentsJudged ==
  \A d \in DOMAIN documents : documents[d].entitlement.state = "stated" =>
    \E group \in DOMAIN target.target.source.group_to_tenant :
      documents[d].entitlement.tenants = {Text(target.target.source.group_to_tenant[group])}

LEMMA FileJudged ==
  ASSUME Typed, phase = "files", NEW file, EntitlementOfFile(file).state = "stated"
  PROVE  \E group \in DOMAIN target.target.source.group_to_tenant :
           EntitlementOfFile(file).tenants = {Text(target.target.source.group_to_tenant[group])}
<1> DEFINE mapping == target.target.source.group_to_tenant
<1>1. Groups(Source(target)) = mapping
  BY MappingStated DEF Typed, Progress
<1> HIDE DEF mapping
<1>2. TenantFor(file) # None /\ EntitlementOfFile(file).tenants = {TenantFor(file)}
  BY DEF EntitlementOfFile, StatedFor, UnknownEntitlement
<1>3. file.group \in DOMAIN mapping /\ TenantFor(file) = Text(mapping[file.group])
  BY <1>1, <1>2 DEF TenantFor, LoadGroups, Get
<1> QED
  BY <1>2, <1>3 DEF mapping

LEMMA DocumentsJudgedCorrect == Spec => []DocumentsJudged
<1>1. Init => DocumentsJudged
  BY DEF Init, DocumentsJudged
<1>2. ASSUME Typed, DocumentsJudged, [Next]_vars
      PROVE  DocumentsJudged'
  <2>1. ASSUME UNCHANGED <<target, documents>>
        PROVE  DocumentsJudged'
    BY <1>2, <2>1 DEF DocumentsJudged
  <2>2. CASE StatFile
    <3>1. /\ phase = "files" /\ target' = target
          /\ documents' = [d \in DOMAIN documents \cup {pending} |->
                             IF d = pending THEN DocumentOf(files[d]) ELSE documents[d]]
      BY <2>2 DEF StatFile, Reading
    <3>2. DocumentOf(files[pending]).entitlement = EntitlementOfFile(files[pending])
      BY DEF DocumentOf
    <3>3. ASSUME EntitlementOfFile(files[pending]).state = "stated"
          PROVE  \E group \in DOMAIN target.target.source.group_to_tenant :
                   EntitlementOfFile(files[pending]).tenants
                     = {Text(target.target.source.group_to_tenant[group])}
      BY <1>2, <3>1, <3>3, FileJudged
    <3> QED
      BY <1>2, <3>1, <3>2, <3>3 DEF DocumentsJudged
  <2>3. World \/ FailingAction \/ ReadIndex \/ AskStore \/ VerifyOn \/ UNCHANGED vars
          => UNCHANGED <<target, documents>>
    BY WorldFrame, FailingFrame, AskFrame, VerifyFrame DEF ReadIndex, readVars, verifyVars, vars
  <2>4. ReadingAction => StatFile \/ UNCHANGED <<target, documents>>
    BY DEF ReadingAction, Begin, ListFiles, CheckFile, DocumentsRead, Reading
  <2> QED
    BY <1>2, <2>1, <2>2, <2>3, <2>4, Steps
<1> QED
  BY <1>1, <1>2, AlwaysTyped, PTL DEF Spec

LEMMA ClausesStated ==
  ASSUME NEW file, ~RuleRaises(file), NEW key \in DOMAIN LoadRule(file)
  PROVE  key \in DOMAIN file.rule /\ LoadRule(file)[key] = file.rule[key]
<1> DEFINE rule == Entries(file, "rule", <<>>)
<1>1. key \in {"tenant", "role", "direct", "combine"} /\ LoadRule(file)[key] = Clause(file, key)
  BY DEF LoadRule
<1>2. Clause(file, key) # None
  BY <1>1, NoTextAssumption DEF RuleRaises, Rule
<1>3. key \in DOMAIN rule /\ Clause(file, key) = rule[key]
  BY <1>2 DEF Clause, Get
<1>4. rule = file["rule"]
  <2>1. DOMAIN <<>> = {}
    OBVIOUS
  <2> QED
    BY <1>3, <2>1 DEF Entries
<1> QED
  BY <1>1, <1>3, <1>4

\* The clauses of the rule are those of the file.
RuleJudged ==
  variant # None =>
    \A key \in DOMAIN scenario.rule :
      key \in DOMAIN target.rule.rule /\ scenario.rule[key] = target.rule.rule[key]

LEMMA RuleJudgedCorrect == Spec => []RuleJudged
<1>1. Init => RuleJudged
  BY DEF Init, RuleJudged
<1>2. ASSUME Typed, RuleJudged, [Next]_vars
      PROVE  RuleJudged'
  <2>1. CASE ReadIndex
    <3>1. target' = target /\ scenario' = ScenarioRead
      BY <2>1 DEF ReadIndex
    <3>2. ~RuleRaises(target.rule)
      BY <1>2, <2>1 DEF ReadIndex, Typed, Progress, InputsRaise
    <3>3. ScenarioRead.rule = LoadRule(target.rule)
      BY DEF ScenarioRead
    <3> QED
      BY <3>1, <3>2, <3>3, ClausesStated DEF RuleJudged
  <2>2. ASSUME UNCHANGED <<target, scenario, variant>>
        PROVE  RuleJudged'
    BY <1>2, <2>2 DEF RuleJudged
  <2>3. World \/ ReadingAction \/ FailingAction \/ AskStore \/ VerifyOn \/ UNCHANGED vars
          => UNCHANGED <<target, scenario, variant>>
    BY WorldFrame, ReadingFrame, FailingFrame, AskFrame, VerifyFrame
       DEF readVars, verifyVars, vars
  <2> QED
    BY <1>2, <2>1, <2>2, <2>3, Steps
<1> QED
  BY <1>1, <1>2, AlwaysTyped, PTL DEF Spec

\* Every clause and every tenant is one the files of the target state, whatever the mapping of
\* the groups holds: the tenant of a group mapped to nothing is 'None', as str makes it.
THEOREM JudgedByWhatIsStatedCorrect == Spec => []JudgedByWhatIsStated
<1>1. RuleJudged /\ DocumentsJudged => JudgedByWhatIsStated
  <2> SUFFICES ASSUME RuleJudged, DocumentsJudged, variant # None
               PROVE  JudgedByWhatIsStated
    BY DEF JudgedByWhatIsStated
  <2> DEFINE mapping == target.target.source.group_to_tenant
  <2>1. \A group : Text(mapping[group]) = IF mapping[group] = None THEN "None" ELSE mapping[group]
    BY DEF Text
  <2> QED
    BY <2>1 DEF RuleJudged, DocumentsJudged, JudgedByWhatIsStated
<1> QED
  BY <1>1, RuleJudgedCorrect, DocumentsJudgedCorrect, PTL

----------------------------------------------------------------------------
(* What a finding says became of its chunk *)

Stamp(n) == [at |-> n, aware |-> TRUE]

\* The time of a file, set against that of a point or a chunk k made from it, tells k's history h.
Tells(k, ctime, ent, h) ==
  /\ ctime > k.ingested_at.at => h.changed \/ h.touched
  /\ ctime < k.ingested_at.at => (h.matched => k.entitlement = ent)

\* It does as long as a file is unread, and what was read of it goes on to do so.
ToldOf(k, d, h) ==
  /\ d \in DOMAIN documents =>
       h.late \/ Tells(k, documents[d].acl_modified_at.at, documents[d].entitlement, h)
  /\ d \in DOMAIN files \ DOMAIN documents =>
       Tells(k, files[d].ctime, Said(target, files[d]), h)

PointTold(i) ==
  points[i].ingested_at # None =>
    \E d \in DocIds, n \in Nat :
      /\ n <= now
      /\ points[i].source_document_ids = <<d>> /\ points[i].ingested_at = Stamp(n)
      /\ ToldOf(points[i], d, history[i])

\* No path is looked at twice.
ReadOnce ==
  /\ phase \in {"before", "list"} => documents = <<>> /\ pending = None
  /\ listed \cap DOMAIN documents = {}
  /\ pending # None => pending \notin listed \cup DOMAIN documents

DocumentsStamped ==
  \A d \in DOMAIN documents : \E n \in Nat : documents[d].acl_modified_at = Stamp(n)

FilesStamped == \A d \in DOMAIN files : files[d].ctime <= now

ToldBefore ==
  phase \in Before => ReadOnce /\ FilesStamped /\ \A i \in DOMAIN points : PointTold(i)

ChunkTold(c) ==
  variant.chunks[c].ingested_at # None =>
    \E d \in DocIds, n \in Nat :
      /\ variant.chunks[c].source_document_ids = <<d>> /\ variant.chunks[c].ingested_at = Stamp(n)
      /\ d \in DOMAIN documents =>
           LET h == history[inventoried[c]]
           IN  h.late \/ Tells(variant.chunks[c], documents[d].acl_modified_at.at,
                               documents[d].entitlement, h)

\* The inventory keeps what the points told when it was read.
ToldAfter ==
  phase \in Verifying =>
    /\ scenario.documents = documents
    /\ unexamined \subseteq DOMAIN inventoried
    /\ \A c \in DOMAIN inventoried : ChunkTold(c)

Told == DocumentsStamped /\ ToldBefore /\ ToldAfter /\ CauseTellsHistory

\* Once the index is read nothing is added to the history of its points.
LEMMA HistoryKept ==
  ASSUME Typed, World, phase \notin Before
  PROVE  history' = history
<1> USE DEF Typed, TypeOK
<1>1. ASSUME NEW d, NEW file, Touch(d, file)
      PROVE  history' = history
  <2>1. \A i \in PointIds : ~Recorded(d, i)
    BY DEF Recorded, Before
  <2>2. \A i \in PointIds : history'[i] = history[i]
    BY <1>1, <2>1 DEF Touch
  <2>3. DOMAIN history' = PointIds /\ history' = [i \in PointIds |-> history'[i]]
    BY <1>1 DEF Touch
  <2> QED
    BY <2>2, <2>3
<1>2. ASSUME NEW d, Remove(d) PROVE history' = history
  BY <1>2 DEF Remove
<1>3. ASSUME NEW i, NEW c, NEW d, NEW tag, Ingest(i, c, d, tag) PROVE FALSE
  BY <1>3 DEF Ingest, Before
<1>4. ASSUME NEW i, Discard(i) PROVE history' = history
  BY <1>4 DEF Discard
<1>5. ASSUME Tick PROVE history' = history
  BY <1>5 DEF Tick
<1> QED
  BY <1>1, <1>2, <1>3, <1>4, <1>5 DEF World

LEMMA TouchTold ==
  ASSUME Typed, ToldBefore, phase \in Before,
         NEW d \in DocIds, NEW g \in Owners, NEW w \in BOOLEAN,
         Touch(d, [group |-> g, world_readable |-> w, ctime |-> now])
  PROVE  FilesStamped' /\ \A i \in DOMAIN points' : PointTold(i)'
<1> DEFINE file == [group |-> g, world_readable |-> w, ctime |-> now]
           new == Said(target, file) # Said(target, files[d])
<1>1. /\ now' = now /\ points' = points /\ documents' = documents /\ d \in DOMAIN files
      /\ target' = target
      /\ files' = [files EXCEPT ![d] = file]
      /\ history' = [i \in PointIds |->
                       IF ~Recorded(d, i) THEN history[i]
                       ELSE [history[i] EXCEPT
                               !.matched = @ \/ points[i].entitlement = Said(target, file),
                               !.changed = @ \/ new,
                               !.touched = @ \/ ~new]]
  BY SaidByTarget DEF Touch, Changed, readVars
<1>2. now \in Nat
  BY BoundsAssumption DEF Typed, TypeOK
<1> HIDE DEF file
<1>3. /\ DOMAIN files' = DOMAIN files /\ files'[d] = file
      /\ \A e \in DOMAIN files : e # d => files'[e] = files[e]
  <2>1. files \in [DOMAIN files -> File]
    BY DEF Typed, TypeOK, IsDict
  <2>2. files' = [files EXCEPT ![d] = file] /\ d \in DOMAIN files
    BY <1>1
  <2> QED
    BY <2>1, <2>2
<1>4. file.ctime = now
  BY DEF file
<1>5. FilesStamped'
  <2>1. \A e \in DOMAIN files : files[e].ctime <= now
    BY DEF FilesStamped, ToldBefore
  <2>2. now' = now
    BY <1>1
  <2>3. ASSUME NEW e \in DOMAIN files PROVE files'[e].ctime <= now
    <3>1. CASE e = d
      BY <1>3, <1>2, <1>4, <3>1
    <3>2. CASE e # d
      BY <1>3, <2>1, <3>2
    <3> QED
      BY <3>1, <3>2
  <2> QED
    BY <1>3, <2>2, <2>3 DEF FilesStamped
<1>6. ASSUME NEW i \in DOMAIN points, points[i].ingested_at # None
      PROVE  PointTold(i)'
  <2>1. PICK e \in DocIds, n \in Nat :
          /\ n <= now
          /\ points[i].source_document_ids = <<e>> /\ points[i].ingested_at = Stamp(n)
          /\ ToldOf(points[i], e, history[i])
    BY <1>6 DEF ToldBefore, PointTold
  <2>2. i \in PointIds
    BY DEF Typed, TypeOK, IsDict
  <2>3. ToldOf(points[i], e, history[i])'
    <3>1. CASE e = d /\ d \notin DOMAIN documents
      <4>1. Recorded(d, i)
        BY <2>1, <3>1 DEF Recorded, Before
      <4>2. history'[i].changed = (history[i].changed \/ new)
            /\ history'[i].touched = (history[i].touched \/ ~new)
        BY <1>1, <2>2, <4>1 DEF Typed, TypeOK, History
      <4>3. history'[i].changed \/ history'[i].touched
        BY <4>2
      <4>4. files'[d].ctime = now /\ points'[i].ingested_at.at = n
        <5>1. files'[d].ctime = now
          BY <1>3, <1>4
        <5>2. points' = points /\ points[i].ingested_at = Stamp(n) /\ Stamp(n).at = n
          BY <1>1, <2>1 DEF Stamp
        <5> QED
          BY <5>1, <5>2
      <4>5. ~(now < n)
        BY <1>2, <2>1
      <4> QED
        BY <1>1, <3>1, <4>3, <4>4, <4>5 DEF ToldOf, Tells
    <3>2. CASE e # d
      <4>1. ~Recorded(d, i)
        BY <2>1, <3>2 DEF Recorded
      <4>2. history'[i] = history[i]
        BY <1>1, <2>2, <4>1
      <4> QED
        BY <1>3, <1>1, <2>1, <3>2, <4>2 DEF ToldOf, Tells
    <3>3. CASE e \in DOMAIN documents
      <4>1. ~Recorded(d, i)
        BY <2>1, <3>3 DEF Recorded
      <4>2. history'[i] = history[i]
        BY <1>1, <2>2, <4>1
      <4> QED
        BY <1>1, <2>1, <3>3, <4>2 DEF ToldOf, Tells
    <3> QED
      BY <3>1, <3>2, <3>3
  <2> QED
    BY <1>1, <2>1, <2>3 DEF PointTold
<1> QED
  BY <1>1, <1>5, <1>6 DEF PointTold

LEMMA RemoveTold ==
  ASSUME Typed, ToldBefore, phase \in Before, NEW d \in DocIds, Remove(d)
  PROVE  FilesStamped' /\ \A i \in DOMAIN points' : PointTold(i)'
<1>1. /\ now' = now /\ points' = points /\ documents' = documents /\ history' = history
      /\ target' = target
      /\ files' = [e \in DOMAIN files \ {d} |-> files[e]]
  BY DEF Remove, Changed, readVars
<1>2. /\ DOMAIN files' \subseteq DOMAIN files
      /\ \A e \in DOMAIN files' : files'[e] = files[e]
  BY <1>1
<1>3. FilesStamped'
  BY <1>1, <1>2 DEF FilesStamped, ToldBefore
<1>4. ASSUME NEW i \in DOMAIN points, points[i].ingested_at # None
      PROVE  PointTold(i)'
  <2>1. PICK e \in DocIds, n \in Nat :
          /\ n <= now
          /\ points[i].source_document_ids = <<e>> /\ points[i].ingested_at = Stamp(n)
          /\ ToldOf(points[i], e, history[i])
    BY <1>4 DEF ToldBefore, PointTold
  <2>2. ToldOf(points[i], e, history[i])'
    BY <1>1, <1>2, <2>1 DEF ToldOf, Tells
  <2> QED
    BY <1>1, <2>1, <2>2 DEF PointTold
<1> QED
  BY <1>1, <1>3, <1>4 DEF PointTold

LEMMA IngestTold ==
  ASSUME Typed, ToldBefore, phase \in Before,
         NEW i \in PointIds, NEW c \in ChunkIds, NEW d \in DocIds, NEW tag \in Tags,
         Ingest(i, c, d, tag)
  PROVE  FilesStamped' /\ \A j \in DOMAIN points' : PointTold(j)'
<1> DEFINE point == [chunk_id |-> c, source_document_ids |-> <<d>>, entitlement |-> tag,
                     ingested_at |-> Stamp(now)]
           fresh == [matched |-> tag = Said(target, files[d]), changed |-> FALSE,
                     touched |-> FALSE, late |-> d \in DOMAIN documents]
<1>1. /\ now' = now /\ files' = files /\ documents' = documents /\ d \in DOMAIN files
      /\ target' = target
  BY DEF Ingest, Changed, readVars
<1>2. points' = [j \in DOMAIN points \cup {i} |-> IF j # i THEN points[j] ELSE point]
  BY DEF Ingest, Stamp
<1>3. history' = [history EXCEPT ![i] = fresh]
  BY SaidByTarget DEF Ingest
<1>4. now \in Nat
  BY BoundsAssumption DEF Typed, TypeOK
<1>5. FilesStamped'
  BY <1>1 DEF FilesStamped, ToldBefore
<1>6. PointTold(i)'
  <2>1. points'[i] = point
    <3> HIDE DEF point
    <3> QED
      BY <1>2
  <2>2. history'[i] = fresh
    <3> HIDE DEF fresh
    <3> QED
      BY <1>3 DEF Typed, TypeOK
  <2>3. point.source_document_ids = <<d>> /\ point.ingested_at = Stamp(now) /\ point.entitlement = tag
    OBVIOUS
  <2>4. ToldOf(points[i], d, history[i])'
    <3>1. CASE d \in DOMAIN documents
      <4>1. fresh.late
        BY <3>1
      <4> QED
        BY <1>1, <2>2, <3>1, <4>1 DEF ToldOf
    <3>2. CASE d \notin DOMAIN documents
      <4>1. files[d].ctime <= now /\ files[d].ctime \in Nat
        BY <1>1 DEF ToldBefore, FilesStamped, Typed, TypeOK, IsDict, File
      <4>2. ~(files[d].ctime > now)
        BY <1>4, <4>1
      <4>3. fresh.matched => tag = Said(target, files[d])
        OBVIOUS
      <4>4. points'[i].ingested_at = Stamp(now) /\ Stamp(now).at = now /\ points'[i].entitlement = tag
        BY <2>1, <2>3 DEF Stamp
      <4>5. Tells(points'[i], files[d].ctime, Said(target, files[d]), history'[i])
        <5> HIDE DEF fresh
        <5> QED
          BY <2>2, <4>2, <4>3, <4>4 DEF Tells
      <4> QED
        BY <1>1, <3>2, <4>5 DEF ToldOf
    <3> QED
      BY <3>1, <3>2
  <2> HIDE DEF point, fresh
  <2>5. /\ points'[i].source_document_ids = <<d>> /\ points'[i].ingested_at = Stamp(now)
        /\ now <= now'
    BY <1>1, <1>4, <2>1, <2>3
  <2> QED
    BY <1>4, <2>4, <2>5 DEF PointTold
<1>7. ASSUME NEW j \in DOMAIN points, j # i, points[j].ingested_at # None
      PROVE  PointTold(j)'
  <2>1. PICK e \in DocIds, n \in Nat :
          /\ n <= now
          /\ points[j].source_document_ids = <<e>> /\ points[j].ingested_at = Stamp(n)
          /\ ToldOf(points[j], e, history[j])
    BY <1>7 DEF ToldBefore, PointTold
  <2>2. points'[j] = points[j] /\ history'[j] = history[j]
    <3> HIDE DEF point, fresh
    <3>1. j \in PointIds
      BY DEF Typed, TypeOK, IsDict
    <3> QED
      BY <1>2, <1>3, <1>7, <3>1 DEF Typed, TypeOK
  <2>3. ToldOf(points[j], e, history[j])'
    BY <1>1, <2>1, <2>2 DEF ToldOf, Tells
  <2> QED
    BY <1>1, <2>1, <2>2, <2>3 DEF PointTold
<1>8. ASSUME NEW j \in DOMAIN points, j # i, points[j].ingested_at = None
      PROVE  PointTold(j)'
  <2>1. points'[j] = points[j]
    BY <1>2, <1>8
  <2> QED
    BY <1>8, <2>1 DEF PointTold
<1>9. DOMAIN points' = DOMAIN points \cup {i}
  BY <1>2
<1> QED
  BY <1>5, <1>6, <1>7, <1>8, <1>9

LEMMA DiscardTold ==
  ASSUME Typed, ToldBefore, phase \in Before, NEW i \in PointIds, Discard(i)
  PROVE  FilesStamped' /\ \A j \in DOMAIN points' : PointTold(j)'
<1>1. /\ now' = now /\ files' = files /\ documents' = documents /\ history' = history
      /\ target' = target
      /\ points' = [j \in DOMAIN points \ {i} |-> points[j]]
  BY DEF Discard, Changed, readVars
<1>2. \A j \in DOMAIN points' : j \in DOMAIN points /\ points'[j] = points[j]
  BY <1>1
<1>3. ASSUME NEW j \in DOMAIN points' PROVE PointTold(j)'
  BY <1>1, <1>2 DEF PointTold, ToldBefore, ToldOf, Tells
<1> QED
  BY <1>1, <1>3 DEF FilesStamped, ToldBefore

LEMMA TickTold ==
  ASSUME Typed, ToldBefore, phase \in Before, Tick
  PROVE  FilesStamped' /\ \A i \in DOMAIN points' : PointTold(i)'
<1>1. /\ UNCHANGED <<files, points, history, documents, target>> /\ now' = now + 1
  BY DEF Tick, readVars
<1>2. now \in Nat
  BY BoundsAssumption DEF Typed, TypeOK
<1>3. FilesStamped'
  <2>1. ASSUME NEW d \in DOMAIN files PROVE files[d].ctime <= now'
    BY <1>1, <1>2 DEF ToldBefore, FilesStamped, Typed, TypeOK, IsDict, File
  <2> QED
    BY <1>1, <2>1 DEF FilesStamped
<1>4. ASSUME NEW i \in DOMAIN points, points[i].ingested_at # None
      PROVE  PointTold(i)'
  <2>1. PICK e \in DocIds, n \in Nat :
          /\ n <= now
          /\ points[i].source_document_ids = <<e>> /\ points[i].ingested_at = Stamp(n)
          /\ ToldOf(points[i], e, history[i])
    BY <1>4 DEF ToldBefore, PointTold
  <2>2. n <= now'
    BY <1>1, <1>2, <2>1
  <2>3. ToldOf(points[i], e, history[i])'
    BY <1>1, <2>1 DEF ToldOf, Tells
  <2> QED
    BY <1>1, <2>1, <2>2, <2>3 DEF PointTold
<1> QED
  BY <1>1, <1>3, <1>4 DEF PointTold

LEMMA WorldTold ==
  ASSUME Typed, Told, World
  PROVE  Told'
<1>1. UNCHANGED <<readVars, verifyVars>>
  BY WorldFrame
<1>2. UNCHANGED <<documents, inventoried, listed, pending, scenario, variant, unexamined, findings, phase>>
  BY <1>1 DEF readVars, verifyVars, propagationVars
<1>3. DocumentsStamped'
  BY <1>2 DEF Told, DocumentsStamped
<1>4. CASE phase \in Before
  <2>1. FilesStamped' /\ \A i \in DOMAIN points' : PointTold(i)'
    BY <1>4, TouchTold, RemoveTold, IngestTold, DiscardTold, TickTold DEF Told, World
  <2>2. ReadOnce'
    BY <1>2, <1>4 DEF Told, ToldBefore, ReadOnce
  <2>3. ToldAfter'
    BY <1>2, <1>4 DEF ToldAfter, Before, Verifying
  <2>4. findings' = {}
    BY <1>2, <1>4 DEF Typed, Progress
  <2> QED
    BY <1>3, <2>1, <2>2, <2>3, <2>4 DEF Told, ToldBefore, CauseTellsHistory
<1>5. CASE phase \notin Before
  <2>1. history' = history
    BY <1>5, HistoryKept
  <2>2. ToldBefore'
    BY <1>2, <1>5 DEF ToldBefore
  <2>3. ToldAfter'
    BY <1>2, <2>1 DEF Told, ToldAfter, ChunkTold, Tells
  <2>4. CauseTellsHistory'
    BY <1>2, <2>1 DEF Told, CauseTellsHistory
  <2> QED
    BY <1>3, <2>2, <2>3, <2>4 DEF Told
<1> QED
  BY <1>4, <1>5

LEMMA ReadingTold ==
  ASSUME Typed, Told, ReadingAction
  PROVE  Told'
<1>1. /\ UNCHANGED <<files, points, now, history, inventoried, target, scenario, variant, findings>>
      /\ phase \in Before /\ phase' \in Before
  BY ReadingFrame DEF worldVars, propagationVars
<1>2. ToldBefore /\ ReadOnce /\ FilesStamped /\ \A i \in DOMAIN points : PointTold(i)
  BY <1>1 DEF Told, ToldBefore
<1>3. ToldAfter' /\ CauseTellsHistory' /\ FilesStamped'
  BY <1>1, <1>2 DEF ToldAfter, Before, Verifying, Typed, Progress, CauseTellsHistory, FilesStamped
<1>4. ASSUME documents' = documents PROVE DocumentsStamped' /\ \A i \in DOMAIN points' : PointTold(i)'
  BY <1>1, <1>2, <1>4 DEF Told, DocumentsStamped, PointTold, ToldOf, Tells
<1>5. CASE Begin \/ DocumentsRead
  <2>1. ReadOnce' /\ documents' = documents
    BY <1>2, <1>5 DEF Begin, DocumentsRead, Reading, ReadOnce
  <2> QED
    BY <1>3, <1>4, <2>1 DEF Told, ToldBefore
<1>6. CASE ListFiles
  <2>1. ReadOnce' /\ documents' = documents
    BY <1>2, <1>6 DEF ListFiles, Reading, ReadOnce
  <2> QED
    BY <1>3, <1>4, <2>1 DEF Told, ToldBefore
<1>7. CASE \E d \in listed : CheckFile(d)
  <2>1. ReadOnce' /\ documents' = documents
    BY <1>2, <1>7 DEF CheckFile, Reading, ReadOnce
  <2> QED
    BY <1>3, <1>4, <2>1 DEF Told, ToldBefore
<1>8. CASE StatFile
  <2>1. /\ pending # None /\ pending \in DOMAIN files /\ pending' = None /\ listed' = listed
        /\ phase' = "files"
        /\ documents' = [d \in DOMAIN documents \cup {pending} |->
                           IF d = pending THEN DocumentOf(files[d]) ELSE documents[d]]
    BY <1>8 DEF StatFile, Reading
  <2>2. pending \notin listed \cup DOMAIN documents
    BY <1>2, <2>1 DEF ReadOnce
  <2>3. /\ DOMAIN documents' = DOMAIN documents \cup {pending}
        /\ documents'[pending] = DocumentOf(files[pending])
        /\ \A d \in DOMAIN documents : documents'[d] = documents[d]
    BY <2>1, <2>2
  <2>4. ReadOnce'
    BY <1>2, <2>1, <2>2, <2>3 DEF ReadOnce
  <2>5. /\ DocumentOf(files[pending]).acl_modified_at = Stamp(files[pending].ctime)
        /\ DocumentOf(files[pending]).acl_modified_at.at = files[pending].ctime
        /\ DocumentOf(files[pending]).entitlement = Said(target, files[pending])
        /\ files[pending].ctime \in Nat
    BY <2>1, SaidByTarget DEF DocumentOf, Stamp, Typed, TypeOK, IsDict, File
  <2>6. DocumentsStamped'
    BY <2>3, <2>5 DEF Told, DocumentsStamped
  <2>7. ASSUME NEW i \in DOMAIN points, points[i].ingested_at # None
        PROVE  PointTold(i)'
    <3>1. PICK e \in DocIds, n \in Nat :
            /\ n <= now
            /\ points[i].source_document_ids = <<e>> /\ points[i].ingested_at = Stamp(n)
            /\ ToldOf(points[i], e, history[i])
      BY <1>2, <2>7 DEF PointTold
    <3>2. ToldOf(points[i], e, history[i])'
      <4>1. CASE e = pending
        BY <1>1, <2>1, <2>2, <2>3, <2>5, <3>1, <4>1 DEF ToldOf, Tells
      <4>2. CASE e # pending
        BY <1>1, <2>3, <3>1, <4>2 DEF ToldOf, Tells
      <4> QED
        BY <4>1, <4>2
    <3> QED
      BY <1>1, <3>1, <3>2 DEF PointTold
  <2>8. \A i \in DOMAIN points' : PointTold(i)'
    BY <1>1, <2>7 DEF PointTold
  <2> QED
    BY <1>3, <2>4, <2>6, <2>8 DEF Told, ToldBefore
<1> QED
  BY <1>5, <1>6, <1>7, <1>8 DEF ReadingAction

LEMMA FailingTold ==
  ASSUME Typed, Told, FailingAction
  PROVE  Told'
<1>1. /\ UNCHANGED <<documents, findings>>
      /\ phase \in Before /\ phase' = "exited"
  BY FailingFrame DEF readVars, propagationVars
<1> QED
  BY <1>1 DEF Told, DocumentsStamped, ToldBefore, ToldAfter, CauseTellsHistory, Before, Verifying,
     Typed, Progress

LEMMA ReadIndexTold ==
  ASSUME Typed, Told, ReadIndex
  PROVE  Told'
<1>1. /\ UNCHANGED <<documents, findings, history>> /\ phase = "inventory"
      /\ phase' = "check_propagation" /\ scenario' = ScenarioRead /\ variant' = VariantRead
      /\ unexamined' = ChunkIdsHeld
      /\ inventoried' = [c \in ChunkIdsHeld |-> PointOfChunk(c)]
  BY DEF ReadIndex, worldVars, propagationVars
<1>2. \A i \in DOMAIN points : PointTold(i)
  BY <1>1 DEF Told, ToldBefore, Before
<1>3. ASSUME NEW c \in ChunkIdsHeld
      PROVE  ChunkTold(c)'
  <2> DEFINE i == PointOfChunk(c)
  <2>1. i \in DOMAIN points /\ VariantRead.chunks[c] = ChunkOfPoint(i)
    BY IndexRead DEF Typed, TypeOK
  <2>2. variant'.chunks[c] = ChunkOfPoint(i) /\ inventoried'[c] = i
    BY <1>1, <2>1
  <2>3. /\ ChunkOfPoint(i).source_document_ids = points[i].source_document_ids
        /\ ChunkOfPoint(i).entitlement = points[i].entitlement
        /\ ChunkOfPoint(i).ingested_at = points[i].ingested_at
    BY DEF ChunkOfPoint
  <2> HIDE DEF i
  <2> QED
    BY <1>1, <1>2, <2>1, <2>2, <2>3 DEF ChunkTold, PointTold, ToldOf, Tells
<1>4. ToldAfter'
  <2>1. scenario'.documents = documents'
    BY <1>1 DEF ScenarioRead
  <2>2. DOMAIN inventoried' = ChunkIdsHeld
    BY <1>1
  <2> QED
    BY <1>1, <1>3, <2>1, <2>2 DEF ToldAfter
<1>5. findings' = {}
  BY <1>1 DEF Typed, Progress, Before
<1> QED
  BY <1>1, <1>4, <1>5 DEF Told, DocumentsStamped, ToldBefore, Before, CauseTellsHistory

\* What the propagation axis finds of a chunk of one source: that the two disagree, and the
\* cause their times tell.
FromTimes(f, c) ==
  \E j \in DOMAIN variant.chunks[c].source_document_ids :
    LET chunk == variant.chunks[c]
        d == chunk.source_document_ids[j]
        doc == scenario.documents[d]
    IN  /\ f.chunk_id = c /\ d \in DOMAIN scenario.documents
        /\ chunk.entitlement # doc.entitlement
        /\ f.cause # "undetermined" => chunk.ingested_at # None
        /\ f.cause = "drift" => doc.acl_modified_at.at > chunk.ingested_at.at
        /\ f.cause = "propagation-fault" => ~(doc.acl_modified_at.at > chunk.ingested_at.at)

LEMMA FindingFrom ==
  ASSUME Verification!CheckPropagation, NEW f \in findings', f \notin findings,
         f.cause \in {"propagation-fault", "drift"}
  PROVE  \E c \in unexamined : FromTimes(f, c)
<1>1. ASSUME NEW c, NEW verdict, NEW cause, NEW expected,
             Verification!Propagation!Found(c, verdict, cause, expected)
      PROVE  f.chunk_id = c /\ f.cause = cause
  BY <1>1 DEF Verification!Propagation!Found
<1>2. ASSUME Verification!Propagation!ReportIndeterminate \/ Verification!Propagation!ReportExceeding
      PROVE  FALSE
  BY <1>1, <1>2 DEF Verification!Propagation!ReportIndeterminate,
     Verification!Propagation!ReportExceeding, Verification!Propagation!Judge
<1>3. ASSUME Verification!Propagation!IntersectNext
      PROVE  FALSE
  BY <1>3 DEF Verification!Propagation!IntersectNext
<1>4. ASSUME NEW c \in unexamined, Verification!Propagation!ExamineChunk(c)
      PROVE  FromTimes(f, c)
  <2>1. Verification!Propagation!ContradictSingleSource(c)
    BY <1>1, <1>4 DEF Verification!Propagation!ExamineChunk,
       Verification!Propagation!ReportUntraceable, Verification!Propagation!PassSingleSource,
       Verification!Propagation!FailOnTimes, Verification!Propagation!StartBound
  <2> DEFINE chunk == variant.chunks[c]
  <2>2. PICK j \in DOMAIN chunk.source_document_ids :
          /\ chunk.source_document_ids[j] \in DOMAIN scenario.documents
          /\ ~Verification!Propagation!Same(
                 chunk.entitlement, scenario.documents[chunk.source_document_ids[j]].entitlement)
          /\ Verification!Propagation!Found(
                 c, "contradicted",
                 Verification!Propagation!CauseFromTimestamps(
                   chunk, scenario.documents[chunk.source_document_ids[j]]),
                 scenario.documents[chunk.source_document_ids[j]].entitlement)
    BY <2>1 DEF Verification!Propagation!ContradictSingleSource,
       Verification!Propagation!LocatedOf, Verification!Propagation!Located,
       Verification!Propagation!SourceOf, Verification!Propagation!SourceAt,
       Verification!Propagation!TagOf, Verification!Propagation!ChunkOf
  <2> DEFINE doc == scenario.documents[chunk.source_document_ids[j]]
  <2>3. /\ f.chunk_id = c
        /\ f.cause = Verification!Propagation!CauseFromTimestamps(chunk, doc)
    BY <1>1, <2>2
  <2>4. chunk.entitlement # doc.entitlement
    BY <2>2 DEF Verification!Propagation!Same
  <2>5. /\ f.cause # "undetermined" => chunk.ingested_at # None
        /\ f.cause = "drift" => doc.acl_modified_at.at > chunk.ingested_at.at
        /\ f.cause = "propagation-fault" => ~(doc.acl_modified_at.at > chunk.ingested_at.at)
    BY <2>3 DEF Verification!Propagation!CauseFromTimestamps, Verification!Propagation!TimesKnown
  <2> QED
    BY <2>2, <2>3, <2>4, <2>5 DEF FromTimes
<1> QED
  BY <1>2, <1>3, <1>4 DEF Verification!CheckPropagation, Verification!Propagation!Next

LEMMA UnexaminedShrinks ==
  ASSUME VerifyOn
  PROVE  unexamined' \subseteq unexamined
<1>1. CASE Verification!CheckPropagation
  BY <1>1 DEF Verification!CheckPropagation, Verification!Propagation!Next,
     Verification!Propagation!ExamineChunk, Verification!Propagation!ReportUntraceable,
     Verification!Propagation!PassSingleSource, Verification!Propagation!ContradictSingleSource,
     Verification!Propagation!FailOnTimes, Verification!Propagation!StartBound,
     Verification!Propagation!IntersectNext, Verification!Propagation!ReportIndeterminate,
     Verification!Propagation!ReportExceeding, Verification!Propagation!Judge,
     Verification!Propagation!Finished
<1>2. CASE ~Verification!CheckPropagation
  <2>1. unexamined' = unexamined
    BY <1>2, ProbesFrame DEF VerifyOn, Verification!Next, Verification!PropagationReturns,
       Verification!MakeReport, Verification!Exit, Verification!Raise,
       Verification!propagationVars, propagationVars
  <2> QED
    BY <2>1
<1> QED
  BY <1>1, <1>2

\* A chunk whose inventory entry tells its history is blamed accordingly.
LEMMA BlameTold ==
  ASSUME NEW f, NEW c \in DOMAIN inventoried, FromTimes(f, c), ChunkTold(c), DocumentsStamped,
         scenario.documents = documents, f.cause \in {"propagation-fault", "drift"}
  PROVE  LET h == history[inventoried[f.chunk_id]]
             chunk == variant.chunks[f.chunk_id]
             doc == documents[chunk.source_document_ids[1]]
         IN  h.late \/ chunk.ingested_at = doc.acl_modified_at
               \/ IF f.cause = "drift" THEN h.changed \/ h.touched ELSE ~h.matched
<1> DEFINE chunk == variant.chunks[c]
           h == history[inventoried[c]]
<1>1. PICK j \in DOMAIN chunk.source_document_ids :
        LET d == chunk.source_document_ids[j]
            doc == scenario.documents[d]
        IN  /\ f.chunk_id = c /\ d \in DOMAIN scenario.documents
            /\ chunk.entitlement # doc.entitlement
            /\ f.cause # "undetermined" => chunk.ingested_at # None
            /\ f.cause = "drift" => doc.acl_modified_at.at > chunk.ingested_at.at
            /\ f.cause = "propagation-fault" => ~(doc.acl_modified_at.at > chunk.ingested_at.at)
  BY DEF FromTimes
<1>2. PICK d \in DocIds, n \in Nat :
        /\ chunk.source_document_ids = <<d>> /\ chunk.ingested_at = Stamp(n)
        /\ d \in DOMAIN documents =>
             h.late \/ Tells(chunk, documents[d].acl_modified_at.at, documents[d].entitlement, h)
  BY <1>1 DEF ChunkTold
<1>3. chunk.source_document_ids[j] = d /\ chunk.source_document_ids[1] = d
  BY <1>1, <1>2
<1>4. d \in DOMAIN documents /\ chunk.entitlement # documents[d].entitlement
  BY <1>1, <1>3
<1>5. PICK m \in Nat : documents[d].acl_modified_at = Stamp(m)
  BY <1>4 DEF DocumentsStamped
<1>6. chunk.ingested_at.at = n /\ documents[d].acl_modified_at.at = m
  BY <1>2, <1>5 DEF Stamp
<1>7. CASE h.late
  BY <1>1, <1>7
<1>8. CASE ~h.late
  <2>1. /\ m > n => h.changed \/ h.touched
        /\ m < n => ~h.matched
    BY <1>2, <1>4, <1>6, <1>8 DEF Tells
  <2>2. CASE f.cause = "drift"
    <3>1. m > n
      BY <1>1, <1>3, <1>6, <2>2
    <3> QED
      BY <1>1, <2>1, <2>2, <3>1
  <2>3. CASE f.cause # "drift"
    <3>1. ~(m > n)
      BY <1>1, <1>3, <1>6, <2>3
    <3>2. m = n \/ ~h.matched
      BY <2>1, <3>1
    <3> QED
      BY <1>1, <1>2, <1>3, <1>5, <2>3, <3>2
  <2> QED
    BY <2>2, <2>3
<1> QED
  BY <1>7, <1>8

LEMMA VerifyTold ==
  ASSUME Typed, Told, AskStore \/ VerifyOn
  PROVE  Told'
<1>1. /\ UNCHANGED <<history, inventoried, documents, scenario, variant>>
      /\ phase \in Verifying /\ phase' \in Verifying \cup {"exited"}
  BY AskFrame, VerifyFrame DEF worldVars, readVars, Verifying
<1>2. unexamined' \subseteq unexamined
  BY AskFrame, UnexaminedShrinks DEF propagationVars
<1>3. DocumentsStamped' /\ ToldBefore' /\ ToldAfter'
  BY <1>1, <1>2
     DEF Told, DocumentsStamped, ToldBefore, ToldAfter, ChunkTold, Tells, Before, Verifying
<1>4. CauseTellsHistory'
  <2>1. CASE findings' = findings
    BY <1>1, <2>1 DEF Told, CauseTellsHistory
  <2>2. CASE Verification!CheckPropagation
    <3> SUFFICES ASSUME NEW f \in findings', f.verdict = "contradicted",
                        f.cause \in {"propagation-fault", "drift"}
                 PROVE  LET h == history[inventoried[f.chunk_id]]
                            chunk == variant.chunks[f.chunk_id]
                            doc == documents[chunk.source_document_ids[1]]
                        IN  h.late \/ chunk.ingested_at = doc.acl_modified_at
                              \/ IF f.cause = "drift" THEN h.changed \/ h.touched ELSE ~h.matched
      BY <1>1 DEF CauseTellsHistory
    <3>1. CASE f \in findings
      BY <3>1 DEF Told, CauseTellsHistory
    <3>2. CASE f \notin findings
      <4>1. PICK c \in unexamined : FromTimes(f, c)
        BY <2>2, <3>2, FindingFrom
      <4>2. c \in DOMAIN inventoried /\ ChunkTold(c) /\ scenario.documents = documents
        BY <1>1 DEF Told, ToldAfter
      <4> QED
        BY <4>1, <4>2, BlameTold DEF Told
    <3> QED
      BY <3>1, <3>2
  <2> QED
    BY <2>1, <2>2, AskFrame, VerifyFrame DEF propagationVars
<1> QED
  BY <1>3, <1>4 DEF Told

LEMMA AlwaysTold == Spec => []Told
<1>1. Init => Told
  <2> SUFFICES ASSUME Init PROVE Told
    OBVIOUS
  <2>1. PICK w \in Worlds : files = w.files /\ points = w.points
    BY DEF Init
  <2>2. FilesStamped /\ \A i \in DOMAIN points : PointTold(i)
    <3>1. \A d \in DOMAIN files : files[d].ctime = 0
      BY <2>1, WorldsAssumption
    <3>2. \A i \in DOMAIN points : points[i].ingested_at = None
      BY <2>1, WorldsAssumption
    <3> QED
      BY <3>1, <3>2 DEF FilesStamped, PointTold, Init
  <2>3. documents = <<>> /\ listed = {} /\ pending = None /\ findings = {} /\ phase = "before"
    BY DEF Init
  <2>4. DOMAIN documents = {}
    BY <2>3
  <2> QED
    BY <2>2, <2>3, <2>4 DEF Told, DocumentsStamped, ToldBefore, ReadOnce, ToldAfter, Verifying,
       CauseTellsHistory
<1>2. Typed /\ Told /\ UNCHANGED vars => Told'
  <2> SUFFICES ASSUME Told, UNCHANGED vars PROVE Told'
    OBVIOUS
  <2>1. UNCHANGED <<target, files, points, now, history, documents, inventoried, listed, pending, scenario,
                    variant, unexamined, findings, phase>>
    BY DEF vars, worldVars, readVars, verifyVars, propagationVars
  <2> QED
    BY <2>1 DEF Told, DocumentsStamped, ToldBefore, ReadOnce, FilesStamped, PointTold, ToldOf, Tells,
       ToldAfter, ChunkTold, CauseTellsHistory
<1>3. Typed /\ Told /\ [Next]_vars => Told'
  BY <1>2, Steps, WorldTold, ReadingTold, FailingTold, ReadIndexTold, VerifyTold
<1> QED
  BY <1>1, <1>3, AlwaysTyped, PTL DEF Spec

\* However often files are changed and points ingested between the steps of a scan, a finding
\* that names a cause names one that its chunk's history bears out.
THEOREM CauseTellsHistoryCorrect == Spec => []CauseTellsHistory
<1>1. Told => CauseTellsHistory
  BY DEF Told
<1> QED
  BY <1>1, AlwaysTold, PTL

----------------------------------------------------------------------------
(* A quiet scan: the findings *)

SourcesOf(c) == Located(scenario, variant.chunks[c])

\* The one source of the chunk says what its tag says.
Silent(c) ==
  \E j \in SourcesOf(c) :
    /\ SourcesOf(c) = {j}
    /\ variant.chunks[c].entitlement = SourceAt(scenario, variant.chunks[c], j).entitlement

HasFinding(c, found) == \E f \in found : f.chunk_id = c

FindingsExact ==
  /\ phase \in Before => current = None /\ results = {} /\ report = None
  /\ phase \in Verifying =>
       /\ unexamined \subseteq DOMAIN variant.chunks
       /\ current # None => current \in unexamined /\ ~Silent(current)
       /\ \A c \in DOMAIN variant.chunks :
            HasFinding(c, findings) <=> c \notin unexamined /\ ~Silent(c)
  /\ phase \in {"run_probes", "report"} => unexamined = {}
  /\ report # None =>
       \A c \in DOMAIN variant.chunks : HasFinding(c, report.propagation) <=> ~Silent(c)

\* What the axis looks at is what its own instance of these operators says.
LEMMA AxisView ==
  /\ \A c : Verification!Propagation!LocatedOf(c) = SourcesOf(c)
  /\ \A c : Verification!Propagation!TagOf(c) = variant.chunks[c].entitlement
  /\ \A c, j : Verification!Propagation!SourceOf(c, j) = SourceAt(scenario, variant.chunks[c], j)
BY DEF Verification!Propagation!LocatedOf, Verification!Propagation!Located,
   Verification!Propagation!SourceOf, Verification!Propagation!SourceAt,
   Verification!Propagation!TagOf, Verification!Propagation!ChunkOf, SourcesOf, Located, SourceAt

\* Every way through the loop either leaves findings and chunks to do as they are, or is done
\* with a chunk: without a finding when it is silent, with one when it is not.
LEMMA AxisStep ==
  ASSUME Verification!CheckPropagation, IsScenario(scenario), IsVariant(variant),
         unexamined \subseteq DOMAIN variant.chunks,
         current # None => current \in unexamined /\ ~Silent(current)
  PROVE  \/ /\ findings' = findings /\ unexamined' = unexamined
            /\ current' # None => current' \in unexamined /\ ~Silent(current')
         \/ /\ current' = None
            /\ \E c \in unexamined :
                 /\ unexamined' = unexamined \ {c}
                 /\ \/ Silent(c) /\ findings' = findings
                    \/ ~Silent(c) /\ \E f : f.chunk_id = c /\ findings' = findings \cup {f}
<1>1. ASSUME NEW c, NEW verdict, NEW cause, NEW expected,
             Verification!Propagation!Found(c, verdict, cause, expected)
      PROVE  \E f : f.chunk_id = c /\ findings' = findings \cup {f}
  <2> DEFINE f == [chunk_id |-> c, verdict |-> verdict, cause |-> cause,
                   observed |-> Verification!Propagation!TagOf(c), expected |-> expected]
  <2>1. f.chunk_id = c /\ findings' = findings \cup {f}
    BY <1>1 DEF Verification!Propagation!Found
  <2> HIDE DEF f
  <2> QED
    BY <2>1
<1>2. CASE Verification!Propagation!IntersectNext
  BY <1>2 DEF Verification!Propagation!IntersectNext
<1>3. CASE Verification!Propagation!ReportIndeterminate \/ Verification!Propagation!ReportExceeding
  <2>1. PICK verdict, cause : Verification!Propagation!Judge(verdict, cause) /\ current # None
    BY <1>3 DEF Verification!Propagation!ReportIndeterminate, Verification!Propagation!ReportExceeding
  <2> QED
    BY <1>1, <2>1 DEF Verification!Propagation!Judge, Verification!Propagation!Finished
<1>4. ASSUME NEW c \in unexamined, Verification!Propagation!ReportUntraceable(c)
      PROVE  /\ current' = None /\ unexamined' = unexamined \ {c} /\ ~Silent(c)
             /\ \E f : f.chunk_id = c /\ findings' = findings \cup {f}
  BY <1>1, <1>4, AxisView DEF Verification!Propagation!ReportUntraceable,
     Verification!Propagation!NextChunk, Verification!Propagation!Finished, Silent
<1>5. ASSUME NEW c \in unexamined, Verification!Propagation!PassSingleSource(c)
      PROVE  /\ current' = None /\ unexamined' = unexamined \ {c} /\ findings' = findings
             /\ Silent(c)
  <2>1. PICK j \in SourcesOf(c) :
          /\ SourcesOf(c) = {j}
          /\ Verification!Propagation!Same(
               variant.chunks[c].entitlement,
               SourceAt(scenario, variant.chunks[c], j).entitlement)
    BY <1>5, AxisView DEF Verification!Propagation!PassSingleSource
  <2>2. variant.chunks[c].entitlement \in Entitlement
    BY DEF IsVariant, IsDict, Chunk
  <2>3. SourceAt(scenario, variant.chunks[c], j).entitlement \in Entitlement
    BY DEF SourcesOf, Located, SourceAt, IsScenario, IsDict, SourceDocument
  <2>4. Silent(c)
    BY <2>1, <2>2, <2>3 DEF Silent, Verification!Propagation!Same, Entitlement
  <2> QED
    BY <1>5, <2>4 DEF Verification!Propagation!PassSingleSource,
       Verification!Propagation!NextChunk, Verification!Propagation!Finished
<1>6. ASSUME NEW c \in unexamined, Verification!Propagation!ContradictSingleSource(c)
      PROVE  /\ current' = None /\ unexamined' = unexamined \ {c} /\ ~Silent(c)
             /\ \E f : f.chunk_id = c /\ findings' = findings \cup {f}
  <2>1. PICK j \in SourcesOf(c) :
          /\ SourcesOf(c) = {j}
          /\ ~Verification!Propagation!Same(
                variant.chunks[c].entitlement,
                SourceAt(scenario, variant.chunks[c], j).entitlement)
          /\ \E verdict, cause, expected :
               Verification!Propagation!Found(c, verdict, cause, expected)
    BY <1>6, AxisView DEF Verification!Propagation!ContradictSingleSource
  <2>2. ~Silent(c)
    BY <2>1 DEF Silent, Verification!Propagation!Same
  <2> QED
    BY <1>1, <1>6, <2>1, <2>2 DEF Verification!Propagation!ContradictSingleSource,
       Verification!Propagation!NextChunk, Verification!Propagation!Finished
<1>7. ASSUME NEW c \in unexamined, Verification!Propagation!FailOnTimes(c)
      PROVE  findings' = findings /\ unexamined' = unexamined /\ current' = None
  BY <1>7 DEF Verification!Propagation!FailOnTimes, Verification!Propagation!NextChunk
<1>8. ASSUME NEW c \in unexamined, Verification!Propagation!StartBound(c)
      PROVE  /\ findings' = findings /\ unexamined' = unexamined
             /\ current' = c /\ ~Silent(c)
  BY <1>8, AxisView DEF Verification!Propagation!StartBound, Silent
<1>9. ASSUME NEW c \in unexamined, Verification!Propagation!ExamineChunk(c)
      PROVE  \/ /\ findings' = findings /\ unexamined' = unexamined
                /\ current' # None => current' \in unexamined /\ ~Silent(current')
             \/ /\ current' = None
                /\ unexamined' = unexamined \ {c}
                /\ \/ Silent(c) /\ findings' = findings
                   \/ ~Silent(c) /\ \E f : f.chunk_id = c /\ findings' = findings \cup {f}
  BY <1>4, <1>5, <1>6, <1>7, <1>8, <1>9 DEF Verification!Propagation!ExamineChunk
<1> QED
  BY <1>2, <1>3, <1>9
     DEF Verification!CheckPropagation, Verification!Propagation!Next

\* Being done with a chunk says of this one whether it is silent, and of the others nothing new.
LEMMA AxisExact ==
  ASSUME Typed, FindingsExact, Verification!CheckPropagation
  PROVE  /\ unexamined' \subseteq unexamined
         /\ current' # None => current' \in unexamined' /\ ~Silent(current')
         /\ \A c \in DOMAIN variant.chunks :
              HasFinding(c, findings') <=> c \notin unexamined' /\ ~Silent(c)
<1>1. phase \in Verifying
  BY PropagationFrame DEF Verifying
<1>2. /\ IsScenario(scenario) /\ IsVariant(variant) /\ unexamined \subseteq DOMAIN variant.chunks
      /\ current # None => current \in unexamined /\ ~Silent(current)
      /\ \A c \in DOMAIN variant.chunks :
           HasFinding(c, findings) <=> c \notin unexamined /\ ~Silent(c)
  BY <1>1 DEF Typed, Progress, FindingsExact
<1> QED
  BY <1>2, AxisStep DEF HasFinding

LEMMA FindingsStep ==
  ASSUME Typed, FindingsExact, [Next]_vars
  PROVE  FindingsExact'
<1>a. ASSUME UNCHANGED <<scenario, variant>>
      PROVE  \A c : Silent(c)' <=> Silent(c)
  BY <1>a DEF Silent, SourcesOf
<1>b. ASSUME UNCHANGED <<scenario, variant, current>>
      PROVE  Silent(current)' <=> Silent(current)
  BY <1>b DEF Silent, SourcesOf
<1>1. ASSUME UNCHANGED <<current, results, report, unexamined, findings, scenario, variant>>,
             phase' = phase \/ (phase \in Before /\ phase' \in Before) \/ phase' = "exited"
      PROVE  FindingsExact'
  <2> USE DEF HasFinding
  <2>1. CASE phase' = phase
    BY <1>a, <1>b, <1>1, <2>1 DEF FindingsExact
  <2>2. CASE phase \in Before /\ phase' \in Before
    BY <1>1, <2>2 DEF FindingsExact, Before, Verifying
  <2>3. CASE phase' = "exited"
    BY <1>a, <1>1, <2>3 DEF FindingsExact, Before, Verifying
  <2> QED
    BY <1>1, <2>1, <2>2, <2>3
<1>2. CASE World \/ UNCHANGED vars
  <2>1. UNCHANGED <<current, results, report, unexamined, findings, scenario, variant, phase>>
    BY <1>2, WorldFrame DEF vars, verifyVars, propagationVars, probesVars
  <2> QED
    BY <1>1, <2>1
<1>3. CASE ReadingAction
  <2>1. UNCHANGED <<current, results, report, unexamined, findings, scenario, variant>>
    BY <1>3, ReadingFrame DEF propagationVars, probesVars
  <2> QED
    BY <1>1, <1>3, <2>1, ReadingFrame
<1>4. CASE FailingAction
  <2>1. UNCHANGED <<current, results, report, unexamined, findings, scenario, variant>>
    BY <1>4, FailingFrame DEF propagationVars, probesVars
  <2> QED
    BY <1>1, <1>4, <2>1, FailingFrame
<1>5. CASE ReadIndex
  <2>1. /\ current' = None /\ report' = None /\ findings' = {} /\ phase' = "check_propagation"
        /\ unexamined' = ChunkIdsHeld /\ variant' = VariantRead
    BY <1>5 DEF ReadIndex, FindingsExact, Typed, Progress, Before, worldVars, probesVars
  <2>2. DOMAIN variant'.chunks = ChunkIdsHeld
    BY <2>1, IndexRead DEF Typed, TypeOK
  <2> QED
    BY <2>1, <2>2 DEF FindingsExact, HasFinding, Before, Verifying
<1>6. CASE AskStore
  <2>1. /\ UNCHANGED <<current, report, unexamined, findings, scenario, variant, phase>>
        /\ phase = "run_probes"
    BY <1>6, AskFrame DEF propagationVars
  <2> QED
    BY <1>a, <1>b, <2>1 DEF FindingsExact, HasFinding, Before
<1>7. CASE VerifyOn /\ Verification!CheckPropagation
  <2>1. /\ UNCHANGED <<report, scenario, variant, phase, results>>
        /\ phase = "check_propagation"
    BY <1>7, PropagationFrame DEF probesVars
  <2>2. /\ unexamined' \subseteq unexamined
        /\ current' # None => current' \in unexamined' /\ ~Silent(current')
        /\ \A c \in DOMAIN variant.chunks :
             HasFinding(c, findings') <=> c \notin unexamined' /\ ~Silent(c)
    BY <1>7, AxisExact
  <2>3. (current # None => current \in unexamined /\ ~Silent(current))'
    BY <2>1, <2>2 DEF Silent, SourcesOf
  <2> QED
    BY <1>a, <2>1, <2>2, <2>3 DEF FindingsExact, HasFinding, Before, Verifying
<1>8. CASE VerifyOn /\ Verification!RunProbes
  <2>1. /\ UNCHANGED <<current, results, report, unexamined, findings, scenario, variant, phase>>
    BY <1>8, ProbesFrame DEF propagationVars, VerifyOn
  <2> QED
    BY <1>1, <2>1
<1>9. CASE VerifyOn /\ Verification!PropagationReturns
  <2>1. /\ UNCHANGED <<current, results, report, unexamined, findings, scenario, variant>>
        /\ phase = "check_propagation" /\ phase' = "run_probes" /\ unexamined = {}
    BY <1>9 DEF Verification!PropagationReturns, Verification!Propagation!Returned,
       Verification!propagationVars, Verification!probesVars
  <2> QED
    BY <1>a, <1>b, <2>1 DEF FindingsExact, HasFinding, Before, Verifying
<1>10. CASE VerifyOn /\ Verification!MakeReport
  <2>1. /\ UNCHANGED <<current, results, unexamined, findings, scenario, variant>>
        /\ phase = "run_probes" /\ phase' = "report" /\ report'.propagation = findings
    BY <1>10 DEF Verification!MakeReport, Verification!propagationVars, Verification!probesVars
  <2>2. \A c \in DOMAIN variant.chunks : HasFinding(c, report'.propagation) <=> ~Silent(c)
    BY <2>1 DEF FindingsExact, Verifying
  <2> QED
    BY <1>a, <1>b, <2>1, <2>2 DEF FindingsExact, HasFinding, Before, Verifying
<1>11. CASE VerifyOn /\ (Verification!Exit \/ Verification!Raise)
  <2>1. /\ UNCHANGED <<current, results, report, unexamined, findings, scenario, variant>>
        /\ phase' = "exited"
    BY <1>11 DEF Verification!Exit, Verification!Raise, Verification!propagationVars,
       Verification!probesVars
  <2> QED
    BY <1>1, <2>1
<1> QED
  BY <1>2, <1>3, <1>4, <1>5, <1>6, <1>7, <1>8, <1>9, <1>10, <1>11, Steps
     DEF VerifyOn, Verification!Next

----------------------------------------------------------------------------
(* A quiet scan: what it reads *)

Given == phase \in Verifying \/ report # None

\* What the scan has read, and is to read, is what there is.
QuietRead ==
  quiet =>
    /\ phase = "files" =>
         \A d : d \in DOMAIN files <=>
           d \in DOMAIN documents \/ d \in listed \/ (pending # None /\ d = pending)
    /\ phase = "inventory" => DOMAIN documents = DOMAIN files
    /\ phase \in Before => \A d \in DOMAIN documents : documents[d] = DocumentSaid(target, files[d])
    /\ Given =>
         /\ DOMAIN scenario.documents = DOMAIN files
         /\ \A d \in DOMAIN files : scenario.documents[d] = DocumentSaid(target, files[d])
         /\ DOMAIN variant.chunks = ChunkIdsHeld
         /\ \A c \in ChunkIdsHeld : variant.chunks[c] = ChunkOfPoint(PointOfChunk(c))

\* A change ends the quiet, unless it comes before the scan.
LEMMA QuietWorld ==
  ASSUME Typed, World, phase # "before"
  PROVE  ~quiet' \/ UNCHANGED <<files, points, quiet>>
BY DEF World, Touch, Remove, Ingest, Discard, Tick, Changed

LEMMA QuietReadStep ==
  ASSUME Typed, Told, FindingsExact, QuietRead, [Next]_vars
  PROVE  QuietRead'
<1>a. ASSUME UNCHANGED points
      PROVE  /\ ChunkIdsHeld' = ChunkIdsHeld
             /\ \A c : ChunkOfPoint(PointOfChunk(c))' = ChunkOfPoint(PointOfChunk(c))
  BY <1>a DEF ChunkIdsHeld, PointOfChunk, ChunkOfPoint
<1>1. ASSUME UNCHANGED <<target, files, points, quiet, scenario, variant>>,
             phase' \notin Before, Given' => Given
      PROVE  QuietRead'
  BY <1>a, <1>1 DEF QuietRead, Before
<1>2. CASE World
  <2>1. UNCHANGED <<target, phase, documents, listed, pending, scenario, variant, report>>
    BY <1>2, WorldFrame DEF readVars, verifyVars
  <2>2. CASE phase = "before"
    <3>1. documents' = <<>> /\ report' = None /\ phase' = "before"
      BY <2>1, <2>2 DEF Told, ToldBefore, ReadOnce, FindingsExact, Before
    <3>2. DOMAIN documents' = {}
      BY <3>1
    <3> QED
      BY <3>1, <3>2 DEF QuietRead, Given, Verifying
  <2>3. CASE phase # "before"
    <3>1. CASE ~quiet'
      BY <3>1 DEF QuietRead
    <3>2. CASE UNCHANGED <<files, points, quiet>>
      <4>1. Given' <=> Given
        BY <2>1 DEF Given
      <4> QED
        BY <1>a, <2>1, <3>2, <4>1 DEF QuietRead
    <3> QED
      BY <1>2, <2>3, <3>1, <3>2, QuietWorld
  <2> QED
    BY <2>2, <2>3
<1>3. CASE ReadingAction
  <2>1. /\ UNCHANGED <<target, files, points, quiet, report>> /\ report = None
        /\ phase \in Before /\ phase' \in Before
    BY <1>3, ReadingFrame DEF worldVars, FindingsExact
  <2>2. ~Given'
    BY <2>1 DEF Given, Before, Verifying
  <2>3. ReadOnce
    BY <2>1 DEF Told, ToldBefore
  <2>4. CASE Begin
    BY <2>1, <2>2, <2>4 DEF QuietRead, Begin, Reading
  <2>5. CASE ListFiles
    <3>1. /\ documents' = documents /\ documents = <<>> /\ listed' = DOMAIN files
          /\ pending' = pending /\ pending = None /\ phase' = "files"
      BY <2>3, <2>5 DEF ListFiles, Reading, ReadOnce
    <3>2. DOMAIN documents = {}
      BY <3>1
    <3> QED
      BY <2>1, <2>2, <3>1, <3>2 DEF QuietRead
  <2>6. CASE \E d \in listed : CheckFile(d)
    <3>1. PICK d \in listed :
            /\ phase = "files" /\ phase' = "files" /\ pending = None /\ documents' = documents
            /\ listed' = listed \ {d}
            /\ pending' = IF d \in DOMAIN files THEN d ELSE None
      BY <2>6 DEF CheckFile, Reading
    <3>2. d # None
      BY NoTextAssumption DEF Typed, TypeOK
    <3> QED
      BY <2>1, <2>2, <3>1, <3>2 DEF QuietRead
  <2>7. CASE StatFile
    <3>1. /\ pending # None /\ pending \in DOMAIN files /\ pending' = None /\ listed' = listed
          /\ phase = "files" /\ phase' = "files"
          /\ documents' = [d \in DOMAIN documents \cup {pending} |->
                             IF d = pending THEN DocumentSaid(target, files[d])
                             ELSE documents[d]]
      BY <2>7, DocumentByTarget DEF StatFile, Reading
    <3> QED
      BY <2>1, <2>2, <3>1 DEF QuietRead
  <2>8. CASE DocumentsRead
    BY <2>1, <2>2, <2>8 DEF QuietRead, DocumentsRead, Reading
  <2> QED
    BY <1>3, <2>4, <2>5, <2>6, <2>7, <2>8 DEF ReadingAction
<1>4. CASE FailingAction
  <2>1. /\ UNCHANGED <<target, files, points, quiet, scenario, variant, report>>
        /\ phase' = "exited"
    BY <1>4, FailingFrame DEF worldVars, readVars
  <2> QED
    BY <1>1, <2>1 DEF Given, Before, Verifying
<1>5. CASE ReadIndex
  <2>1. /\ UNCHANGED <<target, files, points, quiet, documents>> /\ phase = "inventory"
        /\ phase' = "check_propagation" /\ scenario' = ScenarioRead /\ variant' = VariantRead
    BY <1>5 DEF ReadIndex, worldVars
  <2>2. scenario'.documents = documents
    BY <2>1 DEF ScenarioRead
  <2>3. /\ DOMAIN variant'.chunks = ChunkIdsHeld
        /\ \A c \in ChunkIdsHeld : variant'.chunks[c] = ChunkOfPoint(PointOfChunk(c))
    BY <2>1, IndexRead DEF Typed, TypeOK
  <2>4. \A c : ChunkOfPoint(PointOfChunk(c))' = ChunkOfPoint(PointOfChunk(c))
    BY <2>1 DEF ChunkOfPoint, PointOfChunk
  <2>5. ChunkIdsHeld' = ChunkIdsHeld
    BY <2>1 DEF ChunkIdsHeld
  <2> QED
    BY <2>1, <2>2, <2>3, <2>4, <2>5 DEF QuietRead, Before
<1>6. CASE AskStore \/ VerifyOn
  <2>1. /\ UNCHANGED <<target, files, points, quiet, scenario, variant>>
        /\ phase \in Verifying /\ phase' \in Verifying \cup {"exited"}
    BY <1>6, AskFrame, VerifyFrame DEF worldVars, readVars, Verifying
  <2> QED
    BY <1>1, <2>1 DEF Given, Before, Verifying
<1>7. CASE UNCHANGED vars
  <2>1. UNCHANGED <<target, files, points, quiet, phase, documents, listed, pending, scenario,
                    variant, report>>
    BY <1>7 DEF vars, worldVars, readVars, verifyVars
  <2> QED
    <3>1. Given' <=> Given
      BY <2>1 DEF Given
    <3> QED
      BY <1>a, <2>1, <3>1 DEF QuietRead
<1> QED
  BY <1>2, <1>3, <1>4, <1>5, <1>6, <1>7, Steps

----------------------------------------------------------------------------
(* A quiet scan: the answers *)

Unlimited == OnePointAChunk /\ variant.ann_limit \in {None, 0}

LEMMA MinMaxOfTwo ==
  ASSUME NEW a \in Int, NEW b \in Int
  PROVE  /\ a <= b => Min({b, a}) = a
         /\ Max({a, b}) \in Int /\ a <= Max({a, b})
<1>1. ASSUME a <= b PROVE Min({b, a}) = a
  <2>1. a \in {b, a} /\ \A y \in {b, a} : a =< y
    BY <1>1
  <2>2. Min({b, a}) \in {b, a} /\ \A y \in {b, a} : Min({b, a}) =< y
    BY <2>1 DEF Min
  <2>3. Min({b, a}) =< a /\ a =< Min({b, a}) /\ Min({b, a}) \in Int
    BY <2>1, <2>2
  <2> QED
    BY <2>3
<1>2. Max({a, b}) \in {a, b} /\ \A y \in {a, b} : Max({a, b}) >= y
  <2>1. \E x \in {a, b} : \A y \in {a, b} : x >= y
    <3>1. CASE a <= b
      BY <3>1
    <3>2. CASE ~(a <= b)
      BY <3>2
    <3> QED
      BY <3>1, <3>2
  <2> QED
    BY <2>1 DEF Max
<1>3. Max({a, b}) \in Int /\ a <= Max({a, b})
  BY <1>2
<1> QED
  BY <1>1, <1>3

\* The inventory has the one point of each chunk.
LEMMA PointIsOne ==
  ASSUME Typed, OnePointAChunk, NEW i \in DOMAIN points
  PROVE  points[i].chunk_id \in ChunkIdsHeld /\ PointOfChunk(points[i].chunk_id) = i
<1>1. points[i].chunk_id \in ChunkIdsHeld
  BY DEF ChunkIdsHeld
<1>2. /\ PointOfChunk(points[i].chunk_id) \in DOMAIN points
      /\ points[PointOfChunk(points[i].chunk_id)].chunk_id = points[i].chunk_id
  BY <1>1, IndexRead DEF Typed, TypeOK
<1> QED
  BY <1>1, <1>2 DEF OnePointAChunk

\* A store that is asked for as many points as there are chunks answers all it lets through.
LEMMA AnswerIsWhole ==
  ASSUME Typed, quiet, QuietRead, Given, Unlimited, NEW p, NEW hits \in Hits(p)
  PROVE  {points[i].chunk_id : i \in hits} = {c \in ChunkIdsHeld : ChunkServed(c, p)}
<1> DEFINE found == {i \in DOMAIN points : p.tenant \in points[i].entitlement.tenants}
           f == [i \in found |-> points[i].chunk_id]
<1>1. hits \in SUBSET found /\ Cardinality(hits) = Min({Limit, Cardinality(found)})
  BY DEF Hits
<1>2. IsFiniteSet(ChunkIdsHeld) /\ IsFiniteSet(DOMAIN points)
  BY IndexRead DEF Typed, TypeOK, IsDict
<1>3. f \in Injection(found, ChunkIdsHeld)
  BY DEF Injection, IsInjective, ChunkIdsHeld, Unlimited, OnePointAChunk
<1>4. IsFiniteSet(found) /\ Cardinality(found) <= Cardinality(ChunkIdsHeld)
  <2> HIDE DEF found, f
  <2> QED
    BY <1>2, <1>3, FS_Injection
<1>5. Cardinality(found) \in Nat /\ Cardinality(ChunkIdsHeld) \in Nat
  BY <1>2, <1>4, FS_CardinalityType
<1>6. Limit \in Int /\ Cardinality(ChunkIdsHeld) <= Limit
  <2>1. Limit = Max({Cardinality(ChunkIdsHeld), 1})
    BY DEF Limit, Unlimited, QuietRead
  <2> DEFINE n == Cardinality(ChunkIdsHeld)
  <2>2. n \in Int
    BY <1>5
  <2> HIDE DEF n
  <2>3. Max({n, 1}) \in Int /\ n <= Max({n, 1})
    BY <2>2, MinMaxOfTwo
  <2> QED
    BY <2>1, <2>3 DEF n
<1>7. Min({Limit, Cardinality(found)}) = Cardinality(found)
  <2>1. Cardinality(found) <= Limit
    BY <1>4, <1>5, <1>6
  <2> DEFINE n == Cardinality(found)
  <2>2. n \in Int /\ n <= Limit
    BY <1>5, <2>1
  <2> HIDE DEF n
  <2>3. Min({Limit, n}) = n
    BY <1>6, <2>2, MinMaxOfTwo
  <2> QED
    BY <2>3 DEF n
<1>8. hits = found
  <2> HIDE DEF found
  <2> QED
    BY <1>1, <1>4, <1>7, FS_Subset
<1> QED
  BY <1>8 DEF ChunkServed, ChunkIdsHeld

\* What verify has of a chunk is what the files say of its point.
LEMMA ChunkView ==
  ASSUME Typed, quiet, QuietRead, Given, OnePointAChunk, NEW i \in DOMAIN points
  PROVE  LET c == points[i].chunk_id
         IN  /\ c \in DOMAIN variant.chunks
             /\ SourcesOf(c) = FilesOf(i)
             /\ variant.chunks[c].entitlement = points[i].entitlement
             /\ \A j \in FilesOf(i) :
                  SourceAt(scenario, variant.chunks[c], j).entitlement = FileSays(i, j)
<1> DEFINE c == points[i].chunk_id
<1>1. c \in ChunkIdsHeld /\ variant.chunks[c] = ChunkOfPoint(i) /\ c \in DOMAIN variant.chunks
  BY PointIsOne DEF QuietRead
<1>2. /\ variant.chunks[c].source_document_ids = points[i].source_document_ids
      /\ variant.chunks[c].entitlement = points[i].entitlement
  BY <1>1 DEF ChunkOfPoint
<1>3. SourcesOf(c) = FilesOf(i)
  BY <1>2 DEF SourcesOf, Located, FilesOf, QuietRead
<1>4. ASSUME NEW j \in FilesOf(i)
      PROVE  SourceAt(scenario, variant.chunks[c], j).entitlement = FileSays(i, j)
  <2> DEFINE d == points[i].source_document_ids[j]
  <2>1. d \in DOMAIN files
    BY DEF FilesOf
  <2>2. scenario.documents[d] = DocumentSaid(target, files[d])
    BY <2>1 DEF QuietRead
  <2>3. DocumentSaid(target, files[d]).entitlement = EntitlementOfFile(files[d])
    BY SaidByTarget DEF DocumentSaid
  <2> QED
    BY <1>2, <2>2, <2>3 DEF SourceAt, FileSays
<1> QED
  BY <1>1, <1>2, <1>3, <1>4

LEMMA JudgeView ==
  /\ \A c : Verification!Differential!Traceable(c) <=> SourcesOf(c) # {}
  /\ \A c, p : Verification!Differential!Permitted(c, p) <=>
       /\ SourcesOf(c) # {}
       /\ \A j \in SourcesOf(c) :
            Entitled(scenario.rule, SourceAt(scenario, variant.chunks[c], j).entitlement, p)
<1>1. \A s, k : Verification!Differential!Located(s, k) = Located(s, k)
  BY DEF Verification!Differential!Located, Located
<1>2. \A s, k, j : Verification!Differential!SourceAt(s, k, j) = SourceAt(s, k, j)
  BY DEF Verification!Differential!SourceAt, SourceAt
<1>3. \A r, e, p : Verification!Differential!Entitled(r, e, p) <=> Entitled(r, e, p)
  BY DEF Entitled, ClausesGrant, Combine, TenantClause, RoleClause, DirectClause,
     Verification!Differential!Entitled, Verification!Differential!ClausesGrant,
     Verification!Differential!Combine, Verification!Differential!TenantClause,
     Verification!Differential!RoleClause, Verification!Differential!DirectClause
<1>4. \A c : Verification!Differential!Traceable(c) <=> SourcesOf(c) # {}
  BY <1>1 DEF Verification!Differential!Traceable, SourcesOf
<1>5. ASSUME NEW c, NEW p
      PROVE  Verification!Differential!Permitted(c, p) <=>
               /\ SourcesOf(c) # {}
               /\ \A j \in SourcesOf(c) :
                    Entitled(scenario.rule, SourceAt(scenario, variant.chunks[c], j).entitlement, p)
  BY <1>1, <1>2, <1>3
     DEF Verification!Differential!Permitted, Verification!Differential!SourcesGrant,
         Verification!Differential!EntitledByAll, Verification!Differential!SourceEntitlements,
         SourcesOf
<1> QED
  BY <1>4, <1>5

\* What the judge knows of the chunks is what the files and the points are.
LEMMA JudgeSees ==
  ASSUME Typed, quiet, QuietRead, Given, OnePointAChunk, NEW c \in ChunkIdsHeld, NEW p
  PROVE  /\ Verification!Differential!Traceable(c) <=> ChunkHasFile(c)
         /\ ChunkHasFile(c) => (Verification!Differential!Permitted(c, p) <=> ChunkGranted(c, p))
         /\ ChunkGranted(c, p) => ChunkHasFile(c)
<1>1. PICK i \in DOMAIN points : points[i].chunk_id = c
  BY DEF ChunkIdsHeld
<1>2. \A k \in DOMAIN points : points[k].chunk_id = c => k = i
  BY <1>1 DEF OnePointAChunk
<1>3. /\ SourcesOf(c) = FilesOf(i)
      /\ \A j \in FilesOf(i) :
           SourceAt(scenario, variant.chunks[c], j).entitlement = FileSays(i, j)
  BY <1>1, ChunkView
<1>4. ChunkHasFile(c) <=> FilesOf(i) # {}
  BY <1>1, <1>2 DEF ChunkHasFile
<1>5. ChunkGranted(c, p) <=>
        FilesOf(i) # {} /\ \A j \in FilesOf(i) : Entitled(scenario.rule, FileSays(i, j), p)
  BY <1>1, <1>2 DEF ChunkGranted
<1>6. Verification!Differential!Traceable(c) <=> FilesOf(i) # {}
  BY <1>3, JudgeView
<1>7. Verification!Differential!Permitted(c, p) <=>
        FilesOf(i) # {} /\ \A j \in FilesOf(i) : Entitled(scenario.rule, FileSays(i, j), p)
  BY <1>3, JudgeView
<1> QED
  BY <1>4, <1>5, <1>6, <1>7

ResultExact(r) ==
  LET p == scenario.principals[r.principal_id]
  IN  /\ r.over_retrieved =
           {c \in ChunkIdsHeld : ChunkServed(c, p) /\ ChunkHasFile(c) /\ ~ChunkGranted(c, p)}
      /\ r.under_retrieved =
           {c \in Range(scenario.probes[r.probe].matches) \cap ChunkIdsHeld :
              ChunkGranted(c, p) /\ ~ChunkServed(c, p)}

ResultsExact ==
  quiet /\ Unlimited =>
    /\ phase \in Verifying => \A r \in results : ResultExact(r)
    /\ report # None => \A r \in report.probes : ResultExact(r)

\* The whole answer is judged by the files alone.
LEMMA JudgedExact ==
  ASSUME Typed, quiet, QuietRead, Given, Unlimited, NEW i, NEW k,
         NEW answer, answer = {c \in ChunkIdsHeld :
                                 ChunkServed(c, scenario.principals[scenario.probes[i].principals[k]])}
  PROVE  ResultExact(Verification!Differential!Judged(
           i, k, scenario.principals[scenario.probes[i].principals[k]], answer))
<1> DEFINE p == scenario.principals[scenario.probes[i].principals[k]]
           r == Verification!Differential!Judged(i, k, p, answer)
           Traceable(c) == Verification!Differential!Traceable(c)
           Permitted(c) == Verification!Differential!Permitted(c, p)
           asked == Range(scenario.probes[i].matches)
           truth == {c \in asked \cap ChunkIdsHeld : Traceable(c) /\ Permitted(c)}
           undetermined == {c \in asked \cap ChunkIdsHeld : ~Traceable(c)}
             \cup {c \in answer \ asked : c \notin ChunkIdsHeld \/ ~Traceable(c)}
           returned == (asked \cap ChunkIdsHeld \cap answer)
             \cup {c \in answer \ asked :
                    c \notin ChunkIdsHeld \/ ~Traceable(c) \/ ~Permitted(c)}
<1>1. DOMAIN variant.chunks = ChunkIdsHeld
  BY DEF QuietRead
<1>2. /\ Verification!Differential!Matches(i) = asked
      /\ Verification!Differential!Indexed = ChunkIdsHeld
  BY <1>1 DEF Verification!Differential!Matches, Verification!Differential!Probes,
     Verification!Differential!Indexed, Verification!Differential!Range, Range
<1>3. /\ Verification!Differential!Truth(i, p) = truth
      /\ Verification!Differential!Undetermined(i, answer) = undetermined
      /\ Verification!Differential!Returned(i, p, answer) = returned
  BY <1>2 DEF Verification!Differential!Truth, Verification!Differential!Undetermined,
     Verification!Differential!Returned, Verification!Differential!Extras
<1>4. /\ r.principal_id = scenario.probes[i].principals[k] /\ r.probe = i
      /\ r.over_retrieved = (returned \ truth) \ undetermined
      /\ r.under_retrieved = truth \ returned
  <2> HIDE DEF truth, undetermined, returned, p
  <2> QED
    BY <1>3 DEF Verification!Differential!Judged, Verification!Differential!Probes
<1>5. \A c \in ChunkIdsHeld :
        /\ Traceable(c) <=> ChunkHasFile(c)
        /\ ChunkHasFile(c) => (Permitted(c) <=> ChunkGranted(c, p))
        /\ ChunkGranted(c, p) => ChunkHasFile(c)
  BY JudgeSees DEF Unlimited
<1> HIDE DEF p, Traceable, Permitted, asked, r
<1>6. (returned \ truth) \ undetermined =
        {c \in ChunkIdsHeld : ChunkServed(c, p) /\ ChunkHasFile(c) /\ ~ChunkGranted(c, p)}
  BY <1>5 DEF p
<1>7. truth \ returned =
        {c \in asked \cap ChunkIdsHeld : ChunkGranted(c, p) /\ ~ChunkServed(c, p)}
  BY <1>5 DEF p
<1> QED
  BY <1>4, <1>6, <1>7 DEF ResultExact, p, asked, r

LEMMA ResultsStep ==
  ASSUME Typed, FindingsExact, QuietRead, ResultsExact, [Next]_vars
  PROVE  ResultsExact'
<1>1. ASSUME UNCHANGED <<target, files, points, scenario, variant>>
      PROVE  /\ \A r : ResultExact(r)' <=> ResultExact(r)
             /\ Unlimited' <=> Unlimited
  BY <1>1 DEF ResultExact, ChunkIdsHeld, ChunkServed, ChunkHasFile, ChunkGranted, FilesOf, FileSays,
     EntitlementOfFile, StatedFor, TenantFor, Unlimited, OnePointAChunk
<1>2. ASSUME UNCHANGED <<target, files, points, quiet, scenario, variant, results, report>>,
             phase' = phase \/ phase' = "exited" \/ {phase, phase'} \subseteq Verifying
      PROVE  ResultsExact'
  BY <1>1, <1>2 DEF ResultsExact, Verifying
<1>3. CASE World
  <2>1. UNCHANGED <<target, phase, scenario, variant, results, report>>
    BY <1>3, WorldFrame DEF readVars, verifyVars, probesVars
  <2>2. CASE phase = "before"
    BY <2>1, <2>2 DEF ResultsExact, FindingsExact, Before, Verifying
  <2>3. CASE phase # "before"
    <3>1. CASE ~quiet'
      BY <3>1 DEF ResultsExact
    <3>2. CASE UNCHANGED <<files, points, quiet>>
      BY <1>2, <2>1, <3>2
    <3> QED
      BY <1>3, <2>3, <3>1, <3>2, QuietWorld
  <2> QED
    BY <2>2, <2>3
<1>4. CASE ReadingAction \/ FailingAction
  <2>1. phase \in Before /\ phase' \notin Verifying /\ report' = report
    BY <1>4, ReadingFrame, FailingFrame DEF Before, Verifying
  <2> QED
    BY <2>1 DEF ResultsExact, FindingsExact
<1>5. CASE ReadIndex
  <2>1. phase \in Before /\ results' = results /\ report' = report
    BY <1>5 DEF ReadIndex, Before, probesVars
  <2> QED
    BY <2>1 DEF ResultsExact, FindingsExact
<1>6. CASE AskStore
  <2>1. /\ UNCHANGED <<target, files, points, quiet, scenario, variant, report, phase>>
        /\ phase = "run_probes"
    BY <1>6, AskFrame DEF worldVars, readVars
  <2> DEFINE p == scenario.principals[Verification!Differential!PrincipalOnTurn]
  <2>2. PICK hits \in Hits(p) :
          results' = results \cup
            {Verification!Differential!Judged(
               probe, turn, p, {points[i].chunk_id : i \in hits})}
    BY <1>6 DEF AskStore, Verification!Differential!Ask
  <2>3. p = scenario.principals[scenario.probes[probe].principals[turn]]
    BY DEF Verification!Differential!PrincipalOnTurn, Verification!Differential!Probes
  <2>4. ASSUME quiet, Unlimited
        PROVE  ResultExact(Verification!Differential!Judged(
                 probe, turn, p, {points[i].chunk_id : i \in hits}))
    <3>1. Given
      BY <2>1 DEF Given, Verifying
    <3>2. {points[i].chunk_id : i \in hits} = {c \in ChunkIdsHeld : ChunkServed(c, p)}
      BY <2>4, <3>1, AnswerIsWhole
    <3> QED
      BY <2>3, <2>4, <3>1, <3>2, JudgedExact
  <2> HIDE DEF p
  <2> QED
    BY <1>1, <2>1, <2>2, <2>4 DEF ResultsExact, Verifying
<1>7. CASE VerifyOn /\ Verification!MakeReport
  <2>1. /\ UNCHANGED <<target, files, points, quiet, scenario, variant, results>>
        /\ phase = "run_probes" /\ phase' = "report" /\ report'.probes = results
    BY <1>7, VerifyFrame DEF Verification!MakeReport, worldVars, readVars
  <2> QED
    BY <1>1, <2>1 DEF ResultsExact, Verifying
<1>8. CASE VerifyOn /\ ~Verification!MakeReport
  <2>1. /\ UNCHANGED <<target, files, points, quiet, scenario, variant, results>>
        /\ phase \in Verifying /\ phase' \in Verifying \cup {"exited"}
    BY <1>8, VerifyFrame DEF worldVars, readVars
  <2>2. report' = report
    BY <1>8, PropagationFrame, ProbesFrame DEF VerifyOn, Verification!Next,
       Verification!PropagationReturns, Verification!Exit, Verification!Raise
  <2> QED
    BY <1>2, <2>1, <2>2
<1>9. CASE UNCHANGED vars
  <2>1. UNCHANGED <<target, files, points, quiet, scenario, variant, results, report, phase>>
    BY <1>9 DEF vars, worldVars, readVars, verifyVars, probesVars
  <2> QED
    BY <1>2, <2>1
<1> QED
  BY <1>3, <1>4, <1>5, <1>6, <1>7, <1>8, <1>9, Steps

Exact == FindingsExact /\ QuietRead /\ ResultsExact

LEMMA AlwaysExact == Spec => []Exact
<1>1. Init => Exact
  <2> SUFFICES ASSUME Init PROVE Exact
    OBVIOUS
  <2>1. /\ phase = "before" /\ current = None /\ results = {} /\ report = None
        /\ documents = <<>>
    BY DEF Init
  <2>2. DOMAIN documents = {}
    BY <2>1
  <2> QED
    BY <2>1, <2>2 DEF Exact, FindingsExact, QuietRead, ResultsExact, Given, Verifying
<1>2. Typed /\ Told /\ Exact /\ [Next]_vars => Exact'
  BY FindingsStep, QuietReadStep, ResultsStep DEF Exact
<1> QED
  BY <1>1, <1>2, AlwaysTyped, AlwaysTold, PTL DEF Spec

\* A scan of files and an index that nothing changes reports, from end to end, exactly the
\* disagreements there are, however many of either there may be.
THEOREM QuietScanIsExactCorrect == Spec => []QuietScanIsExact
<1>1. Typed /\ Exact => QuietScanIsExact
  <2> SUFFICES ASSUME Typed, Exact, quiet, report # None, OnePointAChunk, variant.ann_limit \in {None, 0}
               PROVE  /\ \A i \in DOMAIN points :
                           (\E f \in report.propagation : f.chunk_id = points[i].chunk_id) <=>
                             ~\E j \in FilesOf(i) :
                                FilesOf(i) = {j} /\ points[i].entitlement = FileSays(i, j)
                      /\ \A r \in report.probes : ResultExact(r)
    BY DEF QuietScanIsExact, ResultExact
  <2> USE DEF Exact
  <2>1. Given
    BY DEF Given
  <2>2. ASSUME NEW i \in DOMAIN points
        PROVE  HasFinding(points[i].chunk_id, report.propagation) <=>
                 ~\E j \in FilesOf(i) :
                    FilesOf(i) = {j} /\ points[i].entitlement = FileSays(i, j)
    <3> DEFINE c == points[i].chunk_id
    <3>1. /\ c \in DOMAIN variant.chunks /\ SourcesOf(c) = FilesOf(i)
          /\ variant.chunks[c].entitlement = points[i].entitlement
          /\ \A j \in FilesOf(i) :
               SourceAt(scenario, variant.chunks[c], j).entitlement = FileSays(i, j)
      BY <2>1, ChunkView
    <3>2. HasFinding(c, report.propagation) <=> ~Silent(c)
      BY <3>1 DEF FindingsExact
    <3> QED
      BY <3>1, <3>2 DEF Silent
  <2>3. \A r \in report.probes : ResultExact(r)
    BY DEF ResultsExact, Unlimited
  <2> QED
    BY <2>2, <2>3 DEF HasFinding
<1> QED
  BY <1>1, AlwaysTyped, AlwaysExact, PTL

----------------------------------------------------------------------------
(* A scan's verification.  Verify_proofs speaks of a verification that     *)
(* starts by itself; here it starts when the index is read, of which       *)
(* nobody could say beforehand what it would be: its scenarios are all     *)
(* those that can be read.                                                 *)

Dicts(S, T) == UNION {[D -> T] : D \in SUBSET S}

ScenariosRead ==
  {s \in [documents: Dicts(DocIds, SourceDocument), principals: Dicts(PrincipalIds, Principal),
          probes: Seq(Probe), rule: Rule] : IsScenario(s)}
VariantsRead ==
  {v \in [chunks: Dicts(ChunkIds, Chunk), enforcement: STRING, ann_limit: Int \cup {None}] :
     IsVariant(v)}

VerifyProved == INSTANCE Verify_proofs WITH Scenarios <- ScenariosRead, Variants <- VariantsRead

LEMMA DictsHold ==
  ASSUME NEW f, NEW S, NEW T, IsDict(f, S, T)
  PROVE  f \in Dicts(S, T)
<1>1. DOMAIN f \in SUBSET S /\ f \in [DOMAIN f -> T]
  BY DEF IsDict
<1> QED
  BY <1>1, Zenon DEF Dicts

\* The instance the scan runs and the one that is proved of take the same steps.
LEMMA SamePropagationWorld ==
  /\ \A s, k : VerifyProved!Propagation!Located(s, k) = Located(s, k)
  /\ \A s, k : Verification!Propagation!Located(s, k) = Located(s, k)
  /\ \A s, k, j : VerifyProved!Propagation!SourceAt(s, k, j) = SourceAt(s, k, j)
  /\ \A s, k, j : Verification!Propagation!SourceAt(s, k, j) = SourceAt(s, k, j)
  /\ \A r, e, p : VerifyProved!Propagation!Entitled(r, e, p) <=> Entitled(r, e, p)
  /\ \A r, e, p : Verification!Propagation!Entitled(r, e, p) <=> Entitled(r, e, p)
  /\ \A a, b : VerifyProved!Propagation!Intersect(a, b) = Verification!Propagation!Intersect(a, b)
<1>1. /\ \A s, k : VerifyProved!Propagation!Located(s, k) = Located(s, k)
      /\ \A s, k : Verification!Propagation!Located(s, k) = Located(s, k)
      /\ \A s, k, j : VerifyProved!Propagation!SourceAt(s, k, j) = SourceAt(s, k, j)
      /\ \A s, k, j : Verification!Propagation!SourceAt(s, k, j) = SourceAt(s, k, j)
  BY DEF Located, SourceAt, Verification!Propagation!Located, Verification!Propagation!SourceAt,
     VerifyProved!Propagation!Located, VerifyProved!Propagation!SourceAt
<1>2. \A a, b : VerifyProved!Propagation!Intersect(a, b) = Verification!Propagation!Intersect(a, b)
  BY DEF VerifyProved!Propagation!Intersect, Verification!Propagation!Intersect,
     VerifyProved!Propagation!IntersectRoles, Verification!Propagation!IntersectRoles,
     VerifyProved!Propagation!UnknownEntitlement, Verification!Propagation!UnknownEntitlement
<1>3. \A r, e, p : VerifyProved!Propagation!Entitled(r, e, p) <=> Entitled(r, e, p)
  BY DEF Entitled, ClausesGrant, Combine, TenantClause, RoleClause, DirectClause,
     VerifyProved!Propagation!Entitled, VerifyProved!Propagation!ClausesGrant,
     VerifyProved!Propagation!Combine, VerifyProved!Propagation!TenantClause,
     VerifyProved!Propagation!RoleClause, VerifyProved!Propagation!DirectClause
<1>4. \A r, e, p : Verification!Propagation!Entitled(r, e, p) <=> Entitled(r, e, p)
  BY DEF Entitled, ClausesGrant, Combine, TenantClause, RoleClause, DirectClause,
     Verification!Propagation!Entitled, Verification!Propagation!ClausesGrant,
     Verification!Propagation!Combine, Verification!Propagation!TenantClause,
     Verification!Propagation!RoleClause, Verification!Propagation!DirectClause
<1> QED
  BY <1>1, <1>2, <1>3, <1>4

\* What the loop over the chunks looks at.
LEMMA SamePropagationView ==
  /\ \A c : Verification!Propagation!ChunkOf(c) = VerifyProved!Propagation!ChunkOf(c)
  /\ \A c : Verification!Propagation!TagOf(c) = VerifyProved!Propagation!TagOf(c)
  /\ \A c : Verification!Propagation!LocatedOf(c) = VerifyProved!Propagation!LocatedOf(c)
  /\ \A c, j : Verification!Propagation!SourceOf(c, j) = VerifyProved!Propagation!SourceOf(c, j)
  /\ Verification!Propagation!PrincipalsUnderTest = VerifyProved!Propagation!PrincipalsUnderTest
<1>1. \A c : Verification!Propagation!ChunkOf(c) = VerifyProved!Propagation!ChunkOf(c)
  BY DEF Verification!Propagation!ChunkOf, VerifyProved!Propagation!ChunkOf
<1> QED
  BY <1>1, SamePropagationWorld DEF Verification!Propagation!TagOf, VerifyProved!Propagation!TagOf,
     Verification!Propagation!LocatedOf, VerifyProved!Propagation!LocatedOf,
     Verification!Propagation!SourceOf, VerifyProved!Propagation!SourceOf,
     Verification!Propagation!PrincipalsUnderTest, VerifyProved!Propagation!PrincipalsUnderTest

LEMMA SamePropagationSteps ==
  Verification!Propagation!Next <=> VerifyProved!Propagation!Next
<1> USE SamePropagationWorld, SamePropagationView
<1>1. /\ \A c, v, x, e : Verification!Propagation!Found(c, v, x, e)
           <=> VerifyProved!Propagation!Found(c, v, x, e)
      /\ \A c : Verification!Propagation!Finished(c) <=> VerifyProved!Propagation!Finished(c)
      /\ \A c : Verification!Propagation!NextChunk(c) <=> VerifyProved!Propagation!NextChunk(c)
      /\ \A a, b : Verification!Propagation!Same(a, b) <=> VerifyProved!Propagation!Same(a, b)
      /\ \A a, b : Verification!Propagation!TimesKnown(a, b)
           <=> VerifyProved!Propagation!TimesKnown(a, b)
      /\ \A a, b : Verification!Propagation!TimesComparable(a, b)
           <=> VerifyProved!Propagation!TimesComparable(a, b)
  BY DEF Verification!Propagation!Found, VerifyProved!Propagation!Found,
     Verification!Propagation!Finished, VerifyProved!Propagation!Finished,
     Verification!Propagation!NextChunk, VerifyProved!Propagation!NextChunk,
     Verification!Propagation!Same, VerifyProved!Propagation!Same,
     Verification!Propagation!TimesKnown, VerifyProved!Propagation!TimesKnown,
     Verification!Propagation!TimesComparable, VerifyProved!Propagation!TimesComparable
<1>2. \A a, b : Verification!Propagation!CauseFromTimestamps(a, b)
        = VerifyProved!Propagation!CauseFromTimestamps(a, b)
  BY <1>1 DEF Verification!Propagation!CauseFromTimestamps,
     VerifyProved!Propagation!CauseFromTimestamps
<1>3. \A r, t, b, ps : Verification!Propagation!WithinBound(r, t, b, ps)
        <=> VerifyProved!Propagation!WithinBound(r, t, b, ps)
  BY DEF Verification!Propagation!WithinBound, VerifyProved!Propagation!WithinBound
<1>4. \A v, x : Verification!Propagation!Judge(v, x) <=> VerifyProved!Propagation!Judge(v, x)
  BY <1>1 DEF Verification!Propagation!Judge, VerifyProved!Propagation!Judge
<1>5. ASSUME NEW c
      PROVE  Verification!Propagation!ExamineChunk(c) <=> VerifyProved!Propagation!ExamineChunk(c)
  <2>1. Verification!Propagation!ReportUntraceable(c)
          <=> VerifyProved!Propagation!ReportUntraceable(c)
    BY <1>1 DEF Verification!Propagation!ReportUntraceable,
       VerifyProved!Propagation!ReportUntraceable
  <2>2. Verification!Propagation!PassSingleSource(c)
          <=> VerifyProved!Propagation!PassSingleSource(c)
    BY <1>1 DEF Verification!Propagation!PassSingleSource,
       VerifyProved!Propagation!PassSingleSource
  <2>3. Verification!Propagation!ContradictSingleSource(c)
          <=> VerifyProved!Propagation!ContradictSingleSource(c)
    BY <1>1, <1>2 DEF Verification!Propagation!ContradictSingleSource,
       VerifyProved!Propagation!ContradictSingleSource
  <2>4. Verification!Propagation!FailOnTimes(c) <=> VerifyProved!Propagation!FailOnTimes(c)
    BY <1>1 DEF Verification!Propagation!FailOnTimes, VerifyProved!Propagation!FailOnTimes
  <2>5. Verification!Propagation!StartBound(c) <=> VerifyProved!Propagation!StartBound(c)
    BY <1>1 DEF Verification!Propagation!StartBound, VerifyProved!Propagation!StartBound
  <2> QED
    BY <2>1, <2>2, <2>3, <2>4, <2>5 DEF Verification!Propagation!ExamineChunk,
       VerifyProved!Propagation!ExamineChunk
<1>6. /\ Verification!Propagation!IntersectNext <=> VerifyProved!Propagation!IntersectNext
      /\ Verification!Propagation!ReportIndeterminate
           <=> VerifyProved!Propagation!ReportIndeterminate
      /\ Verification!Propagation!ReportExceeding <=> VerifyProved!Propagation!ReportExceeding
  BY <1>3, <1>4 DEF Verification!Propagation!IntersectNext, VerifyProved!Propagation!IntersectNext,
     Verification!Propagation!ReportIndeterminate, VerifyProved!Propagation!ReportIndeterminate,
     Verification!Propagation!ReportExceeding, VerifyProved!Propagation!ReportExceeding
<1> QED
  BY <1>5, <1>6 DEF Verification!Propagation!Next, VerifyProved!Propagation!Next

\* The same for the differential axis.
LEMMA SameDifferentialWorld ==
  /\ \A s, k : VerifyProved!Differential!Located(s, k) = Located(s, k)
  /\ \A s, k : Verification!Differential!Located(s, k) = Located(s, k)
  /\ \A s, k : VerifyProved!Differential!SourceEntitlements(s, k) = SourceEntitlements(s, k)
  /\ \A s, k : Verification!Differential!SourceEntitlements(s, k) = SourceEntitlements(s, k)
  /\ \A s, k, p : VerifyProved!Differential!SourcesGrant(s, k, p) <=> SourcesGrant(s, k, p)
  /\ \A s, k, p : Verification!Differential!SourcesGrant(s, k, p) <=> SourcesGrant(s, k, p)
  /\ \A r, m, e, p : VerifyProved!Differential!Enforce(r, m, e, p)
       <=> Verification!Differential!Enforce(r, m, e, p)
  /\ \A f : VerifyProved!Differential!Range(f) = Range(f)
  /\ \A f : Verification!Differential!Range(f) = Range(f)
<1>1. /\ \A s, k : VerifyProved!Differential!Located(s, k) = Located(s, k)
      /\ \A s, k : Verification!Differential!Located(s, k) = Located(s, k)
      /\ \A s, k, j : VerifyProved!Differential!SourceAt(s, k, j) = SourceAt(s, k, j)
      /\ \A s, k, j : Verification!Differential!SourceAt(s, k, j) = SourceAt(s, k, j)
      /\ \A f : VerifyProved!Differential!Range(f) = Range(f)
      /\ \A f : Verification!Differential!Range(f) = Range(f)
  BY DEF Located, SourceAt, Range, Verification!Differential!Located,
     Verification!Differential!SourceAt, Verification!Differential!Range,
     VerifyProved!Differential!Located, VerifyProved!Differential!SourceAt,
     VerifyProved!Differential!Range
<1>2. /\ \A s, k : VerifyProved!Differential!SourceEntitlements(s, k) = SourceEntitlements(s, k)
      /\ \A s, k : Verification!Differential!SourceEntitlements(s, k) = SourceEntitlements(s, k)
  BY <1>1 DEF SourceEntitlements, Verification!Differential!SourceEntitlements,
     VerifyProved!Differential!SourceEntitlements
<1>3. \A r, e, p : VerifyProved!Differential!Entitled(r, e, p) <=> Entitled(r, e, p)
  BY DEF Entitled, ClausesGrant, Combine, TenantClause, RoleClause, DirectClause,
     VerifyProved!Differential!Entitled, VerifyProved!Differential!ClausesGrant,
     VerifyProved!Differential!Combine, VerifyProved!Differential!TenantClause,
     VerifyProved!Differential!RoleClause, VerifyProved!Differential!DirectClause
<1>4. \A r, e, p : Verification!Differential!Entitled(r, e, p) <=> Entitled(r, e, p)
  BY DEF Entitled, ClausesGrant, Combine, TenantClause, RoleClause, DirectClause,
     Verification!Differential!Entitled, Verification!Differential!ClausesGrant,
     Verification!Differential!Combine, Verification!Differential!TenantClause,
     Verification!Differential!RoleClause, Verification!Differential!DirectClause
<1>5. /\ \A s, k, p : VerifyProved!Differential!SourcesGrant(s, k, p) <=> SourcesGrant(s, k, p)
      /\ \A s, k, p : Verification!Differential!SourcesGrant(s, k, p) <=> SourcesGrant(s, k, p)
  BY <1>2, <1>3, <1>4 DEF SourcesGrant, EntitledByAll, Verification!Differential!SourcesGrant,
     Verification!Differential!EntitledByAll, VerifyProved!Differential!SourcesGrant,
     VerifyProved!Differential!EntitledByAll
<1>6. \A r, e, p : VerifyProved!Differential!AdmittedByNaiveFilter(r, e, p)
                     <=> Verification!Differential!AdmittedByNaiveFilter(r, e, p)
  BY DEF VerifyProved!Differential!AdmittedByNaiveFilter, VerifyProved!Differential!Combine,
     VerifyProved!Differential!TenantClause, VerifyProved!Differential!RoleClause,
     VerifyProved!Differential!DirectClause, Verification!Differential!AdmittedByNaiveFilter,
     Verification!Differential!Combine, Verification!Differential!TenantClause,
     Verification!Differential!RoleClause, Verification!Differential!DirectClause
<1>7. \A r, m, e, p : VerifyProved!Differential!Enforce(r, m, e, p)
        <=> Verification!Differential!Enforce(r, m, e, p)
  BY <1>3, <1>4, <1>6 DEF VerifyProved!Differential!Enforce, Verification!Differential!Enforce
<1> QED
  BY <1>1, <1>2, <1>5, <1>7

LEMMA SameDifferentialSteps ==
  Verification!Differential!Next <=> VerifyProved!Differential!Next
<1> USE SameDifferentialWorld
<1>1. /\ Verification!Differential!Probes = VerifyProved!Differential!Probes
      /\ Verification!Differential!Indexed = VerifyProved!Differential!Indexed
      /\ Verification!Differential!Started <=> VerifyProved!Differential!Started
      /\ \A p : Verification!Differential!Runnable(p) <=> VerifyProved!Differential!Runnable(p)
      /\ \A s, n : Verification!Differential!Slice(s, n) = VerifyProved!Differential!Slice(s, n)
      /\ \A o, u : Verification!Differential!Outcome(o, u)
           = VerifyProved!Differential!Outcome(o, u)
  BY DEF Verification!Differential!Probes, VerifyProved!Differential!Probes,
     Verification!Differential!Indexed, VerifyProved!Differential!Indexed,
     Verification!Differential!Started, VerifyProved!Differential!Started,
     Verification!Differential!EnforcementModels, VerifyProved!Differential!EnforcementModels,
     Verification!Differential!Runnable, VerifyProved!Differential!Runnable,
     Verification!Differential!Slice, VerifyProved!Differential!Slice,
     Verification!Differential!Outcome, VerifyProved!Differential!Outcome
<1>2. /\ \A i : Verification!Differential!Matches(i) = VerifyProved!Differential!Matches(i)
      /\ \A i, p : Verification!Differential!SimulatedAnswer(i, p)
           = VerifyProved!Differential!SimulatedAnswer(i, p)
      /\ \A c : Verification!Differential!Traceable(c) <=> VerifyProved!Differential!Traceable(c)
      /\ \A c, p : Verification!Differential!Permitted(c, p)
           <=> VerifyProved!Differential!Permitted(c, p)
      /\ Verification!Differential!InProbe <=> VerifyProved!Differential!InProbe
      /\ Verification!Differential!Running <=> VerifyProved!Differential!Running
      /\ Verification!Differential!Turn <=> VerifyProved!Differential!Turn
      /\ Verification!Differential!PrincipalOnTurn = VerifyProved!Differential!PrincipalOnTurn
  BY <1>1 DEF Verification!Differential!Matches, VerifyProved!Differential!Matches,
     Verification!Differential!SimulatedAnswer, VerifyProved!Differential!SimulatedAnswer,
     Verification!Differential!Traceable, VerifyProved!Differential!Traceable,
     Verification!Differential!Permitted, VerifyProved!Differential!Permitted,
     Verification!Differential!InProbe, VerifyProved!Differential!InProbe,
     Verification!Differential!Running, VerifyProved!Differential!Running,
     Verification!Differential!Turn, VerifyProved!Differential!Turn,
     Verification!Differential!PrincipalOnTurn, VerifyProved!Differential!PrincipalOnTurn
<1>3. /\ \A i, p : Verification!Differential!Truth(i, p) = VerifyProved!Differential!Truth(i, p)
      /\ \A i : Verification!Differential!Absent(i) = VerifyProved!Differential!Absent(i)
      /\ \A i, a : Verification!Differential!Extras(i, a) = VerifyProved!Differential!Extras(i, a)
  BY <1>1, <1>2 DEF Verification!Differential!Truth, VerifyProved!Differential!Truth,
     Verification!Differential!Absent, VerifyProved!Differential!Absent,
     Verification!Differential!Extras, VerifyProved!Differential!Extras
<1>4. \A i, a : Verification!Differential!Undetermined(i, a)
        = VerifyProved!Differential!Undetermined(i, a)
  BY <1>1, <1>2, <1>3 DEF Verification!Differential!Undetermined,
     VerifyProved!Differential!Undetermined
<1>5. \A i, p, a : Verification!Differential!Returned(i, p, a)
        = VerifyProved!Differential!Returned(i, p, a)
  BY <1>1, <1>2, <1>3 DEF Verification!Differential!Returned, VerifyProved!Differential!Returned
<1>6. \A i, k, p, a : Verification!Differential!Judged(i, k, p, a)
        = VerifyProved!Differential!Judged(i, k, p, a)
  <2> SUFFICES ASSUME NEW i, NEW k, NEW p, NEW a
               PROVE  Verification!Differential!Judged(i, k, p, a)
                        = VerifyProved!Differential!Judged(i, k, p, a)
    OBVIOUS
  <2>1. Verification!Differential!Returned(i, p, a) = VerifyProved!Differential!Returned(i, p, a)
    BY <1>5
  <2>2. Verification!Differential!Undetermined(i, a) = VerifyProved!Differential!Undetermined(i, a)
    BY <1>4
  <2>3. Verification!Differential!Truth(i, p) = VerifyProved!Differential!Truth(i, p)
    BY <1>3
  <2>4. Verification!Differential!Absent(i) = VerifyProved!Differential!Absent(i)
    BY <1>3
  <2>5. \A o, u : Verification!Differential!Outcome(o, u) = VerifyProved!Differential!Outcome(o, u)
    BY <1>1
  <2>6. Verification!Differential!Probes = VerifyProved!Differential!Probes
    BY <1>1
  <2> QED
    BY ONLY <2>1, <2>2, <2>3, <2>4, <2>5, <2>6, Zenon DEF Verification!Differential!Judged,
       VerifyProved!Differential!Judged
<1>7. \A a : Verification!Differential!Ask(a) <=> VerifyProved!Differential!Ask(a)
  BY <1>2, <1>6 DEF Verification!Differential!Ask, VerifyProved!Differential!Ask
<1>8. /\ Verification!Differential!FailOnEnforcement
           <=> VerifyProved!Differential!FailOnEnforcement
      /\ Verification!Differential!SkipProbe <=> VerifyProved!Differential!SkipProbe
      /\ Verification!Differential!FailOnPrincipal <=> VerifyProved!Differential!FailOnPrincipal
      /\ Verification!Differential!FailOnRetrieve <=> VerifyProved!Differential!FailOnRetrieve
      /\ Verification!Differential!NextProbe <=> VerifyProved!Differential!NextProbe
  BY <1>1, <1>2 DEF Verification!Differential!FailOnEnforcement,
     VerifyProved!Differential!FailOnEnforcement, Verification!Differential!SkipProbe,
     VerifyProved!Differential!SkipProbe, Verification!Differential!FailOnPrincipal,
     VerifyProved!Differential!FailOnPrincipal, Verification!Differential!FailOnRetrieve,
     VerifyProved!Differential!FailOnRetrieve, Verification!Differential!NextProbe,
     VerifyProved!Differential!NextProbe
<1> QED
  BY <1>1, <1>7, <1>8 DEF Verification!Differential!Next, VerifyProved!Differential!Next

LEMMA SameVerifySteps ==
  Verification!Next <=> VerifyProved!Next
<1>1. Verification!CheckPropagation <=> VerifyProved!CheckPropagation
  BY SamePropagationSteps DEF Verification!CheckPropagation, VerifyProved!CheckPropagation,
     Verification!probesVars, VerifyProved!probesVars
<1>2. Verification!RunProbes <=> VerifyProved!RunProbes
  BY SameDifferentialSteps DEF Verification!RunProbes, VerifyProved!RunProbes,
     Verification!propagationVars, VerifyProved!propagationVars
<1>3. Verification!PropagationReturns <=> VerifyProved!PropagationReturns
  BY DEF Verification!PropagationReturns, VerifyProved!PropagationReturns,
     Verification!Propagation!Returned, VerifyProved!Propagation!Returned,
     Verification!propagationVars, VerifyProved!propagationVars,
     Verification!probesVars, VerifyProved!probesVars
<1>4. Verification!MakeReport <=> VerifyProved!MakeReport
  <2>1. Verification!Differential!Done <=> VerifyProved!Differential!Done
    BY DEF Verification!Differential!Done, VerifyProved!Differential!Done,
       Verification!Differential!Started, VerifyProved!Differential!Started,
       Verification!Differential!EnforcementModels, VerifyProved!Differential!EnforcementModels,
       Verification!Differential!InProbe, VerifyProved!Differential!InProbe,
       Verification!Differential!Probes, VerifyProved!Differential!Probes
  <2>2. Verification!Partial <=> VerifyProved!Partial
    BY DEF Verification!Partial, VerifyProved!Partial
  <2>3. \A S : Verification!Cardinality(S) = VerifyProved!Cardinality(S)
    BY DEF Verification!Cardinality, VerifyProved!Cardinality
  <2> QED
    BY <2>1, <2>2, <2>3 DEF Verification!MakeReport, VerifyProved!MakeReport,
       Verification!propagationVars, VerifyProved!propagationVars,
       Verification!probesVars, VerifyProved!probesVars
<1>5. Verification!Exit <=> VerifyProved!Exit
  BY DEF Verification!Exit, VerifyProved!Exit, Verification!ExitStatus, VerifyProved!ExitStatus,
     Verification!propagationVars, VerifyProved!propagationVars,
     Verification!probesVars, VerifyProved!probesVars
<1>6. Verification!Raise <=> VerifyProved!Raise
  BY DEF Verification!Raise, VerifyProved!Raise,
     Verification!propagationVars, VerifyProved!propagationVars,
     Verification!probesVars, VerifyProved!probesVars
<1> QED
  BY <1>1, <1>2, <1>3, <1>4, <1>5, <1>6 DEF Verification!Next, VerifyProved!Next

\* What Verify assumes of its scenarios and variants is so of those that can be read.
LEMMA VerifyAssumptions ==
  /\ NoTenant \notin Tenants
  /\ None \notin ChunkIds
  /\ None \notin VerifyProved!Entitlement
  /\ None \notin [at: Nat, aware: BOOLEAN]
  /\ \A s \in ScenariosRead : VerifyProved!IsScenario(s)
  /\ \A v \in VariantsRead : VerifyProved!IsVariant(v)
  /\ None \notin VerifyProved!VerificationReport \cup {"zero", "one", "raised"}
<1>1. /\ VerifyProved!Entitlement = Entitlement
      /\ VerifyProved!Principal = Principal
      /\ VerifyProved!Time = Time
      /\ VerifyProved!Probe = Probe
      /\ VerifyProved!Rule = Rule
  BY DEF VerifyProved!Entitlement, Entitlement, VerifyProved!Principal, Principal,
     VerifyProved!Time, Time, VerifyProved!Probe, Probe, VerifyProved!Rule, Rule,
     VerifyProved!TenantClauses, TenantClauses, VerifyProved!RoleClauses, RoleClauses,
     VerifyProved!DirectClauses, DirectClauses, VerifyProved!Combinators, Combinators
<1>2. /\ VerifyProved!SourceDocument = SourceDocument
      /\ VerifyProved!Chunk = Chunk
  BY <1>1 DEF VerifyProved!SourceDocument, SourceDocument, VerifyProved!Chunk, Chunk
<1>3. \A f, S, T : VerifyProved!IsDict(f, S, T) <=> IsDict(f, S, T)
  BY DEF VerifyProved!IsDict, IsDict, VerifyProved!IsFiniteSet, IsFiniteSet
<1>4. \A s \in ScenariosRead : VerifyProved!IsScenario(s)
  BY <1>1, <1>2, <1>3 DEF VerifyProved!IsScenario, IsScenario, ScenariosRead
<1>5. \A v \in VariantsRead : VerifyProved!IsVariant(v)
  BY <1>1, <1>2, <1>3 DEF VerifyProved!IsVariant, IsVariant, VariantsRead
<1>6. VerifyProved!VerificationReport = Verification!VerificationReport
  <2>1. VerifyProved!Propagation!PropagationFinding = Verification!Propagation!PropagationFinding
    BY DEF VerifyProved!Propagation!PropagationFinding,
       Verification!Propagation!PropagationFinding, VerifyProved!Propagation!Verdicts,
       Verification!Propagation!Verdicts, VerifyProved!Propagation!Causes,
       Verification!Propagation!Causes, VerifyProved!Propagation!Entitlement,
       Verification!Propagation!Entitlement
  <2>2. VerifyProved!Differential!ProbeResult = Verification!Differential!ProbeResult
    BY DEF VerifyProved!Differential!ProbeResult, Verification!Differential!ProbeResult,
       VerifyProved!Differential!Outcomes, Verification!Differential!Outcomes
  <2> QED
    BY <2>1, <2>2 DEF VerifyProved!VerificationReport, Verification!VerificationReport
<1> QED
  BY <1>1, <1>4, <1>5, <1>6, NoTenantAssumption, NoneAssumption, NoReportAssumption

\* Until the index is read nothing of verify has begun.
NotBegun ==
  phase \in Before =>
    /\ current = None /\ left = {} /\ bound = None /\ findings = {} /\ untraceable = 0
    /\ propagationFailed = FALSE
    /\ probe = 1 /\ turn = 1 /\ results = {} /\ skipped = {} /\ probesFailed = FALSE
    /\ report = None /\ status = None

LEMMA NotBegunCorrect == Spec => [](NotBegun /\ live = TRUE)
<1>1. Init => NotBegun /\ live = TRUE
  BY DEF Init, NotBegun
<1>2. ASSUME Typed, NotBegun /\ live = TRUE, [Next]_vars
      PROVE  (NotBegun /\ live = TRUE)'
  <2>1. CASE World \/ UNCHANGED vars
    <3>1. UNCHANGED <<propagationVars, probesVars, phase, report, status>>
      BY <2>1, WorldFrame DEF vars, verifyVars
    <3> QED
      BY <1>2, <3>1 DEF NotBegun, propagationVars, probesVars
  <2>2. CASE ReadingAction
    BY <1>2, <2>2, ReadingFrame DEF NotBegun, propagationVars, probesVars
  <2>3. CASE FailingAction
    BY <1>2, <2>3, FailingFrame DEF NotBegun, Before, probesVars
  <2>4. CASE ReadIndex
    BY <1>2, <2>4 DEF NotBegun, ReadIndex, Before, probesVars
  <2>5. CASE AskStore \/ VerifyOn
    <3>1. phase' \notin Before /\ live' = live
      BY <2>5, AskFrame, VerifyFrame DEF Verifying, Before
    <3> QED
      BY <1>2, <3>1 DEF NotBegun
  <2> QED
    BY <1>2, <2>1, <2>2, <2>3, <2>4, <2>5, Steps
<1> QED
  BY <1>1, <1>2, AlwaysTyped, PTL DEF Spec

InVerify == phase \in Verifying
Exited == phase = "exited"
Reported == report # None \/ status \in {"zero", "one"} \/ propagationFailed

\* Verification begins with the reading of the index, and not in the middle.
LEMMA VerifyBegins ==
  ASSUME Typed, NotBegun, live = TRUE, [Next]_vars, ~InVerify, ~Exited
  PROVE  ~Reported' /\ (InVerify' => VerifyProved!Init')
<1>1. phase \in Before
  BY DEF Typed, TypeOK, Phases, Verification!Phases, InVerify, Exited, Before, Verifying
<1>2. report = None /\ status = None /\ None \notin {"zero", "one"} /\ propagationFailed = FALSE
  BY <1>1, NoReportAssumption DEF NotBegun
<1>3. CASE World \/ UNCHANGED vars
  <2>1. phase' = phase /\ report' = report /\ status' = status
        /\ propagationFailed' = propagationFailed
    BY <1>3, WorldFrame DEF vars, verifyVars, propagationVars
  <2> QED
    BY <1>2, <2>1 DEF Reported, InVerify
<1>4. CASE ReadingAction \/ FailingAction
  <2>1. phase' \in Before \cup {"exited"} /\ report' = report /\ status' \in {status, "raised"}
        /\ propagationFailed' = propagationFailed
    BY <1>4, ReadingFrame, FailingFrame DEF propagationVars
  <2> QED
    BY <1>2, <2>1 DEF Reported, InVerify, Before, Verifying
<1>5. CASE ReadIndex
  <2>1. /\ UNCHANGED <<current, left, bound, findings, untraceable, propagationFailed, probesVars,
                       report, status>>
        /\ phase' = "check_propagation" /\ unexamined' = ChunkIdsHeld
        /\ scenario' = ScenarioRead /\ variant' = VariantRead
        /\ phase = "inventory"
    BY <1>5 DEF ReadIndex
  <2>2. DOMAIN variant'.chunks = unexamined'
    BY <2>1, IndexRead DEF Typed, TypeOK
  <2>3. ScenarioRead \in ScenariosRead
    <3>1. IsScenario(ScenarioRead)
      BY <2>1, GivenTyped
    <3>2. /\ ScenarioRead.documents \in Dicts(DocIds, SourceDocument)
          /\ ScenarioRead.principals \in Dicts(PrincipalIds, Principal)
          /\ ScenarioRead.probes \in Seq(Probe) /\ ScenarioRead.rule \in Rule
      BY <3>1, DictsHold DEF IsScenario
    <3> QED
      BY <3>1, <3>2 DEF ScenariosRead, ScenarioRead
  <2>4. VariantRead \in VariantsRead
    <3>1. IsVariant(VariantRead)
      BY <2>1, GivenTyped
    <3>2. /\ VariantRead.chunks \in Dicts(ChunkIds, Chunk)
          /\ VariantRead.enforcement \in STRING /\ VariantRead.ann_limit \in Int \cup {None}
      BY <3>1, DictsHold DEF IsVariant
    <3> QED
      BY <3>1, <3>2 DEF VariantsRead, VariantRead
  <2>5. VerifyProved!Propagation!Init'
    BY <1>1, <2>1, <2>2, <2>3, <2>4 DEF VerifyProved!Propagation!Init, NotBegun
  <2>6. VerifyProved!Differential!Init'
    BY <1>1, <2>1, <2>3, <2>4 DEF VerifyProved!Differential!Init, NotBegun, probesVars
  <2>7. VerifyProved!Init'
    BY <1>1, <2>1, <2>5, <2>6 DEF VerifyProved!Init, NotBegun
  <2> QED
    BY <1>2, <2>1, <2>7 DEF Reported
<1>6. CASE AskStore \/ VerifyOn
  BY <1>1, <1>6, AskFrame, VerifyFrame DEF Before, Verifying
<1> QED
  BY <1>3, <1>4, <1>5, <1>6, Steps

\* What the store answers is an answer verify allows for, whatever is in the index by then.
LEMMA AskIsVerify ==
  ASSUME Typed, live = TRUE, AskStore
  PROVE  VerifyProved!Next
<1>1. PICK answer : answer \in SUBSET ChunkIds /\ Verification!Differential!Ask(answer)
  <2>1. \A i \in DOMAIN points : points[i].chunk_id \in ChunkIds
    BY DEF Typed, TypeOK, IsDict, Point
  <2>2. PICK hits \in Hits(scenario.principals[Verification!Differential!PrincipalOnTurn]) :
          Verification!Differential!Ask({points[i].chunk_id : i \in hits})
    BY DEF AskStore
  <2>3. hits \subseteq DOMAIN points
    BY <2>2 DEF Hits
  <2>4. {points[i].chunk_id : i \in hits} \in SUBSET ChunkIds
    BY <2>1, <2>3
  <2> QED
    BY <2>2, <2>4
<1>2. Verification!Differential!Next
  BY <1>1 DEF Verification!Differential!Next
<1>3. Verification!RunProbes
  BY <1>2 DEF Verification!RunProbes, AskStore, propagationVars, Verification!propagationVars
<1> QED
  BY <1>3, SameVerifySteps DEF Verification!Next

LEMMA VerifyGoesOn ==
  ASSUME Typed, live = TRUE, [Next]_vars, InVerify
  PROVE  (InVerify' \/ Exited') /\ [VerifyProved!Next]_(VerifyProved!vars)
<1>1. CASE World \/ UNCHANGED vars
  <2>1. UNCHANGED verifyVars
    BY <1>1, WorldFrame DEF vars
  <2> QED
    BY <2>1 DEF verifyVars, propagationVars, probesVars, VerifyProved!vars,
       VerifyProved!propagationVars, VerifyProved!probesVars, InVerify
<1>2. CASE ReadingAction \/ FailingAction \/ ReadIndex
  BY <1>2, ReadingFrame, FailingFrame DEF InVerify, Before, Verifying, ReadIndex
<1>3. CASE AskStore
  BY <1>3, AskFrame, AskIsVerify DEF InVerify
<1>4. CASE VerifyOn
  BY <1>4, VerifyFrame, SameVerifySteps DEF VerifyOn, InVerify, Exited
<1> QED
  BY <1>1, <1>2, <1>3, <1>4, Steps

LEMMA ExitIsLast ==
  ASSUME [Next]_vars, Exited
  PROVE  UNCHANGED vars
<1>1. ~World
  BY WorldFrame DEF ChangesAreSeen, Exited
<1>2. ~ReadingAction /\ ~FailingAction /\ ~ReadIndex /\ ~AskStore
  BY ReadingFrame, FailingFrame, AskFrame DEF Exited, Before, ReadIndex
<1>3. ~VerifyOn
  BY VerifyFrame DEF Exited, Verifying
<1> QED
  BY <1>1, <1>2, <1>3, Steps

----------------------------------------------------------------------------
(* A scan is a verification from the reading of the index on. *)

\* Whatever happens to the files and the points meanwhile, and whatever the store answers, the
\* program that scans begins a verification when it has read the index, and from then on does
\* nothing but verify.
VerifyBegun == ~InVerify /\ InVerify' => VerifyProved!Init'
BeginsVerify == [][VerifyBegun]_vars

THEOREM ScanVerifies == Spec => BeginsVerify /\ [](VerifyProved!Init => VerifyProved!Spec)
<1>1. Init => ~InVerify /\ ~Exited
  BY DEF Init, InVerify, Exited, Verifying
<1>2. Typed /\ NotBegun /\ live = TRUE /\ [Next]_vars => [VerifyBegun]_vars
  <2> SUFFICES ASSUME Typed, NotBegun, live = TRUE, [Next]_vars, ~InVerify, InVerify'
               PROVE  VerifyProved!Init'
    BY DEF VerifyBegun
  <2>1. ~Exited
    BY ExitIsLast DEF Exited, InVerify, Verifying, vars, verifyVars
  <2> QED
    BY <2>1, VerifyBegins
<1>3. Typed /\ live = TRUE /\ [Next]_vars /\ InVerify =>
        (InVerify' \/ Exited') /\ [VerifyProved!Next]_(VerifyProved!vars)
  BY VerifyGoesOn
<1>4. [Next]_vars /\ Exited => Exited' /\ [VerifyProved!Next]_(VerifyProved!vars)
  BY ExitIsLast DEF Exited, vars, verifyVars, propagationVars, probesVars, VerifyProved!vars,
     VerifyProved!propagationVars, VerifyProved!probesVars
<1>5. VerifyProved!Init => InVerify
  BY DEF VerifyProved!Init, InVerify, Verifying
<1> QED
  BY <1>1, <1>2, <1>3, <1>4, <1>5, AlwaysTyped, NotBegunCorrect, PTL
     DEF Spec, BeginsVerify, VerifyProved!Spec

\* So a scan keeps the contract of a verification over what it read, while all of it may
\* already be otherwise: no list's entry is asked twice, and a zero status leaves nothing to
\* explain.
THEOREM ScanKeepsContract == Spec => [](VerifyProved!Init => VerifyProved!RefinesContract)
<1>1. VerifyProved!Spec => VerifyProved!RefinesContract
  BY VerifyProved!Refinement, VerifyAssumptions
<1> QED
  BY <1>1, ScanVerifies, PTL

\* What is so of every verification is so of a scan as long as it verifies, and of what it
\* reports.
LEMMA Carried ==
  /\ Init => ~InVerify /\ ~Exited /\ ~Reported
  /\ Typed /\ NotBegun /\ live = TRUE /\ [Next]_vars /\ ~InVerify /\ ~Exited =>
       ~Reported' /\ (InVerify' => VerifyProved!Init')
  /\ Typed /\ live = TRUE /\ [Next]_vars /\ InVerify =>
       (InVerify' \/ Exited') /\ [VerifyProved!Next]_(VerifyProved!vars)
  /\ [Next]_vars /\ Exited =>
       Exited' /\ (Reported' <=> Reported) /\ [VerifyProved!Next]_(VerifyProved!vars)
  /\ ~(InVerify /\ Exited)
<1>1. Init => ~InVerify /\ ~Exited /\ ~Reported
  BY NoReportAssumption DEF Init, InVerify, Exited, Reported, Verifying
<1>2. [Next]_vars /\ Exited =>
        Exited' /\ (Reported' <=> Reported) /\ [VerifyProved!Next]_(VerifyProved!vars)
  BY ExitIsLast DEF Exited, Reported, vars, verifyVars, propagationVars, probesVars,
     VerifyProved!vars, VerifyProved!propagationVars, VerifyProved!probesVars
<1>3. ~(InVerify /\ Exited)
  BY DEF InVerify, Exited, Verifying
<1> QED
  BY <1>1, <1>2, <1>3, VerifyBegins, VerifyGoesOn

\* However files and points change during a scan, a report covers every chunk and every probe
\* that was read, there is none when either axis failed, and it is not the files or the points
\* that make the first axis fail, but times of which one names its offset and one does not.
THEOREM ScanReportComplete == Spec => []Verification!ReportIsComplete
<1>1. VerifyProved!Spec => []VerifyProved!ReportIsComplete
  BY VerifyProved!ReportCompleteCorrect, VerifyAssumptions
<1>2. \A s, k : VerifyProved!SourceEntitlements(s, k) = Verification!SourceEntitlements(s, k)
  BY DEF VerifyProved!SourceEntitlements, Verification!SourceEntitlements,
     VerifyProved!SourceAt, Verification!SourceAt, VerifyProved!Located, Verification!Located
<1>3. /\ \A k : VerifyProved!HasIncomparableTimes(k) <=> Verification!HasIncomparableTimes(k)
      /\ VerifyProved!EnforcementIsKnown <=> Verification!EnforcementIsKnown
      /\ \A p : VerifyProved!NamesUnknownIdentity(p) <=> Verification!NamesUnknownIdentity(p)
  BY DEF VerifyProved!HasIncomparableTimes, Verification!HasIncomparableTimes,
     VerifyProved!SourceAt, Verification!SourceAt, VerifyProved!Located, Verification!Located,
     VerifyProved!EnforcementIsKnown, Verification!EnforcementIsKnown,
     VerifyProved!EnforcementModels, Verification!EnforcementModels,
     VerifyProved!NamesUnknownIdentity, Verification!NamesUnknownIdentity,
     VerifyProved!Range, Verification!Range
<1>4. VerifyProved!ReportIsComplete => Verification!ReportIsComplete
  BY <1>2, <1>3 DEF VerifyProved!ReportIsComplete, Verification!ReportIsComplete
<1>5. live = TRUE /\ ~Reported => Verification!ReportIsComplete
  BY DEF Reported, Verification!ReportIsComplete
<1>6. Spec => [](Reported => VerifyProved!ReportIsComplete)
  BY <1>1, Carried, AlwaysTyped, NotBegunCorrect, PTL DEF Spec, VerifyProved!Spec
<1> QED
  BY <1>4, <1>5, <1>6, NotBegunCorrect, PTL

\* A scan that ends in zero served nobody, of the chunks it had read, what the files it had read
\* refuse, and starved nobody: also when the store answered from points that had changed since.
THEOREM ScanZeroMeansEnforced == Spec => []Verification!ZeroMeansEnforced
<1>1. VerifyProved!Spec => []VerifyProved!ZeroMeansEnforced
  BY VerifyProved!ZeroCorrect, VerifyAssumptions
<1>2. \A s, k : VerifyProved!SourceEntitlements(s, k) = Verification!SourceEntitlements(s, k)
  BY DEF VerifyProved!SourceEntitlements, Verification!SourceEntitlements,
     VerifyProved!SourceAt, Verification!SourceAt, VerifyProved!Located, Verification!Located
<1>3. \A r, e, p : VerifyProved!Entitled(r, e, p) <=> Verification!Entitled(r, e, p)
  BY DEF VerifyProved!Entitled, VerifyProved!ClausesGrant, VerifyProved!Combine,
     VerifyProved!TenantClause, VerifyProved!RoleClause, VerifyProved!DirectClause,
     Verification!Entitled, Verification!ClausesGrant, Verification!Combine,
     Verification!TenantClause, Verification!RoleClause, Verification!DirectClause
<1>4. \A s, k, p : VerifyProved!SourcesGrant(s, k, p) <=> Verification!SourcesGrant(s, k, p)
  BY <1>2, <1>3 DEF VerifyProved!SourcesGrant, Verification!SourcesGrant,
     VerifyProved!EntitledByAll, Verification!EntitledByAll
<1>5. \A f : VerifyProved!Range(f) = Verification!Range(f)
  BY DEF VerifyProved!Range, Verification!Range
<1>6. VerifyProved!ZeroMeansEnforced => Verification!ZeroMeansEnforced
  BY <1>3, <1>4, <1>5 DEF VerifyProved!ZeroMeansEnforced, Verification!ZeroMeansEnforced
<1>7. ~Reported => Verification!ZeroMeansEnforced
  BY DEF Reported, Verification!ZeroMeansEnforced
<1>8. Spec => [](Reported => VerifyProved!ZeroMeansEnforced)
  BY <1>1, Carried, AlwaysTyped, NotBegunCorrect, PTL DEF Spec, VerifyProved!Spec
<1> QED
  BY <1>6, <1>7, <1>8, PTL

\* Whether the store's filter lets p have a point, and whether the point's tag grants it.
Lets(i, p) == p.tenant \in points[i].entitlement.tenants
May(i, p) == Entitled(scenario.rule, points[i].entitlement, p)

\* While nothing changes, and without a limit, the status alone says it all: zero means that
\* every point is tagged with what its one file says, and that the store's filter lets through
\* to everybody a probe names nothing the files refuse, and all the probe lists that they
\* grant.  Whoever reads only the exit status is told no more than is so of files and store.
QuietZeroIsTrue ==
  quiet /\ status = "zero" /\ OnePointAChunk /\ variant.ann_limit \in {None, 0} =>
    /\ \A i \in DOMAIN points : \E j \in FilesOf(i) :
         FilesOf(i) = {j} /\ points[i].entitlement = FileSays(i, j)
    /\ \A n \in DOMAIN scenario.probes :
         /\ Range(scenario.probes[n].matches) \subseteq ChunkIdsHeld
         /\ \A k \in DOMAIN scenario.probes[n].principals :
              LET p == scenario.principals[scenario.probes[n].principals[k]]
              IN  \A i \in DOMAIN points :
                    /\ Lets(i, p) => May(i, p)
                    /\ points[i].chunk_id \in Range(scenario.probes[n].matches) /\ May(i, p) =>
                         Lets(i, p)

\* A result there is for the k-th identity of the n-th probe.
AnsweredWell(n, k) ==
  \E r \in report.probes :
    /\ r.probe = n /\ r.principal_id = scenario.probes[n].principals[k]
    /\ r.over_retrieved = {} /\ r.under_retrieved = {}

LEMMA ZeroAsked ==
  ASSUME VerifyProved!ZeroIsExhaustive, status = "zero",
         NEW n \in DOMAIN scenario.probes, NEW k \in DOMAIN scenario.probes[n].principals
  PROVE  AnsweredWell(n, k)
<1>1. \A i \in DOMAIN scenario.probes :
        \A j \in DOMAIN VerifyProved!Principals(i) :
          \E r \in report.probes :
            /\ r.probe = i /\ r.principal_id = VerifyProved!Principals(i)[j]
            /\ r.over_retrieved = {} /\ r.under_retrieved = {}
  BY DEF VerifyProved!ZeroIsExhaustive
<1>2. VerifyProved!Principals(n) = scenario.probes[n].principals
  BY DEF VerifyProved!Principals
<1>3. \A j \in DOMAIN VerifyProved!Principals(n) :
        \E r \in report.probes :
          /\ r.probe = n /\ r.principal_id = VerifyProved!Principals(n)[j]
          /\ r.over_retrieved = {} /\ r.under_retrieved = {}
  BY <1>1, Zenon
<1> QED
  BY <1>2, <1>3, Zenon DEF AnsweredWell

\* What the exit status of a quiet scan claims is so for all files, points, targets and stores.
THEOREM QuietZeroIsTrueCorrect == Spec => []QuietZeroIsTrue
<1>1. VerifyProved!Spec => []VerifyProved!ZeroIsExhaustive
  BY VerifyProved!ZeroExhaustiveCorrect, VerifyAssumptions
<1>2. Spec => [](Reported => VerifyProved!ZeroIsExhaustive)
  BY <1>1, Carried, AlwaysTyped, NotBegunCorrect, PTL DEF Spec, VerifyProved!Spec
<1>3. ASSUME QuietScanIsExact, Exact, Reported => VerifyProved!ZeroIsExhaustive
      PROVE  QuietZeroIsTrue
  <2> SUFFICES ASSUME quiet, status = "zero", OnePointAChunk, variant.ann_limit \in {None, 0}
               PROVE  QuietZeroIsTrue
    BY DEF QuietZeroIsTrue
  <2>1. VerifyProved!ZeroIsExhaustive
    BY <1>3 DEF Reported
  <2>2. /\ report # None /\ report.propagation = {}
        /\ \A n \in DOMAIN scenario.probes :
             Range(scenario.probes[n].matches) \subseteq DOMAIN variant.chunks
    BY <2>1 DEF VerifyProved!ZeroIsExhaustive, VerifyProved!Listed, VerifyProved!Range, Range
  <2>3. DOMAIN variant.chunks = ChunkIdsHeld
    BY <1>3, <2>2 DEF Exact, QuietRead, Given
  <2>4. ASSUME NEW i \in DOMAIN points
        PROVE  \E j \in FilesOf(i) :
                 FilesOf(i) = {j} /\ points[i].entitlement = FileSays(i, j)
    BY <1>3, <2>2 DEF QuietScanIsExact
  <2>5. ASSUME NEW n \in DOMAIN scenario.probes,
               NEW k \in DOMAIN scenario.probes[n].principals, NEW i \in DOMAIN points
        PROVE  LET p == scenario.principals[scenario.probes[n].principals[k]]
               IN  /\ Lets(i, p) => May(i, p)
                   /\ points[i].chunk_id \in Range(scenario.probes[n].matches) /\ May(i, p) =>
                        Lets(i, p)
    <3> DEFINE p == scenario.principals[scenario.probes[n].principals[k]]
               c == points[i].chunk_id
    <3>1. PICK r \in report.probes :
            /\ r.probe = n /\ r.principal_id = scenario.probes[n].principals[k]
            /\ r.over_retrieved = {} /\ r.under_retrieved = {}
      <4>1. AnsweredWell(n, k)
        BY <2>1, ZeroAsked
      <4> QED
        BY <4>1, Zenon DEF AnsweredWell
    <3>2. /\ {e \in ChunkIdsHeld : ChunkServed(e, p) /\ ChunkHasFile(e) /\ ~ChunkGranted(e, p)} = {}
          /\ {e \in Range(scenario.probes[n].matches) \cap ChunkIdsHeld :
                ChunkGranted(e, p) /\ ~ChunkServed(e, p)} = {}
      BY <1>3, <2>2, <3>1 DEF QuietScanIsExact
    <3>3. PICK j \in FilesOf(i) :
            FilesOf(i) = {j} /\ points[i].entitlement = FileSays(i, j)
      BY <2>4
    <3>4. c \in ChunkIdsHeld
      BY DEF ChunkIdsHeld
    <3>5. \A q \in DOMAIN points : points[q].chunk_id = c => q = i
      BY DEF OnePointAChunk
    <3> HIDE DEF p
    <3>6. ChunkServed(c, p) <=> Lets(i, p)
      BY <3>5 DEF ChunkServed, Lets
    <3>7. ChunkHasFile(c)
      BY <3>3 DEF ChunkHasFile
    <3>8. ChunkGranted(c, p) <=> May(i, p)
      BY <3>3, <3>5 DEF ChunkGranted, May
    <3>9. (Lets(i, p) => May(i, p))
          /\ (c \in Range(scenario.probes[n].matches) /\ May(i, p) => Lets(i, p))
      BY <3>2, <3>4, <3>6, <3>7, <3>8
    <3> QED
      BY <3>9 DEF p
  <2> QED
    BY <2>2, <2>3, <2>4, <2>5 DEF QuietZeroIsTrue
<1> QED
  BY <1>2, <1>3, QuietScanIsExactCorrect, AlwaysExact, PTL

----------------------------------------------------------------------------
(* A scan comes to its end: its every step leaves less to do. *)

\* What is left to read, the weightiest first.
StagesLeft ==
  CASE phase = "before" -> 5
    [] phase = "list" -> 4
    [] phase = "files" -> 3
    [] phase = "inventory" -> 2
    [] phase \in Verifying -> 1
    [] OTHER -> 0
PathsLeft == Cardinality(listed)
StatLeft == IF pending = None THEN 0 ELSE 1

\* And then what is left to verify.
VerifyLeft == IF InVerify THEN VerifyProved!Remaining ELSE [n \in 1..7 |-> 0]

ToRead == <<StagesLeft, PathsLeft, StatLeft>>
ScanLeft == <<ToRead, VerifyLeft>>

ReadCounts == [1..3 -> Nat]
ReadFewer == LexProductOrdering(OpToRel(<, Nat), Nat, 3)
ScanCounts == ReadCounts \X VerifyProved!Counts
ScanFewer == LexPairOrdering(ReadFewer, VerifyProved!Fewer, ReadCounts, VerifyProved!Counts)

\* Nothing goes down for ever in this order.
LEMMA ScanFewerIsWellFounded == IsWellFoundedOn(ScanFewer, ScanCounts)
<1>1. IsWellFoundedOn(ReadFewer, ReadCounts)
  <2>1. 3 \in Nat
    OBVIOUS
  <2> QED
    BY <2>1, NatLessThanWellFounded, WFLexProductOrdering DEF ReadFewer, ReadCounts
<1>2. IsWellFoundedOn(VerifyProved!Fewer, VerifyProved!Counts)
  <2>1. VerifyProved!IsWellFoundedOn(VerifyProved!Fewer, VerifyProved!Counts)
    BY VerifyProved!FewerIsWellFounded, VerifyAssumptions
  <2> QED
    BY <2>1 DEF IsWellFoundedOn, VerifyProved!IsWellFoundedOn
<1> QED
  BY <1>1, <1>2, WFLexPairOrdering DEF ScanFewer, ScanCounts

LEMMA ReadFewerAt ==
  ASSUME NEW a \in ReadCounts, NEW b \in ReadCounts, NEW j \in 1..3,
         \A i \in 1..(j - 1) : a[i] = b[i], a[j] < b[j]
  PROVE  <<a, b>> \in ReadFewer
<1>1. <<a[j], b[j]>> \in OpToRel(<, Nat)
  BY DEF OpToRel, ReadCounts
<1>2. \E k \in 1..3 : /\ \A i \in 1..(k - 1) : a[i] = b[i]
                      /\ <<a[k], b[k]>> \in OpToRel(<, Nat)
  BY <1>1
<1> QED
  BY <1>2 DEF ReadFewer, LexProductOrdering, ReadCounts

\* The reading is nearer to its end, by a stage, by a path or by a file.
SomethingRead ==
  \/ StagesLeft' < StagesLeft
  \/ UNCHANGED StagesLeft /\ PathsLeft' < PathsLeft
  \/ UNCHANGED <<StagesLeft, PathsLeft>> /\ StatLeft' < StatLeft

LEMMA ReadIsFewer ==
  ASSUME ToRead \in ReadCounts, ToRead' \in ReadCounts, SomethingRead
  PROVE  <<ToRead', ToRead>> \in ReadFewer
<1> DEFINE a == ToRead'
           b == ToRead
<1>1. /\ a[1] = StagesLeft' /\ a[2] = PathsLeft' /\ a[3] = StatLeft'
      /\ b[1] = StagesLeft /\ b[2] = PathsLeft /\ b[3] = StatLeft
  BY DEF ToRead
<1>2. a \in ReadCounts /\ b \in ReadCounts
  OBVIOUS
<1> HIDE DEF a, b
<1>3. \E j \in 1..3 : (\A i \in 1..(j - 1) : a[i] = b[i]) /\ a[j] < b[j]
  <2>1. CASE a[1] < b[1]
    BY <2>1, 1 \in 1..3
  <2>2. CASE a[1] = b[1] /\ a[2] < b[2]
    BY <2>2, 2 \in 1..3
  <2>3. CASE a[1] = b[1] /\ a[2] = b[2] /\ a[3] < b[3]
    BY <2>3, 3 \in 1..3
  <2> QED
    BY <1>1, <2>1, <2>2, <2>3 DEF SomethingRead
<1>4. <<a, b>> \in ReadFewer
  BY <1>2, <1>3, ReadFewerAt
<1> QED
  BY <1>4 DEF a, b

\* The walk of the tree found finitely many paths.
ListedFinite == IsFiniteSet(listed)

LEMMA ListedFiniteCorrect == Spec => []ListedFinite
<1>1. Init => ListedFinite
  BY FS_EmptySet DEF Init, ListedFinite
<1>2. ASSUME Typed, ListedFinite, [Next]_vars
      PROVE  ListedFinite'
  <2>1. CASE ListFiles
    BY <1>2, <2>1 DEF ListFiles, ListedFinite, Typed, TypeOK, IsDict
  <2>2. CASE \E d \in listed : CheckFile(d)
    BY <1>2, <2>2, FS_RemoveElement DEF CheckFile, ListedFinite
  <2>3. CASE listed' = listed
    BY <1>2, <2>3 DEF ListedFinite
  <2>4. ListFiles \/ (\E d \in listed : CheckFile(d)) \/ listed' = listed
    <3>1. CASE World \/ UNCHANGED vars
      BY <3>1, WorldFrame DEF vars, readVars
    <3>2. CASE ReadingAction
      BY <3>2 DEF ReadingAction, Begin, StatFile, DocumentsRead
    <3>3. CASE FailingAction
      BY <3>3, FailingFrame DEF readVars
    <3>4. CASE ReadIndex
      BY <3>4 DEF ReadIndex
    <3>5. CASE AskStore \/ VerifyOn
      BY <3>5, AskFrame, VerifyFrame DEF readVars
    <3> QED
      BY <1>2, <3>1, <3>2, <3>3, <3>4, <3>5, Steps
  <2> QED
    BY <2>1, <2>2, <2>3, <2>4
<1> QED
  BY <1>1, <1>2, AlwaysTyped, PTL DEF Spec

LEMMA ToReadTyped ==
  ASSUME ListedFinite
  PROVE  ToRead \in ReadCounts
<1>1. StagesLeft \in Nat /\ StatLeft \in Nat
  BY DEF StagesLeft, StatLeft
<1>2. PathsLeft \in Nat
  BY FS_CardinalityType DEF PathsLeft, ListedFinite
<1> QED
  BY <1>1, <1>2 DEF ToRead, ReadCounts

\* A step of the scan that is no step of the verification reads on, or ends the reading.
LEMMA ReadingDoes ==
  ASSUME Typed, ListedFinite, ReadingAction \/ FailingAction \/ ReadIndex
  PROVE  SomethingRead
<1>1. CASE Begin \/ ListFiles \/ DocumentsRead \/ FailingAction \/ ReadIndex
  <2>1. StagesLeft' < StagesLeft
    BY <1>1 DEF Begin, ListFiles, DocumentsRead, Reading, FailingAction, FailOnTarget, FailOnStat,
       FailOnInputs, FailOnChunks, Raised, ReadIndex, StagesLeft, Verifying
  <2> QED
    BY <2>1 DEF SomethingRead
<1>2. CASE \E d \in listed : CheckFile(d)
  <2>1. PICK d \in listed : listed' = listed \ {d} /\ phase' = phase
    BY <1>2 DEF CheckFile, Reading
  <2>2. Cardinality(listed \ {d}) = Cardinality(listed) - 1 /\ Cardinality(listed) \in Nat
    BY FS_RemoveElement, FS_CardinalityType DEF ListedFinite
  <2>3. UNCHANGED StagesLeft /\ PathsLeft' < PathsLeft
    BY <2>1, <2>2 DEF StagesLeft, PathsLeft
  <2> QED
    BY <2>3 DEF SomethingRead
<1>3. CASE StatFile
  <2>1. pending # None /\ pending' = None /\ listed' = listed /\ phase' = phase
    BY <1>3 DEF StatFile, Reading
  <2> QED
    BY <2>1 DEF SomethingRead, StagesLeft, PathsLeft, StatLeft
<1> QED
  BY <1>1, <1>2, <1>3 DEF ReadingAction

LEMMA SameLeft ==
  ASSUME UNCHANGED verifyVars
  PROVE  UNCHANGED VerifyProved!Remaining
  BY DEF verifyVars, propagationVars, probesVars, VerifyProved!Remaining,
     VerifyProved!PhasesLeft, VerifyProved!AxesLeft, VerifyProved!ChunksLeft,
     VerifyProved!ChunkUnbegun, VerifyProved!SourcesLeft, VerifyProved!ProbesLeft,
     VerifyProved!TurnsLeft, VerifyProved!Principals, VerifyProved!Differential!InProbe,
     VerifyProved!Differential!Probes

\* Every step of the program brings the scan nearer to its end, in an order in which nothing
\* comes nearer for ever, and no change of the files or of the points takes it further from
\* it: however often the world changes, the scan has as much to do as it had.
ScanStep ==
  /\ Program => <<ScanLeft', ScanLeft>> \in ScanFewer
  /\ World => UNCHANGED ScanLeft
ScanRunsDown == [][ScanStep]_vars

LEMMA VerifyRunsDown ==
  Spec => [](InVerify => VerifyProved!Remaining \in VerifyProved!Counts)
          /\ [][InVerify => VerifyProved!LessLeft]_(VerifyProved!vars)
<1>1. VerifyProved!Spec =>
        [](VerifyProved!Remaining \in VerifyProved!Counts) /\ VerifyProved!RunsDown
  BY VerifyProved!RunsDownCorrect, VerifyAssumptions
<1> QED
  BY <1>1, Carried, AlwaysTyped, NotBegunCorrect, PTL
     DEF Spec, VerifyProved!Spec, VerifyProved!RunsDown

THEOREM ScanRunsDownCorrect == Spec => [](ScanLeft \in ScanCounts) /\ ScanRunsDown
<1> DEFINE Counted == InVerify => VerifyProved!Remaining \in VerifyProved!Counts
           Less == InVerify => VerifyProved!LessLeft
<1>1. ListedFinite /\ Counted => ScanLeft \in ScanCounts
  <2>1. [n \in 1..7 |-> 0] \in VerifyProved!Counts
    BY DEF VerifyProved!Counts
  <2> QED
    BY <2>1, ToReadTyped DEF ScanLeft, ScanCounts, VerifyLeft
<1> HIDE DEF Counted, Less
<1>2. ListedFinite' /\ Counted' => (ScanLeft \in ScanCounts)'
  BY <1>1, PTL
<1>3. Typed /\ ListedFinite /\ Counted /\ ListedFinite' /\ Counted'
        /\ [Less]_(VerifyProved!vars) /\ [Next]_vars => [ScanStep]_vars
  <2> SUFFICES ASSUME Typed, ListedFinite, Counted, ListedFinite', Counted',
                      [Less]_(VerifyProved!vars), Next, vars' # vars
               PROVE  ScanStep
    OBVIOUS
  <2>1. ScanLeft \in ScanCounts /\ ScanLeft' \in ScanCounts
    BY <1>1, <1>2
  <2>2. /\ ToRead \in ReadCounts /\ ToRead' \in ReadCounts
        /\ VerifyLeft \in VerifyProved!Counts /\ VerifyLeft' \in VerifyProved!Counts
    BY <2>1 DEF ScanLeft, ScanCounts
  <2>3. ASSUME SomethingRead PROVE <<ScanLeft', ScanLeft>> \in ScanFewer
    <3>1. <<ToRead', ToRead>> \in ReadFewer
      BY <2>2, <2>3, ReadIsFewer
    <3> QED
      BY <2>2, <3>1 DEF ScanLeft, ScanFewer, LexPairOrdering
  <2>4. ASSUME World PROVE UNCHANGED ScanLeft
    <3>1. UNCHANGED <<readVars, verifyVars>>
      BY <2>4, WorldFrame
    <3>2. UNCHANGED VerifyProved!Remaining
      BY <3>1, SameLeft
    <3> QED
      BY <3>1, <3>2 DEF readVars, verifyVars, ScanLeft, ToRead, StagesLeft, PathsLeft, StatLeft,
         VerifyLeft, InVerify
  <2>5. ASSUME AskStore \/ VerifyOn PROVE <<ScanLeft', ScanLeft>> \in ScanFewer
    <3>1. InVerify /\ UNCHANGED <<worldVars, readVars>>
      BY <2>5, AskFrame, VerifyFrame DEF InVerify, Verifying
    <3>2. CASE ~InVerify'
      <4>1. StagesLeft' < StagesLeft
        <5>1. phase' = "exited"
          BY <2>5, <3>2, AskFrame, VerifyFrame DEF InVerify, Verifying
        <5> QED
          BY <3>1, <5>1 DEF InVerify, Verifying, StagesLeft
      <4> QED
        BY <2>3, <4>1 DEF SomethingRead
    <3>3. CASE InVerify'
      <4>1. ToRead' = ToRead
        BY <3>1, <3>3 DEF readVars, ToRead, StagesLeft, PathsLeft, StatLeft, InVerify, Verifying
      <4>2. <<VerifyProved!Remaining', VerifyProved!Remaining>> \in VerifyProved!Fewer
        <5>1. VerifyProved!vars' # VerifyProved!vars
          BY <3>1 DEF vars, verifyVars, propagationVars, probesVars, VerifyProved!vars,
             VerifyProved!propagationVars, VerifyProved!probesVars
        <5> QED
          BY <3>1, <5>1 DEF Less, VerifyProved!LessLeft
      <4>3. VerifyLeft = VerifyProved!Remaining /\ VerifyLeft' = VerifyProved!Remaining'
        BY <3>1, <3>3 DEF VerifyLeft
      <4> QED
        BY <2>2, <4>1, <4>2, <4>3 DEF ScanLeft, ScanFewer, LexPairOrdering
    <3> QED
      BY <3>2, <3>3
  <2>6. Program => <<ScanLeft', ScanLeft>> \in ScanFewer
    BY <2>3, <2>5, ReadingDoes DEF Program, ReadingAction, FailingAction
  <2> QED
    BY <2>4, <2>6 DEF ScanStep
<1> QED
  BY <1>1, <1>3, ListedFiniteCorrect, VerifyRunsDown, AlwaysTyped, PTL
     DEF Spec, ScanRunsDown, Counted, Less
=============================================================================
