# A specification of tearline

tearline audits a retrieval index. It compares the entitlement tag of every chunk with what the
source documents of the chunk say (the propagation axis), asks the store the same questions under
several identities and compares the answers with what the sources grant (the differential axis),
and turns both into a report and an exit status. A wrong verdict accuses an innocent index or
clears a leaking one. These modules say what its verdicts claim, and check and prove how far the
code keeps it.

Paths are relative to `src/tearline/` unless they begin with `docs/`, `scripts/` or `tests/`. `DEC-nnn` is an
entry of `docs/architecture/decision-log.md`.

## The system

| part | state | operations | talks to |
|---|---|---|---|
| domain objects (`domain.py`) | immutable records | `Entitlement.intersect`, `Probe.runnable` | everything |
| entitlement rule (`entitlement_rule.py`) | three clauses and a combinator | `entitled`, `admitted_by_naive_filter`, `load_rule` | both axes |
| enforcement models (`rules.py`) | none | `enforcement_for`, `safe_bound`, `entitled_by_all` | both axes |
| propagation axis (`verify.py:71-145`) | findings, untraceable count, the bound being folded | `check_propagation` | rule, `safe_bound` |
| differential axis (`verify.py:148-255`) | results, skipped probes, the two loops | `run_probes`, simulated or live | rule, enforcement, the store by callback |
| verification (`verify.py:258-276`) | the report | `verify` | both axes, in this order |
| commands (`__init__.py`) | exit status | `exit_status`, `verify`, `scan`, `evaluate` | `verify`, `evaluate` |
| scan (`scan.py`) | scenario and variant read from live systems | `load_target`, `scan` | source, backend, `verify` |
| filesystem source (`sources.py`) | none; reads files | `documents` | the file system |
| Qdrant backend (`backends/qdrant.py`) | scroll offset, payloads | `chunks`, `retrieve` | the collection, by HTTP |
| PostgreSQL backend (`backends/pgvector.py`) | two connections | privilege check, `chunks`, `retrieve` | the database |
| fixtures (`fixtures.py`) | `Scenario`, `Variant` | `load_scenario`, `load_variant`, `load_principals`, `load_probes` | YAML files |
| evaluation (`evaluate.py`) | the problems and false positives of a score | `_load` with inheritance, `score`, negative set | `verify`, truth files |
| fixture validator (`scripts/validate_fixtures.py`) | the problems of a truth set | `check`: a second simulation of the probes | fixtures |

The program is sequential and keeps nothing between runs: there are no threads and no crash
recovery to get right. What is hard about it is elsewhere.

* **Set algebra as policy.** An empty set of roles may mean "nobody" or "anybody"; folding it over
  several sources can loosen the bound, or tighten it beyond what any source says.
* **Three-valued evidence.** A chunk without sources, an id the inventory lacks and a probe that
  names one identity are neither clean nor faulty, and may leave no trace or too large a one.
* **The world moves.** A scan reads files, then the index page by page, then asks the store, while
  files are re-permitted and points written between any two of its steps.
* **Things left unsaid.** A key of a file that is missing, empty or stated again is an error, unknown
  or inherited, depending on the key. Whatever fills it in judges by a rule that nobody stated, or
  lets a truth set pass that says nothing.
* **Identity by connection.** The PostgreSQL backend speaks for one principal after the other over
  one session, which a pool may share with others, under privileges that it checks once.
* **All or nothing.** One payload, timestamp, identity, file or request that is no good raises an
  exception. No report may be made of half a run, and every run must end.

## Modules

`Entitlements` the rule and the set algebra, as operators. `Domain` the records and what a scenario
and an index are. `Loading` how a scenario, an index and a target come of the mappings that YAML
yields: defaults, the last of two rows of one id, ids made texts as keys and refused where they are
referred to and are none (the dataclasses want texts), the groups of a target with what `str` makes
of a group mapped to nothing, and everything that raises. A probe has an id of its own beside its
place in the list, for nothing makes ids distinct. All three are pure.

`CheckPropagation` one run of `check_propagation`: a step takes a chunk nobody has looked at
(`ReportUntraceable`, `PassSingleSource`, `ContradictSingleSource`, `FailOnTimes` for the
`TypeError` of a naive against an aware time, `StartBound`), folds one source into the bound
(`IntersectNext`) or judges the tag by the finished bound (`ReportIndeterminate`,
`ReportExceeding`). `unexamined` is the rest of the loop, `current`, `left` and `bound` are the
locals of the branch for several sources. Chunks are taken in any order, which covers the sorted
one; so are the sources of a chunk, because a chunk may name them in any order.

`RunProbes` one run of `run_probes`: `probe` and `turn` are the two loops. `Ask(answer)` is the body
of the inner loop; simulated, the answer is computed as the code does, truncation and filter
included; live, it is any set of ids, known or not. `FailOnRetrieve`, `FailOnPrincipal` and
`FailOnEnforcement` are the exceptions. Each result also keeps the answer it was made of (`answer`,
and `turn`), which the code forgets and the properties need.

`Fixtures` is `RunProbes` on what `Loading` makes of raw files, to say what becomes of an entry
somebody left open. `ValidateFixtures` is `check` of `scripts/validate_fixtures.py`: the rows of a
truth set computed from the fixtures alone, question by question and compared under the id of the
probe, without any operator of the verifier but the rule, the
located sources and the enforcement models, which the script imports too; both are written beside
`RunProbes` because the property that ties them, `ValidatorAgrees`, speaks of its results.

`Verify` composes the two (`INSTANCE ... WITH`, their variables being its own) in the order of
`verify`, makes the report and exits with the status of it, or with an exception. `AuditContract` is
what a caller is promised: every entry of every list of identities is asked about, in any order,
each entry once, and at the end the
status is zero exactly if the index, the probes and the answers are clean, or there is no status at
all. It knows neither findings nor results nor an order. `Verify` implements it under the mapping
of `results` to the answers they were judged from.

`Evaluate` scores the report of a `Verify` run: `Load` merges a chain of truth files along their
`inherits` keys, `LastOn` is the dict of the results by probe id and identity, in which the last of several stays, be
they of one probe or of two with one id, `Problems` gathers what `score` calls misses, unexpected findings, disagreeing rows,
false positives and unconfirmed unverifiables. It adds no variables and no steps, because `score`
reads a finished report; `Truths` are the truth sets it may be scored against, right or wrong.

`QdrantScroll` the inventory read of a Qdrant collection, one request a step, beside clients that
upsert and delete points between the requests; then the dict that `scan` makes of it. The
collection is external: a page is the first `ScrollPage` points by id from the offset on, and the
next offset is the id of the first point that is left.

`PgVector` the PostgreSQL backend, one statement a step: `CheckRole`, `Refuse` and `Accept` are
`assert_subject_to_row_security`, then come `chunks` (`RefuseWithoutAdmin`, `RowSecurityOff`,
`SelectRows`, `ConvertRows`) and any number of `retrieve` (`Identify`, `SelectNearest`,
`EndRetrieve`). `FailOnStatement` is whatever a statement raises: nobody catches it and the
transaction stays as it is. A connection is a server session with a setting of its own (`session`)
and one that ends with the transaction (`local`, SET LOCAL). Others write the table (`Write`),
change privileges (`Regrant`, `RegrantAdmin`), force the policy on the owner of the table or do not
(`AlterTable`), and use the same sessions between two transactions
(`UseSession`), as a pool lets them. What the check asks of a role (`Bypasses`) and whom the database
applies the policy to (`Bound`) are two things: an owner passes the one and is bound only if the
table forces it. Each answer is kept beside what the policy granted at that
moment to the tenant it was asked for.

`Scan` a whole scan, from `target.yaml` on. `Begin` is `load_target`, for which `FailOnTarget` is
the other outcome, and so are `FailOnInputs` for the identities, the probes and the rule, read after
the documents. `ListFiles`, `CheckFile`, `StatFile` are `FilesystemSource.documents`: the tree
is listed, then each path is tested and read, and may vanish in between (`FailOnStat`). `ReadIndex`
is the inventory in one step, from which `verify` starts with the scenario and the variant read; it
instantiates `Verify`. `AskStore` restricts the answers to what a store with a tenant filter and a
limit may give of the points there are by then. `Touch`, `Remove`, `Ingest`, `Discard` and `Tick`
are everybody else. `history` is not part of the program: it records, from the ingestion of a point
to the reading of its file, whether its tag ever matched, which no timestamp can tell.

`MCWorld` holds the small world the runs share; `MC*` give the constants their values.

A definition introduced by "A wrong ..." is an operation as a plausible mistake would have it. No
specification uses it. Put in the place of the definition after it, it makes a property fail, which
is how we know that the property looks at the code.

## What the runs check

| run | states | shows |
|---|---|---|
| `check_propagation` | 59,094 | a chunk has at most one finding and the untraceable are counted exactly (`AccountedOnce`); the bound is the meet of the sources folded so far (`BoundIsMeet`); a chunk without a finding serves whom its sources grant and nobody else (`SilenceIsAgreement`); the two verdicts on a chunk of several sources hold under conditions spelled out (`IndeterminateDisclosesNothing`, `ExceedingIsReal`) |
| `run_probes` | 176,908 | over-retrieval is disclosure and under-retrieval starvation, exactly, whatever the store answers; no answered id is lost (`EveryAnswerReported`); in a simulation a contradiction means a wrong tag, and the direction of a defect its cause; a probe is skipped whole or asked once under each entry of its list; the validator computes the same rows (`ValidatorAgrees`); an entry left open is granted to nobody, also under a rule for which an empty set restricts nobody (`OpenEntriesServeNobody`) |
| `verify` | 234,144 | no report of half a run, and none lost but for what the fixtures hold or a store raised (`ReportIsComplete`); what zero claims (`ZeroMeansEnforced`); `RefinesContract`; every run ends (`EventuallyExits`). Of the reports of simulated runs, scored: a pass has judged every result whose key no later probe of the same id took (`PassSpeaksOfEveryResult`) and determines the exit status (`PassTellsTheStatus`); derived false positives are at most the subjects (`FalsePositivesWithinSubjects`); what an inherited file forbids stays forbidden (`InheritedStaysForbidden`); what the validator accepts differs from the report in nothing the validator compares (`ValidatedPasses`) |
| `qdrant_scroll` | 94,278 | what stays is read (`ScrollIsComplete`), once (`ReadOnce`), truthfully (`InventoryIsTrue`); at rest exactly, without a request too many (`QuietReadIsExact`); the read ends (`EventuallyReturns`) |
| `pgvector` | 768,468 | every answer is within what the policy grants the tenant asked for, until the role or the table is altered, and unless the role owns a table that does not force the policy on it (`AnswersObeyThePolicy`); no identity outlives its transaction and none is open between two calls (`SettingsStayInTheirTransaction`); an inventory is the whole table (`InventoryIsWhole`) |
| `scan` | 628,734 | a finding's cause is the chunk's history, but for two exceptions that are named (`CauseTellsHistory`); a scan of a world at rest is exact from the files to the report (`QuietScanIsExact`); the index is read only for a target that states by what to judge it, the text 'None' of a group mapped to nothing included (`JudgedByWhatIsStated`); it ends though the world never stops (`EventuallyExits`) |

Six runs find the code at odds with what it or its documents say. Each checks one property, the
statement as the code or a document makes it, and is expected to fail.

| run | the statement | why it fails |
|---|---|---|
| `bound_too_loose` | "the tag discloses nothing beyond what all of them permit" (`verify.py:125`) | `intersect` keeps the union of the roles when one side names none (`domain.py:83`), and a rule may read an emptied set as unrestricted |
| `agreeing_sources` | "sources diverge" (`verify.py:125`, `docs/architecture/data-model.md:128`) | two sources are enough, whatever they say |
| `lost_source` | a source that cannot be located makes the result `unverifiable` (DEC-005) | only if none is left; otherwise the others decide |
| `unforced_owner` | "Refuse to verify through a role that bypasses the policy." (`backends/pgvector.py:75`) | the check asks for two attributes of the role; the owner of a table without FORCE has neither and is not bound (`tests/live/harness.py:40`) |
| `no_admin` | "Without one the scan still runs the differential axis and says so." (`scan.py:86`) | `chunks()` raises first, and nobody catches it |
| `repeated_identity` | a probe compares "two or more distinct identities" (DEC-007) | `runnable` counts the entries of the list (`domain.py:123`) |

Where the code and its words part in ways that no run of its own shows, a condition of a property
says it. A tag that grants nothing any source refuses is accused of granting "beyond what every
source permits" (`verify.py:140`) where intersecting the sources loses somebody whom each of them
grants through another role (`ExceedingIsReal` asks that it loses nobody). Equal times mean
`propagation-fault` although the tag did once match (`verify.py:45`, `CauseTellsHistory`). An id
that a store answers with, the probe lists and the inventory lacks is called `absent_from_index` and
is not in `undetermined_returned` (`verify.py:204`, `EveryAnswerReported`). A group mapped to nothing
is one of the tenant 'None' (`scan.py:65`, `JudgedByWhatIsStated`). Results share a key when their
probes share an id (`evaluate.py:120`, `PassSpeaksOfEveryResult`), and an heir that states a key
without entries replaces what it inherits (`evaluate.py:73`, `InheritedStaysForbidden`). The subjects
an author names in `expected-clean.yaml` join the false positives and never the subjects they are
divided by (`evaluate.py:225`, `:257`), and an expected finding on a chunk the index lacks lowers the
number of silent chunks (`FalsePositivesWithinSubjects`). A chunk listed by a probe and missing from
the index is `absent_from_index` to the verifier and a KeyError to the validator
(`scripts/validate_fixtures.py:52`, `ValidatorAgrees`).

### Bounds, and why they are enough

* Entitlements: two tenants, two roles and the public marker, direct grants, an empty set on each
  axis, and `unknown`; four identities, of which one holds both roles, one is of the other tenant
  and one of none. Three rules that differ in every clause and combinator that matters: the one of
  the recorded scenarios, one with required roles and unrestricted tenants, one where a direct
  grant stands for the tenant. More values add no case: clauses look at membership, emptiness and
  inclusion. All rules are covered by the proofs.
* Chunks of no, one, two and three sources; a source that is gone, alone and beside another; the
  same source twice. Three sources are needed: an emptied set of roles widens at the next one.
* Times before and after each other, missing, and without a zone.
* Probes under no, one, two and the same identity twice, listing chunks that exist, that do not, and
  one chunk twice; two probes of one id; limits of none, 0, 1 and -1. In `verify` the store may answer with any subset of
  three ids, one of which the index does not hold.
* `ScrollPage = 2` with five ids: no page, a page that is not full, one and two full pages, a last
  page of one; `MaxWrites = 2`: a point may be deleted before the offset and another inserted
  after it, or the same one twice. `SCROLL_PAGE` is 1000 in the code and any positive number in
  the proofs.
* `MaxChanges = 2` and `MaxTime = 1` in `scan`: enough to ingest with a right tag and then change the
  permission, in the same tick or the next, before the file is read, or between the reading of the
  file and that of the index; or for a store to change between inventory and answer. Two worlds:
  one file beside an index that gets a point of it, and two files with a point of the first and one
  of a chunk that cites both.
* Files of fixtures and targets: entries without an entitlement, with an empty one, with sets and no
  state; two rows of one id; an id that is a number, as a key and where it is referred to; a missing clause, a clause outside the closed
  set, no probes, a row without an id, an unknown state, no file; a target without a mapping of the
  groups, with a group mapped to a tenant, to the empty text, to nothing and not at all, without a
  backend, with a PostgreSQL backend and no admin connection. One fault at a time:
  each raises by itself.
* Truths: for every scenario and index of `verify` the rows the validator derives, in full, without
  labels, and with what is shown only; findings expected on the right chunk, the wrong one and one
  that does not exist, with causes and counts right and wrong; negative sets in one file and over two,
  with an heir that adds, empties or says nothing; each form of an unverifiable subject.
* `MaxChanges = 2` and `MaxRequests = 2` in `pgvector`: roles of four kinds, a table that forces the
  policy and one that does not; privileges or the table may change between the
  check and an answer, or between two answers for different tenants, and a session may be used in
  between. Three tables: rows of one tenant, of both, of nobody, of a state that is none, and no rows;
  a limit that leaves rows out, and one the database refuses.
* `CHECK_DEADLOCK FALSE` everywhere, because each run of the program ends.

### Fairness

Weak fairness of the program's own steps, and of nothing else: it is one sequential thread, and
nobody in the environment is ever obliged to move. That a request is answered or fails is assumed.
For Qdrant the client's timeout of 15 seconds (`backends/qdrant.py:62`) makes it so; the PostgreSQL
connection has none, so `PgVector` states no fairness and no liveness. Offsets that do not repeat are
Qdrant's promise, without which the scroll would not end.

## What is proved

TLAPS checks the theorems for all values of the constants: any number of chunks, sources, probes,
identities, points, pages and writes, any rule of the closed set, any answer of the store. The
assumptions are the named ones in the modules: scenarios and indexes have their types, None and
NoTenant are no values of the others, None is no report, point ids are finitely many integers and
pages not empty.

* `Entitlements_proofs`: the combinators are monotone, so an entitlement with smaller sets entitles
  fewer, unless an emptied tenant set is read as unrestricted or every role is required
  (`SmallerSetsGrantLess`), and the naive filter admits whomever the rule entitles.
* `CheckPropagation_proofs`: the type invariant and all five safety properties. `BoundIsMeet` is the
  heart. It is inductive beside the type invariant because its clause about the roles speaks of all
  located sources, not of those folded so far: a role common to all is in every intermediate bound,
  so no union is ever taken. `IndeterminateDisclosesNothing` and `ExceedingIsReal` follow from it at
  the step that judges, by the lemma on smaller sets, and stay because findings do.
  `SilenceIsAgreement` needs a strengthening, `SilenceIsExact`: a chunk done with has no finding
  exactly if one source of it is located and its tag says what that one says. `AccountedOnce` needs
  that the findings are finitely many. `FindingsCorrect` says what the findings are: the verdict on
  each chunk done with (`IsVerdict`), which reads nothing but that chunk, its sources, the rule and
  the identities under test. For several sources the verdict rests on the safe bound, stated as any
  chain of intersections from the first source to the last (`IsBounding`); that there is only one is
  shown by the least place at which two would differ, and that there is one by the loop's own
  computing it (`BoundIsSafe`).
* `RunProbes_proofs`: the type invariant and all eight safety properties. One inductive fact carries
  most of them: a result is what `Judged` makes of some answer, for the identity on turn. What it
  says of disclosure and starvation is then set algebra about `Judged`, and so is that the
  validator's rows are those of the results (`ValidatorCorrect`): for a simulated answer, with every
  listed chunk in the index, both compute the same four sets. An entry left open loads as `unknown`
  (`OpenIsNotStated`), which no rule entitles and no index that enforces the rule returns
  (`OpenEntriesCorrect`). `SkippedOrFullyAsked` needs a second one for the probe in hand: every turn
  before the present one has its result. `ResultsCorrect` draws both together: without a store the
  results are computed from the fixtures.
* `Verify_proofs`: the invariants of the axes carry over to the composition (each is an instance of
  the module it was proved in), `ReportIsComplete` and `ZeroMeansEnforced` rest on them (why a report
  was lost is an invariant of its own, `WhyLost`, since the step that fails knows the reason), and
  `Refinement` is `Spec => Contract!Spec`: asking is `Answer`, the exit is `Exit`, for which the
  report must agree with the contract's own notion of clean, and all else stutters.
  `ZeroExhaustiveCorrect` adds what a zero status says of the report: no finding, and every probe
  answered well under each of the two or more entries of its list, none skipped. `ReportDeterminedCorrect`
  names the one report that scenario and index call for without a store (`TheReport`), and the exit
  status with it: the same fixtures are never judged in two ways. A live store's answers reach
  neither the findings nor the probes skipped. That a verification ends is proved but for the last
  step. Seven counters (phases, axes, chunks, the chunk in hand, its sources, probes, turns) go down
  at every step in the order of the first that differs, which is well-founded (`RunsDownCorrect`);
  and until the exit some step has its conditions met (`NeverStuckCorrect`: the sources left are
  located, a simulated answer exists).
* `QdrantScroll_proofs`: the type invariant and all four safety properties. The invariant is that of
  the loop: what is read lies before the offset, and what lies before the offset and stayed is read.
  A write cannot disturb it, for it changes neither what is read nor the offset. That every page but
  the last is full gives the number of requests. The last payload of a chunk exists because no point
  is read twice, so the order of reading is total. The loop cannot be kept going by those who write:
  the requests are no more than the points held at one time or another fill pages, and one
  (`RequestsBoundedCorrect`); what is left to read is a natural number that each request lowers and
  no write raises (`ReadsDownCorrect`, from the finitely many ids); and there always is a page to
  answer with (`AnswerExistsCorrect`).

* `PgVector_proofs`: the type invariant and all three safety properties. The invariant of
  `SettingsStayInTheirTransaction` says which statement leaves which connection in a transaction,
  and that an idle one has no local setting and the session setting its users left. The one of
  `AnswersObeyThePolicy` adds that the identity in force from `Identify` to the rollback is that of
  the tenant requested, and that from `Accept` on the role is one the check lets pass, until it or
  the table is altered.
* `Evaluate_proofs`: about every truth set there can be, five theorems that rest on the invariants
  of `Verify` (findings and results are finitely many, each result is one judgement). That there is a
  last result under a key takes an order of the results, by probe and turn (`PlaceOfResult`,
  `LastOnIsThere`). The later answer to an identity a probe names twice speaks for the earlier
  because a simulated answer depends on the probe and the identity alone (`LastOnSpeaksForAll`); false positives are counted by an injection
  of them into the silent chunks and rows (`ChunksWithin`, `RowsWithin`). For
  `InheritedStaysForbidden` the fold behind `Load` is shown to merge one document after the other
  (`FoldIsThere`, `LoadIsMerging`), by the least place at which it would not, since the library's
  induction cannot be used; no merge then loses an entry unless the heir empties the key
  (`MergedLists`). `ValidatedPasses` rests on `ValidatorCorrect`, carried over to the composition,
  and on the keys the validator walks being those of the report (`SeenIsReported`). Both assume that
  rows come as lists (`TruthsAssumption`).

* `Scan_proofs`: the type invariant and all three safety properties, from the assumptions on the
  worlds and targets and `NoTextAssumption` (None is no id and no word of a target). `Progress` says
  which phase has accepted what of the target and the inputs, so that what `verify` starts from is
  of the types its own proofs assume. `JudgedByWhatIsStated` follows a document from the group of its
  file (`DocumentsJudged`) and the rule from the file it is read from (`RuleJudged`). `Told` is the invariant of `CauseTellsHistory`: a ctime later
  than a point means that its file was changed or touched since, and an earlier one that a tag that
  ever matched still does. It holds of a file until it is read, and of what was read afterwards.
  `QuietScanIsExact` is proved in two steps: what was read is what there is (`QuietRead`), and the
  findings and results are exact about what was read (`FindingsExact`, `ResultsExact`). An answer is
  whole because the limit is not below the number of chunks, which is an injection of ids into
  places of the answer.

  From the reading of the index on, a scan is a verification (`ScanVerifies`): the step that reads
  ends in an initial state of `Verify`, every later one is a step of it or of the world, which
  changes nothing `Verify` knows, and the answers a store may give are among those `Verify` allows
  any store. `Scan_proofs` instantiates `Verify_proofs` at the scenario and the variant read,
  discharges its assumptions (for which `NoReportAssumption` says that None is no report and no
  outcome), and so carries over what was proved there: the contract (`ScanKeepsContract`), a
  complete report (`ScanReportComplete`) and what zero means (`ScanZeroMeansEnforced`) hold of what
  was read although files and points have moved on. When they have not, `QuietZeroIsTrueCorrect`
  takes the status alone back to the world: after a zero every point is tagged with what its one
  file says, and the store's tenant filter lets everybody a probe names have nothing that the files
  refuse and everything listed that they grant. It needs both `QuietScanIsExact` and
  `ZeroExhaustiveCorrect`, and that no limit cuts the answers off. `ScanRunsDownCorrect` is the
  measure of a whole scan, what is left to read before the counters of `Verify`; changing files,
  index or clock never raises it, so no busy tree keeps a scan going.

Only model-checked are the liveness properties `EventuallyExits` and `EventuallyReturns`, and the
six statements that fail. Of liveness the two halves are proved for all constants, that each step
goes down a well-founded order and that a step is there to take until the end. What joins them, the
weak fairness of the steps, speaks of ENABLED, which the prover does not reach.

## What is not modelled

Wording, labels and layout of the report (`_print_report`, `_emit`): they decide nothing. YAML and
JSON as such: `Loading` begins where the parser has yielded a mapping. Labels and queries of
identities, documents and probes, a `classification`, and `system`: nothing is decided by them.
Embeddings, since similarity decides nothing (DEC-011): which chunks a limit leaves is any choice of
that size; hence the backend protocol (`backends/base.py`), a signature and a hash, has no module.
The loops of `_cmd_evaluate` and of the validator's `main` over the registry of scenarios, the
counters that `score` keeps for its summary, and `variants_of`, which lists directories: they add
up, print and list. New files during a scan: they are not in the list it made. `retrieve_unfiltered`
of the Qdrant backend, which no scan calls.

## Plan

1. `Entitlements`, `Domain`, `CheckPropagation`, `RunProbes`, `AuditContract`, `Verify`, with
   proofs: done.
2. `QdrantScroll` with proofs, `Scan`: done.
3. `PgVector`, `ValidateFixtures` and `Evaluate` with proofs, `Loading` and `Fixtures`: done.
4. `Scan_proofs`: types, causes, exactness: done.
5. `ValidatedPasses` and `InheritedStaysForbidden` as theorems: done.
6. A scan as a verification, and well-founded measures of the three loops: done.
7. Left: the loops over the registry of scenarios and the counters of the summary, which decide the
   status of `evaluate` over all scenarios, and the wording of the report.
