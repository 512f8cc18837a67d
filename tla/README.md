# flydocs in TLA+

flydocs extracts structured data from documents. A caller posts files and
document types; a pipeline of stages, most of them calls to a language model,
produces fields with bounding boxes and verdicts. The synchronous endpoint runs
the pipeline inside the request. The asynchronous one stores a row in the
`extractions` table, publishes an event, and returns an id; worker processes
claim rows, run the pipeline, store the result and call the caller's webhook. A
second kind of worker may then ground the bounding boxes of a stored result.

This directory models the asynchronous machinery (where processes, crashes, a
lossy bus and timers interleave), the control of the pipeline (where stages,
gathered jobs, timeouts and fallbacks interleave), the data path of its stages
(validation, extraction, transformation, rules, grounding) and the client SDK in
front of it all. TLC checks them on small instances, and TLAPS proves most of the
safety properties, and the refinement of the abstract lifecycle, for every instance.
Source paths below are relative to `src/flydocs/` of the repository unless they start
with `docs/`.

## 1. The system

| Component | State it keeps | Operations | Talks to |
|---|---|---|---|
| Repository (`models/repositories/extraction_repository.py`) | the row: status, attempts, started_at, result, error, and the same for the bbox leg | conditional UPDATEs, four reaper queries | everyone below |
| Submit handler (`core/services/extractions/submit_extraction_handler.py`) | none between requests | SELECT by key, validate, INSERT, resolve a collision, publish | repository, bus |
| Cancel and result handlers (same directory) | none | compare-and-swap; read, and a long poll with a deadline | repository |
| Extraction worker (`core/services/workers/job_worker.py`) | per process: a bus task, a poll task, delayed republishes | claim, run, finalise, webhook, announce the bbox leg, retry | repository, bus, pipeline, webhook |
| Bbox-refine worker (`bbox_refine_worker.py`) | per process: a bus task, delayed republishes | claim, refine, complete, webhook, retry | repository, bus, webhook |
| Reapers (`job_reaper.py`, `bbox_reaper.py`) | none | republish rows that look orphaned | repository, bus |
| Webhook publisher (`core/services/webhook/webhook_publisher.py`) | per call: attempt number | POST, back off, verdict | the caller's receiver |
| Worker process (`cli.py`, `worker_health.py`) | its tasks, a stop flag | supervise, SIGTERM, grace period, shut down | the tasks above |
| Pipeline orchestrator (`core/services/pipeline/orchestrator.py`) | file slots, segments, tasks, errors | up to 16 stages in a chain, then `_build_result` | every stage service |
| Judge, field repairer, judge escalator (`judge/`, `repair/`, `escalation/`) | the verdicts and values of the fields | judge, re-extract what failed, re-run on a stronger model | extractor |
| Splitter, classifier, slicer | none | page ranges, a type per range, a slice | models |
| Extractor (`core/services/extraction/`) | per task: groups, model used | call with fallback model, second call for empty arrays, coercion of the answer | model |
| Request validator, field validators (`core/services/validation/`) | none | issues of a request; errors of the fields | |
| Transformations (`core/services/transformations/`) | the groups, request-level outputs | fold rows of one entity, let a model rewrite rows and repair what it returns | model |
| Rule engine (`core/services/rules/`) | per run: rules done, results | order the rule graph in levels, one call per level | model |
| Bbox refiner (`core/services/bbox/`) | the boxes of the leaves | read words (text layer or OCR), match by search, by model, or both | OCR engines, model |
| Synchronous endpoint (`web/controllers/extract_controller.py`) | none | size and validation gates, the pipeline under one deadline | pipeline |
| SDKs (`sdks/python`, `sdks/java`) | none | HTTP client, polling, webhook verification | the API |

What is hard here, and what "correct" means for each part:

* **Claims and leases.** Two asyncio tasks per process, any number of processes,
  and a lease that may expire under a slow worker all compete for one row. One
  executor per extraction while runs end within the lease; a terminal row never
  moves again, and one `extraction.completed`, even when they do not.
* **Crash and loss.** A process may die between any two awaits, an UPDATE may
  commit although its reply is lost, the bus may drop or repeat a message.
  Every accepted extraction, and every bbox leg, still reaches an end.
* **Retry budgets.** Attempts are counted by the claim and compared after it.
* **Two legs, one row.** What a caller sees must be the documented lifecycle.
* **Idempotent submits.** The SELECT and the INSERT are two transactions.
* **Gathered jobs.** The jobs of a stage end in any order, some raise, a stage
  may be cut off by its timeout. No page range may get lost, nothing may be
  reported as success that was not, and a result must be built.
* **Verification.** Repair merges into live objects, the escalator falls back to
  them; neither may make a result worse.
* **Second passes.** A model asked again answers for more than it was asked: the
  array retry, the second page pass of the matcher and a refiner called again may
  add to what is there, and replace nothing that is good.
* **Made-up rows.** A transformation's model may invent, drop and reorder rows. No
  row of the input may vanish into the wrong entity, parts must fit their whole,
  the provenance of a row must be that of the rows it comes from, and one
  transformation that fails must not cost the others.
* **Verdicts that outlive what they judge.** A bbox is graded once, and refinement,
  repair and escalation replace boxes afterwards.
* **Two readings of one row.** A caller is told a status by a poll, a cancel or a
  webhook, and then asks for the result over a wire that loses both directions.

The full list is under `hazards` in `PROJECT.json`, each with the properties that
would catch it.

## 2. Modules

| Module | Models | State and actions |
|---|---|---|
| `ExtractionRepository` | the table | `Row`; `CanX(r)` is the WHERE clause and `X(r)` the SET clause of each UPDATE, `IsStale...` the reaper queries. Ages stand for timestamps and stop at `MaxAge` |
| `RetryPolicy` | `_backoff_delay` | the set of delays that capped exponential backoff with jitter allows |
| `ExtractionWorker` | main worker, its reaper, submit/cancel as seen from it, the bus | one action per await of `_process`: `ClaimWins/ClaimLoses`, the run's outcomes, `SucceedWins/SucceedLoses/SucceedReplyLost`, webhook, publish, the except block; `PollSweep/PollNext`, `ReaperSweep`, `DelayedPublish`, `Crash`, `Restart`, `Lose`, `Deliver`, `Tick` |
| `BboxRefineWorker` | bbox worker and its reaper | the same shape over the leg's columns; `MainSucceeds` and `Announce` stand for the main worker |
| `ExtractionLifecycle` | abstract: what a caller may observe | status, leg and stored result, one transition at a time |
| `AsyncExtraction` | both legs over one table and one topic | composes the two workers, implements `ExtractionLifecycle` |
| `SubmitExtraction` | the submit handler | `Select`, `Insert`, `Collide`, `Resolve`, `Publish`, `Fault` per request |
| `ResultReader` | result handler and long poll | `FirstGet`, `PollStable`, `PollSleeps`, `PollExpired` over the lifecycle |
| `ExtractionApi` | both handlers over one table | submits insert what readers read while the lifecycle moves |
| `WebhookPublisher` | `deliver` and tenacity's retry | `Post`, `Wake` per call; checked inside `SdkClient` |
| `WorkerProcess` | `_run_until_first_exit`, SIGTERM, shutdown | tasks at their awaits (before the stop flag, at the poll task, closing), some of which hang; their deaths and cancels; drain, grace period, gather, inspect |
| `PipelineOrchestrator` | one `execute` | `Nodes`/`Wanted` are the chain; one action per step or per gathered job, a `...Raises` for each except block; `NodeFails` is a stage timeout; `BuildResult`. `graded` says that the boxes of a task have the verdicts of their own coordinates |
| `FieldVerification` | judge, repair and escalation per field | one action per job and outcome; groups are functions from fields to (origin, null, valid, verdict) |
| `Positions` | a list comprehension with a condition | `At(seq, places)`: the items at some positions, in their order |
| `WordStream` | text layer, Tesseract and Docling engines, word router | operators: the words an engine reads on a page, with boxes cut and clamped, and the router's choice per page |
| `ValueMatcher` | the deterministic matcher | operators: search forms of a value, windows over the words, the score, page order and its early exit |
| `LlmMatcher` | `LlmValueMatcher`, `HybridValueMatcher` | all pages of a pass are asked at once; `PageAnswers`, `PageFails` in any order, `SecondPass`; `KeepBest` |
| `BboxRefiner` | `refine`, which a request meets once, inline or out of band (`job_worker.py:257-272` strips the inline stage of an asynchronous extraction); a second run stands for the contract of its docstring, that it may be called again on its own output | `CollectWords`, `StartMatching`, the matcher's actions, `ApplyMatches`, `RunAgain` |
| `RequestValidator` | the semantic checks of a request | `Errors`, `Warnings` as sets of codes; a warning never refuses a request |
| `PostProcess` | output schema, coercion, field validators | operators from an answer to groups, and from groups to validated groups |
| `Extractor` | `MultimodalExtractor.extract` | first pass, fallback, array retry, merge, per task |
| `RuleEngine` | `evaluate` | build and order the graph, one action per level and outcome |
| `EntityResolution`, `LlmTransformer` | the two transformers | operators from rows to rows: clusters and their fold; provenance, flagging and invariant repair of drafted rows |
| `TransformationEngine` | the transform stage | one action per transformation and task, or per request-scope transformation; `RequestScopeRaises` leaves the stage |
| `SyncExtract` | `POST /api/v1/extract` | `Gate`, `Load`, the stages above in their order, `VisualAuthenticity` for what the rules read of it, `TransformRaises`, `Answer`; `SyncTimeout` at any point |
| `SdkClient` | `AsyncClient` and `WebhookVerifier` | per caller `Create`, `Cancel`, the wait loop (`GetServed/GetLost`, `WaitReturns/WaitTimesOut/WaitSleeps/WaitWakes`), `EventArrives`, `Serve/ResultReturns/ResultLost`; over `ResultReader`, `WebhookPublisher` and the abstract lifecycle |
| `ExtractionWorkerProofs`, `BboxLegProofs`, `AsyncExtractionProofs`, `HttpApiProofs`, `PipelineOrchestratorProofs`, `FieldVerificationProofs`, `SyncExtractProofs` | | theorems, see Proofs |
| `PositionLemmas` | | what the two data-path proofs share: recursion and minima over ranges, items at positions, flattened sequences |
| `MC*` | | symmetry sets and constants for TLC |

Abstractions. A result is `none`, `llm` or `grounded`; a message is the id it
names; an exception is permanent or not; the groups of a task are, in the
orchestrator's module, the stages that have seen them and a version that grows
with every change, in `FieldVerification` a record per top-level field, and in
the modules under `SyncExtract` fields and rows with their cells. Strings there are
sequences of words (a word has a stem and a form, so that accents and case are
something a comparison may or may not see); for the matchers they are sequences of
symbols, and a box is a range on one axis. A field constraint is the set of values
it accepts. A webhook's bytes arrive intact, bare, re-encoded or unsigned.
Libraries are modelled from their use: the event bus may lose and repeat, the
`PipelineEngine` cancels a stage at its timeout and either goes on or skips the
rest, a model may answer anything or raise. Operators named in a comment
"Mutant:" are deliberately wrong variants of the definition below them; they are
used only to see that a property can fail.

## 3. Runs

All bounds are in the `.cfg` files. `MaxAge`, `MaxFaults`, `MaxPolls`,
`MaxPages`, `MaxSegments` and `MaxFailures` bound the model, the other constants
are settings of the code scaled down.

| Run | Question | Bounds and why they suffice |
|---|---|---|
| `worker` | Main leg, runs within their lease: single executor, ownership, budget, everything settles | 1 extraction, 2 processes with 2 tasks each, 2 attempts, 1 fault. Rows never interact, so one is enough; two processes give every claim race and take-over after a crash; 2 attempts give a retry and a last attempt |
| `worker_stall` | Main leg, runs may outlive their lease: webhook once and terminal is final all the same | as `worker`, `RunBudget` 2 over `Lease` 1, so that a run is taken over while its worker goes on |
| `bbox_leg` | Bbox leg: holder, budget, grounded iff succeeded, settles; runs may outlive the lease | 1 leg, 2 workers, 2 attempts, 2 faults, `RunBudget` 2 over `Lease` 1; the lease properties are stated until the first overrun (`overran`) |
| `async_lifecycle` | Both legs together implement the lifecycle (terminal is final on each), with stalls on both sides; webhooks agree with each other and the row, the post-processing one is sent at most once | 1 main worker (two tasks), 2 refiners, runs twice as long as the leases |
| `api` | Submits with and without a key against result requests | 3 submits (winner, loser, retry), 1 key, 1 reader |
| `worker_process` | No shutdown under a running task, a death is reported, the shutdown of the framework is reached | worker (with a poll task), reaper and health server; any await of the worker and of the reaper may hang. The health server ends: until some task does, nothing is bounded at all. `PublisherStuck` is the one case in which the shutdown of the framework is not reached |
| `pipeline` | Segments accounted for, pins kept, success complete, rules see the final groups, geometry graded, a result is built | 7 requests that between them use every stage; files of 2 pages or archives of 2 rows; splitter answers of up to 2 ranges over pages 0 to 3; 1 failing stage |
| `verification` | Repair is monotonic and reports the truth, only an accepted escalation replaces values | 2 tasks of 2 fields, 3 stage sets, threshold 3/4, fraction 1/2, concurrency 1 |
| `sdk` | What a caller was told stays true, waits end, a delivery ends on a retryable answer only when its attempts are spent | 1 extraction with a bbox leg, 2 callers (one patient), 2 delivery attempts, 1 poll before the deadline: one extraction suffices because ids are never compared; two callers let one cancel what the other waits for |
| `grounding` | Boxes lie on the words of their page and name their source, the best page wins | 5 documents (text, scan, mixed, unopenable, no pages), 3 engine settings that work, fail or are missing, 3 leaves, 2 runs; confidences on both sides of the threshold of 80; a model that names fields it was not asked about and words that do not exist |
| `stages` | Accepted rules are all asked, parents first; rows are folded exactly when their keys, or a first row's name, say so, with their fullest values; rewritten rows keep the pages and boxes of the rows they come from; parts fit their whole; the second pass keeps the first | 15 requests: rule graphs that are acyclic, cyclic, self-referring and with repeated ids, every gate, both transformers at both scopes, 2 tasks; rows with a key in two spellings, names that nest, a key that is only punctuation, a cell that is trusted more and has no box |
| `worker_takeover` | violation, see below | as `worker`, `RunBudget` over `Lease` |

What the violation shows. The except block of `job_worker.py` says that a requeue
is skipped when another worker has taken the row over. The UPDATE tests the status
and not the attempt, so a stalled worker puts its successor's running row back to
queued. `worker_stall` shows that `TerminalIsFinal` and `CompletedWebhookOnce` hold
regardless; the cost is a second execution.

Where the code does less than a text says, the passing runs state exactly what it
does, and section 5 quotes the text: `ShutdownIsReached` names the one way in which a
task outlives its cancel, `SuccessIsComplete` says where a stage that timed out is
to be seen, `GeometryIsGraded` leaves out inline refinement and a failed repair,
`GivesUpOnlyWhenSpent` says for which answers `deliver` returns False,
`RowsReconcile` what folding by names depends on, and `ProvenanceIsKept` bounds the
pages of a rewritten row from below only.

`CHECK_DEADLOCK FALSE` is set where the modelled calls end (`api`,
`worker_process`, `pipeline`, `verification`, `sdk`). Workers never stop, and
`grounding` and `stages` stutter explicitly at their end, so those runs check for
deadlock: no stage can be left with nothing to do before its answer is built.

### Fairness

* `ExtractionWorker`, `BboxRefineWorker`: weak fairness of each task's step, of
  the poll and reaper loops (they sleep and sweep for ever, and catch what a
  sweep raises), of `Restart` (the supervisor of the deployment), of delayed
  publishes and of time. Strong fairness of `Deliver`: of a message that is
  published again and again some copy arrives.
  None is assumed of cancels, submits, crashes or the outcome of a run.
* `ExtractionApi`: a reader that can move moves. Nothing is asked of the workers.
* `SdkClient`: the calls of a wait and of a `get_result` move when they can (the
  HTTP client has a timeout, sleeps end). Nothing is asked of the extraction, of
  deliveries or of the caller's own decisions, so `EveryWaitEnds` is about the
  deadline alone.
* `WorkerProcess`: the event loop runs what is ready, delivers a cancel once and
  fires the timeout of the grace period. An await that hangs never ends unless it is
  cancelled, and a cancel at the poll task is swallowed, after which a `publisher.stop()`
  that hangs is never cancelled (`PublisherStuck`). Nothing is asked of SIGTERM,
  of deaths, or of `pyfly_app.shutdown()`, which has no timeout (`cli.py:191`): the
  property ends where it begins.
* `PipelineOrchestrator`: some step is taken while one is possible; timeouts end
  the rest.

## 4. Proofs

The theorems hold for every number of extractions, workers, requests, callers,
tasks, fields, files and pages, and for every value of the settings that satisfies
the named assumptions of the modules: naturals, `MaxAttempts > 0`, time bounds below
the age cap (`MaxAgeAssumption`, `RetryAssumption`, `WorkerAssumption`,
`BboxAssumption`, `WebhookAssumption`); stages and outcomes drawn from the sets that
the code draws them from (`ProcessAssumption`, `PipelineAssumption`,
`VerificationAssumption`); requests, answers and rows of the shapes that pydantic
enforces (`SubmitAssumption`, `ApiAssumption`, `ReaderAssumption`, `SdkAssumption`,
`SyncAssumption`, `TransformAssumption`, `NamedAssumption`); settings, documents and
leaves as the grounding reads them (`WordAssumption`, `MatcherAssumption`,
`DocAssumption`, `LeafAssumption`: a symbol is a code point, a box is a range of
integers that may overshoot the page, and an extraction leaves no box that claims to
be grounded, since `clamp_bbox` takes over coordinates only). TLC evaluates all of them on the runs. Only the three lease theorems of
the main leg have a hypothesis of their own, `RunBudget <= Lease`, which is the code's
sizing (`async_timeout_s` below `job_run_lease_s`); `worker_takeover` shows what
happens without it.

Few of the properties are inductive; what had to be added is the argument.

* `ExtractionWorkerProofs`, the main leg and the process around it
  * `TypeCorrect`: `TypeOK`, strengthened by "a task inside `_process` holds an id".
  * `TerminalRowsAreFinal`: from the type invariant and, per UPDATE, the status its
    WHERE clause asks for.
  * `WebhookOnce`: a second task about to deliver would break it. `NotifierInv` adds
    that a task at its webhook is the only one for its extraction, that nothing has
    been sent, and that the row has the status to be reported; the compare-and-swap
    into a terminal status makes such a task unique, and `TerminalRowsAreFinal` keeps
    its row.
  * `LeaseGivesSingleExecutor`, `LeaseKeepsOwnership` (under `RunBudget <= Lease`):
    `OwnerInv` says that the age of a held claim is the time its task has held it. A
    claim that is held is then never older than the lease, so no second claim can
    succeed.
  * `LeaseKeepsBudget` (the same): `BudgetInv` adds that a row that is queued, or
    running and held by nobody, has an attempt left, counting one per fault.
  * `FrameworkOutlivesTasks`, `DeathNeverExitsClean`: once the supervisor is past its
    gather every task has ended, and what it reports is what it saw. `CancelInv`: a
    cancel on its way is of a task that has not ended, so no ended task starts again.
* `BboxLegProofs`, the bbox leg: its worker, and the refiner it runs
  * `GroundedExactlyWhenSucceeded`: the stored result is the grounded one exactly when
    the leg has succeeded. `SoundRow` ties the leg's status to the main status and the
    result; each UPDATE keeps it, however late it comes.
  * `LegWebhookOnce`: as on the main leg.
  * `LeaseGivesSingleRefiner`, `LeaseKeepsLegBudget`: `bbox_refine_timeout_s` (600) is below
    the lease (660), but `wait_for` (`bbox_refine_worker.py:194`) bounds the refinement
    alone, and not a late claim reply before it, the UPDATE after it or a blocked event
    loop. Rather than assume that these fit, the properties, and
    `LeaseInv`, are stated until a run first overruns (`overran`); the step that
    first does so is the only one that may end them.
  * `BestPageAlwaysWins`: in whatever order the pages answer, the dict holds for every
    field the best match offered, `BestOf` being exactly that.
  * `GroundingIsKept`: no run of the refiner touches a leaf that has a box. It is proved
    only: the second run that it is about is promised by a docstring, and no caller makes it.
  * `GroundingTellsTheTruth`, the longest argument of the project, in three parts.
    *Words*: whatever layer, scan or layout an engine reads, its words are texts whose
    edges lie on the page, on the page they are filed under (`CollectedIsTyped`; the
    letters that cut a phrase are counted by recursion over its tokens). *Matches*: a
    window is compared by score, then by reading order, then by place. The score is a
    number because the table of common subsequences exists and holds numbers, row by
    row (`RatioIsNumber`); a finite set of places with a score and an order has one that
    comes before all others (`BestPlace`), so the best window is a window, and the
    box around its words has its edges from them (`SlideFinds`, `LocateFinds`; for
    the model's answers `UnionIsMatch`). *Runs*: `TruthInv` says that the words at hand
    have been seen and that every match at hand, of either matcher, lies on a page at
    hand between edges of its words; `PageSource` finds that page again because pages
    are filed under their numbers.
* `AsyncExtractionProofs`, both legs over one table
  * `AsyncImplementsLifecycle`: the refinement. Under the mapping of
    `AsyncExtraction`, every step of a worker, a reaper, the bus or the clock is a
    step of `ExtractionLifecycle` or a stutter: a step changes at most one row's
    observable part (`TableStep`, `LegTableStep`), by one UPDATE, and each UPDATE's
    WHERE clause, with the type invariant of the rows, is the guard of one abstract
    transition. Lease, attempts, ages and messages are invisible to it, which is why
    the theorem needs no assumption on the lease.
  * `AsyncWebhooksAgree`: the notifiers of the two legs, together: a leg that
    succeeded keeps its result and belongs to a main row that has succeeded for good.
* `HttpApiProofs`, what callers rely on
  * `OneExtractionPerKey`, `AcceptedSubmitIsStored`, `OnlyInserterPublishes`,
    `CollisionIsRecovered` from `SubmitInv`: one stored row per key, where a handler
    that inserted owns its row, and one that collided will find the winner (rows are
    never deleted).
  * `ApiKeepsSubmits`, `ApiKeepsLifecycle`, `SdkKeepsLifecycle`: composed with the
    readers, the submits still follow `SubmitSpec` and the extractions `Lifecycle`,
    so the theorems about the parts hold of the whole.
  * `WaitedResultStaysFinal`: a request that waited and was answered before its
    deadline has read a settled extraction, and `LifecycleMoves` says that settled
    extractions keep their result.
  * `DeliveryBudgetIsSpent`: an attempt is owed to every delivery that has not ended,
    and each outcome names the answer it came from.
  * `ToldStaysTrue`: `SdkInv` relates what each caller has been told to the status
    by the order of statuses (`StatusMoves`); the request that a `get_result` is
    waiting for was sent by a caller that had been told "succeeded".
* `PipelineOrchestratorProofs`, one `execute`. The argument is the order of the
  nodes: `PlaceInv` says that a node is done only when the engine is past it.
  * `SuccessMeansComplete`: `SeenInv` says that a task to which the running stage
    owes its work has an open job or one that raised, and that a stage that is done
    owes nothing where no error of it is recorded. An escalation may replace groups
    that earlier stages had seen; the property excepts it. `WalkedInv` adds that the
    engine has left out nothing that was asked for as long as no node has failed.
  * `RulesReadFinalGroups`: the versions of the groups the rules saw, and no node
    after them writes groups.
  * `EveryBoxIsGraded`: once the grading stage is over, a box is ungraded only while
    the stage that repaired it runs, unless that stage failed. `AskedInv` (a node is
    entered only when it was asked for) keeps the inline refinement out, for which the
    statement is false.
  * `NoSegmentIsLost`, `PinsSurvive`: `FilesInv` follows each file from its slot to
    its segments and tasks; a file in work is owned by one job of the open node.
* `FieldVerificationProofs`
  * `VerificationSafe`: typing, and "a repair in flight is of a field that fails".
  * `RepairNeverWorsens`, `RejectedLeavesValues`: action properties from it.
  * `RepairInfoIsTrue`: `CountsInv` counts, while the stage runs, the repaired fields
    and the outstanding ones (an argument on cardinalities of disjoint finite sets).
* `SyncExtractProofs`
  * `AcceptedRulesCanRun`: for any rule set the validator accepts, an evaluation that
    ends has asked every rule once, after its parents, with the fields and the visual
    checks it names; `RulesInv` carries the levels through the run.
  * `EveryLevelAsks`: while rules are left, the next level has one. If none had all its
    parents behind it, the rules left would be a cycle, which the validator refuses.
  * `SecondPassOnlyAdds`: for any document type without two fields of a name and any
    two answers, merging the array retry changes empty arrays only. `FieldsShown`
    and the lemmas on `NormaliseDoc` say that both answers have the same fields in
    the same places.
  * `EntitiesReconcile`, `RepairedInvariantHolds`: for rows of any number. `RowsInv`
    says that from the answers on every group holds rows of the model's shape (what a
    text column holds is a text), through validation and every transformation, so that
    tokens, scores and sums are numbers that can be compared. Clusters are then an
    induction on the rows seen so far: each is in exactly one cluster, a cluster's
    members have its first row's key, and two clusters with a key have different ones,
    which is why a row never has two to choose from. A keyless row joins the first
    cluster whose first row has a variant of its name (`FirstVariant`), and the cell
    picked of a column is one of its members' with the greatest score. In the repair every pass takes
    one row away, so `Len(rows)` passes are enough, and a victim that an input row
    supports is less trusted than no other, so no made-up row was left.
* `PositionLemmas`: the least-number principle for sets of naturals gives
  `RangeInduction` (over a range, for a set of numbers) and `RecursionOverRange` (a
  function over a range that follows a step exists), and from these the items at some
  positions (`ItemsAtPlaces`), the greatest of finitely many numbers (`GreatestOfSome`)
  and what is in a flattened sequence (`FlattenedSeq`).

Only model-checked, and why:

* All liveness: `EventuallySettled`, `LegEventuallySettled`, `EveryRequestAnswered`,
  `ShutdownIsReached`, `ResultIsBuilt`, `EveryWaitEnds`. Fairness is beyond the prover.
* `ProvenanceIsKept`: that a row has all pages of its cells would have to be carried
  through both transformers; TLC checks it along every chain of transformations of
  the instance.
* `RequeueOnlyOwnRun`: false, see the run.

## 5. Not modelled

Prompts and the wording of model calls; what OCR libraries see on a page; the
checks of the validator registry one by one (checksums, dates and patterns of a
single string; they accept or reject a value, and that is what the model has);
the verdicts of the authenticity checks (they are only stored, and shown to rules); the grading formula of a
bbox; loading and media sniffing; logging and usage; configuration and wiring; the
list and get handlers and the DTOs, which change no state; the synchronous wrapper
of the Python SDK and the Java SDK, which speak the modelled protocol.
`components` in `PROJECT.json` gives the reason for each.

Disagreements between code and text, and observations, that are not runs:

* `judge_escalator.py:195-205` says the failure rate counts only fields the judge
  looked at. The default status `UNCERTAIN` (`field.py:118`) is not empty, so a field
  nobody judged counts as good and an escalation whose judge raised is accepted.
* `extract_controller.py:147` ignores base64 padding: a file of exactly the allowed
  size may be refused with 413.
* `field_validator.py:46` promises every constraint on every field; arrays whose
  items are plain values are never visited.
* A strong key of nothing but punctuation normalises to the empty key, so all rows
  with such a key become one entity (`entity_resolution.py:191`).
* Rows leave the extractor with confidence 0, so "lowest confidence first" in the
  invariant repair (`llm_transformer.py:512`) never tells extracted rows apart.
* When the array retry raises, the result of the first pass is lost with it; after
  a retry `model_used` names the primary model whichever answered; a configuration
  error in the text anchor is swallowed (`extractor.py:299`).
* The second pass of `llm_matcher.py` asks again for fields that had no candidate
  page; the hybrid matcher merges the whole answer of the model, fields it was not
  asked about included; a PDF that cannot be opened is never given to OCR
  (`word_router.py`).
* `docs/api-reference.md:747` calls webhooks at-least-once; a crash between the
  commit of `mark_succeeded` and the delivery (`job_worker.py:308`) loses it for
  good, since nothing records that it is owed.
* `job_worker.py:34-36` bounds a run by `job_max_attempts`; the claim at
  `extraction_repository.py:286` does not look at attempts, so a crash on the last
  attempt is followed by one more (`RetryBudget` states the bound that holds).
* `find_stale_queued` measures a retry from the start of the failed run, so the
  poll may take it before its backoff has passed.
* `judge_escalator.py:124` falls back to the very objects of the primary result:
  a re-judge for an escalation that is then rejected still rewrites their
  verdicts. After an accepted one, `model_used` names the escalation model also
  for tasks whose second extraction raised (line 163).
* An accepted escalation is not validated or grounded again.
* The two webhooks of one extraction are not ordered; a stale running row is
  recovered only through the bus; a sweep whose first reaper query raises skips
  the second; a transformation that fails at task scope does so silently.
* `docs/pipeline.md:482-505` has stage timeouts recorded in `pipeline.errors`, as
  `stage_timeout`. Only the except blocks of the steps append there, and a timeout of
  the engine does not enter them: the status may be "success", and the stage is on
  the trace alone. A load that times out gives a success without documents.
* `docs/pipeline.md:52` says that grading stamps every bbox. Inline refinement runs
  after it, and `_replace_bbox` (`bbox_refiner.py:179-190`) keeps the verdict of the
  old coordinates, or has none where there was no box.
* `orchestrator.py:803-806` grades repaired boxes again at the end of the repair
  step. When the stage's timeout fires after some tasks have been merged, the merged
  fields stay and the line is not reached.
* `webhook_publisher.py:74` says that `deliver` returns False after its retries. With
  `reraise=True` tenacity raises the last retryable answer, and the branch for
  `RetryError` (line 180) is dead.
* `cli.py:75-76` says that the grace period bounds worker shutdown. A straggler is
  cancelled once (`cli.py:97`); if it awaits its poll task then,
  `suppress(CancelledError)` takes the cancel (`job_worker.py:149-153`),
  `publisher.stop()` is awaited next, and the gather has no timeout.
* `docs/transformations.md:96-98` says that two rows match when the words of one name
  are among the other's. A row is compared with the first row of each cluster only
  (`entity_resolution.py:205`): of Ana Gil Ruiz, Ana Gil and Ana Gil S.L., in this
  order, the first two meet and the third stays apart; with Ana Gil first all three
  are one.
* `llm_transformer.py:376-378` says that a consolidated row never wears the pages of
  the first input row. `postprocess.py:78-97` gives every row the pages of the rows
  before it, long before a transformation sees it.
* `orchestrator.py:893-894` says that a transformation that fails is caught. At
  request scope it is not (`transformation_engine.py:122-131`): what `_rebuild_rows`
  raises (`llm_transformer.py:148`, outside its try) leaves the stage, and the
  transformations after it are not applied.
* Until one of its tasks ends, a worker process has no bound on its shutdown at all:
  SIGTERM flips the flags, and the grace period starts with the first task that ends.
* Of the values of a column in folded rows the fullest is kept and the others are
  dropped, also when they contradict it (`entity_resolution.py:279-297`).
* The bbox worker reads the whole file where the inline stage reads the slice
  (`bbox_refine_worker.py:331-341`); page numbers in `BboxRefiner` are those of the
  bytes given to the run.

## 6. Plan

Done: the asynchronous core, the API handlers, the webhook, the process, the
pipeline's control, the verification stages, the grounding, the data path of the
synchronous endpoint and the SDK, with the proofs above. Next:

1. The validator registry's checksums against reference definitions, if a width of
   a few digits turns out to say something.
