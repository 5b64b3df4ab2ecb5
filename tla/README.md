# Verification of the GraphRAG service

TLA+ models of this repository's own logic (LightRAG, Neo4j, Milvus, Redis and
MinerU are modelled as far as the code here depends on them), TLC
configurations that check them on small instances, and TLAPS proofs. Paths are
relative to the repository root. `PROJECT.json` lists every run, every property
with a seeded fault that breaks it, the source lines behind every definition,
the hazards, and the theorems.

    tlc -workers 2 -config Service.cfg MCService.tla     # one run
    tlapm ServiceProofs.tla                              # one proof module

## The system

Users put PDFs and Markdown into `data/raw`. In `two_stage` mode a conversion
turns `foo.pdf` into `foo.md`, pictures and a metadata sidecar; an incremental
run (or an upload) compares the files with `hash_cache.json` and gives LightRAG
what is new; queries retrieve from LightRAG and ask a model. One service
process executes uploads and runs as tasks of one worker; the command lines
call the same classes from other processes.

| Component | State it keeps | Operations | Hard behaviour |
|---|---|---|---|
| Task lock (`storage/redis_lock.py`) | key in Redis, `_local_locks` | acquire, release | Redis failing midway, expiry, killed holders, GET-compare-DELETE in three steps |
| Index pipeline (`incremental/update_manager.py`, `data_processing/change_detector.py`, `incremental/cascade_cleaner.py`, `incremental/document_manifest.py`) | hash cache, registry (SQLite), manifest; LightRAG's `full_docs`, `doc_status`, chunks | incremental run, upload, update, delete | overlapping requests, edits meanwhile, one step of several failing, a crash anywhere |
| Sidecars and conversion (`data_processing/mineru_convert.py`, `incremental/conversion_manager.py`) | Markdown, `images/`, `.foo.mineru.json`, `conversion_cache.json`, the manifest's artifacts | conversion run, conversion of an upload, three cleanups | whose file is it; failing and killed conversions; order of cleanup and conversion |
| Service process (`service/api.py`) | phase of the lifespan | start, requests, shutdown | requests during a failed warm-up; shutdown with work in progress |
| Task queue (`service/task_manager.py`) | queue, `_statuses` | submit, process, cancel | order, failing tasks, shutdown |
| LightRAG initialisation (`storage/lightrag_init.py`) | singleton, `_init_lock` | `get_lightrag` | concurrent first callers, failing initialisation |
| Online monitoring (`evaluation/online_monitor.py`) | bounded queue, writer thread, SQLite | append, write batches, flush, stop | two consumers of one queue, sentinel, full queue |
| Query service and caches (`service/rag_service.py`, `storage/redis_cache.py`, `retrieval/retriever.py`) | answers and retrievals in Redis, `_query_sem` | query, streaming query | index version read before the retrieval, written after it; failing models, clients that go away |
| Communities (`community/`) | reports with their version, vector index | build, refresh after a run, select and inject | partial builds, concurrent builds, a process killed between two files |
| Retrieval (`retrieval/`), LightRAG patches (`storage/lightrag_patches.py`), rerankers | none (a cache of rankings) | merged search, relation filter, rerank with fallback, trimming, pictures | vectors told apart by position, chains of filters, boundaries |
| Utilities (`utils/`) | token bucket, window counters, semaphores, the filter's buffer | rate limits, quotas and retries, `strip_think_stream` | tags split between chunks, a semaphore made anew while in use |
| Offline evaluation (`evaluation/`) | none | aligned, set and multihop metrics, refusals, report | failing judge, empty and repeated results |
| Checkpoints, text splitting, configuration, scripts, front end | – | – | – |

How they interact: the worker (TaskManager) executes `add_document`,
`update_document` and `incremental_update` (pipeline and conversion), each
under locks of RedisLock, each through `get_lightrag`; the pipeline calls the
sidecar cleanups; queries go through `get_lightrag` and append telemetry; the
lifespan starts and stops worker and telemetry. The hash cache decides what a
run looks at, the manifest's modification time is the version in the cache
keys.

What makes them correct, in one line each:

* lock: one task per key, per process without Redis, everywhere with it; no lock outlives who released it;
* pipeline: what counts as done is searchable with its current content and nothing else; registry, manifest, `full_docs` and `doc_status` agree; no duplicate record; no source file deleted; failures are retried until they succeed;
* sidecars: what counts as converted is converted; the pictures of an indexed document exist (they need not: `PicturesPresent`, below); a user's Markdown is not cleaned up as the pipeline's own;
* service: callers get an initialised object; tasks run in order, one at a time, and settle; rows are kept once; shutdown ends;
* query service: an answer is not older than what was ingested when it was asked; no permit is lost; every question ends;
* communities: what is cached under a version is of that version; no summary is lost to a failing model; a later graph is not replaced by an earlier one; the current graph is reported in the end, if its refresh went well;
* retrieval: searches are not mixed up, filters leave something, the context fits what the model may be given;
* evaluation: scores are comparable, and what could not be scored is told apart from what scored nothing;
* utilities: limits hold over time, a streamed answer comes through whole and alone.

## Modules

| Module | Models | Checked by | Proved in |
|---|---|---|---|
| `Mutex` | what callers expect of the lock (abstract) | refinement in `lock` | |
| `RedisLock` | one lock key | `lock`, `lock_expiry` | `RedisLockProofs` |
| `IndexPipeline` | the index following `data/raw` | `pipeline_*` | `IndexPipelineProofs` |
| `Sidecars` | files that belong to a PDF | `sidecars` | `SidecarsProofs` |
| `LightragInit`, `TaskManager`, `Telemetry` | the three parts of a service process | through `Service` | `ServiceProofs` |
| `Service` | their composition in the lifespan of `api.py` | `service`, `service_init` | `ServiceProofs` |
| `QueryService` | questions from cached answer to last fallback, beside ingestions | `query_cache` | `QueryServiceProofs` |
| `Communities` | builds, reports and index, questions that inject summaries | `communities` | `CommunitiesProofs` |
| `Lists` | sums, sorts and selections the next four share | through `Algorithms` | `RetrievalProofs`, `AlgorithmsProofs` |
| `Retrieval` | searches, filters, what fits the context | through `Algorithms` | `RetrievalProofs` |
| `Partition` | the parts of community detection that compute | through `Algorithms` | `AlgorithmsProofs` |
| `Metrics` | scores of the evaluation, rates of the monitoring | through `Algorithms` | `AlgorithmsProofs` |
| `Limits` | streamed answers, rate limits, quotas | through `Algorithms` | `AlgorithmsProofs` |
| `Algorithms` | every such part on every input of a bounded set | `algorithms`, `rerank_outage` | `RetrievalProofs`, `AlgorithmsProofs` |

Each `MC*` module only gives the constants of its specification their values.
Definitions commented "Seeded fault" or "a changed ..." are the mutated forms
named in `PROJECT.json`; no specification uses them.

### RedisLock

`key`, `local` and `up` are the Redis key (whose token it holds), the state of
the process' asyncio lock and whether Redis answers; `pc` follows a task through
`acquire_lock` and `release_lock`. The release is two actions, `ReleaseGet` and
`ReleaseDelete`, as the code awaits twice; the deletion does not look at the
token again (`lock_expiry` shows what comes of it). `AcquireAnswerLost` is the SET whose answer is lost: the key is
there, nobody remembers its token, the task continues on the local lock.
What may go wrong is chosen once, at the start (`regime`, one of `Regimes`): Redis
flapping, a TTL shorter than the work, killed processes. `Stable` is a regime
without the first two; in it Redis is there all along or not at all.

### IndexPipeline

An action is what runs between two awaits. `StartRun` is `detect_changes`,
`RepairUnchanged` the check against `full_docs` (one step for all files; the
lookups read only), `TakeDoc` ... `VerifyDoc` the steps of `_ingest_doc` and
`ingest_path`, which share their actions and differ in the order of loading and
dropping (`AfterLoad`, `AfterDrop`) and in who writes the cache (`VerifyDoc`,
`SaveCache`). `RemoveDoc` is the body of the removal loop, legacy cleanup
included; `StartDelete` and `FinishDelete` are `delete_document_by_id` around
its await. A content is a version number; a blank version has no chunks. `Blanks`,
`Requests`, `Faults`, `OneTask`, `EditRaces`, `Reverts` choose the regime.

Simplifications: the document lock is perfect here (RedisLock says when it
is); `ainsert` becomes effective at one moment; the deletion of the registry row
does not fail; accepted requests form a set, not a queue, since any order is a
behaviour; where an ingestion deletes the old entry twice (`update_manager.py:277`
and `281`, with nothing in between), `DropOld` deletes it once; one incremental run at a time (`rag:lock:incremental`). Runs of the
command line beside the service are the regime `OneTask = FALSE`; that the two
processes may also lose each other's hash cache entries is not modelled.

### Sidecars

`pdf`, `md`, `meta`, `images` are the files; `converted` and `hashed` the two
caches; `manifest[s]` the artifacts the code collects for a document. Pictures
have names, and `Shown` says which a text refers to: versions of a document,
other documents of its directory and a user's text may show the same. `Purge`,
`RemoveForPdfs` and `RemoveForMarkdown` are the three cleanups, each with its own
idea of which pictures belong to a document. Users put PDFs beside their own
Markdown and Markdown beside PDFs, edit what MinerU made (`WriteMd`, `RemoveMd`)
and upload a new text for a registered document (`UpdateDoc`, then `ReplaceDoc`
without a conversion); the history variable `theirs` says where a user was the
last to write or delete the Markdown. What LightRAG does is reduced to
`index[s]`; IndexPipeline has the details.

### Service

`Service` extends `LightragInit`, `TaskManager` and `Telemetry` and joins their
actions: a query calls `get_lightrag` and then appends a row, a task may need
`get_lightrag` before it finishes, `Shutdown` cancels the worker wherever it is
and starts `stop_telemetry_writer`. Requests end before the lifespan shuts down,
as uvicorn sees to it. In `Telemetry` the writer thread and the stopping thread
take from the same queue one item at a time; `writing` is a state of its own
because the sentinel may arrive while a transaction is under way. An
initialisation that fails or is cancelled leaves the object assigned
(`LeaveObject`). Rate limiting, worker processes beyond the first and what
tasks do are left out here.

### QueryService

An action is one stretch of a coroutine of `RAGService.query` and
`GraphRAGRetriever.query` between two awaits; `pc` follows a question through
the cached answer, the semaphore (`permits`, `Enter`, `Leave`), the cached or
new retrieval (`Fetch`, `Retrieve`, `StoreBundle`), the three ways to an answer
(pictures, text, LightRAG's own query) and the answer cache. `Fail` is a
LightRAG that raises, `Disconnect` the client of a stream that goes away,
which closes the generator. What the index contains is a counter, `content`:
an answer is stamped with the content it was made from. `manifest` counts
writes of the document manifest, whose modification time is the version in
both keys (no two writes within its resolution). `settled[m]` is a history
variable: the content that completed ingestions and removals had brought about
when manifest `m` was written. A writer follows the order of the code: an
ingestion purges, inserts and then registers; a run's removal deletes, then
drops the entry; a DELETE request drops the entry first, so that what it
deletes may still be cached under the new version: it does not count as
settled. Redis may lose or refuse anything at any step.

### Communities

`ChangeGraph` is a run that changes the graph and comes to its refresh (`due`),
or a change without one: a deletion through the API, a document that fails
halfway. `StartAny` is a build that reads graph and files (with the lock for
`refresh_communities`), `Skip` the refresh that finds the lock taken and is not
made up for, `Plan` the fingerprint comparison, the reuse of
summaries and the limit of model calls, `Summarize` the calls, any of which
fail, `Embed` the vectors, `SaveReports` and `SaveIndex` the two files.
`Crash` may come between any two. `missed`, a history variable, says that the
graph as it is had no refresh, or one that failed, was killed, or was skipped for
a build that does not know this graph. A graph is the set of communities it has,
of which the fingerprint is a function and one to one (`FingerprintTells` is about
how it is computed), and a summary the set of members it was written about, so
that reuse, loss and staleness can be told apart. A question (`Ask`, `Select`, `Store`) builds its
key, selects later and stores last; the service awaits nothing between the two
files, hence `Awake`. `Kinds` says which builds run: refreshes, forced
rebuilds, builds without the lock (the service's rebuild task), with a limit
of calls or without.

### Lists, Retrieval, Partition, Metrics, Limits and Algorithms

Operators and folds without state, except for the step functions of
`strip_think_stream`, token bucket, shared window and semaphores in `Limits`,
which take the state and return the next. `Algorithms` picks a case (`sample`)
in one step and, for those with a state, goes on with it. Scores are integers,
shares are in thousandths and logarithmic discounts a table (`Discount`);
texts are sequences of a few letters for the stream filter, where the tags
matter, and lengths elsewhere. What a constant of `Algorithms` may be is said by
its five assumptions. Most give types. `GraphsAssumption` also says what is
taken from Leiden: its communities are not empty and each node is in one of
them (how many there are at which resolution is left open); and that the range
of resolutions halves to one, as 2^n steps do.
`ScoresAssumption` says that no more documents score too little than a
reranker was given, and that a gold list has at most 1000 items, since one hit
among more could be rounded to no thousandth at all.

Two properties name several: `PartitionSound` is `CommunitiesPartition`
(merging), `CommunitiesPresented` (numbers and what is shown), `FingerprintTells`
and `ResolutionFound` (the closest resolution of those tried, and of all where the
count never falls); `ScoresComparable` is `RatesAreRates`,
`RankingsComparable`, `BagsComparable` and `ReportsFair`.

* `Retrieval`: which texts are embedded in one call and which vector each search gets, the alternating merge of entities and relations, the chain of relation filters with both rerankers (an API may rank fewer documents than it was given: "capped") and the fallback (an outage, now or when the same was asked before: its answer is cached), trimming to a budget, rendering of community reports, pictures.
* `Partition`: weights, fingerprint, bisection for the resolution, merging of small groups, numbering, what a summary is made from.
* `Metrics`: the aligned metrics of entities, relations and chunks that the report uses, set and multihop metrics, refusals, the report with the flags of the judge's three metrics and a call that fails altogether, the monitoring's rates. `ranked_metrics.py` is imported by nothing and not modelled.
* `Limits`: the filter of streamed answers, both rate limiters, quotas with repeats.

## Runs

| Run | Question | Bounds | Distinct states |
|---|---|---|---|
| `lock` | In each of the 8 regimes: does a local lock go with its task? And in the stable ones, with Redis or without and processes killed: is the lock exclusive, is a released key gone, does it implement `Mutex`? | 4 tasks in 2 processes | 18 082 |
| `lock_expiry` (violation) | Does only the holder of a token delete the key? No: not if it expires between comparison and DELETE. | same | – |
| `pipeline_requests` | Two documents of one name; runs, uploads, updates, deletions overlap; LightRAG raises or refuses once | 2 docs, 3 edits, 1 fault | 86 257 |
| `pipeline_updates` | Tasks in turn; failing insertions, reverted files: do the records agree, is nothing outdated, are removed files forgotten? | 2 docs, 3 edits, 2 faults | 23 953 |
| `pipeline_crash` | Killed in the middle and failing insertions: does every file become searchable? | 2 docs, 3 edits, 2 faults | 102 309 |
| `sidecars` | Two documents in two directories, all texts with one picture, Markdown of a user beside a PDF; conversions, runs, uploads, updates, deletions in turn; a failing or killed conversion, a failing insertion, a killed service | 3 user steps, 1 fault | 109 062 |
| `service` | From warm-up to shutdown, with failing builds, tasks and transactions | 2 queries, 1 feedback, 2 tasks, queue and batch of 2 | 55 179 |
| `service_init` (violation) | Does a failed initialisation leave the retry to the first request? No. | 2 queries, 1 task | – |
| `query_cache` | Streamed, multimodal and plain questions under one retrieval key, one permit, beside a document that is ingested, removed or deleted: is an answer ever older than its question, a permit lost, a question stuck? | 2 questions, 1 permit, 1 writer | 441 525 |
| `communities` | Service and command line refresh; the graph changes; models fail; a process is killed; a question caches what it injected | 3 graphs, 2 builders, 1 change, 1 crash, 1 question | 112 874 |
| `algorithms` | Each computing part on every bounded input | see `MCAlgorithms` | 1 015 300 |
| `rerank_outage` (violation) | Does the fallback rank when the rerank API is down? No: it raises, and no relation is left. | relation lists of `algorithms` | – |

Why the bounds are enough to make the interesting cases happen: exclusion and
duplicates need two contenders and, across processes, two in each; outdated
contents need a version, a change and a third step to undo or repeat it; two
faults allow a failure of the retry; a queue of two with three rows fills up, a
batch of two may hold a row and the sentinel. `service` also has tasks waiting
behind a failing one and a worker that initialises LightRAG after a failed
warm-up. In `query_cache` a stale answer needs one question that retrieves
before a change and one that looks under the same key after it; both requests
share their retrieval key, one permit makes the second wait, and the writer
takes each of the ingesting, removing and deleting orders. `communities` has a
community that stays, one that is close enough to be reused and one that is
replaced; a change between two builds of two processes is what could let an
older graph win, and one crash leaves reports and index apart. The inputs of
`algorithms` are lists of up to three items (a tie, a repetition and a third
thing), all graphs of four nodes with weights 1 and 2 (and
some with weight 0 or none), a chain of ever finer partitions that is gone through
at any pace as the resolution grows, and texts of up to six
letters, longer than both tags together. Deadlock checking is off for
Service, whose process ends, for QueryService, whose questions end, and for
Algorithms, whose cases end.

## Where the code departs from what it says, and regimes in which properties fail

Three departures have a run of their own, named first; the others were met while
modelling, and where a module shows the trace it is named how: a property that no
run asks for is put into a configuration, or constants are set.

Against a document of the repository:

* `service_init`: an initialisation that failed is not repeated by the first request (`api.py:136`), since the object is assigned already.
* `rerank_outage`: the fallback raises while it sorts embeddings and ranks nothing (`remote_rerank.py:193`); the empty answer is cached and returned for as long as the entry lives, also when the API is back.
* `lock_expiry`: a key that expires between the comparison and the DELETE and is taken again is deleted by a task whose token it does not hold (`redis_lock.py:56` says that only the holder deletes): `NoForeignRelease`.
* Redis going away while a key is held lets a task of the same process in through the local lock (`redis_lock.py:13` says the fallback excludes inside a process): `MutexInProcess` without its condition `Stable`, in `RedisLock.cfg`.
* Indexing a new version deletes every picture listed for the old one, also those the new text shows, which its conversion has just written (`document_manifest.py:45` says that the list goes when the document is deleted): `PicturesPresent` in `Sidecars.cfg`. The same happens to the pictures that two documents of one directory share, since the manifest lists the whole `images/` for each (`tests/test_delete_keeps_source.py:24` says that shared pictures stay), and when a registered document is updated through the API.
* The count that `search_resolution` halves by falls when communities get smaller than `min_size`, which `partition.py:147` rules out. In a complete graph of four nodes with `min_size` 2 and one community wanted, a first try that leaves all nodes alone counts 0 and sends the search to still higher resolutions: `ResolutionClosest` in `Algorithms.cfg`.
* A changed file that is uploaded again keeps its old content, since an upload calls `ingest_path` without `replace` (`README.md:194` says that a change deletes and inserts).
* A removal that raised is not repeated: `update_manager.py:168` drops the entry from the cache anyway (`scripts/verify_incremental_consistency.py:1` expects agreement with `data/raw`): `delete_raises` with `EventuallyForgotten`.
* The docstring of the multihop metric lets the reference count as a match; with bullet points the reference is never looked at (`MultihopCorrect`).

Not excluded by any document:

* A short TTL in RedisLock (`short`): the exclusion properties fail without their condition `Stable`; the code has no promise for work that outlives `lock_timeout_seconds`.
* `EditRaces` in IndexPipeline: a file edited between loading and hashing is recorded as indexed (`UnchangedIsSearchable`); a file that comes back between the detection and the removal of its entry may be deleted by the legacy cleanup (`SourceKept`, four edits, with `delete` among the requests).
* `insert_fails` with `update` requests when nothing repairs it: one document, two edits, one fault, requests `{"update"}`: an update that fails leaves the old cache entry and a `full_docs` entry, so that reverting the file makes it look done (`UnchangedIsSearchable`).
* Overlapping deletions (`delete` with `OneTask = FALSE`) and documents of one name (`SharedName`): `RegistryMatchesIndex`.
* `crash` with removals: a document indexed by a run that died before it wrote the cache, and removed before the next run, stays in the index (`EventuallyForgotten`).
* In Sidecars, the conversion of `foo.pdf` writes over a `foo.md` that a user put beside it (`convert.py:154`), before or after the PDF; `OwnMarkdownKept` says so. The repository's README.md:388 keeps the main files of `data/raw` for the deletion of an index entry only. When that PDF is gone afterwards and metadata of an earlier conversion is still there, the cleanup takes what the user has edited since with it. When the metadata of a PDF was removed by an update, or an upload left no entry in the conversion cache, its Markdown stays indexed after the PDF is gone.
* In Telemetry, not every accepted row is written at shutdown, even without failing or slow writes: the sentinel reaches the writer inside a batch, the batch raises a `TypeError` and is lost, and the shutdown ends by the join's timeout alone. `RowsKept` and `ShutdownEnds` say what holds instead.
* In Communities, a forced rebuild (`keep |-> FALSE`) whose model calls fail loses summaries that a refresh would keep (`NoSummaryLost`), and a build without the lock breaks both `NoSummaryLost` and `NewerGraphWins`. After a failed embedding model, or a process killed between the two files, the index is of an older graph than the reports, and since the fingerprint says that these are up to date no refresh repairs it until the graph changes; nothing is injected meanwhile (`Eligible`). Communities beyond the limit of calls stay without a summary for as long.
* In `lightrag_patches.py:276` two searches that overlap save and restore one shared configuration in the wrong order and leave the changed number of chunks in place. Not modelled: no document says which number holds.
* With Redis, a rate below one question per second lets none through: the first of a window of one second already counts 1, which is more than the rate. A token bucket allows such rates.
* The NDCG that is reported for entities and relations (`NdcgAligned`, `align_metrics.py:179`) exceeds 1 when more results match than there are gold items, as when several match the same one: each of them gains. `RankingsComparable` gives its range up to there. The one of chunks is cut at 1.
* A judge that fails for all rows leaves means of 0 (`runner.py:52`), beside the number of rows they are of, 0; one whose call fails altogether leaves no section (`runner.py:240`). `ReportsFair` says both.
* A small group that touches only small groups stays alone or not depending on their order; `CommunitiesPartition` (in `PartitionSound`) says exactly when.

## Fairness

* RedisLock: none; its properties are about what may never happen.
* IndexPipeline and Sidecars: coroutines continue, calls to LightRAG and MinerU return or raise; runs and conversions recur (cron, command line, API) and get their turn in a first-in-first-out queue, hence strong fairness for starting them. Users and requests owe nothing. Faults are bounded by `MaxFaults`, without which nothing could be promised.
* Service: the event loop and the writer thread run and asyncio hands its lock on; nobody has to send requests, submit tasks or shut down. `Join` may always end by its timeout when the writer does not.
* QueryService: weak fairness for the steps of a question already asked. Calls of LightRAG, Redis and the models return or time out, and `asyncio.Semaphore` serves its waiters in turn. Nobody has to ask or to write.
* Communities: a build that runs goes on and a lock whose holder died expires (weak), and a run that changed the graph comes to its refresh, which starts or is skipped (weak). Nobody has to run again while the graph stays as it is, and the model may fail every time: `EventuallyCurrent` promises nothing of a graph whose only refresh did.

## Proofs

For all values of the constants (bounds included, which are arbitrary naturals).
Every safety property and action property that a passing run checks is a
theorem, some under hypotheses that are named below; every inductive invariant
was an invariant of a TLC run before it was proved.

* **RedisLock.** `TypeCorrect`; in every regime `LocalLocksAreHeld` (a local lock is taken while a task of its process holds it and at no other time; `LocalInv` adds that there is one such task at most); and, as their statements say, in the stable regimes `InProcessExclusion`, `CrossProcessExclusion`, `ReleasedKeyIsGone` (`KeyHasHolder`) and `LockImplementsMutex`. Exclusion alone is not inductive: `LockInv` adds that a task counting on Redis has its own token under the key, still between GET and DELETE, that local locks are used only without Redis, and that a local lock has one holder. The regime never changes (`RegimeStays`), and where it is not stable the mapping shows an empty `Mutex` that promises nothing. The refinement maps a step to `Enter`, `Leave` or a stutter.
* **IndexPipeline, while it works.** `PipelineTypeCorrect`, `LockIsHeld` (`OneWorkerPerName`), `NoDuplicates` and `SourcesSurvive`. `IInv` strengthens "no duplicate record" by `JobOK` (who works on a document holds its name's lock, and has read a text when it inserts) and `StatusCleared` (from `clear_doc_status_by_basename` to `ainsert`, `doc_status` knows nothing of the name: whoever could write to it needs the same lock). These hold through failures, crashes and edits at any time. `SourcesSurvive` needs `~EditRaces` and the invariant `ReportFresh`: a file reported as removed is still absent when the cleanup looks.
* **IndexPipeline, what it leaves behind** (second part of `IndexPipelineProofs`). All three rest on `Quiet`: `IInv`, `ReportFresh`, and that one worker at a time is at work on a text that is still the file's.
    * `CrashesKeepIndexSearchable` (`UnchangedIsSearchable`): with any faults and crashes, when tasks take turns, requests are additions, and files are neither edited while in hand nor put back to an earlier content. `SInv` adds that what is about to be recorded is in the index: for a document of the run once it counts as successful, for a request before its `verify`; and that a document reported as modified differs from its cache entry, so that a crash before the cache is written leaves it to be looked at again.
    * `RegistryStaysConsistent` (`RegistryMatchesIndex`) and `UpdatesLeaveNothingOutdated` (`NothingOutdated`): when tasks take turns, files are left alone while in hand, names are distinct, requests are updates, and insertions raise or fail but nothing else does. `RInv` relates registry, manifest, `full_docs`, `doc_status`, chunks and cache of every document at rest, and says where each step of a job may leave them apart.
    * The hypotheses are not for convenience. On the bounded instances TLC finds `UnchangedIsSearchable` violated when any one of its four is dropped, and `RegistryMatchesIndex` when any of its own is (of the faults, a refused deletion alone does no harm). `NothingOutdated` is violated when edits race, with additions, crashes, deletions that raise or are refused; with several tasks, shared names or delete requests TLC finds no violation and the theorem says nothing.
* **Sidecars.** `SidecarTypes`; `UsersKeepTheirMarkdown` (`OwnMarkdownKept`: own Markdown goes by its user, by the conversion of a PDF of that name, or beside metadata when that PDF is gone), through overlapping, failing and killed tasks, when files are left alone while in hand; `ConversionCacheTrue` (`ConvertedIsCurrent`), when in addition tasks take turns: `CInv` says that what a conversion is about to vouch for was made from the PDF that is still there, unless a user has been at the Markdown since. Without the conditions the first fails with files changed while busy, the second also with overlapping tasks (TLC).
* **Service.** `EveryCallerGetsReady`, under the assumption that `initialize_storages` does not fail; `RagInv` says that a built but not initialised object always has somebody initialising it under the lock, except after the shutdown cancelled the worker, when nobody calls any more. `TasksRunInOrder`: `TaskInv` adds that the queue is in the order of submission and that tasks are submitted in order. `TelemetryKept` (`RowsKept`), without any hypothesis: `RowInv` adds that requests not yet answered have no row, and that the sentinel is put into an empty queue to which no row is added any more.
* **QueryService.** `TypeCorrect`, `NoAnswerOlder`, `NoPermitLost`, for any questions, writers and permits. `Current` relates every place where a content is carried along: settled contents only grow and never exceed the index, both caches hold nothing older than what their key's manifest had settled, and (`QueryInv`) a question's own key and retrieval key name manifests that existed when it was asked or later. For the permits each step changes the place of one question, and a lemma on cardinalities says how the number inside the semaphore follows.
* **Communities.** `TypeCorrect` (`TypeInv`: what a build carries along grows with each of its steps). `VersionNamesSummaries` holds with unlocked builds too: `VersionInv` says that the version only grows and that what is cached or about to be stored under the current version was selected from the current reports. `LaterGraphStays` assumes that every build takes the lock: `LockInv` says that who builds holds it, and that its graph is not older than the reports. `SummariesSurvive` assumes that every build is a refresh: `KeepInv` says that what a build carries along has a summary wherever one can be kept, and rests on `OneIsSimilar`: with a Jaccard threshold above one half a community is close to at most one of several disjoint ones, so that the summary that is reused is the one that must not be lost.
* **Limits** (in `AlgorithmsProofs`). Both theorems assume no more than the types of the constants.
    * `LimitsAlwaysHold` (`LimitsHold`). Bucket: `Accounted` says that the tokens that are left and those taken since any question come from what the bucket held and what was added since. Window: `Counted` says that the count of the newest window is at least the number of questions let through in it by Redis, and that no question is in a later one. Quotas: `QuotaInv` says that there is one semaphore per phase at most with the limit of its phase, that its holders are within it, and how often a call may have been tried where it is.
    * `StreamIsShown` (`StreamShowsAnswer`), for every text over any letters and every way to cut it. `Shown` says what the filter knows after m letters: nothing but spaces and perhaps the beginning of a tag; an opened block, with the end of it in the buffer from a place before which no closing tag begins; or where the answer begins. The lemmas locate tags by position, so that no induction over texts is needed: the least element of a set of positions comes from counting what lies below it (`Least`, in `RetrievalProofs`).

The last three concern what is computed from lists. A case is started once and
does not change (`CasesInv`), so each is a theorem about operators. Induction
over lists is out of the provers' reach; it is replaced throughout by facts on
sets of numbers and finite sets (`NatInd`, `Least`): a fold over a list runs
through states (`FoldRun`, from the library's definition), and what holds of the
state after k items is shown by contradiction with the least k of which it does
not; sums take the elements one by one (`SummingExists`, `SumsTake`), in any
order; selections and sorts are told by the number of elements that come
before one (`ArrangedIs`, `SelectIs`, `SortedIs`).

* **Retrieval** (`RetrievalProofs`), for lists, budgets and thresholds of any size, assuming types only.
    * `SearchesAreMerged` (`SearchesMerged`): a vector is found at the position that is the number of texts embedded before its own. `FirstsKeep` bounds how far an item moves when repetitions are dropped.
    * `RelationsAreKept` (`RelationsKept`): each filter of the chain keeps its order and a relation as long as it was given one (`HitsKeep`, `OrderIs`, `RankKeeps`); normalising scores of integers keeps them apart (`Stretched`).
    * `ContextAlwaysFits` (`ContextFits`): as long as nothing was cut all items so far are there, and what is cut is the last (`TrimmedStep`, `RenderedStep`).
* **Partition** (`PartitionIsSound`, in `AlgorithmsProofs`), under `GraphsAssumption`.
    * `SearchIsClosest` (`ResolutionFound`): after k tries, of all resolutions those below the range gave too few communities and those above too many, the closest of them all is remembered, and 2^(n-k) are left, where the count never falls (`SearchedTo`); whatever the count does, the one remembered is the closest of the middles tried.
    * `MergingPartitions`: after k small groups each community is a large group with those that joined it, all disjoint, and each group that was left alone touched none of them when its turn came (`MergedTo`, `MergeStep`). Weights are sums over edges in any order (`SameWeights`).
    * `FingerprintsTell`, `CommunitiesArePresented`: a list in strict order is the only shuffle of its items that is, so sorting forgets the order it was given (`SortedIs`, `ShufflesBack`, `ShufflesOn`); the orders of edges, communities and members are shown to be strict.
* **Scores** (`ScoresAreComparable`, in `AlgorithmsProofs`), under `ScoresAssumption`.
    * `RatesStayRates`: a share is the quotient of a part and its whole (`ShareIs`); a percentile has at least so many values before it.
    * `ReportsStayFair`: keeping some rows of what was kept goes through the same places in the same order (`GoesOnce`, `KeptTwice`), so the mean of a metric is that of the rows it was computed for, and scored and unscored rows add up.
    * `BagsStayComparable`: the harmonic mean of two numbers lies between them, rounded down (`HarmonicIs`); the overlap of two bags is a sum over the items of both (`OverlapIs`).
    * `RankingsStayComparable`: for lists of every length, up to the tenth result, as in the run and in the report, unless a row asks for more: the logarithmic discounts are a table of so many entries, and an ideal gain is compared with any other of as many places at most (`IdealGains`).

Only model-checked: the liveness properties (TLAPS has no support for the
fairness arguments). What the property of a run fixes, the theorem about it
fixes too: rankings up to the tenth result, summaries of at least one relation
and two members, reports with one match and a default k of 2. Neither asks
whether the table of discounts has the right numbers.

## Not modelled, and why

* Checkpoints are written and never read; text splitting and preprocessing are string processing without state; configuration reads environment variables (the models take the values they need as constants); scripts and front end wrap the same services.
* Sidecars: the coupled mode, the batch command of `scripts/convert.py`, MinerU itself.
* Service: rate limiting at the endpoints (the limiters are in `Limits`), static files, read-only endpoints, several worker processes. LightRAG initialisation: what is built from which setting, `reset_lightrag_singleton`.
* Online monitoring: contents of rows, aggregation queries, the Redis stream.
* Retrieval: the regular expressions and the segmentation that find the keywords of a question, wording of prompts. Patches: the shared configuration (see above), the session header.
* Model clients: HTTP, the drivers of Milvus and Neo4j, local models, caches of embeddings. Utilities: the cache of clients, hashes, logging.
* Offline evaluation: `ranked_metrics.py`, which nothing imports; ROUGE, the normalisation of names (a relation between items stands for it), the prompts of RAGAS.
* Hash cache entries that two processes take from each other, and tasks that are lost with a process: no promise of the code says what should hold (see the hazards).

## What is left

1. Rankings beyond the tenth result, which a row may ask for: the discounts would have to be described by what they satisfy (they fall) instead of a table.
2. A composition of `Communities` with `QueryService`, so that one key holds both versions; today each module has the version it is about.
3. `NothingOutdated` under weaker hypotheses (several tasks, shared names), where TLC finds no violation, and the conditions under which the pictures of an updated document stay.
