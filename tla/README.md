# Formal models of port-rag

TLA+ models of the `rag` service (`src/src/rag/`), TLC runs that check them on
small instances, and TLAPS proofs of what matters most for every instance.
`PROJECT.json` maps every definition to the source lines it stands for, names a
faulty variant that breaks each property, and lists the hazards the properties
are for.

## 1. The system

The service stores a user's knowledge: uploaded files and selected web pages,
cut into chunks with embeddings, searched by vector distance. Its state is in
PostgreSQL (documents, chunks, webpage rows, knowledge revisions, fenced
owners), in encrypted originals on a staging filesystem that several processes
may share, and in each process's memory (ingest queue, delayed retries, owners
drained here, the webpage worker's current claim). There is no message broker:
components meet in database rows, in advisory locks and `flock`s, and in
callbacks inside one process.

| component (source) | state | operations | meets others through |
|---|---|---|---|
| owner admission and erasure fence (`security/owner_erasure.py`) | `rag_erased_owners` | assert active, mark erased, erase rows | an advisory lock per owner in every transaction |
| account erasure (`http/account_erasure.py`) | the request in progress | fence, drain both workers, remove files, delete rows, acknowledge | calls every other component in turn |
| webpage repository (`webpages/repository.py`) | `documents` ⋈ `document_webpages` | create, set auto sync, enqueue, delete, claim, check, finish, fail | rows claimed by workers; claim token and 15-minute lease |
| webpage worker (`webpages/worker.py`) | one claim, its deadline, drained owners | poll, claim, fetch, fingerprint, embed, publish, fail | repository, crawler, embedder |
| upload staging (`ingest/uploads.py`) | originals, `flock` per owner, startup lock, instance liveness | save, open, unlink, erase owner, clean up ended instances | shared filesystem |
| ingest worker (`ingest/worker.py`) | queue, active job, delayed retries, drained owners | enqueue, run, retry, drain, stop | upload handler, pipeline, erasure |
| ingest pipeline and store (`ingest/pipeline.py`, `store.py`) | `documents`, `document_chunks` | store, mark failed, reindex | rows, originals |
| document API (`http/documents.py`) | `documents` | upload, list, get, delete, reindex | staging, worker |
| knowledge revisions (`knowledge/revisions.py`) | frozen chunks, referenced webpages | create, replay, list, get | reads documents; the id comes from the API |
| search (`search/*`) | none | embed, read, decrypt, answer | reads documents and revisions |
| embedder, crawler client, parser | none that others see | succeed or fail | awaited by the above |
| capability, server authentication, configuration, metrics | none | checks and formatting | — |
| private data cipher (`security/private_data.py`) | none that others see | encrypt, decrypt and look up under a binding | binding strings, spelled out by every caller |
| private data backfill (`security/private_data_backfill.py`) | one transaction over four tables | lock a row, convert it, commit or roll back | row locks; the stored values everybody reads |

What is hard, and the properties that make each part correct:

* **webpage queue.** Any number of processes claim from one table. A worker
  remembers a claim over ten minutes of fetching and embedding, and may stall
  past the lease; requests toggle the schedule, enqueue, delete; the owner is
  fenced between any two transactions. Correct means: one document never shows
  half a publication or an older text; a `processing` document always has work;
  requested work is never lost and automatic work always scheduled; pending work
  is served.
* **uploads.** Original, row and in-memory job are three things created and
  removed one after the other, with a failure possible between any two, by
  processes that share one filesystem. Correct means: a ready document has its
  chunks; an original is removed by its own job only; a kept original has a
  retry; nothing stays `processing` with nobody at work.
* **account erasure.** It races uploads, jobs, claims and searches of several
  processes and may fail half-way. Correct means: after the fence nothing is
  acquired, after the acknowledgement nothing is held, and other owners keep
  everything.
* **revisions and searches.** Requests are sequences of transactions with awaits
  between them. Correct means: replies agree with what is stored, revisions never
  change, and a search never answers with text that was gone when it was asked.

* **stored text.** Older releases wrote plain text, this one encrypts, and the
  backfill converts while both kinds are read and written. Correct means: what
  is stored can be opened by every reader and is what was written last; the
  stored hash goes on describing the stored text; after the conversion nothing
  private is left in plain.

The full list, line by line, is under `hazards` in `PROJECT.json`.

## 2. The modules

```
OwnerErasure  <---- refined by ----  WebpageSync  DocumentIngest  KnowledgeRevisions
PublishedDocuments <-- refined by --  WebpageSync  DocumentIngest
                   <-- composed in -  KnowledgeRevisions

WebpageSync        <- WebpageSyncProofs <- WebpageErasureProofs, WebpagePublicationProofs
                   <- MCWebpageSync <- MCWebpageSyncBounded
DocumentIngest     <- DocumentErasureProofs <- DocumentPublicationProofs, DocumentQueueProofs
                   <- MCDocumentIngest
KnowledgeRevisions <- KnowledgeRevisionsProofs,  MCKnowledgeRevisions
PrivateData        <- PrivateDataProofs,         MCPrivateData
```

**A transaction is one action.** Every repository transaction that changes an
owner's data first takes that owner's transaction-level advisory lock
(`assert_active`) and holds it to its commit, so two transactions of one owner
do not overlap. Everything between two transactions — an await of the crawler,
the embedder, the cipher, a file — is a point where others run, and what was
read before it may be stale after it.

**OwnerErasure** — what an erasure promises, whatever is stored: items come only
for owners that are not closed; the acknowledgement closes the owner and leaves
nothing held.

**PublishedDocuments** — documents as readers see them: a status, and the one
text the chunks were cut from. Texts only get newer, change in one step with the
status, and do not change at all once the owner is fenced.

**WebpageSync** — `page` is `documents` joined with `document_webpages`; `order`
is the order by `updated_at`, which every touching transaction renews; `worker`
is what a worker holds in memory between transactions; `marked` its
`_erased_owner_hashes`. Times are relative to now (`claimAge`, `next`,
`checked`) and stop where no condition tells them apart. A text is the sequence
of the versions of its pages, so its fingerprint is the text itself: the digest
is keyed and compared for equality only.

Two clocks run over a claim. `claimAge` counts from `claimed_at`, the worker's
`age` from there too until `Begin`, where the job's timeout starts it again
(`StartJob`). `claim` takes `claimed_at` and then decrypts up to 100 URLs before it
commits, so a claim may have any of the `ClaimAges` when it appears. In a punctual
process (`OnTime`) the whole of this takes at most `ClaimTime`, an assumption that
no deadline in the code enforces, unlike `JobTimeout`.

| source | actions |
|---|---|
| `create`, `set_auto_sync`, `enqueue`, `delete` | `Create`, `SetAutoSync`, `Enqueue`, `Delete` |
| `claim`: the candidate scan, then one transaction per candidate | `Scan`, `SkipCandidate`, `Claim`, `ClaimRaises` |
| `process`, `_synchronize` | `Begin`, `CheckFetch`, `Fetched`, `Fingerprint`, `CheckEmbed`, `Embedded`, `StepFails`, `TimeoutFires` |
| `finish`, `fail`, `_complete` | `Finish`, `FinishRefused`, `FinishRaises`, `Fail`, `FailRefused`, `FailRaises` |
| cancellation and process end | `Crash` |
| erasure: fence, `erase_user`, delete, failure | `EraseFence`, `EraseDrain`, `EraseRows`, `EraseAbort` |

**DocumentIngest** — one record per upload joins the request handler, the
original, the row and the job; `queue`, `running` and `marked` are per process.
Owner locks are not variables: who holds one follows from the control states
(`LockedShared`, `LockedExclusive`). Each process may have one erasure request per
owner under way, so a repeated request overlaps the first one in another process.

| source | actions |
|---|---|
| `upload_document`, `save` | `SaveBegin`, `SaveOpen`, `SaveEnd`, `CreateRow`, `Enqueue`, `Answer`, `TurnedAway`, and the failures `SaveFails`, `CreateAnswerLost`, `EnqueueFails` |
| delete, reindex | `Delete`, `ReindexBegin`, `ReindexFails`, `ReindexStore`, `ReindexMark`, `ReindexDropped` |
| `IngestWorker._run`, `_ingest_job` | `Take`, `JobBegins`, `JobTurnedAway` |
| `IngestPipeline.ingest` and its `except` branches | `JobPrepared`, `JobFails`, `CipherFails`, `JobWithdrawn`, `Store`, `StoreFails`, `MarkFailed`, `MarkFails`, `MarkUnavailable` |
| `_schedule_retry` and the retry task | `Retried`, `Requeue`, `RequeueFails` |
| process start, stop, end | `Start`, `Sweep`, `Started`, `Stop`, `Exit`, `Crash` |
| erasure | `Withdraw`, `EraseFence`, `EraseDrain`, `JobEnds` (the awaited job), `EraseLock`, `EraseFiles`, `EraseRows`, `EraseAborts` |

`Faults` names what may fail in an instance (`"database"`, `"cipher"`,
`"process"`), so that a run can show which failure a property survives.

**KnowledgeRevisions** — `revision` holds the owner, the frozen texts and the
referenced webpages; `call` is what a request remembers between its
transactions. Documents change as `PublishedDocuments` allows, which covers both
kinds of document at once. `call[c].since` is a history variable: what was
readable when a search was asked.

**PrivateData** — `store` holds what is committed in the text columns of four
tables: a plain text, a ciphertext with the binding it was made under, a keyed
digest, or null. `backfill` is the backfill's transaction: the table, the last
id, the rows it has locked and their converted values. `worker` is the part of a
webpage job that remembers a stored value, the hash seen by the claim. All rows
belong to one owner, and `fenced` says that the owner's data are being erased:
from then on every transaction of the service is refused (`Active`, in `Put`).
`written` and `migrated` are history variables. `Init` is what the release before
encryption can have left: texts, hashes and frozen chunks in every combination,
errors as its failed attempts leave them (`FailureLeft`).

| source | actions |
|---|---|
| `create_processing_document`, `WebpageRepository.create`, `enqueue`, `delete_document` | `Upload`, `Register`, `Enqueue`, `Delete` |
| `IngestStore` | `Ingest`, `MarkFailed` (also of a reindex), `MarkUnavailable`, `Reindex` |
| `KnowledgeRevisionRepository.create` | `CreateRevision` |
| `claim`, `_process`, `_complete` | `Claim`, `Fetch`, `FetchFails`, `Finish`, `FinishRaises`, `Fail`, `GiveUp` |
| erasure: fence, delete | `Fence`, `Erase` |
| `backfill`, `convert`, `main` | `Begin`, `Visit`, `NextTable`, `Commit`, `Rollback` |

Who reads a column under which binding is a set of pairs, `Reads`, taken from
the readers (`_hit`, `_to_private_record`, `_detail`, `get_chunks`,
`get_chunks_for_reindex`), and what the backfill assumes is `Target`; neither is
derived from what the writers do.

Definitions whose name has a suffix after an underscore (`Create_NoFence`) are
faulty variants of the definition before the underscore. No specification uses
them; `PROJECT.json` pairs each with the property it breaks.

## 3. The runs

| run | instance | distinct states | what it shows |
|---|---|---|---|
| `workers` | 1 document, 2 workers that may stall, 3 tokens, 2 pages, 1 batch, 1 change of the site | 900,100 | row invariants, publication, erasure, and both refinements of the webpage component |
| `fifo` | 2 documents of 2 owners, 1 punctual worker, lease 3, claim 1, job 2, interval 2, scans hold both, 3 disturbances | 192,178 | the lease outlives the job if claim and job fit into it; pending and scheduled work of both documents is attempted; erasing one owner leaves the other alone |
| `starved` | as `fifo`, a scan holds 1, 5 disturbances | violation | fenced rows fill every scan (finding 1) |
| `outage` | 1 upload, 2 processes, all faults, a request in each | 33,850 | erasure and document refinement under every fault |
| `queue` | 2 uploads of 2 owners, 1 process, cipher and process faults | 1,400,662 | a drain rebuilds the queue without loss |
| `recovery` | 1 upload, 2 processes, cipher and process faults | 34,899 | erasures complete; uploads settle; kept originals are ingested, or found unusable |
| `lost_retry`, `stuck` | 1 upload, 1 process, database faults | violations | findings 2 and 3 |
| `deleted` | 1 upload, no faults, fair | violation | finding 4 |
| `requests` | a file and a webpage of one owner, 2 owners, 1 revision id, 2 requests | 2,016,854 | replies, searches, immutability, erasure of revisions |
| `migration` | 1 file, 1 webpage, 1 revision, 2 chunks, a text that looks like a ciphertext | 484,444 | stored values across the conversion and the account's erasure |
| `legacy` | 1 webpage | violation | finding 5 |

### The bounds and why they suffice

* *One document in `workers`.* All of a document's transactions are ordered by its
  owner's lock, and documents share nothing but the scan order. What two
  documents add is fairness of the scan: `fifo`.
* *Two workers, three tokens.* A stale publication needs one worker that stalls
  and one that took its claim over. The stalled one can hold a token while two
  others come and go; a fresh token (`uuid4`) is one that neither a row nor a
  worker holds. `ClaimRaises` and idle polling cover runs short of tokens.
* *Lease 2, claim 1, job 1, interval 1* (`workers`), *3, 1, 2, 2* (`fifo`). What
  matters is whether claim and job together fit into the lease, as they just do in
  `fifo`, and whether a moment is before or after each limit. Job < lease (`DeadlineAssumption`) is a fact of the
  code's constants.
* *`MaxVersion` 1, two pages.* A fetch can see the old first page with the new
  second one: enough for a text that is neither old nor new, and for an order
  of texts.
* *`MaxDisturbances`.* With two documents, unrestricted requests and faults leave
  too many states for a liveness check. Three cover create, create and one of
  fault, toggle, deletion or fence; five are what the counterexample of
  `starved` takes. `Calm` steps are not limited.
* *One upload in `outage` and `recovery`.* Uploads meet in the queue of a process
  only, which `queue` checks with two owners. Two processes show restart, cleanup
  and erasure from elsewhere.
* *One erasure request per owner and process.* Two in one process would behave
  alike: both mark the owner and wait for the same job and the same lock, which
  excludes requests of other processes and of its own.
* *One file, one webpage, one revision* (`migration`). Rows meet in the order of
  the backfill only, and bindings are compared by resource and field: two
  chunks show a sequence number in the wrong place, the webpage beside the file
  a field of the wrong document. Ids put the file before the webpage in one
  table and after it in another. A second text is what publication needs to
  change anything; it looks like a ciphertext.
* *One reindex of a document at a time*, and upload ids are used once. Reindexing
  a webpage document is refused by the API (409).
* *`Revisions` = 1, two requests.* Replay, races and collisions between users all
  need one id and two requests.
* Symmetry is used in `workers`, `outage` and `requests`, which check no liveness.

`CHECK_DEADLOCK FALSE` stands in the three upload runs expected to find a
violation, where a single upload that was refused or lost leaves nothing to do.

### Fairness

* `WF(WorkerStep)` and `WF(Tick)`: the worker's loop polls for ever and catches
  everything but its cancellation (`webpages/worker.py:40`); time passes.
* `WF(HandlerStep)`, `WF(JobStep)`, `WF(ProcessStep)`: the event loop runs what is
  ready; `flock`s are polled, and no lock is held over a wait for another
  one, so weak fairness is enough.
* `WF(EraseStep)` in `DocumentIngest`: the API repeats an erasure until it gets
  `erased: true` (`wanted` says so). `WebpageSync` has it only in `BoundedLiveSpec`
  (`MCWebpageSyncBounded`).
* `<>[][~Fault]` and `<>[][~Disturbance]`: in the end faults and requests stop.
  Liveness under faults that never stop is not promised anywhere. Crawling and
  embedding may go on failing in `WebpageSync` (`JobFails` is no disturbance), and
  parsing in `DocumentIngest` (`JobFails`).
* `Punctual = TRUE` in the runs with two documents: a job's deadline is not
  overslept, and a claim takes at most `ClaimTime`. The other safety properties are
  checked without it: a process may stall for any time.

## 4. What the models found

1. **`starved`** — `claim()` looks at the 100 oldest due rows and passes over
   those of fenced owners without touching them. If an erasure stopped after its
   fence, that owner's due rows stay the oldest, and with 100 of them no other
   owner's work is claimed. README.md:167 says abandoned claims recover after the
   lease.
2. **`lost_retry`** — a database error at the admission check of a delayed retry
   ends the retry task; the kept original has no job any more.
3. **`stuck`** — a database error at a job's first admission check unlinks the
   original and leaves the document `processing`, although the pipeline says the
   original remains retryable when the database is down.
4. **`deleted`** — a document deleted during its ingestion makes the job retry for
   ever and keeps the original until the process ends.

5. **`legacy`** — a webpage row from before encryption holds the plain digest of its
   text. The worker takes a text with that digest for unchanged and makes no
   chunks; publication compares with the keyed fingerprint only, finds a change
   and raises. The attempt fails, every time, until the site changes or the
   backfill converts the hash. README.md:161-162 says unchanged text only updates
   timestamps. `StraddlingSyncIsPublishable` shows that the conversion itself, also
   in the middle of a job, repairs it.

Each is a run of its own whose single property the code violates; the quoted
statement is in `PROJECT.json` under `findings`.

One margin is not covered by any deadline. The lease counts from `claimed_at`
(`webpages/repository.py:246`), the ten minutes from the start of the job
(`webpages/worker.py:95`); between the two the claim decrypts up to 100 URLs, one
after another, and commits, for as long as that takes. `LeaseOutlivesJob` therefore
has the condition `ClaimTime + JobTimeout <= Lease`. If the cipher is so slow that a
claim takes more than the five minutes by which the lease exceeds the timeout,
another worker claims a document whose job is still running: with `ClaimTime` = 2 in
`WebpageSync_fifo.cfg`, `JobEndsWithinLease` fails after seven states. No text of the
repository promises otherwise, and nothing stale is published, since the token has
changed; the pages are fetched and embedded twice.

## 5. What is proved

Checked with tlapm 1.4.5 for every value of the constants. The assumptions are
the `ASSUME`s of the modules: `ConstantsAssumption` (types, positive bounds, and
that the "none" values are not members), `DeadlineAssumption`,
`RevisionsAssumption`, and `AgeAssumption` (on the texts of one document,
`NotOlder` is reflexive and transitive). `LeaseOutlivesJob` carries its
condition on claim and job in its statement; no proof uses `DeadlineAssumption`.

**`WebpageSyncProofs`** — `TypeCorrect`, `RowChecksHold`, `OneStoredVersionHolds`,
`ProcessingHasWorkHolds`, `AutomaticIsScheduledHolds`. The invariant is
`WebpageInv == TypeOK /\ InFlightOK /\ RowsFit`.

* `RowsFit` puts the row properties into one predicate on a row, `RowFits`, and
  each transaction's effect on a row is a lemma that keeps it. They need each
  other: that a failed attempt does not leave `processing` behind needs to
  know that the content is there exactly when the status is `ready`.
* `InFlightOK` is what strengthens it: a worker that has its digest holds a
  non-empty text, without which publication would not keep
  `status = "ready" <=> hash # NoText`.

**`WebpageErasureProofs`** — `WipedStaysEmptyHolds`, `NothingPublishedAfterFenceHolds`,
`DrainedStaysIdleHolds`, `WebpageErasureImplements`. One lemma classifies every
step by what it does to a row (`RowSteps`: nothing a reader sees, or a step of
an admitted owner, or a removal); the rest follows from it. The drain needs a
second one about the workers' memory (`WorkerSteps`).

**`WebpagePublicationProofs`** — `NeverShortOfChunksHolds`, `LeaseOutlivesJobHolds`,
`PublicationMovesForwardHolds`, `RequestedWorkIsKeptHolds`, `OthersArePreservedHolds`,
and `WebpageDocumentsImplement`: the webpage component refines `PublishedDocuments`.
The invariant is `PublicationInv == WebpageInv /\ StoredOK /\ WorkingOK`.

* A worker whose token is the row's knows the hash that is stored. No uniqueness
  of tokens among workers is needed: a claim takes a token that no row and no
  worker holds, so a row's token never becomes that of a stale worker.
* No text, stored, known or fetched, is newer than the site, and what has been
  fetched is, page by page, not older than what the claim knew; with the first
  point, what `Finish` puts in the place of the stored text is not older.
* In a punctual process `claimAge` is at most `age` before the job starts and at most
  `ClaimTime` + `age` after. If `ClaimTime` + `JobTimeout` does not exceed the lease,
  the lease has not expired.
* An attempt somebody asked for ends only in a step of the very worker that holds its
  claim (`Reports`), as every other step that touches the row leaves it pending or
  running.
* `RowChanges` and `WorkerChanges` classify every step by what it does to one row
  and to one worker's memory; the invariant is proved over their product.

**`DocumentErasureProofs`** — `ErasedLeavesNothingHolds` and
`DocumentErasureImplements`, for any number of uploads and processes, of
overlapping erasure requests, and every set of faults. `ErasedLeavesNothing` is not inductive: the acknowledgement comes
three steps after the lock. `EraseInv` says what each step has achieved: once the
owner's lock is exclusive no save is under way that could still create an
original; once files are removed there is none; chunks go with their row.
Because the fence precedes the lock, no new save gets in.

**`DocumentPublicationProofs`** — `ReadyHasChunksHolds` and `DocumentsImplement`: the
upload component refines `PublishedDocuments`, whatever fails. The invariant is
`ReaderInv == EraseInv /\ UploadFits`. `UploadFits` adds, for each upload, that a
reindexing which will store embeddings finds the chunks it read, or a document
that is gone, and where the handler stands before and after the row exists: a row
is created once. `Step` classifies every action by what readers see of it; all but
the erasing transaction change at most one document.

**`DocumentQueueProofs`** — `TypeCorrect`, `OriginalGoesWithItsJobHolds` and
`JobHasItsOriginalHolds` for every set of faults; `ProcessingHasJobHolds` and
`RetainedIsRetriedHolds` for every set without `"database"`. That hypothesis is
needed: `lost_retry` and `stuck` are the counterexamples without it. The invariant
is `WorkInv`, with `BackInv` for the third and `RetainInv` for the last two.
`JobHasItsOriginal` is one direction of `RetainedIsRetried`, the one that needs no
hypothesis, and more: a job that reads keeps its original after the fence as well.

* `TypeOK` says that a queue holds exactly the uploads queued there. Taking the head
  keeps that only if no upload is in a queue twice (`Distinct`), and putting
  one in keeps `Distinct` only because it was not queued anywhere (`Holds`).
* `Placed` and `Hosted`: a job has a process, which has not ended, so the end or the
  start of another process does not concern it.
* `MarkedIsFenced`: a process has marked only owners that are fenced, so a refused
  `enqueue`, which unlinks, concerns nobody who is still admitted.
* `Backed`: a job has its original. It begins at `SaveOpen`, before there is a job,
  and does not depend on what fails. For a job that reads, `LockedOut` gives it:
  an erasure removes files only while its lock is exclusive, and then no job of
  the owner reads. A job whose upload was refused is excepted: when the database
  fails around the enqueue, the handler unlinks under the running job, which
  then fails.
* `Kept`: while its process serves, an original, and a `processing` row, has a job.
  Each action is shown to keep both for the upload it works on (`Worked`), and
  to leave the others as they were (`WorkStep`).
* `PutBackHolds`: the queue the drain rebuilds holds the jobs of the other owners,
  each once. Its induction is over positions of a queue, not over queues: the
  positions where a fact holds are a set, so the library's minimum of a
  well-founded relation gives the induction as a first-order lemma (`UpTo`), and
  that the recursive function of `PutBack` exists follows from it (`Along`).

**`KnowledgeRevisionsProofs`** — `TypeCorrect`, `SearchIsCurrentHolds`,
`RepliesAgreeHolds`, `RevisionIsImmutableHolds`, `RevisionErasureImplements`,
`ErasedOwnerHasNothingHolds`, for any number of concurrent requests. The last one
uses the refinement: it follows from `OwnerErasure` alone, without the actions of
this module. `RevisionsInv` has one part per variable, and
`SinceOK`: as long as a search waits for its embedding, every document not
deleted was readable when it was asked and has not become older since. `RevisionsOK`
is what keeps a file and a live page from both answering for one
document.

**`PrivateDataProofs`** — `TypeCorrect`, `ReadsAsWrittenHolds`, `HashDescribesTextHolds`,
`StraddlingSyncIsPublishableHolds`, `MigratedLeavesNoPlaintextHolds`,
`FrozenTextIsKeptHolds`, for any number of documents, revisions and chunks and any
order of ids. The invariant is `PrivateInv == StoreInv /\ WorkerFits`. `StoreInv` says what
each kind of column may hold (nothing, a plain text, a ciphertext under its one
binding) and relates the backfill to the store: what it has converted is what
conversion makes of the row as it still is, because the row is locked; what lies
behind it is converted or was written encrypted. `WorkerFits` says that the hash a
worker remembers is the stored one or became it by conversion. An erasure needs
no more than that all rows are gone, and that it found no row locked.

The theorems speak of the same definitions the runs check. In `PROJECT.json`
each names the property it proves; `JobHasItsOriginal` and `ErasedOwnerHasNothing` are
stated beside their proofs.

## 6. What is only model-checked

* Liveness under fairness: `PendingIsServed`, `AutomaticIsAttempted`,
  `ErasureCompletes`, `AcceptedIsSettled`, `RecoveredIsIngested`. TLAPS does not reason about
  fairness or `ENABLED`.

Every other property of the passing runs is a theorem. The findings are
counterexamples, which a model checker shows and a proof cannot. That `PutBack` keeps the order of the jobs is not stated: no safety property
depends on it.

## 7. What is not modelled

* SQL functions of the erasure fence (`rag_erase_user_data` and others) are created by
  migrations outside this repository; they are modelled from their callers and tests
  and marked external.
* Ranking, distance and `top_k` of a search; chunk boundaries; parsing; the
  content of URLs and crawler responses: computation without shared state.
* The OpenBao protocol of the cipher, token renewal, HTTP retries of the embedder:
  seen from outside they succeed or fail.
* `fsync`, directory permissions and symlink checks of the staging storage. A
  process's cleanup visits owners rather than pairs of instance and owner.
* Capability, server authentication, configuration, metrics, formatting: stateless.
* Documents left `processing` by a crash: the queue is in memory by design
  (`docs/security/2026-10-07-openbao-storage.md`), and the properties except them.
* The transaction of a claim is one step, at its commit. Its `claimed_at` may be older
  (`ClaimAges`), but the place in the scan order, which the code renews with the
  same `now`, is renewed at the commit, and whether the row is due is seen there.
* In `PrivateData`: rows of other owners, which no erasure touches
  (`OthersArePreserved` and the refinements of `OwnerErasure` are about that); the
  order in which `rag_erase_user_data` deletes its rows; the owner's part of a binding (the document's owner on every
  side), chunk metadata (written, read and converted with their text), a webpage's
  second and later URLs, the batches of 100 rows (one at a time here, which is
  finer), the inventory mode without `--apply`, and the envelope of values above
  256 KiB.

## 8. Plan

Done, in this order: `WebpageSync` with its abstract specifications, `DocumentIngest`,
`KnowledgeRevisions`, `PrivateData`, and their proofs; overlapping erasure requests in
`DocumentIngest`.

Modelling, next:

1. `AccountErasure`: one erasure request over webpages, uploads and revisions in
   the order of `http/account_erasure.py`, with a legacy-upload refusal; shown to implement `OwnerErasure`
   over the items of all components.
2. Staging in more detail: cleanup per instance and owner, the order of owner lock
   and startup lock as a deadlock question, durability of originals over a crash.
3. URL normalization and the selection rules of `webpages/urls.py` as operators
   checked against a reference definition; the merge and `top_k` of revision searches.

Proving, next:

1. `AccountErasure` implements `OwnerErasure`, from the three component theorems.
2. What `PublishedDocuments` implies (a fenced document changes only by its
   erasure), and with it the same of both components.
