--------------------------- MODULE DocumentIngest ---------------------------
(***************************************************************************)
(* Uploaded files from the request to the searchable document: the upload  *)
(* handler, the encrypted originals on the shared staging filesystem, the  *)
(* in-process ingest queue with its retries, reindexing, the start and the *)
(* end of the processes that share the filesystem, and account erasure.    *)
(*                                                                         *)
(* A database transaction holds the owner's advisory lock to its end and   *)
(* is one action.  Files are protected by an flock per owner: uploads and  *)
(* ingest jobs hold it shared, erasure takes it exclusively.  An admission *)
(* check (assert_active) that is followed by another one before anything   *)
(* changes is left out: an owner, once fenced, stays fenced.               *)
(***************************************************************************)
EXTENDS Naturals, Sequences, FiniteSets

CONSTANTS
  Uploads,    \* upload requests; each has its own original and document
  Owners,     \* user ids
  OwnerOf,    \* [Uploads -> Owners]
  Processes,  \* service processes on one staging filesystem
  NoProcess,
  Faults      \* what may fail: subset of {"database", "cipher", "process"}

ASSUME ConstantsAssumption ==
  /\ OwnerOf \in [Uploads -> Owners]
  /\ NoProcess \notin Processes
  /\ Faults \subseteq {"database", "cipher", "process"}

VARIABLES
  upload,   \* [Uploads -> UploadState]
  queue,    \* [Processes -> Seq(Uploads)]: the worker's queue
  running,  \* [Processes -> state of the process]
  sweep,    \* owners the starting process has yet to clean up
  marked,   \* [Processes -> SUBSET Owners]: _erased_owner_hashes
  fenced,   \* owners in rag_erased_owners
  wanted,   \* owners whose erasure the API asks for until it succeeds
  erasing,  \* [Owners -> [Processes -> progress of the erasure request there]]
  wiped     \* owners whose erasure was answered with erased: true

vars == <<upload, queue, running, sweep, marked, fenced, wanted, erasing, wiped>>

-----------------------------------------------------------------------------
Reading == {"reading", "storing", "failing", "unavailable"}   \* owner lock held

UploadState == [
  handler : {"new", "admitted", "saving", "saved", "created", "queued", "answered", "refused"},
  at      : Processes \cup {NoProcess},         \* the process that handles it
  file    : {"none", "live", "abandoned"},      \* the original; abandoned: its process ended
  row     : {"absent", "processing", "ready", "failed", "gone"},
  chunks  : BOOLEAN,                            \* document_chunks exist
  job     : {"none", "queued", "locking", "delayed"} \cup Reading,
  reindex : {"no", "embedding", "failing"}]

NewUpload == [
  handler |-> "new", at |-> NoProcess, file |-> "none", row |-> "absent",
  chunks |-> FALSE, job |-> "none", reindex |-> "no"]

ErasureState == {"no", "fenced", "draining", "drained", "locked", "cleared"}

Unlinked(s) == [s EXCEPT !.file = "none"]
JobDone(s)  == [Unlinked(s) EXCEPT !.job = "none"]
Refused(s)  == [Unlinked(s) EXCEPT !.handler = "refused"]
RowGone(s)  == [s EXCEPT !.row = "gone", !.chunks = FALSE]
RowFailed(s) == [s EXCEPT !.row = "failed"]

HasRow(u)   == upload[u].row \in {"processing", "ready", "failed"}
Settled(u)  == upload[u].row \in {"ready", "failed"}
Admitted(u) == OwnerOf[u] \notin fenced
Accepted(u) == Admitted(u) /\ OwnerOf[u] \notin marked[upload[u].at]

LockedShared(o) ==
  \E u \in Uploads : OwnerOf[u] = o /\
    (upload[u].handler \in {"admitted", "saving"} \/ upload[u].job \in Reading)
LockedExclusive(o) == \E p \in Processes : erasing[o][p] = "locked"

Busy(p) == \E u \in Uploads : upload[u].at = p /\ upload[u].job \in Reading \cup {"locking"}
Serving(p) == running[p] = "up"

Init ==
  /\ upload = [u \in Uploads |-> NewUpload]
  /\ queue = [p \in Processes |-> << >>]
  /\ running = [p \in Processes |-> "up"]
  /\ sweep = {}
  /\ marked = [p \in Processes |-> {}]
  /\ fenced = {} /\ wanted = {} /\ wiped = {}
  /\ erasing = [o \in Owners |-> [p \in Processes |-> "no"]]

Becomes(u, s) == upload' = [upload EXCEPT ![u] = s]

OnlyUploads == UNCHANGED <<queue, running, sweep, marked, fenced, wanted, erasing, wiped>>

-----------------------------------------------------------------------------
(* POST /documents                                                         *)

(* save: the owner lock is taken, the owner asserted *)
SaveBegin(u, p) ==
  /\ upload[u].handler = "new" /\ Serving(p)
  /\ Admitted(u) /\ ~LockedExclusive(OwnerOf[u])
  /\ Becomes(u, [upload[u] EXCEPT !.handler = "admitted", !.at = p])
  /\ OnlyUploads

(* The original is created; the fence may have been committed in between    *)
SaveOpen(u) ==
  /\ upload[u].handler = "admitted"
  /\ Becomes(u, [upload[u] EXCEPT !.handler = "saving", !.file = "live"])
  /\ OnlyUploads

SaveEnd(u) ==
  /\ upload[u].handler = "saving" /\ Admitted(u)
  /\ Becomes(u, [upload[u] EXCEPT !.handler = "saved"])
  /\ OnlyUploads

(* Faulty: the owner is not asserted active in the transaction *)
CreateRow_NoFence(u) ==
  /\ upload[u].handler = "saved"
  /\ Becomes(u, [upload[u] EXCEPT !.handler = "created", !.row = "processing"])
  /\ OnlyUploads

CreateRow(u) ==
  /\ upload[u].handler = "saved" /\ Admitted(u)
  /\ Becomes(u, [upload[u] EXCEPT !.handler = "created", !.row = "processing"])
  /\ OnlyUploads

Enqueue(u) ==
  /\ upload[u].handler = "created" /\ Accepted(u)
  /\ Becomes(u, [upload[u] EXCEPT !.handler = "queued", !.job = "queued"])
  /\ queue' = [queue EXCEPT ![upload[u].at] = Append(@, u)]
  /\ UNCHANGED <<running, sweep, marked, fenced, wanted, erasing, wiped>>

Answer(u) ==
  /\ upload[u].handler = "queued" /\ Admitted(u)
  /\ Becomes(u, [upload[u] EXCEPT !.handler = "answered"])
  /\ OnlyUploads

(* OwnerDataErased: the file goes; delete_document raises it too, so the    *)
(* row is left to the erasure, and a job already queued stays in the queue  *)
TurnedAway(u) ==
  /\ upload[u].handler \in {"saving", "saved", "created", "queued"}
  /\ ~Admitted(u) \/ (upload[u].handler = "created" /\ ~Accepted(u))
  /\ Becomes(u, Refused(upload[u]))
  /\ OnlyUploads

(* Too large, duplicate key, encryption or database failure before the row  *)
(* is committed                                                             *)
SaveFails(u) ==
  /\ upload[u].handler \in {"admitted", "saving", "saved"}
  /\ Becomes(u, Refused(upload[u]))
  /\ OnlyUploads

(* The committed record cannot be decrypted: the handler knows no document  *)
CreateAnswerLost(u) ==
  /\ "cipher" \in Faults
  /\ upload[u].handler = "saved" /\ Admitted(u)
  /\ Becomes(u, [Refused(upload[u]) EXCEPT !.row = "processing"])
  /\ OnlyUploads

(* The database fails around the enqueue: file and document are removed,    *)
(* or only the file if the database is still down                           *)
EnqueueFails(u) ==
  /\ "database" \in Faults
  /\ upload[u].handler \in {"created", "queued"}
  /\ \/ Becomes(u, Refused(upload[u]))
     \/ Admitted(u) /\ Becomes(u, Refused(RowGone(upload[u])))
  /\ OnlyUploads

-----------------------------------------------------------------------------
(* Other requests of the owner                                             *)

Delete(u) ==
  /\ HasRow(u) /\ Admitted(u)
  /\ Becomes(u, RowGone(upload[u]))
  /\ OnlyUploads

(* POST /documents/{id}/reindex; a document without chunks is an error *)
ReindexBegin(u) ==
  /\ Settled(u) /\ Admitted(u) /\ upload[u].reindex = "no"
  /\ Becomes(u, [upload[u] EXCEPT
       !.reindex = IF upload[u].chunks THEN "embedding" ELSE "failing"])
  /\ OnlyUploads

ReindexFails(u) ==
  /\ upload[u].reindex = "embedding"
  /\ Becomes(u, [upload[u] EXCEPT !.reindex = "failing"])
  /\ OnlyUploads

(* Faulty: the document is not looked up again *)
ReindexStore_Unchecked(u) ==
  /\ upload[u].reindex = "embedding"
  /\ Becomes(u, [upload[u] EXCEPT !.reindex = "no", !.row = IF Admitted(u) THEN "ready" ELSE @])
  /\ OnlyUploads

ReindexStore(u) ==
  /\ upload[u].reindex = "embedding"
  /\ Becomes(u, [upload[u] EXCEPT
       !.reindex = "no",
       !.row = IF Admitted(u) /\ Settled(u) THEN "ready" ELSE @])
  /\ OnlyUploads

ReindexMark(u) ==
  /\ upload[u].reindex = "failing"
  /\ Becomes(u, [upload[u] EXCEPT
       !.reindex = "no",
       !.row = IF Admitted(u) /\ Settled(u) THEN "failed" ELSE @])
  /\ OnlyUploads

(* mark_reindex_failed fails too, or the process ends *)
ReindexDropped(u) ==
  /\ upload[u].reindex # "no"
  /\ Becomes(u, [upload[u] EXCEPT !.reindex = "no"])
  /\ OnlyUploads

-----------------------------------------------------------------------------
(* The ingest worker: one job at a time, in the order of the queue          *)

Take(u, p) ==
  /\ running[p] \in {"up", "stopping"} /\ ~Busy(p)
  /\ queue[p] # << >> /\ u = Head(queue[p])
  /\ Becomes(u, [upload[u] EXCEPT !.job = "locking"])
  /\ queue' = [queue EXCEPT ![p] = Tail(@)]
  /\ UNCHANGED <<running, sweep, marked, fenced, wanted, erasing, wiped>>

(* Faulty: nobody is told that the job has ended *)
JobEnds_Silent(u, s, outcome) ==
  /\ Becomes(u, s)
  /\ UNCHANGED <<queue, running, sweep, marked, fenced, wanted, erasing, wiped>>

(* An erasure that drains this process waits for the job and, if the job    *)
(* raises, fails with it                                                    *)
JobEnds(u, s, outcome) ==
  LET o == OwnerOf[u] IN
  /\ Becomes(u, s)
  /\ erasing' = [erasing EXCEPT ![o][upload[u].at] =
       IF @ # "draining" THEN @ ELSE IF outcome = "returns" THEN "drained" ELSE "no"]
  /\ UNCHANGED <<queue, running, sweep, marked, fenced, wanted, wiped>>

(* Lock taken, owner asserted, original opened *)
JobBegins(u) ==
  /\ upload[u].job = "locking" /\ Admitted(u) /\ ~LockedExclusive(OwnerOf[u])
  /\ Becomes(u, [upload[u] EXCEPT
       !.job = IF upload[u].file = "live" THEN "reading" ELSE "failing"])
  /\ OnlyUploads

(* The first admission check of the job is outside the pipeline, which      *)
(* would keep the original and mark the document                            *)
JobTurnedAway(u) ==
  /\ upload[u].job = "locking" /\ ~LockedExclusive(OwnerOf[u])
  /\ ~Admitted(u) \/ "database" \in Faults
  /\ JobEnds(u, JobDone(upload[u]), "raises")

(* A later admission check fails: the pipeline returns *)
JobWithdrawn(u) ==
  /\ upload[u].job \in Reading /\ ~Admitted(u)
  /\ JobEnds(u, JobDone(upload[u]), "returns")

(* Decrypted, parsed, chunked and embedded *)
JobPrepared(u) ==
  /\ upload[u].job = "reading"
  /\ Becomes(u, [upload[u] EXCEPT !.job = "storing"])
  /\ OnlyUploads

(* Unreadable content, no chunks, embedding refused *)
JobFails(u) ==
  /\ upload[u].job = "reading"
  /\ Becomes(u, [upload[u] EXCEPT !.job = "failing"])
  /\ OnlyUploads

(* PrivateDataUnavailable, while decrypting or while storing *)
CipherFails(u) ==
  /\ "cipher" \in Faults
  /\ upload[u].job \in {"reading", "storing"}
  /\ Becomes(u, [upload[u] EXCEPT !.job = "unavailable"])
  /\ OnlyUploads

Stored(s) == [s EXCEPT !.row = "ready", !.chunks = TRUE]

(* Faulty: the original stays after it was ingested *)
Store_KeepsOriginal(u) ==
  /\ upload[u].job = "storing" /\ Admitted(u) /\ HasRow(u)
  /\ JobEnds(u, [Stored(upload[u]) EXCEPT !.job = "none"], "returns")

Store(u) ==
  /\ upload[u].job = "storing" /\ Admitted(u) /\ HasRow(u)
  /\ JobEnds(u, JobDone(Stored(upload[u])), "returns")

(* The document is gone, or the database fails, before or after the commit *)
StoreFails(u) ==
  /\ upload[u].job = "storing"
  /\ \/ /\ "database" \in Faults \/ (Admitted(u) /\ ~HasRow(u))
        /\ Becomes(u, [upload[u] EXCEPT !.job = "failing"])
     \/ /\ "database" \in Faults /\ Admitted(u) /\ HasRow(u)
        /\ Becomes(u, [Stored(upload[u]) EXCEPT !.job = "failing"])
  /\ OnlyUploads

(* Faulty: the failure is not recorded *)
MarkFailed_Silent(u) ==
  /\ upload[u].job = "failing" /\ Admitted(u) /\ HasRow(u)
  /\ JobEnds(u, JobDone(upload[u]), "returns")

MarkFailed(u) ==
  /\ upload[u].job = "failing" /\ Admitted(u) /\ HasRow(u)
  /\ JobEnds(u, JobDone(RowFailed(upload[u])), "returns")

(* Faulty: the original is removed although its job is tried again *)
Retried_Unlinks(u, s) ==
  LET p == upload[u].at IN
  IF OwnerOf[u] \in marked[p] THEN JobDone(s)
  ELSE [Unlinked(s) EXCEPT !.job = IF running[p] = "stopping" THEN "none" ELSE "delayed"]

(* _schedule_retry *)
Retried(u, s) ==
  LET p == upload[u].at IN
  IF OwnerOf[u] \in marked[p] THEN JobDone(s)
  ELSE [s EXCEPT !.job = IF running[p] = "stopping" THEN "none" ELSE "delayed"]

(* The failure cannot be recorded: RetryableIngestError *)
MarkFails(u) ==
  /\ upload[u].job = "failing"
  /\ "database" \in Faults \/ (Admitted(u) /\ (HasRow(u) => "cipher" \in Faults))
  /\ JobEnds(u, Retried(u, upload[u]), "raises")

(* Recorded or not, PrivateDataUnavailable is tried again *)
MarkUnavailable(u) ==
  /\ upload[u].job = "unavailable"
  /\ \/ Admitted(u) /\ HasRow(u) /\ JobEnds(u, Retried(u, RowFailed(upload[u])), "raises")
     \/ /\ "database" \in Faults \/ (Admitted(u) /\ ~HasRow(u))
        /\ JobEnds(u, Retried(u, upload[u]), "raises")

(* The delay is over: enqueue again *)
Requeue(u) ==
  /\ upload[u].job = "delayed"
  /\ IF Accepted(u)
       THEN /\ Becomes(u, [upload[u] EXCEPT !.job = "queued"])
            /\ queue' = [queue EXCEPT ![upload[u].at] = Append(@, u)]
       ELSE Becomes(u, JobDone(upload[u])) /\ UNCHANGED queue
  /\ UNCHANGED <<running, sweep, marked, fenced, wanted, erasing, wiped>>

(* The admission check of that enqueue fails: the retry task ends with it   *)
RequeueFails(u) ==
  /\ "database" \in Faults
  /\ upload[u].job = "delayed"
  /\ Becomes(u, [upload[u] EXCEPT !.job = "none"])
  /\ OnlyUploads

-----------------------------------------------------------------------------
(* Processes                                                               *)

Leave(s) == [s EXCEPT
  !.at = NoProcess, !.job = "none",
  !.handler = IF @ \in {"answered", "refused"} THEN @ ELSE "refused",
  !.file = IF @ = "live" THEN "abandoned" ELSE @]

Ends(p) ==
  /\ running' = [running EXCEPT ![p] = "down"]
  /\ upload' = [u \in Uploads |-> IF upload[u].at = p THEN Leave(upload[u]) ELSE upload[u]]
  /\ queue' = [queue EXCEPT ![p] = << >>]
  /\ marked' = [marked EXCEPT ![p] = {}]

Crash(p) ==
  /\ "process" \in Faults /\ running[p] # "down"
  /\ Ends(p)
  /\ sweep' = IF running[p] = "starting" THEN {} ELSE sweep
  /\ erasing' = [o \in Owners |-> [erasing[o] EXCEPT ![p] = "no"]]
  /\ UNCHANGED <<fenced, wanted, wiped>>

(* IngestWorker.stop, after the server has answered its last request: the   *)
(* delayed retries are cancelled, the queue is worked off                   *)
Stop(p) ==
  /\ "process" \in Faults /\ Serving(p)
  /\ \A u \in Uploads : upload[u].at = p => upload[u].handler \in {"answered", "refused"}
  /\ \A o \in Owners : erasing[o][p] = "no"
  /\ running' = [running EXCEPT ![p] = "stopping"]
  /\ upload' = [u \in Uploads |->
       IF upload[u].at = p /\ upload[u].job = "delayed"
         THEN [upload[u] EXCEPT !.job = "none"] ELSE upload[u]]
  /\ UNCHANGED <<queue, sweep, marked, fenced, wanted, erasing, wiped>>

Exit(p) ==
  /\ running[p] = "stopping" /\ queue[p] = << >> /\ ~Busy(p)
  /\ Ends(p)
  /\ UNCHANGED <<sweep, fenced, wanted, erasing, wiped>>

(* A new process takes .startup.lock and cleans up after those that ended   *)
Start(p) ==
  /\ running[p] = "down"
  /\ \A q \in Processes : running[q] # "starting"
  /\ running' = [running EXCEPT ![p] = "starting"]
  /\ sweep' = Owners
  /\ UNCHANGED <<upload, queue, marked, fenced, wanted, erasing, wiped>>

(* Faulty: does not tell the originals of a live process from others *)
Sweep_Any(o) ==
  /\ o \in sweep
  /\ sweep' = sweep \ {o}
  /\ upload' = [u \in Uploads |->
       IF OwnerOf[u] = o /\ ~LockedShared(o) /\ ~LockedExclusive(o)
         THEN Unlinked(upload[u]) ELSE upload[u]]
  /\ UNCHANGED <<queue, running, marked, fenced, wanted, erasing, wiped>>

(* It skips an owner whose lock is held and does not wait for it *)
Sweep(o) ==
  /\ o \in sweep
  /\ sweep' = sweep \ {o}
  /\ upload' = [u \in Uploads |->
       IF /\ OwnerOf[u] = o /\ upload[u].file = "abandoned"
          /\ ~LockedShared(o) /\ ~LockedExclusive(o)
         THEN Unlinked(upload[u]) ELSE upload[u]]
  /\ UNCHANGED <<queue, running, marked, fenced, wanted, erasing, wiped>>

Started(p) ==
  /\ running[p] = "starting" /\ sweep = {}
  /\ running' = [running EXCEPT ![p] = "up"]
  /\ UNCHANGED <<upload, queue, sweep, marked, fenced, wanted, erasing, wiped>>

-----------------------------------------------------------------------------
(* Account erasure                                                         *)

Withdraw(o) ==
  /\ o \notin wanted \cup wiped
  /\ wanted' = wanted \cup {o}
  /\ UNCHANGED <<upload, queue, running, sweep, marked, fenced, erasing, wiped>>

EraseFence(o, p) ==
  /\ o \in wanted /\ erasing[o][p] = "no" /\ Serving(p)
  /\ fenced' = fenced \cup {o}
  /\ erasing' = [erasing EXCEPT ![o][p] = "fenced"]
  /\ UNCHANGED <<upload, queue, running, sweep, marked, wanted, wiped>>

Moves(o, p, from, to) == erasing[o][p] = from /\ erasing' = [erasing EXCEPT ![o][p] = to]

(* Faulty: the jobs and originals of every owner are drained *)
EraseDrain_All(o, p) ==
  LET Drained(u) == upload[u].at = p /\ upload[u].job \in {"queued", "delayed"}
      Active == \E u \in Uploads :
        OwnerOf[u] = o /\ upload[u].at = p /\ upload[u].job \in Reading \cup {"locking"} IN
  /\ Moves(o, p, "fenced", IF Active THEN "draining" ELSE "drained")
  /\ marked' = [marked EXCEPT ![p] = @ \cup {o}]
  /\ queue' = [queue EXCEPT ![p] = << >>]
  /\ upload' = [u \in Uploads |-> IF Drained(u) THEN JobDone(upload[u]) ELSE upload[u]]
  /\ UNCHANGED <<running, sweep, fenced, wanted, wiped>>

(* Faulty: the queue is not rebuilt, and the active job not awaited *)
EraseDrain_KeepsQueue(o, p) ==
  /\ Moves(o, p, "fenced", "drained")
  /\ marked' = [marked EXCEPT ![p] = @ \cup {o}]
  /\ upload' = [u \in Uploads |->
       IF OwnerOf[u] = o /\ upload[u].at = p /\ upload[u].job \in {"queued", "delayed"}
         THEN JobDone(upload[u]) ELSE upload[u]]
  /\ UNCHANGED <<queue, running, sweep, fenced, wanted, wiped>>

(* The jobs taken out of the queue: those of other owners go back, in order *)
PutBack(jobs, o) ==
  LET rest[n \in 0 .. Len(jobs)] ==
        IF n = 0 THEN << >>
        ELSE IF OwnerOf[jobs[n]] = o THEN rest[n - 1] ELSE Append(rest[n - 1], jobs[n])
  IN  rest[Len(jobs)]

(* IngestWorker.erase_user, up to its wait for the active job *)
EraseDrain(o, p) ==
  LET Drained(u) == OwnerOf[u] = o /\ upload[u].at = p /\ upload[u].job \in {"queued", "delayed"}
      Active == \E u \in Uploads :
        OwnerOf[u] = o /\ upload[u].at = p /\ upload[u].job \in Reading \cup {"locking"} IN
  /\ Moves(o, p, "fenced", IF Active THEN "draining" ELSE "drained")
  /\ marked' = [marked EXCEPT ![p] = @ \cup {o}]
  /\ queue' = [queue EXCEPT ![p] = PutBack(@, o)]
  /\ upload' = [u \in Uploads |-> IF Drained(u) THEN JobDone(upload[u]) ELSE upload[u]]
  /\ UNCHANGED <<running, sweep, fenced, wanted, wiped>>

(* Faulty: does not wait for those who hold the owner lock *)
EraseLock_NoWait(o, p) ==
  /\ Moves(o, p, "drained", "locked")
  /\ UNCHANGED <<upload, queue, running, sweep, marked, fenced, wanted, wiped>>

EraseLock(o, p) ==
  /\ Moves(o, p, "drained", "locked") /\ ~LockedShared(o) /\ ~LockedExclusive(o)
  /\ UNCHANGED <<upload, queue, running, sweep, marked, fenced, wanted, wiped>>

(* With .startup.lock too: every original of the owner, of any process      *)
EraseFiles(o, p) ==
  /\ Moves(o, p, "locked", "cleared")
  /\ \A q \in Processes : running[q] # "starting"
  /\ upload' = [u \in Uploads |-> IF OwnerOf[u] = o THEN Unlinked(upload[u]) ELSE upload[u]]
  /\ UNCHANGED <<queue, running, sweep, marked, fenced, wanted, wiped>>

EraseRows(o, p) ==
  /\ erasing[o][p] = "cleared"
  /\ erasing' = [erasing EXCEPT ![o][p] = "no"]
  /\ fenced' = fenced \cup {o} /\ wiped' = wiped \cup {o} /\ wanted' = wanted \ {o}
  /\ upload' = [u \in Uploads |->
       IF OwnerOf[u] = o /\ HasRow(u) THEN RowGone(upload[u]) ELSE upload[u]]
  /\ UNCHANGED <<queue, running, sweep, marked>>

(* Legacy uploads are present, a file cannot be removed, the database fails *)
EraseAborts(o, p) ==
  /\ erasing[o][p] # "no"
  /\ erasing' = [erasing EXCEPT ![o][p] = "no"]
  /\ UNCHANGED <<upload, queue, running, sweep, marked, fenced, wanted, wiped>>

-----------------------------------------------------------------------------
HandlerStep(u) ==
  \/ SaveOpen(u) \/ SaveEnd(u) \/ CreateRow(u) \/ Enqueue(u) \/ Answer(u) \/ TurnedAway(u)

JobStep(u) ==
  \/ JobBegins(u) \/ JobTurnedAway(u) \/ JobWithdrawn(u) \/ JobPrepared(u) \/ JobFails(u)
  \/ Store(u) \/ StoreFails(u) \/ MarkFailed(u) \/ MarkFails(u) \/ MarkUnavailable(u)
  \/ Requeue(u)

ReindexStep(u) ==
  ReindexBegin(u) \/ ReindexFails(u) \/ ReindexStore(u) \/ ReindexMark(u) \/ ReindexDropped(u)

ProcessStep(p) == (\E u \in Uploads : Take(u, p)) \/ Exit(p) \/ Start(p) \/ Started(p)

EraseStep(o) ==
  \E p \in Processes :
    EraseFence(o, p) \/ EraseDrain(o, p) \/ EraseLock(o, p) \/ EraseFiles(o, p) \/ EraseRows(o, p)

Fault ==
  \/ \E u \in Uploads :
       \/ SaveFails(u) \/ CreateAnswerLost(u) \/ EnqueueFails(u) \/ CipherFails(u)
       \/ RequeueFails(u) \/ (HasRow(u) /\ (StoreFails(u) \/ MarkFails(u)))
  \/ \E p \in Processes : Crash(p) \/ Stop(p) \/ \E o \in Owners : EraseAborts(o, p)

Next ==
  \/ \E u \in Uploads, p \in Processes : SaveBegin(u, p)
  \/ \E u \in Uploads : HandlerStep(u) \/ JobStep(u) \/ ReindexStep(u) \/ Delete(u)
  \/ \E p \in Processes : ProcessStep(p)
  \/ \E o \in Owners : Withdraw(o) \/ Sweep(o) \/ EraseStep(o)
  \/ Fault

Spec == Init /\ [][Next]_vars

(* Handlers, workers and processes keep running, the API repeats an erasure *)
(* until it succeeds, locks are polled for; in the end nothing fails any    *)
(* more except the content of documents.                                    *)
Fairness ==
  /\ \A u \in Uploads : WF_vars(HandlerStep(u)) /\ WF_vars(JobStep(u))
  /\ \A p \in Processes : WF_vars(ProcessStep(p))
  /\ \A o \in Owners : WF_vars(Sweep(o)) /\ WF_vars(EraseStep(o))

FairSpec == Spec /\ Fairness /\ <>[][~Fault]_vars

-----------------------------------------------------------------------------
(* Properties                                                              *)

(* Every variable keeps its type, and a queue holds the queued uploads.     *)
TypeOK ==
  /\ upload \in [Uploads -> UploadState]
  /\ queue \in [Processes -> Seq(Uploads)]
  /\ \A u \in Uploads, p \in Processes :
       (\E i \in 1 .. Len(queue[p]) : queue[p][i] = u) <=>
         upload[u].job = "queued" /\ upload[u].at = p
  /\ running \in [Processes -> {"down", "starting", "up", "stopping"}]
  /\ sweep \subseteq Owners
  /\ marked \in [Processes -> SUBSET Owners]
  /\ fenced \subseteq Owners /\ wanted \subseteq Owners /\ wiped \subseteq Owners
  /\ erasing \in [Owners -> [Processes -> ErasureState]]

(* "Successful completion returns erased: true": once it does, no original, *)
(* no document and no chunk of the owner exists, and none appears again.    *)
ErasedLeavesNothing ==
  \A u \in Uploads : OwnerOf[u] \in wiped =>
    upload[u].file = "none" /\ ~HasRow(u) /\ ~upload[u].chunks

(* A document is ready only with all its chunks; a search never finds a     *)
(* ready document whose ingestion was not committed.                        *)
ReadyHasChunks ==
  \A u \in Uploads : upload[u].row = "ready" => upload[u].chunks

(* The original of an accepted upload, of an owner who is not being erased, *)
(* is removed by the job that ingests it, as its last act, and by nothing   *)
(* else: no retry, no other owner's erasure and no other process's start    *)
(* loses it.                                                                *)
OriginalGoesWithItsJob ==
  [][\A u \in Uploads :
       upload[u].file = "live" /\ upload'[u].file = "none" /\ Admitted(u) =>
         \/ upload[u].handler \notin {"answered", "refused"}
         \/ upload[u].job \in Reading \cup {"locking"} /\ upload'[u].job = "none"]_vars

(* Account erasure as OwnerErasure promises it, for everything an upload     *)
(* leaves behind: originals, document rows, chunks.  An original is held    *)
(* from the admission under the owner lock that lets it be created.         *)
Kinds == {"original", "row", "chunks"}

HasOriginal(u) == upload[u].file # "none" \/ upload[u].handler = "admitted"

Held ==
  {<<"original", u>> : u \in {x \in Uploads : HasOriginal(x)}} \cup
  {<<"row", u>> : u \in {x \in Uploads : HasRow(x)}} \cup
  {<<"chunks", u>> : u \in {x \in Uploads : upload[x].chunks}}

Erasure == INSTANCE OwnerErasure WITH
  Items <- Kinds \X Uploads, OwnerOf <- [i \in Kinds \X Uploads |-> OwnerOf[i[2]]],
  held <- Held, closed <- fenced, erased <- wiped

(* While the database answers, an accepted document that is processing has  *)
(* a job, as long as the process serves.                                     *)
ProcessingHasJob ==
  \A u \in Uploads :
    /\ upload[u].row = "processing" /\ upload[u].handler = "answered"
    /\ upload[u].at # NoProcess /\ Serving(upload[u].at) /\ Admitted(u)
    => upload[u].job # "none"

(* "The encrypted staging original is kept and the worker retries": as long *)
(* as the process serves, an original that is kept has a job, and the job   *)
(* of an owner who is not being erased has its original.                    *)
RetainedIsRetried ==
  \A u \in Uploads :
    upload[u].handler = "answered" /\ upload[u].at # NoProcess /\ Serving(upload[u].at)
      /\ Admitted(u)
    => (upload[u].file = "live" <=> upload[u].job # "none")

(* The upload component implements OwnerErasure: nothing is stored for a    *)
(* fenced owner, and an erasure is acknowledged only over an empty store.   *)
ErasureImplemented == Erasure!Spec

Documents == INSTANCE PublishedDocuments WITH
  Docs <- Uploads, TextsOf <- [u \in Uploads |-> {TRUE}], NoText <- FALSE,
  NotOlder <- {<<TRUE, TRUE>>},
  doc <- [u \in Uploads |-> [row |-> upload[u].row, text |-> upload[u].chunks]]

(* The upload component implements PublishedDocuments: a document is ready  *)
(* only with its chunks, and no retry, late job or lost answer brings back  *)
(* what was deleted or changes a document of a fenced owner.                *)
DocumentsImplemented == Documents!Spec

(* A request to erase is answered in the end, with erased: true or by       *)
(* failing, also while another process works on a repetition of it; and an  *)
(* erasure that is asked for until it succeeds succeeds.                    *)
ErasureCompletes ==
  \A o \in Owners :
    /\ o \in wanted ~> o \in wiped
    /\ \A p \in Processes : erasing[o][p] # "no" ~> erasing[o][p] = "no"

(* An accepted upload does not stay processing, unless its process ends.    *)
AcceptedIsSettled ==
  \A u \in Uploads :
    (upload[u].row = "processing" /\ upload[u].handler = "answered")
      ~> (upload[u].row # "processing" \/ upload[u].at = NoProcess)

Ingested(u) == upload[u].row = "ready" /\ upload[u].chunks /\ upload[u].file = "none"

(* A job has read the original to its end and its content is refused        *)
Unusable(u) == upload[u].job = "failing" /\ upload[u].file = "live"

(* When encryption works again, an original retained for a retry is stored  *)
(* with its chunks and then removed, or read and found unusable; never is   *)
(* it dropped unread.  Only the owner, who deletes the document or the      *)
(* account, and the end of the process make an exception.                   *)
RecoveredIsIngested ==
  \A u \in Uploads :
    (upload[u].job = "delayed" /\ HasRow(u) /\ Admitted(u)) ~>
      \/ Ingested(u) \/ Unusable(u)
      \/ ~HasRow(u) \/ ~Admitted(u) \/ upload[u].at = NoProcess

(* The original of a deleted document goes too.                             *)
DeletedOriginalGoes ==
  \A u \in Uploads : (upload[u].row = "gone") ~> (upload[u].file # "live")
============================================================================
