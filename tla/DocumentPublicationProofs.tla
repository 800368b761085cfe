---------------------- MODULE DocumentPublicationProofs ----------------------
(***************************************************************************)
(* What readers are promised about uploaded files, proved for every number *)
(* of uploads and processes and whatever may fail: a document is ready     *)
(* only with its chunks, and rows and chunks change as PublishedDocuments  *)
(* allows, however handlers, jobs, retries, reindexings and erasures of    *)
(* several processes interleave.                                           *)
(***************************************************************************)
EXTENDS DocumentErasureProofs

Early == {"new", "admitted", "saving", "saved"}   \* no row yet
Late  == {"created", "queued", "answered"}        \* the row was committed

(* A reindexing that will store embeddings read chunks when it began; they  *)
(* are there still, unless the document is gone                             *)
Fits(s) ==
  /\ s.row = "ready" => s.chunks = TRUE
  /\ s.chunks = TRUE => Row(s)
  /\ s.reindex = "embedding" => s.chunks = TRUE \/ s.row = "gone"
  /\ s.handler \in Early => s.row = "absent"
  /\ s.handler \in Late => s.row # "absent"

SameRow(s, t) == t.row = s.row /\ t.chunks = s.chunks

(* What readers may see of one step on one upload                           *)
ToReaders(s, t) ==
  \/ s.row = "absent" /\ t.row = "processing" /\ t.chunks = s.chunks
  \/ Row(s) /\ t.row = "ready" /\ t.chunks = TRUE
  \/ Row(s) /\ t.row = "failed" /\ t.chunks = s.chunks
  \/ Row(s) /\ t.row = "gone" /\ t.chunks = FALSE

Step(s, t, open) == Fits(t) /\ (SameRow(s, t) \/ (open /\ ToReaders(s, t)))

(* The same in everything these proofs look at                              *)
Same(s, t) == SameRow(s, t) /\ t.reindex = s.reindex /\ t.handler = s.handler

LEMMA Unseen ==
  ASSUME NEW s, NEW t, NEW open, Fits(s), SameRow(s, t), t.reindex \in {"no", "failing", s.reindex},
         t.handler \in Early => s.handler \in Early, t.handler \in Late => s.handler \in Late
  PROVE  Step(s, t, open)
  BY DEF Fits, Step, SameRow, Row

LEMMA SameFits ==
  ASSUME NEW s, NEW t, NEW open, Fits(s), Same(s, t)
  PROVE  Step(s, t, open)
  BY DEF Fits, Step, Same, SameRow, Row

(* What the operators on an upload leave as it is                           *)
LEMMA Fields ==
  ASSUME NEW s \in UploadState
  PROVE  /\ Same(s, s) /\ Same(s, Unlinked(s)) /\ Same(s, JobDone(s))
         /\ \A j : Same(s, [s EXCEPT !.job = j])
         /\ SameRow(s, Refused(s)) /\ Refused(s).reindex = s.reindex
         /\ Refused(s).handler = "refused"
         /\ SameRow(s, Leave(s)) /\ Leave(s).reindex = s.reindex
         /\ Leave(s).handler \in {s.handler, "refused"}
  BY DEF UploadState, Same, SameRow, Unlinked, JobDone, Refused, Leave

LEMMA RowFields ==
  ASSUME NEW s \in UploadState
  PROVE  /\ RowGone(s) \in UploadState /\ RowFailed(s) \in UploadState /\ Stored(s) \in UploadState
         /\ RowGone(s).row = "gone" /\ RowGone(s).chunks = FALSE
         /\ RowGone(s).reindex = s.reindex /\ RowGone(s).handler = s.handler
         /\ RowFailed(s).row = "failed" /\ RowFailed(s).chunks = s.chunks
         /\ RowFailed(s).reindex = s.reindex /\ RowFailed(s).handler = s.handler
         /\ Stored(s).row = "ready" /\ Stored(s).chunks = TRUE
         /\ Stored(s).reindex = s.reindex /\ Stored(s).handler = s.handler
  BY DEF UploadState, RowGone, RowFailed, Stored

(* A row that is ingested, failed or removed                                *)
LEMMA Seen ==
  ASSUME NEW s \in UploadState, NEW t, Fits(s), Row(s),
         \/ Same(RowGone(s), t) \/ Same(RowFailed(s), t) \/ Same(Stored(s), t)
  PROVE  Step(s, t, TRUE)
  BY RowFields DEF Fits, Step, Same, SameRow, Row, ToReaders, Early, Late

-----------------------------------------------------------------------------
(* One upload, or none, changes for its readers                             *)
UploadFits == \A u \in Uploads : Fits(upload[u])

ReaderInv == EraseInv /\ UploadFits

Alone(u) == \A x \in Uploads \ {u} : upload'[x] = upload[x]

ReaderStep(u) == Step(upload[u], upload'[u], Admitted(u)) /\ Alone(u)

LEMMA Takes ==
  ASSUME ReaderInv, NEW u \in Uploads, NEW t, Becomes(u, t),
         Step(upload[u], t, Admitted(u))
  PROVE  ReaderStep(u)
  BY DEF ReaderInv, EraseInv, TypeInv, Becomes, ReaderStep, Alone

LEMMA JobShown ==
  ASSUME ReaderInv, NEW u \in Uploads, JobStep(u) \/ CipherFails(u) \/ RequeueFails(u)
  PROVE  ReaderStep(u)
  <1> DEFINE s == upload[u]
  <1>0. s \in UploadState /\ Fits(s)
    BY DEF ReaderInv, EraseInv, TypeInv, UploadFits
  <1>1. ASSUME NEW t, Becomes(u, t), Same(s, t)
        PROVE  ReaderStep(u)
    BY <1>0, <1>1, SameFits, Takes
  <1>2. ASSUME NEW t, Becomes(u, t), Admitted(u), HasRow(u),
               Same(Stored(s), t) \/ Same(RowFailed(s), t)
        PROVE  ReaderStep(u)
    <2>1. Step(s, t, TRUE)
      BY <1>0, <1>2, Seen DEF HasRow, Row
    <2>2. Step(s, t, Admitted(u))
      BY <1>2, <2>1 DEF Step
    <2>3. QED
      BY <1>2, <2>2, Takes
  <1>3. CASE \/ JobBegins(u) \/ JobPrepared(u) \/ JobFails(u) \/ CipherFails(u) \/ RequeueFails(u)
             \/ JobTurnedAway(u) \/ JobWithdrawn(u) \/ Requeue(u)
    <2>1. Same(s, JobDone(s)) /\ \A j : Same(s, [s EXCEPT !.job = j])
      BY <1>0, Fields
    <2>2. QED
      BY <1>1, <1>3, <2>1 DEF JobBegins, JobPrepared, JobFails, CipherFails, RequeueFails,
         JobTurnedAway, JobWithdrawn, JobEnds, Requeue
  <1>4. CASE Store(u) \/ StoreFails(u)
    <2>1. /\ Same(Stored(s), JobDone(Stored(s))) /\ Same(s, [s EXCEPT !.job = "failing"])
          /\ Same(Stored(s), [Stored(s) EXCEPT !.job = "failing"])
      BY <1>0, Fields, RowFields
    <2>2. QED
      BY <1>1, <1>2, <1>4, <2>1 DEF Store, StoreFails, JobEnds
  <1>5. CASE MarkFailed(u)
    <2>1. Same(RowFailed(s), JobDone(RowFailed(s)))
      BY <1>0, Fields, RowFields
    <2>2. QED
      BY <1>2, <1>5, <2>1 DEF MarkFailed, JobEnds
  <1>6. CASE MarkFails(u) \/ MarkUnavailable(u)
    <2>1. \A r \in UploadState : Same(r, Retried(u, r))
      BY Fields DEF Retried
    <2>2. Same(s, Retried(u, s)) /\ Same(RowFailed(s), Retried(u, RowFailed(s)))
      BY <1>0, <2>1, RowFields
    <2>3. QED
      BY <1>1, <1>2, <1>6, <2>2 DEF MarkFails, MarkUnavailable, JobEnds
  <1>7. QED
    BY <1>3, <1>4, <1>5, <1>6 DEF JobStep

LEMMA HandlerShown ==
  ASSUME ReaderInv, NEW u \in Uploads,
         \/ \E p \in Processes : SaveBegin(u, p)
         \/ HandlerStep(u) \/ SaveFails(u) \/ CreateAnswerLost(u) \/ EnqueueFails(u) \/ Delete(u)
  PROVE  ReaderStep(u)
  <1> DEFINE s == upload[u]
  <1>0. s \in UploadState /\ Fits(s)
    BY DEF ReaderInv, EraseInv, TypeInv, UploadFits
  <1>1. ASSUME NEW p \in Processes, SaveBegin(u, p)
        PROVE  ReaderStep(u)
    <2> DEFINE t == [s EXCEPT !.handler = "admitted", !.at = p]
    <2>1. Step(s, t, Admitted(u))
      BY <1>0, <1>1, Unseen DEF SaveBegin, UploadState, SameRow, Early, Late
    <2>2. QED
      BY <1>1, <2>1, Takes DEF SaveBegin
  <1>2. CASE SaveOpen(u) \/ SaveEnd(u) \/ Answer(u)
    <2> DEFINE t1 == [s EXCEPT !.handler = "saving", !.file = "live"]
               t2 == [s EXCEPT !.handler = "saved"]
               t3 == [s EXCEPT !.handler = "answered"]
    <2>0. /\ SameRow(s, t1) /\ t1.reindex = s.reindex /\ t1.handler = "saving"
          /\ SameRow(s, t2) /\ t2.reindex = s.reindex /\ t2.handler = "saved"
          /\ SameRow(s, t3) /\ t3.reindex = s.reindex /\ t3.handler = "answered"
      BY <1>0 DEF UploadState, SameRow
    <2>1. /\ SaveOpen(u) => Becomes(u, t1) /\ s.handler \in Early
          /\ SaveEnd(u) => Becomes(u, t2) /\ s.handler \in Early
          /\ Answer(u) => Becomes(u, t3) /\ s.handler \in Late
      BY DEF SaveOpen, SaveEnd, Answer, Early, Late
    <2> HIDE DEF t1, t2, t3
    <2>2. /\ s.handler \in Early => Step(s, t1, Admitted(u)) /\ Step(s, t2, Admitted(u))
          /\ s.handler \in Late => Step(s, t3, Admitted(u))
      BY <1>0, <2>0, Unseen DEF Early, Late
    <2>3. QED
      BY <1>2, <2>1, <2>2, Takes
  <1>3. CASE Enqueue(u)
    <2> DEFINE t == [s EXCEPT !.handler = "queued", !.job = "queued"]
    <2>1. Step(s, t, Admitted(u))
      BY <1>0, <1>3, Unseen DEF Enqueue, UploadState, SameRow, Early, Late
    <2>2. QED
      BY <1>3, <2>1, Takes DEF Enqueue
  <1>4. CASE CreateRow(u)
    <2> DEFINE t == [s EXCEPT !.handler = "created", !.row = "processing"]
    <2>1. s.row = "absent" /\ s.handler = "saved" /\ Admitted(u) /\ Becomes(u, t)
      BY <1>0, <1>4 DEF CreateRow, Fits, Early
    <2>2. t.row = "processing" /\ t.handler = "created" /\ t.chunks = s.chunks
          /\ t.reindex = s.reindex
      BY <1>0 DEF UploadState
    <2> HIDE DEF t
    <2>3. Step(s, t, Admitted(u))
      BY <1>0, <2>1, <2>2 DEF Fits, Step, ToReaders, Row, Early, Late
    <2>4. QED
      BY <2>1, <2>3, Takes
  <1>5. CASE CreateAnswerLost(u)
    <2> DEFINE t == [Refused(s) EXCEPT !.row = "processing"]
    <2>1. s.row = "absent" /\ Admitted(u) /\ Becomes(u, t)
      BY <1>0, <1>5 DEF CreateAnswerLost, Fits, Early
    <2>2. t.row = "processing" /\ t.handler = "refused" /\ t.chunks = s.chunks
          /\ t.reindex = s.reindex
      BY <1>0 DEF UploadState, Refused, Unlinked
    <2> HIDE DEF t
    <2>3. Step(s, t, Admitted(u))
      BY <1>0, <2>1, <2>2 DEF Fits, Step, ToReaders, Row, Early, Late
    <2>4. QED
      BY <2>1, <2>3, Takes
  <1>6. CASE Becomes(u, Refused(s))
    <2>1. Step(s, Refused(s), Admitted(u))
      BY <1>0, Fields, Unseen DEF Early, Late
    <2>2. QED
      BY <1>6, <2>1, Takes
  <1>7. CASE s.handler \in Late /\ Admitted(u) /\ Becomes(u, Refused(RowGone(s)))
    <2> DEFINE t == Refused(RowGone(s))
    <2>0. RowGone(s) \in UploadState /\ RowGone(s).row = "gone" /\ RowGone(s).chunks = FALSE
      BY <1>0, RowFields
    <2>1. t.row = "gone" /\ t.chunks = FALSE /\ t.handler = "refused" /\ t.reindex = RowGone(s).reindex
      BY <2>0, Fields DEF SameRow
    <2>2. Row(s) \/ (s.row = "gone" /\ s.chunks = FALSE)
      BY <1>0, <1>7 DEF Fits, UploadState, Row
    <2> HIDE DEF t
    <2>3. Step(s, t, Admitted(u))
      BY <1>7, <2>1, <2>2 DEF Step, SameRow, ToReaders, Fits, Row, Early, Late
    <2>4. QED
      BY <1>7, <2>3, Takes DEF t
  <1>8. CASE Delete(u)
    <2>1. Same(RowGone(s), RowGone(s)) /\ Row(s) /\ Admitted(u)
      BY <1>8 DEF Delete, Same, SameRow, HasRow, Row
    <2>2. Step(s, RowGone(s), TRUE)
      BY <1>0, <2>1, Seen
    <2>3. Step(s, RowGone(s), Admitted(u))
      BY <2>1, <2>2 DEF Step
    <2>4. QED
      BY <1>8, <2>3, Takes DEF Delete
  <1>9. CASE TurnedAway(u) \/ SaveFails(u) \/ EnqueueFails(u)
    BY <1>6, <1>7, <1>9 DEF TurnedAway, SaveFails, EnqueueFails, Late
  <1>10. QED
    BY <1>1, <1>2, <1>3, <1>4, <1>5, <1>8, <1>9 DEF HandlerStep

LEMMA ReindexShown ==
  ASSUME ReaderInv, NEW u \in Uploads, ReindexStep(u)
  PROVE  ReaderStep(u)
  <1> DEFINE s == upload[u]
  <1>0. s \in UploadState /\ Fits(s)
    BY DEF ReaderInv, EraseInv, TypeInv, UploadFits
  <1>1. ASSUME NEW r \in {"no", "failing", "embedding"}, Becomes(u, [s EXCEPT !.reindex = r]),
               r = "embedding" => s.chunks = TRUE
        PROVE  ReaderStep(u)
    <2> DEFINE t == [s EXCEPT !.reindex = r]
    <2>1. SameRow(s, t) /\ t.reindex = r /\ t.handler = s.handler
      BY <1>0 DEF UploadState, SameRow
    <2> HIDE DEF t
    <2>2. Step(s, t, Admitted(u))
      BY <1>0, <1>1, <2>1 DEF Fits, Step, SameRow, Row
    <2>3. QED
      BY <1>1, <2>2, Takes DEF t
  <1>2. ASSUME NEW r \in {"ready", "failed"}, Becomes(u, [s EXCEPT !.reindex = "no", !.row = r]),
               Admitted(u), Settled(u), r = "ready" => s.reindex = "embedding"
        PROVE  ReaderStep(u)
    <2> DEFINE t == [s EXCEPT !.reindex = "no", !.row = r]
    <2>1. t.row = r /\ t.chunks = s.chunks /\ t.reindex = "no" /\ t.handler = s.handler
      BY <1>0 DEF UploadState
    <2>2. s.row \in {"ready", "failed"} /\ (r = "ready" => s.chunks = TRUE)
      BY <1>0, <1>2 DEF Settled, Fits
    <2> HIDE DEF t
    <2>3. Step(s, t, Admitted(u))
      BY <1>0, <1>2, <2>1, <2>2 DEF Fits, Step, ToReaders, Row
    <2>4. QED
      BY <1>2, <2>3, Takes DEF t
  <1>3. CASE ReindexBegin(u)
    <2>1. CASE s.chunks
      <3>1. s.chunks = TRUE /\ Becomes(u, [s EXCEPT !.reindex = "embedding"])
        BY <1>0, <1>3, <2>1 DEF ReindexBegin, UploadState
      <3>2. QED
        BY <1>1, <3>1
    <2>2. CASE ~s.chunks
      BY <1>1, <1>3, <2>2 DEF ReindexBegin
    <2>3. QED
      BY <2>1, <2>2
  <1>4. CASE ReindexFails(u) \/ ReindexDropped(u)
    BY <1>1, <1>4 DEF ReindexFails, ReindexDropped
  <1>5. CASE ReindexStore(u) \/ ReindexMark(u)
    <2>1. CASE Admitted(u) /\ Settled(u)
      BY <1>2, <1>5, <2>1 DEF ReindexStore, ReindexMark
    <2>2. CASE ~(Admitted(u) /\ Settled(u))
      <3>1. [s EXCEPT !.reindex = "no", !.row = s.row] = [s EXCEPT !.reindex = "no"]
        BY <1>0 DEF UploadState
      <3>2. Becomes(u, [s EXCEPT !.reindex = "no"])
        BY <1>5, <2>2, <3>1 DEF ReindexStore, ReindexMark
      <3>3. QED
        BY <1>1, <3>2
    <2>3. QED
      BY <2>1, <2>2
  <1>6. QED
    BY <1>3, <1>4, <1>5 DEF ReindexStep

(* Processes that start, stop and end, and an erasure up to its last        *)
(* transaction, change no row                                               *)
Hidden == \A u \in Uploads :
  SameRow(upload[u], upload'[u]) /\ Step(upload[u], upload'[u], FALSE)

LEMMA NoneChanged ==
  ASSUME ReaderInv, upload' = upload
  PROVE  Hidden
  BY SameFits DEF ReaderInv, UploadFits, Hidden, Same, SameRow

LEMMA ProcessHidden ==
  ASSUME ReaderInv,
         \/ \E p \in Processes : ProcessStep(p) \/ Crash(p) \/ Stop(p)
         \/ \E o \in Owners : Sweep(o)
  PROVE  Hidden
  <1>0. \A u \in Uploads : upload[u] \in UploadState /\ Fits(upload[u])
    BY DEF ReaderInv, EraseInv, TypeInv, UploadFits
  <1>1. \A u \in Uploads :
          /\ Same(upload[u], upload[u]) /\ Same(upload[u], Unlinked(upload[u]))
          /\ \A j : Same(upload[u], [upload[u] EXCEPT !.job = j])
    BY <1>0, Fields
  <1>2. ASSUME \A u \in Uploads : Same(upload[u], upload'[u])
        PROVE  Hidden
    BY <1>0, <1>2, SameFits DEF Hidden, Same
  <1>3. ASSUME NEW p \in Processes, NEW x \in Uploads, Take(x, p)
        PROVE  Hidden
    <2>1. \A u \in Uploads : Same(upload[u], upload'[u])
      BY <1>1, <1>3 DEF Take, Becomes, ReaderInv, EraseInv, TypeInv
    <2>2. QED
      BY <1>2, <2>1
  <1>4. ASSUME NEW p \in Processes, Exit(p) \/ Crash(p)
        PROVE  Hidden
    <2>1. ASSUME NEW u \in Uploads
          PROVE  SameRow(upload[u], Leave(upload[u])) /\ Step(upload[u], Leave(upload[u]), FALSE)
      BY <1>0, Fields, Unseen DEF Early, Late
    <2>2. ASSUME NEW u \in Uploads
          PROVE  SameRow(upload[u], upload[u]) /\ Step(upload[u], upload[u], FALSE)
      BY <1>0, <1>1, SameFits DEF Same
    <2>3. QED
      BY <1>4, <2>1, <2>2 DEF Exit, Crash, Ends, Hidden
  <1>5. ASSUME NEW p \in Processes, Stop(p)
        PROVE  Hidden
    BY <1>1, <1>2, <1>5 DEF Stop
  <1>6. ASSUME NEW o \in Owners, Sweep(o)
        PROVE  Hidden
    BY <1>1, <1>2, <1>6 DEF Sweep
  <1>7. ASSUME NEW p \in Processes, Start(p) \/ Started(p)
        PROVE  Hidden
    BY <1>7, NoneChanged DEF Start, Started
  <1>8. QED
    BY <1>3, <1>4, <1>5, <1>6, <1>7 DEF ProcessStep

LEMMA EraseHidden ==
  ASSUME ReaderInv, NEW o \in Owners,
         \/ Withdraw(o)
         \/ \E p \in Processes : \/ EraseFence(o, p) \/ EraseDrain(o, p) \/ EraseLock(o, p)
                                \/ EraseFiles(o, p) \/ EraseAborts(o, p)
  PROVE  Hidden
  <1>0. \A u \in Uploads : upload[u] \in UploadState /\ Fits(upload[u])
    BY DEF ReaderInv, EraseInv, TypeInv, UploadFits
  <1>1. \A u \in Uploads : /\ Same(upload[u], upload[u]) /\ Same(upload[u], Unlinked(upload[u]))
                           /\ Same(upload[u], JobDone(upload[u]))
    BY <1>0, Fields
  <1>2. ASSUME \A u \in Uploads : Same(upload[u], upload'[u])
        PROVE  Hidden
    BY <1>0, <1>2, SameFits DEF Hidden, Same
  <1>3. ASSUME NEW p \in Processes, EraseDrain(o, p)
        PROVE  Hidden
    BY <1>1, <1>2, <1>3 DEF EraseDrain
  <1>4. ASSUME NEW p \in Processes, EraseFiles(o, p)
        PROVE  Hidden
    BY <1>1, <1>2, <1>4 DEF EraseFiles
  <1>5. ASSUME \/ Withdraw(o)
               \/ \E p \in Processes : EraseFence(o, p) \/ EraseLock(o, p) \/ EraseAborts(o, p)
        PROVE  Hidden
    BY <1>5, NoneChanged DEF Withdraw, EraseFence, EraseLock, EraseAborts
  <1>6. QED
    BY <1>3, <1>4, <1>5

LEMMA AllSteps ==
  ASSUME ReaderInv, Next
  PROVE  \/ \E u \in Uploads : ReaderStep(u)
         \/ Hidden
         \/ \E o \in Owners, p \in Processes : EraseRows(o, p)
  <1>1. CASE Fault
    BY <1>1, HandlerShown, JobShown, ProcessHidden, EraseHidden DEF Fault, JobStep
  <1>2. CASE ~Fault
    BY <1>2, HandlerShown, JobShown, ReindexShown, ProcessHidden, EraseHidden DEF Next, EraseStep
  <1>3. QED
    BY <1>1, <1>2

(* The erasing transaction empties every row of its owner                   *)
LEMMA RowsErased ==
  ASSUME ReaderInv, NEW o \in Owners, NEW p \in Processes, EraseRows(o, p), NEW u \in Uploads
  PROVE  /\ Fits(upload'[u])
         /\ IF OwnerOf[u] = o /\ Row(upload[u])
              THEN upload'[u].row = "gone" /\ upload'[u].chunks = FALSE
              ELSE SameRow(upload[u], upload'[u])
  <1>0. upload[u] \in UploadState /\ Fits(upload[u])
    BY DEF ReaderInv, EraseInv, TypeInv, UploadFits
  <1>1. upload'[u] = IF OwnerOf[u] = o /\ Row(upload[u]) THEN RowGone(upload[u]) ELSE upload[u]
    BY DEF EraseRows, HasRow, Row
  <1>2. CASE OwnerOf[u] = o /\ Row(upload[u])
    <2>1. Step(upload[u], RowGone(upload[u]), TRUE)
      BY <1>0, <1>2, Seen DEF Same, SameRow
    <2>2. upload'[u] = RowGone(upload[u])
      BY <1>1, <1>2
    <2>3. RowGone(upload[u]).row = "gone" /\ RowGone(upload[u]).chunks = FALSE
      BY <1>0, RowFields
    <2>4. Fits(RowGone(upload[u]))
      BY <2>1 DEF Step
    <2>5. QED
      BY <1>2, <2>2, <2>3, <2>4
  <1>3. CASE ~(OwnerOf[u] = o /\ Row(upload[u]))
    BY <1>0, <1>1, <1>3 DEF SameRow
  <1>4. QED
    BY <1>2, <1>3

LEMMA ReaderInvHolds == Spec => []ReaderInv
  <1>1. Init => UploadFits
    BY DEF Init, NewUpload, UploadFits, Fits, Early, Late
  <1>2. ReaderInv /\ [Next]_vars => UploadFits'
    <2> SUFFICES ASSUME ReaderInv, [Next]_vars, NEW u \in Uploads
                 PROVE  Fits(upload'[u])
      BY DEF UploadFits
    <2>1. CASE UNCHANGED vars
      BY <2>1 DEF vars, ReaderInv, UploadFits
    <2>2. ASSUME NEW x \in Uploads, ReaderStep(x)
          PROVE  Fits(upload'[u])
      BY <2>2 DEF ReaderStep, Alone, Step, ReaderInv, UploadFits
    <2>3. CASE Hidden
      BY <2>3 DEF Hidden, Step
    <2>4. QED
      BY <2>1, <2>2, <2>3, AllSteps, RowsErased
  <1>3. QED
    BY <1>1, <1>2, EraseInvInit, EraseInvStep, PTL DEF Spec, ReaderInv

(* A document is ready only with all its chunks: a reindexing that embeds   *)
(* them is refused once the document, and with it the chunks, is gone.      *)
THEOREM ReadyHasChunksHolds == Spec => []ReadyHasChunks
  <1>1. ReaderInv => ReadyHasChunks
    BY DEF ReaderInv, UploadFits, Fits, ReadyHasChunks
  <1>2. QED
    BY <1>1, ReaderInvHolds, PTL

-----------------------------------------------------------------------------
(* The refinement                                                           *)
ReaderDoc(u) ==
  [x \in Uploads |-> [row |-> upload[x].row, text |-> upload[x].chunks]][u]

LEMMA Becoming ==
  ASSUME NEW u \in Uploads, NEW r, NEW c, Alone(u), upload'[u].row = r, upload'[u].chunks = c,
         Admitted(u), fenced' = fenced, wiped' = wiped
  PROVE  Documents!Becomes(u, [row |-> r, text |-> c])
  BY DEF Alone, Admitted, Documents!Becomes, Documents!Admitted

LEMMA NothingShown ==
  ASSUME \A u \in Uploads : SameRow(upload[u], upload'[u]), fenced' = fenced, wiped' = wiped
  PROVE  UNCHANGED Documents!docVars
  BY DEF SameRow, Documents!docVars

LEMMA OneShown ==
  ASSUME ReaderInv, NEW u \in Uploads, ReaderStep(u), fenced' = fenced, wiped' = wiped
  PROVE  [Documents!Next]_(Documents!docVars)
  <1> DEFINE s == upload[u]
             t == upload'[u]
  <1>0. Alone(u) /\ s \in UploadState /\ Fits(s)
    BY DEF ReaderStep, ReaderInv, EraseInv, TypeInv, UploadFits
  <1>1. CASE SameRow(s, t)
    <2>1. \A x \in Uploads : SameRow(upload[x], upload'[x])
      BY <1>0, <1>1 DEF Alone, SameRow
    <2>2. QED
      BY <2>1, NothingShown
  <1>2. CASE Admitted(u) /\ ToReaders(s, t)
    <2>0. /\ ReaderDoc(u).row = s.row
          /\ \A r : [ReaderDoc(u) EXCEPT !.row = r] = [row |-> r, text |-> s.chunks]
      BY DEF ReaderDoc
    <2>1. Documents!Live(u) <=> Row(s)
      BY DEF Documents!Live, Documents!LiveStates, Row
    <2>2. ASSUME s.row = "absent", t.row = "processing", t.chunks = s.chunks
          PROVE  Documents!Register(u)
      <3>1. PICK c : c = s.chunks
        OBVIOUS
      <3>2. Documents!Becomes(u, [row |-> "processing", text |-> c])
        BY <1>0, <1>2, <2>2, <3>1, Becoming
      <3>3. QED
        BY <2>0, <2>2, <3>1, <3>2 DEF Documents!Register, Documents!Becomes, ReaderDoc
    <2>3. ASSUME Row(s), t.row = "failed", t.chunks = s.chunks
          PROVE  Documents!Withdraw(u)
      <3>1. PICK c : c = s.chunks
        OBVIOUS
      <3>2. Documents!Becomes(u, [row |-> "failed", text |-> c])
        BY <1>0, <1>2, <2>3, <3>1, Becoming
      <3>3. QED
        BY <2>0, <2>1, <2>3, <3>1, <3>2 DEF Documents!Withdraw, Documents!Becomes, ReaderDoc
    <2>4. ASSUME Row(s), t.row = "gone", t.chunks = FALSE
          PROVE  Documents!Remove(u)
      <3>1. Documents!Becomes(u, [row |-> "gone", text |-> FALSE])
        BY <1>0, <1>2, <2>4, Becoming
      <3>2. QED
        BY <2>1, <2>4, <3>1 DEF Documents!Remove, Documents!Gone
    <2>5. ASSUME Row(s), t.row = "ready", t.chunks = TRUE
          PROVE  Documents!Publish(u, TRUE)
      <3>1. Documents!Becomes(u, [row |-> "ready", text |-> TRUE])
        BY <1>0, <1>2, <2>5, Becoming
      <3>2. s.chunks # FALSE => s.chunks = TRUE
        BY <1>0 DEF UploadState
      <3>3. ReaderDoc(u).text # FALSE => <<ReaderDoc(u).text, TRUE>> \in {<<TRUE, TRUE>>}
        BY <3>2 DEF ReaderDoc
      <3>4. QED
        BY <2>1, <2>5, <3>1, <3>3 DEF Documents!Publish, ReaderDoc
    <2>6. TRUE \in [x \in Uploads |-> {TRUE}][u]
      OBVIOUS
    <2>7. QED
      BY <1>2, <2>2, <2>3, <2>4, <2>5, <2>6 DEF ToReaders, Documents!Next, Documents!Change
  <1>3. QED
    BY <1>1, <1>2 DEF ReaderStep, Step

(* Handlers, jobs, retries, reindexings, processes and erasures implement   *)
(* what readers are promised: every step is one of PublishedDocuments.      *)
THEOREM DocumentsImplement == Spec => DocumentsImplemented
  <1>1. Init => Documents!Init
    BY DEF Init, NewUpload, Documents!Init
  <1>2. ReaderInv /\ [Next]_vars => [Documents!Next]_(Documents!docVars)
    <2> SUFFICES ASSUME ReaderInv, Next
                 PROVE  [Documents!Next]_(Documents!docVars)
      BY DEF vars, Documents!docVars
    <2>1. ASSUME NEW o \in Owners, NEW p \in Processes, EraseFence(o, p)
          PROVE  Documents!Next
      BY <2>1 DEF EraseFence, Documents!Fence, Documents!Next
    <2>2. ASSUME NEW o \in Owners, NEW p \in Processes, EraseRows(o, p)
          PROVE  Documents!Next
      <3>1. \A u \in Uploads : Documents!Live(u) <=> Row(upload[u])
        BY DEF Documents!Live, Documents!LiveStates, Row
      <3>2. Documents!Erase(o)
        BY <2>2, <3>1, RowsErased DEF EraseRows, SameRow, Documents!Erase, Documents!Gone
      <3>3. QED
        BY <3>2 DEF Documents!Next
    <2>3. CASE /\ fenced' = fenced /\ wiped' = wiped
               /\ ~\E o \in Owners, p \in Processes : EraseRows(o, p)
      <3>1. CASE Hidden
        BY <2>3, <3>1, NothingShown DEF Hidden
      <3>2. QED
        BY <2>3, <3>1, AllSteps, OneShown
    <2>4. QED
      BY <2>1, <2>2, <2>3, ControlSteps DEF Control, ReaderInv, EraseInv
  <1>3. QED
    BY <1>1, <1>2, ReaderInvHolds, PTL DEF Spec, DocumentsImplemented, Documents!Spec
============================================================================
