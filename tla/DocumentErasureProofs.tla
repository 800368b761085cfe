----------------------- MODULE DocumentErasureProofs -----------------------
(***************************************************************************)
(* What an account erasure promises about uploaded files, proved for every *)
(* number of uploads, owners and processes, and whatever may fail.         *)
(***************************************************************************)
EXTENDS DocumentIngest, TLAPS

TypeInv ==
  /\ upload \in [Uploads -> UploadState]
  /\ erasing \in [Owners -> [Processes -> ErasureState]]

(* What an upload holds, as predicates on its record                        *)
Original(s) == s.file # "none" \/ s.handler = "admitted"
Row(s)      == s.row \in {"processing", "ready", "failed"}
Saving(s)   == s.handler \in {"admitted", "saving"}

(* A step may add to what an upload holds only while its owner is admitted, *)
(* and an original or a save only while the owner's lock is free            *)
Change(s, t, open, free) ==
  /\ t \in UploadState
  /\ Original(t) => Original(s) \/ (open /\ free)
  /\ Saving(t) => Saving(s) \/ (open /\ free)
  /\ Row(t) => Row(s) \/ open
  /\ t.chunks => s.chunks \/ open
  /\ (s.chunks => Row(s)) => (t.chunks => Row(t))

UploadStep(u) ==
  Change(upload[u], upload'[u], Admitted(u), ~LockedExclusive(OwnerOf[u]))

LEMMA NoChange ==
  ASSUME TypeInv, NEW u \in Uploads, upload'[u] = upload[u]
  PROVE  UploadStep(u)
  BY DEF TypeInv, UploadStep, Change

(* A record whose fields hold no more than those of another *)
LEMMA Less ==
  ASSUME NEW s \in UploadState, NEW t \in UploadState,
         NEW open \in BOOLEAN, NEW free \in BOOLEAN,
         t.file = "none" \/ t.file = s.file,
         t.handler = "refused" \/ t.handler = s.handler,
         \/ t.row = s.row /\ t.chunks = s.chunks
         \/ t.row = "gone" /\ t.chunks = FALSE
  PROVE  Change(s, t, open, free)
  BY DEF Change, Original, Row, Saving

(* The operators on an upload that take away only *)
LEMMA Losing ==
  ASSUME NEW s \in UploadState, NEW open \in BOOLEAN, NEW free \in BOOLEAN
  PROVE  /\ Change(s, s, open, free)
         /\ Change(s, Unlinked(s), open, free)
         /\ Change(s, JobDone(s), open, free)
         /\ Change(s, Refused(s), open, free)
         /\ Change(s, RowGone(s), open, free)
         /\ Change(s, Refused(RowGone(s)), open, free)
         /\ Change(s, [s EXCEPT !.job = "none"], open, free)
  <1>1. Change(s, s, open, free)
    BY Less
  <1>2. Change(s, Unlinked(s), open, free)
    <2> DEFINE t == [s EXCEPT !.file = "none"]
    <2>1. t \in UploadState
      BY DEF UploadState
    <2>2. /\ t.file = "none"
          /\ t.handler = s.handler
          /\ t.row = s.row
          /\ t.chunks = s.chunks
      BY DEF UploadState
    <2>3. Unlinked(s) = t
      BY DEF Unlinked
    <2> HIDE DEF t
    <2>4. QED
      BY <2>1, <2>2, <2>3, Less
  <1>3. Change(s, JobDone(s), open, free)
    <2> DEFINE t == [s EXCEPT !.file = "none", !.job = "none"]
    <2>1. t \in UploadState
      BY DEF UploadState
    <2>2. /\ t.file = "none"
          /\ t.job = "none"
          /\ t.handler = s.handler
          /\ t.row = s.row
          /\ t.chunks = s.chunks
      BY DEF UploadState
    <2>3. JobDone(s) = t
      BY DEF JobDone, Unlinked
    <2> HIDE DEF t
    <2>4. QED
      BY <2>1, <2>2, <2>3, Less
  <1>4. Change(s, Refused(s), open, free)
    <2> DEFINE t == [s EXCEPT !.file = "none", !.handler = "refused"]
    <2>1. t \in UploadState
      BY DEF UploadState
    <2>2. /\ t.file = "none"
          /\ t.handler = "refused"
          /\ t.row = s.row
          /\ t.chunks = s.chunks
      BY DEF UploadState
    <2>3. Refused(s) = t
      BY DEF Refused, Unlinked
    <2> HIDE DEF t
    <2>4. QED
      BY <2>1, <2>2, <2>3, Less
  <1>5. Change(s, RowGone(s), open, free)
    <2> DEFINE t == [s EXCEPT !.row = "gone", !.chunks = FALSE]
    <2>1. t \in UploadState
      BY DEF UploadState
    <2>2. /\ t.row = "gone"
          /\ t.chunks = FALSE
          /\ t.file = s.file
          /\ t.handler = s.handler
      BY DEF UploadState
    <2>3. RowGone(s) = t
      BY DEF RowGone
    <2> HIDE DEF t
    <2>4. QED
      BY <2>1, <2>2, <2>3, Less
  <1>6. Change(s, Refused(RowGone(s)), open, free)
    <2> DEFINE t == [s EXCEPT !.file = "none", !.handler = "refused", !.row = "gone", !.chunks = FALSE]
    <2>1. t \in UploadState
      BY DEF UploadState
    <2>2. /\ t.file = "none"
          /\ t.handler = "refused"
          /\ t.row = "gone"
          /\ t.chunks = FALSE
      BY DEF UploadState
    <2>3. Refused(RowGone(s)) = t
      BY DEF Refused, Unlinked, RowGone
    <2> HIDE DEF t
    <2>4. QED
      BY <2>1, <2>2, <2>3, Less
  <1>7. Change(s, [s EXCEPT !.job = "none"], open, free)
    <2> DEFINE t == [s EXCEPT !.job = "none"]
    <2>1. t \in UploadState
      BY DEF UploadState
    <2>2. /\ t.job = "none"
          /\ t.file = s.file
          /\ t.handler = s.handler
          /\ t.row = s.row
          /\ t.chunks = s.chunks
      BY DEF UploadState
    <2> HIDE DEF t
    <2>3. Change(s, t, open, free)
      BY <2>1, <2>2, Less
    <2>4. QED
      BY <2>3 DEF t
  <1>8. QED
    BY <1>1, <1>2, <1>3, <1>4, <1>5, <1>6, <1>7

LEMMA Only ==
  ASSUME TypeInv, NEW u \in Uploads, NEW x \in Uploads, NEW s, Becomes(x, s),
         Change(upload[x], s, Admitted(x), ~LockedExclusive(OwnerOf[x]))
  PROVE  UploadStep(u)
  <1>1. CASE x = u
    BY <1>1 DEF TypeInv, Becomes, UploadStep
  <1>2. CASE x # u
    BY <1>2, NoChange DEF TypeInv, Becomes
  <1>3. QED
    BY <1>1, <1>2

LEMMA HandlerSteps ==
  ASSUME TypeInv, NEW u \in Uploads, NEW x \in Uploads,
         \/ \E p \in Processes : SaveBegin(x, p)
         \/ HandlerStep(x) \/ SaveFails(x) \/ CreateAnswerLost(x) \/ EnqueueFails(x)
         \/ Delete(x)
  PROVE  UploadStep(u)
  <1> DEFINE s == upload[x]
             open == Admitted(x)
             free == ~LockedExclusive(OwnerOf[x])
             Ok(t) == Change(s, t, open, free)
  <1>0. s \in UploadState
    BY DEF TypeInv
  <1>1. ASSUME NEW p \in Processes, SaveBegin(x, p)
        PROVE  UploadStep(u)
    <2>1. Ok([s EXCEPT !.handler = "admitted", !.at = p])
      BY <1>0, <1>1 DEF SaveBegin, Change, UploadState, Original, Row, Saving
    <2>2. QED
      BY <1>1, <2>1, Only DEF SaveBegin
  <1>2. CASE SaveOpen(x)
    <2>1. Ok([s EXCEPT !.handler = "saving", !.file = "live"])
      BY <1>0, <1>2 DEF SaveOpen, Change, UploadState, Original, Row, Saving
    <2>2. QED
      BY <1>2, <2>1, Only DEF SaveOpen
  <1>3. CASE SaveEnd(x)
    <2>1. Ok([s EXCEPT !.handler = "saved"])
      BY <1>0, <1>3 DEF SaveEnd, Change, UploadState, Original, Row, Saving
    <2>2. QED
      BY <1>3, <2>1, Only DEF SaveEnd
  <1>4. CASE CreateRow(x)
    <2>1. Ok([s EXCEPT !.handler = "created", !.row = "processing"])
      BY <1>0, <1>4 DEF CreateRow, Change, UploadState, Original, Row, Saving
    <2>2. QED
      BY <1>4, <2>1, Only DEF CreateRow
  <1>5. CASE Enqueue(x)
    <2> DEFINE t == [s EXCEPT !.handler = "queued", !.job = "queued"]
    <2>1. t \in UploadState
      BY <1>0 DEF UploadState
    <2>2. /\ t.handler = "queued"
          /\ t.file = s.file
          /\ t.row = s.row
          /\ t.chunks = s.chunks
      BY <1>0 DEF UploadState
    <2>3. s.handler = "created" /\ Becomes(x, t)
      BY <1>5 DEF Enqueue
    <2> HIDE DEF t
    <2>4. Ok(t)
      BY <2>1, <2>2, <2>3 DEF Change, Original, Row, Saving
    <2>5. QED
      BY <2>3, <2>4, Only
  <1>6. CASE Answer(x)
    <2>1. Ok([s EXCEPT !.handler = "answered"])
      BY <1>0, <1>6 DEF Answer, Change, UploadState, Original, Row, Saving
    <2>2. QED
      BY <1>6, <2>1, Only DEF Answer
  <1>7. CASE CreateAnswerLost(x)
    <2>1. Ok([Refused(s) EXCEPT !.row = "processing"])
      BY <1>0, <1>7 DEF CreateAnswerLost, Refused, Unlinked, Change, UploadState, Original, Row,
                        Saving
    <2>2. QED
      BY <1>7, <2>1, Only DEF CreateAnswerLost
  <1>8. CASE TurnedAway(x) \/ SaveFails(x) \/ EnqueueFails(x) \/ Delete(x)
    <2>1. Ok(Refused(s)) /\ Ok(RowGone(s)) /\ Ok(Refused(RowGone(s)))
      BY <1>0, Losing DEF Admitted, LockedExclusive
    <2>2. QED
      BY <1>8, <2>1, Only DEF TurnedAway, SaveFails, EnqueueFails, Delete
  <1>9. QED
    BY <1>1, <1>2, <1>3, <1>4, <1>5, <1>6, <1>7, <1>8 DEF HandlerStep

LEMMA ReindexSteps ==
  ASSUME TypeInv, NEW u \in Uploads, NEW x \in Uploads, ReindexStep(x)
  PROVE  UploadStep(u)
  <1> DEFINE s == upload[x]
             Ok(t) == Change(s, t, Admitted(x), ~LockedExclusive(OwnerOf[x]))
  <1>0. s \in UploadState
    BY DEF TypeInv
  <1>1. \A r \in {"no", "embedding", "failing"} : Ok([s EXCEPT !.reindex = r])
    BY <1>0 DEF Change, UploadState, Original, Row, Saving
  <1>2. \A r \in {"ready", "failed"} : Settled(x) => Ok([s EXCEPT !.reindex = "no", !.row = r])
    BY <1>0 DEF Settled, Change, UploadState, Original, Row, Saving
  <1>3. CASE ReindexBegin(x) \/ ReindexFails(x) \/ ReindexDropped(x)
    BY <1>1, <1>3, Only DEF ReindexBegin, ReindexFails, ReindexDropped
  <1>4. CASE ReindexStore(x) \/ ReindexMark(x)
    <2>1. CASE Admitted(x) /\ Settled(x)
      BY <1>2, <1>4, <2>1, Only DEF ReindexStore, ReindexMark
    <2>2. CASE ~(Admitted(x) /\ Settled(x))
      <3>1. [s EXCEPT !.reindex = "no", !.row = s.row] = [s EXCEPT !.reindex = "no"]
        BY <1>0 DEF UploadState
      <3>2. Becomes(x, [s EXCEPT !.reindex = "no"])
        BY <1>4, <2>2, <3>1 DEF ReindexStore, ReindexMark
      <3>3. QED
        BY <1>1, <3>2, Only
    <2>3. QED
      BY <2>1, <2>2
  <1>5. QED
    BY <1>3, <1>4 DEF ReindexStep

LEMMA JobSteps ==
  ASSUME TypeInv, NEW u \in Uploads, NEW x \in Uploads,
         JobStep(x) \/ CipherFails(x) \/ RequeueFails(x)
  PROVE  UploadStep(u)
  <1> DEFINE s == upload[x]
             Ok(t) == Change(s, t, Admitted(x), ~LockedExclusive(OwnerOf[x]))
  <1>0. s \in UploadState
    BY DEF TypeInv
  <1>1. /\ Ok(s) /\ Ok(JobDone(s)) /\ Ok([s EXCEPT !.job = "none"])
    BY <1>0, Losing DEF Admitted, LockedExclusive
  <1>2. \A j \in {"queued", "reading", "storing", "failing", "unavailable", "delayed"} :
          Ok([s EXCEPT !.job = j])
    BY <1>0 DEF Reading, Change, UploadState, Original, Row, Saving
  <1>3. CASE \/ JobBegins(x) \/ JobPrepared(x) \/ JobFails(x) \/ CipherFails(x)
             \/ RequeueFails(x) \/ JobTurnedAway(x) \/ JobWithdrawn(x) \/ Requeue(x)
    BY <1>1, <1>2, <1>3, Only DEF JobBegins, JobPrepared, JobFails, CipherFails, RequeueFails,
       JobTurnedAway, JobWithdrawn, JobEnds, Requeue
  <1>4. CASE Store(x) \/ StoreFails(x)
    <2>1. Admitted(x) /\ HasRow(x) =>
            Ok(JobDone(Stored(s))) /\ Ok([Stored(s) EXCEPT !.job = "failing"])
      <3>1. JobDone(Stored(s)) =
              [s EXCEPT !.row = "ready", !.chunks = TRUE, !.file = "none", !.job = "none"]
        BY DEF JobDone, Unlinked, Stored
      <3>2. [Stored(s) EXCEPT !.job = "failing"] =
              [s EXCEPT !.row = "ready", !.chunks = TRUE, !.job = "failing"]
        BY DEF Stored
      <3>3. QED
        BY <1>0, <3>1, <3>2 DEF HasRow, Reading, Change, UploadState,
                                    Original, Row, Saving
    <2>2. QED
      BY <1>2, <1>4, <2>1, Only DEF Store, StoreFails, JobEnds
  <1>5. HasRow(x) => /\ Ok(RowFailed(s)) /\ Ok(JobDone(RowFailed(s)))
                     /\ Ok([RowFailed(s) EXCEPT !.job = "none"])
                     /\ Ok([RowFailed(s) EXCEPT !.job = "delayed"])
    <2>1. JobDone(RowFailed(s)) = [s EXCEPT !.row = "failed", !.file = "none", !.job = "none"]
      BY DEF JobDone, Unlinked, RowFailed
    <2>2. \A j : [RowFailed(s) EXCEPT !.job = j] = [s EXCEPT !.row = "failed", !.job = j]
      BY DEF RowFailed
    <2> USE DEF HasRow, Reading, Change, UploadState, Original, Row, Saving
    <2>3. HasRow(x) => Ok(RowFailed(s))
      BY <1>0 DEF RowFailed
    <2>4. HasRow(x) => Ok(JobDone(RowFailed(s)))
      BY <1>0, <2>1
    <2>5. \A j \in {"none", "delayed"} : HasRow(x) => Ok([RowFailed(s) EXCEPT !.job = j])
      BY <1>0, <2>2
    <2>6. QED
      BY <2>3, <2>4, <2>5
  <1>6. CASE MarkFailed(x)
    BY <1>5, <1>6, Only DEF MarkFailed, JobEnds
  <1>7. CASE MarkFails(x) \/ MarkUnavailable(x)
    <2>1. \/ Becomes(x, Retried(x, s))
          \/ HasRow(x) /\ Becomes(x, Retried(x, RowFailed(s)))
      BY <1>7 DEF MarkFails, MarkUnavailable, JobEnds
    <2>2. Ok(Retried(x, s)) /\ (HasRow(x) => Ok(Retried(x, RowFailed(s))))
      BY <1>1, <1>2, <1>5 DEF Retried
    <2>3. QED
      BY <2>1, <2>2, Only
  <1>8. QED
    BY <1>3, <1>4, <1>6, <1>7 DEF JobStep

LEMMA ProcessSteps ==
  ASSUME TypeInv, NEW u \in Uploads,
         \/ \E p \in Processes : ProcessStep(p) \/ Crash(p) \/ Stop(p)
         \/ \E o \in Owners : Sweep(o)
  PROVE  UploadStep(u)
  <1> DEFINE s == upload[u]
             Ok(t) == Change(s, t, Admitted(u), ~LockedExclusive(OwnerOf[u]))
  <1>0. s \in UploadState
    BY DEF TypeInv
  <1>1. Ok(s) /\ Ok(Unlinked(s)) /\ Ok([s EXCEPT !.job = "none"])
    BY <1>0, Losing DEF Admitted, LockedExclusive
  <1>2. ASSUME NEW p \in Processes, NEW x \in Uploads, Take(x, p)
        PROVE  UploadStep(u)
    <2>1. upload[x] \in UploadState /\ Becomes(x, [upload[x] EXCEPT !.job = "locking"])
      BY <1>2 DEF TypeInv, Take
    <2>2. Change(upload[x], [upload[x] EXCEPT !.job = "locking"],
                 Admitted(x), ~LockedExclusive(OwnerOf[x]))
      BY <2>1 DEF Change, UploadState, Original, Row, Saving
    <2>3. QED
      BY <2>1, <2>2, Only
  <1>3. Ok(Leave(s))
    <2> DEFINE handler == IF s.handler \in {"answered", "refused"} THEN s.handler ELSE "refused"
               file    == IF s.file = "live" THEN "abandoned" ELSE s.file
    <2>1. Leave(s) = [s EXCEPT !.at = NoProcess, !.job = "none", !.handler = handler,
                               !.file = file]
      BY <1>0 DEF Leave, UploadState
    <2>2. /\ handler \in {"answered", "refused"}
          /\ file \in {"none", "live", "abandoned"} /\ (file # "none" <=> s.file # "none")
      BY <1>0 DEF UploadState
    <2> HIDE DEF handler, file
    <2> DEFINE t == Leave(s)
    <2>3. t \in UploadState
      BY <1>0, <2>1, <2>2 DEF UploadState
    <2>4. /\ t.handler = handler
          /\ t.file = file
          /\ t.row = s.row
          /\ t.chunks = s.chunks
      BY <1>0, <2>1 DEF UploadState
    <2>5. /\ Original(t) => Original(s)
          /\ ~Saving(t)
      BY <2>2, <2>4 DEF Original, Saving
    <2> HIDE DEF t
    <2>6. Ok(t)
      BY <2>3, <2>4, <2>5 DEF Change, Row
    <2>7. QED
      BY <2>6 DEF t
  <1>4. ASSUME NEW p \in Processes, Exit(p) \/ Crash(p)
        PROVE  UploadStep(u)
    BY <1>1, <1>3, <1>4 DEF Exit, Crash, Ends, UploadStep
  <1>5. ASSUME NEW p \in Processes, Stop(p)
        PROVE  UploadStep(u)
    BY <1>1, <1>5 DEF Stop, UploadStep
  <1>6. ASSUME NEW o \in Owners, Sweep(o)
        PROVE  UploadStep(u)
    BY <1>1, <1>6 DEF Sweep, UploadStep
  <1>7. ASSUME NEW p \in Processes, Start(p) \/ Started(p)
        PROVE  UploadStep(u)
    BY <1>7, NoChange DEF Start, Started
  <1>8. QED
    BY <1>2, <1>4, <1>5, <1>6, <1>7 DEF ProcessStep

LEMMA EraseSteps ==
  ASSUME TypeInv, NEW u \in Uploads,
         \E o \in Owners :
           Withdraw(o) \/ EraseStep(o) \/ \E p \in Processes : EraseAborts(o, p)
  PROVE  UploadStep(u)
  <1> DEFINE s == upload[u]
             Ok(t) == Change(s, t, Admitted(u), ~LockedExclusive(OwnerOf[u]))
  <1>1. Ok(s) /\ Ok(Unlinked(s)) /\ Ok(JobDone(s)) /\ Ok(RowGone(s))
    BY Losing DEF TypeInv, Admitted, LockedExclusive
  <1>2. ASSUME NEW o \in Owners, NEW p \in Processes, EraseDrain(o, p)
        PROVE  UploadStep(u)
    BY <1>1, <1>2 DEF EraseDrain, UploadStep
  <1>3. ASSUME NEW o \in Owners, NEW p \in Processes, EraseFiles(o, p) \/ EraseRows(o, p)
        PROVE  UploadStep(u)
    BY <1>1, <1>3 DEF EraseFiles, EraseRows, UploadStep
  <1>4. ASSUME NEW o \in Owners,
               \/ Withdraw(o)
               \/ \E p \in Processes : EraseLock(o, p) \/ EraseAborts(o, p) \/ EraseFence(o, p)
        PROVE  UploadStep(u)
    BY <1>4, NoChange DEF Withdraw, EraseLock, EraseAborts, EraseFence
  <1>5. QED
    BY <1>2, <1>3, <1>4 DEF EraseStep

LEMMA UploadSteps ==
  ASSUME TypeInv, Next, NEW u \in Uploads
  PROVE  UploadStep(u)
  <1>1. CASE Fault
    BY <1>1, HandlerSteps, JobSteps, ProcessSteps, EraseSteps DEF Fault, JobStep
  <1>2. CASE ~Fault
    BY <1>2, HandlerSteps, JobSteps, ReindexSteps, ProcessSteps, EraseSteps DEF Next
  <1>3. QED
    BY <1>1, <1>2

LEMMA FormSteps ==
  ASSUME TypeInv, Next
  PROVE  upload' = [u \in Uploads |-> upload'[u]]
  <1> USE DEF TypeInv, Becomes
  <1>1. ASSUME NEW u \in Uploads,
               \/ \E p \in Processes : SaveBegin(u, p)
               \/ HandlerStep(u) \/ ReindexStep(u) \/ Delete(u)
               \/ SaveFails(u) \/ CreateAnswerLost(u) \/ EnqueueFails(u)
        PROVE  upload' = [x \in Uploads |-> upload'[x]]
    BY <1>1 DEF HandlerStep, ReindexStep, SaveBegin, SaveOpen, SaveEnd, CreateRow, Enqueue, Answer,
       TurnedAway, SaveFails, CreateAnswerLost, EnqueueFails, Delete, ReindexBegin, ReindexFails,
       ReindexStore, ReindexMark, ReindexDropped
  <1>2. ASSUME NEW u \in Uploads, JobStep(u) \/ CipherFails(u) \/ RequeueFails(u)
        PROVE  upload' = [x \in Uploads |-> upload'[x]]
    BY <1>2 DEF JobStep, JobBegins, JobTurnedAway, JobWithdrawn, JobPrepared, JobFails, Store,
       StoreFails, MarkFailed, MarkFails, MarkUnavailable, Requeue, CipherFails, RequeueFails,
       JobEnds
  <1>3. ASSUME NEW p \in Processes, ProcessStep(p) \/ Crash(p) \/ Stop(p)
        PROVE  upload' = [x \in Uploads |-> upload'[x]]
    BY <1>3 DEF ProcessStep, Take, Exit, Start, Started, Crash, Stop, Ends
  <1>4. ASSUME NEW o \in Owners,
               \/ Withdraw(o) \/ Sweep(o) \/ EraseStep(o)
               \/ \E p \in Processes : EraseAborts(o, p)
        PROVE  upload' = [x \in Uploads |-> upload'[x]]
    BY <1>4 DEF Withdraw, Sweep, EraseStep, EraseFence, EraseDrain, EraseLock, EraseFiles,
       EraseRows, EraseAborts
  <1>5. QED
    BY <1>1, <1>2, <1>3, <1>4 DEF Next, Fault, JobStep

(* What one step does to the requests for erasure and to the fence          *)
LEMMA EraseJobs ==
  ASSUME TypeInv, NEW u \in Uploads, JobStep(u) \/ CipherFails(u) \/ RequeueFails(u)
  PROVE  /\ erasing' \in [Owners -> [Processes -> ErasureState]]
         /\ \A o \in Owners, p \in Processes :
              \/ erasing'[o][p] \in {erasing[o][p], "no"}
              \/ erasing[o][p] = "draining" /\ erasing'[o][p] = "drained"
         /\ fenced' = fenced /\ wiped' = wiped
  <1>1. OwnerOf[u] \in Owners
    BY ConstantsAssumption
  <1>2. ASSUME NEW s, NEW outcome, JobEnds(u, s, outcome)
        PROVE  /\ erasing' \in [Owners -> [Processes -> ErasureState]]
               /\ \A o \in Owners, p \in Processes :
                    \/ erasing'[o][p] \in {erasing[o][p], "no"}
                    \/ erasing[o][p] = "draining" /\ erasing'[o][p] = "drained"
               /\ fenced' = fenced /\ wiped' = wiped
    BY <1>1, <1>2 DEF JobEnds, TypeInv, ErasureState
  <1>3. CASE erasing' = erasing /\ fenced' = fenced /\ wiped' = wiped
    BY <1>3 DEF TypeInv
  <1>4. QED
    BY <1>2, <1>3 DEF JobStep, JobBegins, JobTurnedAway, JobWithdrawn, JobPrepared, JobFails, Store,
       StoreFails, MarkFailed, MarkFails, MarkUnavailable, Requeue, CipherFails, RequeueFails,
       OnlyUploads

EraseControl(o, p) ==
  /\ erasing'[o][p] # "no" => erasing[o][p] # "no" \/ o \in fenced'
  /\ erasing'[o][p] = "locked" => erasing[o][p] = "locked" \/ EraseLock(o, p)
  /\ erasing'[o][p] = "cleared" => erasing[o][p] = "cleared" \/ EraseFiles(o, p)

Control ==
  /\ erasing' \in [Owners -> [Processes -> ErasureState]]
  /\ fenced \subseteq fenced'
  /\ \A o \in Owners, p \in Processes : EraseControl(o, p)
  /\ \/ fenced' = fenced /\ wiped' = wiped
     \/ \E o \in Owners, p \in Processes : EraseRows(o, p) \/ EraseFence(o, p)

LEMMA ControlSteps ==
  ASSUME TypeInv, Next
  PROVE  Control
  <1>0. erasing \in [Owners -> [Processes -> ErasureState]]
    BY DEF TypeInv
  <1>1. ASSUME NEW u \in Uploads, JobStep(u) \/ CipherFails(u) \/ RequeueFails(u)
        PROVE  Control
    BY <1>1, EraseJobs DEF Control, EraseControl
  <1>2. CASE erasing' = erasing /\ fenced' = fenced /\ wiped' = wiped
    BY <1>0, <1>2 DEF Control, EraseControl
  <1>3. ASSUME NEW u \in Uploads,
               \/ \E p \in Processes : SaveBegin(u, p)
               \/ HandlerStep(u) \/ ReindexStep(u) \/ Delete(u)
               \/ SaveFails(u) \/ CreateAnswerLost(u) \/ EnqueueFails(u)
        PROVE  Control
    BY <1>2, <1>3 DEF HandlerStep, ReindexStep, SaveBegin, SaveOpen, SaveEnd, CreateRow, Enqueue,
       Answer, TurnedAway, SaveFails, CreateAnswerLost, EnqueueFails, Delete, ReindexBegin,
       ReindexFails, ReindexStore, ReindexMark, ReindexDropped, OnlyUploads
  <1>4. ASSUME NEW p \in Processes, ProcessStep(p) \/ Stop(p)
        PROVE  Control
    BY <1>2, <1>4 DEF ProcessStep, Take, Exit, Start, Started, Stop
  <1>5. ASSUME NEW p \in Processes, Crash(p)
        PROVE  Control
    BY <1>0, <1>5 DEF Crash, Control, EraseControl, ErasureState
  <1>6. ASSUME NEW x \in Owners, Withdraw(x) \/ Sweep(x)
        PROVE  Control
    BY <1>2, <1>6 DEF Withdraw, Sweep
  <1>7. ASSUME NEW x \in Owners, NEW p \in Processes, EraseFence(x, p)
        PROVE  Control
    BY <1>0, <1>7 DEF EraseFence, Control, EraseControl, ErasureState
  <1>8. ASSUME NEW x \in Owners, NEW p \in Processes, EraseRows(x, p) \/ EraseAborts(x, p)
        PROVE  Control
    BY <1>0, <1>8 DEF EraseRows, EraseAborts, Control, EraseControl, ErasureState
  <1>9. ASSUME NEW x \in Owners, NEW p \in Processes,
               EraseDrain(x, p) \/ EraseLock(x, p) \/ EraseFiles(x, p)
        PROVE  Control
    <2>1. PICK pc \in {"draining", "drained", "locked", "cleared"} :
            /\ erasing[x][p] # "no" /\ erasing' = [erasing EXCEPT ![x][p] = pc]
            /\ pc = "locked" => EraseLock(x, p)
            /\ pc = "cleared" => EraseFiles(x, p)
      BY <1>9 DEF EraseDrain, EraseLock, EraseFiles, Moves
    <2>2. fenced' = fenced /\ wiped' = wiped
      BY <1>9 DEF EraseDrain, EraseLock, EraseFiles
    <2>3. QED
      BY <1>0, <2>1, <2>2 DEF Control, Control, EraseControl, ErasureState
  <1>10. QED
    BY <1>1, <1>3, <1>4, <1>5, <1>6, <1>7, <1>8, <1>9 DEF Next, Fault, EraseStep, JobStep

-----------------------------------------------------------------------------
(* The inductive invariant: an erasure that holds or has held the owner     *)
(* lock leaves no save behind that could still create an original, one that *)
(* has removed the files no original, and chunks go with their row.         *)
Quiet(u) ==
  LET o == OwnerOf[u] IN
  /\ upload[u].chunks => Row(upload[u])
  /\ \A p \in Processes :
       /\ erasing[o][p] # "no" => o \in fenced
       /\ erasing[o][p] = "locked" => ~Saving(upload[u])
       /\ erasing[o][p] = "cleared" => ~Original(upload[u])
  /\ o \in wiped => o \in fenced /\ ~Original(upload[u]) /\ ~Row(upload[u])

EraseInv == TypeInv /\ \A u \in Uploads : Quiet(u)

LEMMA EraseInvInit == Init => EraseInv
  BY ConstantsAssumption
  DEF Init, EraseInv, TypeInv, Quiet, NewUpload, UploadState, ErasureState, Row

LEMMA QuietStep ==
  ASSUME EraseInv, Next, NEW u \in Uploads
  PROVE  Quiet(u)'
  <1> DEFINE o == OwnerOf[u]
             s == upload[u]
             t == upload'[u]
  <1>0. o \in Owners /\ Quiet(u) /\ TypeInv
    BY ConstantsAssumption DEF EraseInv
  <1>1. Change(s, t, Admitted(u), ~LockedExclusive(o))
    BY <1>0, UploadSteps DEF UploadStep
  <1>2. Control /\ \A p \in Processes : EraseControl(o, p)
    BY <1>0, ControlSteps DEF Control
  <1>3. Admitted(u) <=> o \notin fenced
    BY DEF Admitted
  <1>4. t.chunks => Row(t)
    BY <1>0, <1>1 DEF Change, Quiet
  <1>5. ASSUME NEW p \in Processes, erasing'[o][p] # "no"
        PROVE  o \in fenced'
    BY <1>0, <1>2, <1>5 DEF Control, EraseControl, Quiet
  <1>6. ASSUME NEW p \in Processes, erasing'[o][p] = "locked"
        PROVE  ~Saving(t)
    <2>1. CASE erasing[o][p] = "locked"
      BY <1>0, <1>1, <1>3, <2>1 DEF Change, Quiet
    <2>2. CASE EraseLock(o, p)
      BY <2>2 DEF EraseLock, LockedShared, Saving
    <2>3. QED
      BY <1>2, <1>6, <2>1, <2>2 DEF EraseControl
  <1>7. ASSUME NEW p \in Processes, erasing'[o][p] = "cleared"
        PROVE  ~Original(t)
    <2>1. CASE erasing[o][p] = "cleared"
      BY <1>0, <1>1, <1>3, <2>1 DEF Change, Quiet
    <2>2. CASE EraseFiles(o, p)
      <3>1. t = Unlinked(s) /\ s \in UploadState
        BY <1>0, <2>2 DEF EraseFiles, TypeInv
      <3>2. ~Saving(s)
        BY <1>0, <2>2 DEF EraseFiles, Moves, Quiet
      <3>3. QED
        BY <3>1, <3>2 DEF Unlinked, UploadState, Original, Saving
    <2>3. QED
      BY <1>2, <1>7, <2>1, <2>2 DEF EraseControl
  <1>8. o \in wiped' => o \in fenced' /\ ~Original(t) /\ ~Row(t)
    <2>1. CASE o \in wiped
      BY <1>0, <1>1, <1>2, <1>3, <2>1 DEF Change, Quiet, Control
    <2>2. ASSUME o \notin wiped, NEW x \in Owners, NEW p \in Processes, EraseRows(x, p), o \in wiped'
          PROVE  o \in fenced' /\ ~Original(t) /\ ~Row(t)
      <3>1. x = o
        BY <2>2 DEF EraseRows
      <3>2. s \in UploadState /\ ~Original(s)
        BY <1>0, <2>2, <3>1 DEF EraseRows, Quiet, TypeInv
      <3>3. t = IF Row(s) THEN RowGone(s) ELSE s
        BY <2>2, <3>1 DEF EraseRows, HasRow, Row
      <3>4. QED
        BY <2>2, <3>1, <3>2, <3>3 DEF EraseRows, RowGone, UploadState, Original, Row
    <2>3. CASE o \notin wiped /\ wiped' = wiped
      BY <2>3
    <2>4. QED
      BY <1>2, <2>1, <2>2, <2>3 DEF Control, EraseFence
  <1>9. QED
    BY <1>4, <1>5, <1>6, <1>7, <1>8 DEF Quiet

LEMMA EraseInvStep == EraseInv /\ [Next]_vars => EraseInv'
  <1> SUFFICES ASSUME EraseInv, [Next]_vars
               PROVE  EraseInv'
    OBVIOUS
  <1>1. CASE UNCHANGED vars
    BY <1>1 DEF vars, EraseInv, TypeInv, Quiet, Row, Original, Saving
  <1>2. CASE Next
    <2>1. \A u \in Uploads : upload'[u] \in UploadState
      BY <1>2, UploadSteps DEF EraseInv, UploadStep, Change
    <2>2. upload' \in [Uploads -> UploadState]
      BY <1>2, <2>1, FormSteps DEF EraseInv
    <2>3. erasing' \in [Owners -> [Processes -> ErasureState]]
      BY <1>2, ControlSteps DEF EraseInv, Control
    <2>4. QED
      BY <1>2, <2>2, <2>3, QuietStep DEF EraseInv, TypeInv
  <1>3. QED
    BY <1>1, <1>2

THEOREM EraseInvHolds == Spec => []EraseInv
  BY EraseInvInit, EraseInvStep, PTL DEF Spec

(* Once erased: true is answered, no original, row or chunk of the owner    *)
(* exists or appears again, whichever handlers, jobs, reindexings and       *)
(* processes were under way and whatever fails.                             *)
THEOREM ErasedLeavesNothingHolds == Spec => []ErasedLeavesNothing
  <1>1. EraseInv => ErasedLeavesNothing
    BY DEF EraseInv, Quiet, ErasedLeavesNothing, Original, HasRow, Row
  <1>2. QED
    BY <1>1, EraseInvHolds, PTL

(* Uploads, originals and ingest jobs implement the account erasure of      *)
(* OwnerErasure: every step is a Use, a Close, an Erase or a stutter there. *)
THEOREM DocumentErasureImplements == Spec => ErasureImplemented
  <1>1. Init => Erasure!Init
    BY DEF Init, Erasure!Init, Held, HasOriginal, HasRow, NewUpload
  <1>2. EraseInv /\ [Next]_vars => [Erasure!Next]_Erasure!vars
    <2> SUFFICES ASSUME EraseInv, Next
                 PROVE  Erasure!Next
      BY DEF vars, Erasure!vars, Held, HasOriginal, HasRow
    <2>0. OwnerOf \in [Uploads -> Owners] /\ TypeInv /\ \A u \in Uploads : Quiet(u)
      BY ConstantsAssumption DEF EraseInv
    <2>1. ASSUME NEW i \in Held' \ Held
          PROVE  /\ i \in Kinds \X Uploads /\ i[2] \in Uploads
                 /\ OwnerOf[i[2]] \notin fenced
      <3>1. PICK u \in Uploads :
              /\ i \in {<<"original", u>>, <<"row", u>>, <<"chunks", u>>}
              /\ i[1] = "original" => Original(upload'[u]) /\ ~Original(upload[u])
              /\ i[1] = "row" => Row(upload'[u]) /\ ~Row(upload[u])
              /\ i[1] = "chunks" => upload'[u].chunks /\ ~upload[u].chunks
        BY <2>1 DEF Held, HasOriginal, HasRow, Original, Row
      <3>2. Change(upload[u], upload'[u], Admitted(u), ~LockedExclusive(OwnerOf[u]))
        BY <2>0, UploadSteps DEF UploadStep
      <3>3. QED
        BY <3>1, <3>2 DEF Change, Admitted, Kinds
    <2>2. ASSUME NEW o \in Owners, NEW p \in Processes, EraseRows(o, p)
          PROVE  Erasure!Erase(o)
      <3>1. Held' = {i \in Held : OwnerOf[i[2]] # o}
        <4>1. ASSUME NEW u \in Uploads, OwnerOf[u] = o
              PROVE  ~HasOriginal(u)' /\ ~HasRow(u)' /\ ~upload'[u].chunks
          <5>1. ~Original(upload[u]) /\ upload[u] \in UploadState
            BY <2>0, <2>2, <4>1 DEF EraseRows, Quiet, TypeInv
          <5>2. upload'[u] = IF HasRow(u) THEN RowGone(upload[u]) ELSE upload[u]
            BY <2>2, <4>1 DEF EraseRows
          <5>3. upload[u].chunks => HasRow(u)
            BY <2>0 DEF Quiet, Row, HasRow
          <5>4. QED
            BY <5>1, <5>2, <5>3 DEF RowGone, UploadState, Original, HasOriginal, HasRow
        <4>2. ASSUME NEW u \in Uploads, OwnerOf[u] # o
              PROVE  upload'[u] = upload[u]
          BY <2>2, <4>2 DEF EraseRows
        <4>3. QED
          BY <4>1, <4>2 DEF Held, HasOriginal, HasRow
      <3>2. \A i \in Held : i \in Kinds \X Uploads
        BY DEF Held, Kinds
      <3>3. QED
        BY <2>2, <3>1, <3>2 DEF EraseRows, Erasure!Erase
    <2>3. ASSUME NEW o \in Owners, NEW p \in Processes, EraseFence(o, p)
          PROVE  Erasure!Close(o)
      BY <2>3 DEF EraseFence, Erasure!Close, Held, HasOriginal, HasRow
    <2>4. CASE fenced' = fenced /\ wiped' = wiped
      <3>1. Held' \subseteq Kinds \X Uploads
        BY DEF Held, Kinds
      <3>2. QED
        BY <2>1, <2>4, <3>1 DEF Erasure!Next, Erasure!Use
    <2>5. QED
      BY <2>0, <2>2, <2>3, <2>4, ControlSteps DEF Control, Erasure!Next
  <1>3. QED
    BY <1>1, <1>2, EraseInvHolds, PTL DEF Spec, ErasureImplemented, Erasure!Spec
============================================================================
