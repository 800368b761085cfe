------------------------ MODULE WebpageErasureProofs ------------------------
(***************************************************************************)
(* What an account erasure promises about webpages, proved for every       *)
(* number of documents, owners and workers.                                *)
(***************************************************************************)
EXTENDS WebpageSyncProofs

(* Every operator on a row keeps its life-cycle state and, except for a     *)
(* publication, its chunks                                                  *)
LEMMA RowKept ==
  ASSUME NEW row \in PageRow
  PROVE  /\ \A auto \in BOOLEAN : /\ Scheduled(row, auto).row = row.row
                                  /\ Scheduled(row, auto).chunks = row.chunks
                                  /\ Cancelled(Scheduled(row, auto)).row = row.row
                                  /\ Cancelled(Scheduled(row, auto)).chunks = row.chunks
         /\ Requeued(row).row = row.row /\ Requeued(row).chunks = row.chunks
         /\ \A t, age : /\ Claimed(row, t, age).row = row.row
                        /\ Claimed(row, t, age).chunks = row.chunks
         /\ \A text : Published(row, text).row = row.row
         /\ FailedRow(row).row = row.row /\ FailedRow(row).chunks = row.chunks
         /\ Aged(row).row = row.row /\ Aged(row).chunks = row.chunks
  BY DEF PageRow, Scheduled, Cancelled, Unclaimed, Requeued, Claimed, Settled, Published,
         FailedRow, Aged

(* What one step may do to one row: leave it as it is to readers, create    *)
(* or publish it for an admitted owner, or remove it                        *)
SameToReaders(d) == page'[d].row = page[d].row /\ page'[d].chunks = page[d].chunks

RowStep(d) ==
  \/ SameToReaders(d)
  \/ Admitted(d) /\ Live(d)'
  \/ page'[d].row = "gone"

LEMMA RowSteps ==
  ASSUME WebpageInv, Next, NEW d \in Docs
  PROVE  RowStep(d)
  <1> USE DEF RowStep
  <1>0. page \in [Docs -> PageRow] /\ page[d] \in PageRow
    BY DEF WebpageInv, TypeOK
  <1>1. ASSUME NEW x \in Docs, NEW auto \in BOOLEAN, Create(x, auto)
        PROVE  RowStep(d)
    <2>1. CASE x = d
      BY <1>0, <1>1, <2>1 DEF Create, NewRow, Live
    <2>2. CASE x # d
      BY <1>0, <1>1, <2>2 DEF Create, SameToReaders
    <2>3. QED
      BY <2>1, <2>2
  <1>2. ASSUME NEW x \in Docs, Enqueue(x)
        PROVE  RowStep(d)
    BY <1>0, <1>2, RowKept DEF Enqueue, SameToReaders
  <1>3. ASSUME NEW x \in Docs, SetAutoSync(x)
        PROVE  RowStep(d)
    <2> DEFINE auto == ~page[x].auto
               row  == Scheduled(page[x], auto)
    <2>1. auto \in BOOLEAN /\ page[x] \in PageRow
      BY <1>0 DEF PageRow
    <2>2. /\ row.row = page[x].row /\ row.chunks = page[x].chunks
          /\ Cancelled(row).row = page[x].row /\ Cancelled(row).chunks = page[x].chunks
      BY <2>1, RowKept
    <2>3. \/ page' = [page EXCEPT ![x] = row]
          \/ page' = [page EXCEPT ![x] = Cancelled(row)]
      BY <1>3 DEF SetAutoSync
    <2>4. QED
      <3> HIDE DEF row
      <3> QED BY <1>0, <2>2, <2>3 DEF SameToReaders
  <1>4. ASSUME NEW x \in Docs, Delete(x)
        PROVE  RowStep(d)
    BY <1>0, <1>4 DEF Delete, SameToReaders, VacantRow, NewRow
  <1>5. ASSUME NEW w \in Workers, NEW x \in Docs, NEW t \in Tokens, Claim(w, x, t)
        PROVE  RowStep(d)
    BY <1>0, <1>5, RowKept DEF Claim, SameToReaders
  <1>6. ASSUME NEW w \in Workers, Finish(w)
        PROVE  RowStep(d)
    <2>1. CASE worker[w].doc = d
      <3>1. Admitted(d) /\ Live(d)
        BY <1>6, <2>1 DEF Finish, Publishable, Current
      <3>2. page'[d] = Published(page[d], worker[w].got)
        BY <1>0, <1>6, <2>1 DEF Finish
      <3>3. QED
        BY <1>0, <3>1, <3>2, RowKept DEF Live
    <2>2. CASE worker[w].doc # d
      BY <1>0, <1>6, <2>2 DEF Finish, SameToReaders
    <2>3. QED
      BY <2>1, <2>2
  <1>7. ASSUME NEW w \in Workers, Fail(w)
        PROVE  RowStep(d)
    BY <1>0, <1>7, RowKept DEF Fail, SameToReaders
  <1>8. ASSUME NEW o \in Owners, EraseRows(o)
        PROVE  RowStep(d)
    BY <1>0, <1>8 DEF EraseRows, SameToReaders, VacantRow, NewRow
  <1>9. CASE Tick
    BY <1>0, <1>9, RowKept DEF Tick, SameToReaders
  <1>10. CASE page' = page
    BY <1>10 DEF SameToReaders
  <1>11. CASE Request
    BY <1>1, <1>2, <1>3, <1>4, <1>11 DEF Request
  <1>12. ASSUME NEW w \in Workers, WorkerStep(w) \/ JobFails(w) \/ Fault(w)
         PROVE  RowStep(d)
    <2>1. \/ page' = page \/ Finish(w) \/ Fail(w)
          \/ \E x \in Docs, t \in Tokens : Claim(w, x, t)
      BY <1>12 DEF WorkerStep, JobFails, Fault, Scan, Begin, SkipCandidate, CheckFetch, Fetched,
                   Fingerprint, CheckEmbed, Embedded, CheckAdmission, FinishRefused, FailRefused,
                   StepFails, TimeoutFires, ClaimRaises, FinishRaises, FailRaises, Crash,
                   OnlyWorker
    <2>2. QED
      BY <1>5, <1>6, <1>7, <1>10, <2>1
  <1>13. ASSUME NEW o \in Owners, EraseFence(o) \/ EraseAbort(o) \/ EraseStep(o)
         PROVE  RowStep(d)
    BY <1>8, <1>10, <1>13 DEF EraseFence, EraseAbort, EraseStep, EraseDrain
  <1>14. ASSUME NEW x \in Docs, SiteChanges(x)
         PROVE  RowStep(d)
    BY <1>10, <1>14 DEF SiteChanges
  <1>15. QED
    BY <1>9, <1>11, <1>12, <1>13, <1>14 DEF Next, Disturbance, Calm

(* The fence and the record of what was wiped only grow, and an owner is    *)
(* wiped only in the transaction that fences the owner and empties the rows *)
LEMMA FenceSteps ==
  ASSUME Next
  PROVE  /\ fenced \subseteq fenced'
         /\ \/ wiped' = wiped
            \/ \E o \in Owners : EraseRows(o)
         /\ \/ fenced' = fenced /\ wiped' = wiped
            \/ \E o \in Owners : EraseRows(o) \/ EraseFence(o)
  BY DEF Next, Disturbance, Calm, Request, Create, Enqueue, SetAutoSync, Delete, OnlyRows,
         WorkerStep, JobFails, Fault, Scan, Begin, SkipCandidate, Claim, CheckFetch, Fetched,
         Fingerprint, CheckEmbed, Embedded, CheckAdmission, Finish, FinishRefused, Fail,
         FailRefused, StepFails, TimeoutFires, ClaimRaises, FinishRaises, FailRaises, Crash,
         OnlyWorker, EraseFence, EraseAbort, EraseStep, EraseDrain, EraseRows, SiteChanges, Tick

(* Once an owner's rows are deleted no worker, request or retry brings one  *)
(* back: the repository asserts the owner active under the owner's lock.    *)
THEOREM WipedStaysEmptyHolds == Spec => []WipedStaysEmpty
  <1>1. Init => WipedStaysEmpty
    BY DEF Init, WipedStaysEmpty
  <1>2. WebpageInv /\ WipedStaysEmpty /\ [Next]_vars => WipedStaysEmpty'
    <2> SUFFICES ASSUME WebpageInv, WipedStaysEmpty, [Next]_vars,
                        NEW d \in Docs, OwnerOf[d] \in wiped'
                 PROVE  OwnerOf[d] \in fenced' /\ ~Live(d)'
      BY DEF WipedStaysEmpty
    <2>1. CASE UNCHANGED vars
      BY <2>1 DEF vars, WipedStaysEmpty, Live
    <2>2. CASE Next /\ OwnerOf[d] \in wiped
      <3>1. OwnerOf[d] \in fenced /\ ~Live(d)
        BY <2>2 DEF WipedStaysEmpty
      <3>2. RowStep(d)
        BY <2>2, RowSteps
      <3>3. ~Live(d)'
        BY <3>1, <3>2 DEF RowStep, SameToReaders, Admitted, Live
      <3>4. QED
        BY <2>2, <3>1, <3>3, FenceSteps
    <2>3. CASE Next /\ OwnerOf[d] \notin wiped
      <3>1. PICK o \in Owners : EraseRows(o)
        BY <2>3, FenceSteps
      <3>2. o = OwnerOf[d]
        BY <2>3, <3>1 DEF EraseRows
      <3>3. ~Live(d)'
        BY <3>1, <3>2 DEF EraseRows, Erasable, Live, VacantRow, NewRow
      <3>4. QED
        BY <3>1, <3>2, <3>3 DEF EraseRows
    <2>4. QED
      BY <2>1, <2>2, <2>3
  <1>3. QED
    BY <1>1, <1>2, Inductive, PTL DEF Spec

(* After the fence nothing is published for the owner: claim_is_current and *)
(* _complete look at the fence in the transaction that would publish.       *)
THEOREM NothingPublishedAfterFenceHolds == Spec => NothingPublishedAfterFence
  <1> DEFINE Kept == \A d \in Docs : ~Admitted(d) =>
               page'[d].chunks = page[d].chunks \/ page'[d].row = "gone"
  <1>1. WebpageInv /\ [Next]_vars => [Kept]_vars
    <2>1. WebpageInv /\ Next => Kept
      BY RowSteps DEF RowStep, SameToReaders
    <2>2. QED
      BY <2>1
  <1>2. QED
    BY <1>1, Inductive, PTL DEF Spec, NothingPublishedAfterFence

(* The webpage rows, claims and workers implement the account erasure of    *)
(* OwnerErasure: each step is a Use, a Close, an Erase or a stutter there.  *)
THEOREM WebpageErasureImplements == Spec => ErasureImplemented
  <1> DEFINE held == {d \in Docs : Live(d)}
  <1>1. Init => Erasure!Init
    BY DEF Init, Erasure!Init, Live, VacantRow, NewRow
  <1>2. WebpageInv /\ [Next]_vars => [Erasure!Next]_Erasure!vars
    <2> SUFFICES ASSUME WebpageInv, Next
                 PROVE  Erasure!Next
      BY DEF vars, Erasure!vars, Live
    <2>1. ASSUME NEW o \in Owners, EraseRows(o)
          PROVE  Erasure!Erase(o)
      <3>1. held' = {d \in held : OwnerOf[d] # o}
        BY <2>1 DEF EraseRows, Erasable, Live, VacantRow, NewRow
      <3>2. QED
        BY <2>1, <3>1 DEF EraseRows, Erasure!Erase
    <2>2. ASSUME NEW o \in Owners, EraseFence(o)
          PROVE  Erasure!Close(o)
      BY <2>2 DEF EraseFence, Erasure!Close, Live
    <2>3. CASE fenced' = fenced /\ wiped' = wiped
      <3>1. \A d \in held' \ held : OwnerOf[d] \notin fenced
        BY RowSteps DEF RowStep, SameToReaders, Admitted, Live
      <3>2. QED
        BY <2>3, <3>1 DEF Erasure!Next, Erasure!Use
    <2>4. QED
      BY <2>1, <2>2, <2>3, FenceSteps DEF Erasure!Next
  <1>3. QED
    BY <1>1, <1>2, Inductive, PTL DEF Spec, ErasureImplemented, Erasure!Spec

-----------------------------------------------------------------------------
(* What one step may do to one worker and its process's drained owners: put *)
(* it to rest, give it a claim not begun, let it go on, or begin a claim    *)
(* whose owner is not drained                                               *)
Drained(w) == IF worker[w].doc \in Docs THEN OwnerOf[worker[w].doc] \in marked[w] ELSE FALSE

MarkedSame(w) == marked'[w] = marked[w]

StepOf(w) ==
  \/ worker'[w].doc = NoDoc
  \/ worker'[w].pc = "claimed" /\ MarkedSame(w)
  \/ worker'[w].doc = worker[w].doc /\ worker[w].pc # "claimed" /\ MarkedSame(w)
  \/ worker'[w].doc = worker[w].doc /\ ~Drained(w) /\ MarkedSame(w)
  \/ \E o \in Owners : EraseDrain(o, w)

LEMMA MemoryUpdates ==
  ASSUME WebpageInv, NEW w \in Workers, NEW v \in Workers,
         \/ Scan(v) \/ CheckFetch(v) \/ Fetched(v) \/ Fingerprint(v) \/ CheckEmbed(v)
         \/ Embedded(v) \/ Finish(v) \/ JobFails(v) \/ FinishRaises(v)
  PROVE  \/ worker'[w].doc = NoDoc
         \/ worker'[w] = worker[w]
         \/ worker'[w].doc = worker[w].doc /\ worker[w].pc # "claimed"
  <1>1. worker \in [Workers -> WorkerState] /\ worker[v] \in WorkerState
    BY DEF WebpageInv, TypeOK
  <1>2. CASE v # w
    BY <1>1, <1>2 DEF Scan, CheckFetch, Fetched, Fingerprint, CheckEmbed, Embedded, Finish,
       JobFails, StepFails, TimeoutFires, FinishRaises, CheckAdmission, Goto, Drop
  <1>3. CASE v = w /\ Drop(v)
    BY <1>1, <1>3 DEF Drop, IdleWorker
  <1>4. CASE v = w /\ ~Drop(v)
    <2>1. worker[v].pc # "claimed"
      BY <1>4 DEF Scan, CheckFetch, Fetched, Fingerprint, CheckEmbed, Embedded, Finish,
         JobFails, StepFails, TimeoutFires, FinishRaises, CheckAdmission, Timed, TimedPCs
    <2>2. worker'[v].doc = worker[v].doc
      BY <1>1, <1>4 DEF WorkerState, Scan, CheckFetch, Fetched, Fingerprint, CheckEmbed,
         Embedded, Finish, JobFails, StepFails, TimeoutFires, FinishRaises, CheckAdmission, Goto
    <2>3. QED
      BY <1>4, <2>1, <2>2
  <1>5. QED
    BY <1>2, <1>3, <1>4

LEMMA WorkerSteps ==
  ASSUME WebpageInv, Next, NEW w \in Workers
  PROVE  StepOf(w) \/ (worker'[w].doc = worker[w].doc /\ worker'[w].pc = worker[w].pc /\ MarkedSame(w))
  <1> DEFINE Goal == \/ StepOf(w)
                     \/ /\ worker'[w].doc = worker[w].doc /\ worker'[w].pc = worker[w].pc
                        /\ MarkedSame(w)
  <1>0. /\ worker \in [Workers -> WorkerState] /\ worker[w] \in WorkerState
        /\ marked \in [Workers -> SUBSET Owners]
    BY DEF WebpageInv, TypeOK
  <1>1. CASE worker' = worker /\ marked' = marked
    BY <1>1 DEF MarkedSame
  <1>2. ASSUME NEW v \in Workers, Drop(v), marked' = marked \/ marked' = [marked EXCEPT ![v] = {}]
        PROVE  Goal
    BY <1>0, <1>2 DEF Drop, IdleWorker, StepOf, MarkedSame
  <1>3. ASSUME NEW v \in Workers, marked' = marked,
               \/ Scan(v) \/ CheckFetch(v) \/ Fetched(v) \/ Fingerprint(v) \/ CheckEmbed(v)
               \/ Embedded(v) \/ Finish(v) \/ JobFails(v) \/ FinishRaises(v)
        PROVE  Goal
    BY <1>3, MemoryUpdates DEF StepOf, MarkedSame
  <1>4. ASSUME NEW v \in Workers, Begin(v)
        PROVE  Goal
    <2>1. CASE Drop(v)
      BY <1>2, <1>4, <2>1 DEF Begin, OnlyWorker
    <2>2. CASE ~Drop(v)
      <3>1. worker[v].doc \in Docs
        BY <1>4, ClaimedDoc DEF Begin, WebpageInv
      <3>2. OwnerOf[worker[v].doc] \notin marked[v] /\ StartJob(v) /\ marked' = marked
        BY <1>4, <2>2 DEF Begin, OnlyWorker
      <3>3. CASE v = w
        BY <1>0, <3>1, <3>2, <3>3 DEF StartJob, StepOf, Drained, MarkedSame, WorkerState
      <3>4. CASE v # w
        BY <1>0, <3>2, <3>4 DEF StartJob, MarkedSame
      <3>5. QED
        BY <3>3, <3>4
    <2>3. QED
      BY <2>1, <2>2
  <1>5. ASSUME NEW v \in Workers, NEW d \in Docs, NEW t \in Tokens, Claim(v, d, t)
        PROVE  Goal
    BY <1>0, <1>5 DEF Claim, IdleWorker, StepOf, MarkedSame
  <1>6. ASSUME NEW v \in Workers, NEW o \in Owners, EraseDrain(o, v)
        PROVE  Goal
    <2>1. CASE v = w
      BY <1>6, <2>1 DEF StepOf
    <2>2. CASE v # w
      BY <1>0, <1>6, <2>2 DEF EraseDrain, Drop, MarkedSame
    <2>3. QED
      BY <2>1, <2>2
  <1>7. CASE Tick
    BY <1>0, <1>7 DEF Tick, MarkedSame, WorkerState
  <1>8. ASSUME NEW v \in Workers, WorkerStep(v) \/ JobFails(v) \/ Fault(v)
        PROVE  Goal
    <2>1. CASE \E d \in Docs : SkipCandidate(v, d)
      BY <1>1, <1>2, <2>1 DEF SkipCandidate, OnlyWorker
    <2>2. CASE Fail(v) \/ FinishRefused(v) \/ FailRefused(v) \/ ClaimRaises(v) \/ FailRaises(v) \/ Crash(v)
      BY <1>2, <2>2 DEF Fail, FinishRefused, FailRefused, ClaimRaises, FailRaises, Crash, OnlyWorker
    <2>3. CASE \/ Scan(v) \/ CheckFetch(v) \/ Fetched(v) \/ Fingerprint(v) \/ CheckEmbed(v)
               \/ Embedded(v) \/ Finish(v) \/ JobFails(v) \/ FinishRaises(v)
      <3>1. marked' = marked
        BY <2>3 DEF Scan, CheckFetch, Fetched, Fingerprint, CheckEmbed, Embedded, Finish,
           JobFails, StepFails, TimeoutFires, FinishRaises, CheckAdmission, OnlyWorker
      <3>2. QED
        BY <1>3, <2>3, <3>1
    <2>4. QED
      BY <1>4, <1>5, <1>8, <2>1, <2>2, <2>3 DEF WorkerStep, Fault
  <1>9. CASE Request
    BY <1>1, <1>9 DEF Request, Create, Enqueue, SetAutoSync, Delete, OnlyRows
  <1>10. ASSUME NEW o \in Owners, EraseFence(o) \/ EraseAbort(o) \/ EraseStep(o)
         PROVE  Goal
    <2>1. CASE EraseFence(o) \/ EraseAbort(o) \/ EraseRows(o)
      BY <1>1, <2>1 DEF EraseFence, EraseAbort, EraseRows
    <2>2. QED
      BY <1>6, <1>10, <2>1 DEF EraseStep
  <1>11. ASSUME NEW x \in Docs, SiteChanges(x)
         PROVE  Goal
    BY <1>1, <1>11 DEF SiteChanges
  <1>12. QED
    BY <1>7, <1>8, <1>9, <1>10, <1>11 DEF Next, Disturbance, Calm

(* A process that has drained an owner never fetches or embeds for that     *)
(* owner: erase_user marks the owner before it looks for the active task,   *)
(* and process looks at the mark before it starts one.                      *)
THEOREM DrainedStaysIdleHolds == Spec => []DrainedStaysIdle
  <1>1. Init => DrainedStaysIdle
    BY DEF Init, DrainedStaysIdle
  <1>2. WebpageInv /\ DrainedStaysIdle /\ [Next]_vars => DrainedStaysIdle'
    <2> SUFFICES ASSUME WebpageInv, DrainedStaysIdle, [Next]_vars,
                        NEW w \in Workers, NEW d \in Docs,
                        worker'[w].doc = d, OwnerOf[d] \in marked'[w]
                 PROVE  worker'[w].pc = "claimed"
      BY DEF DrainedStaysIdle
    <2>0. worker'[w].doc # NoDoc
      BY ConstantsAssumption
    <2>1. CASE /\ worker'[w].doc = worker[w].doc /\ worker'[w].pc = worker[w].pc
               /\ MarkedSame(w)
      BY <2>1 DEF MarkedSame, DrainedStaysIdle
    <2>2. CASE worker'[w].pc = "claimed"
      BY <2>2
    <2>3. CASE worker'[w].doc = worker[w].doc /\ worker[w].pc # "claimed" /\ MarkedSame(w)
      BY <2>3 DEF MarkedSame, DrainedStaysIdle
    <2>4. CASE worker'[w].doc = worker[w].doc /\ ~Drained(w) /\ MarkedSame(w)
      BY <2>4 DEF MarkedSame, Drained
    <2>5. ASSUME NEW o \in Owners, EraseDrain(o, w)
          PROVE  worker'[w].pc = "claimed"
      <3>1. worker \in [Workers -> WorkerState] /\ marked \in [Workers -> SUBSET Owners]
        BY DEF WebpageInv, TypeOK
      <3>2. ~Drop(w)
        BY <2>0, <3>1 DEF Drop, IdleWorker
      <3>3. worker' = worker /\ marked'[w] = marked[w] \cup {o}
        BY <2>5, <3>1, <3>2 DEF EraseDrain
      <3>4. ~(OwnerOf[d] = o /\ worker[w].pc # "claimed")
        BY <2>5, <3>2, <3>3 DEF EraseDrain
      <3>5. QED
        BY <3>3, <3>4 DEF DrainedStaysIdle
    <2>6. CASE UNCHANGED vars
      BY <2>6 DEF vars, DrainedStaysIdle
    <2>7. QED
      BY <2>0, <2>1, <2>2, <2>3, <2>4, <2>5, <2>6, WorkerSteps DEF StepOf
  <1>3. QED
    BY <1>1, <1>2, Inductive, PTL DEF Spec
============================================================================
