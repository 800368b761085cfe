------------------------- MODULE WebpageSyncProofs -------------------------
(***************************************************************************)
(* Proofs about WebpageSync, for every set of documents, owners, workers   *)
(* and tokens and every lease, deadline and interval.                      *)
(***************************************************************************)
EXTENDS WebpageSync, SequenceTheorems, TLAPS

LEMMA Numbers ==
  /\ UrlCount \in Nat /\ UrlCount > 0 /\ BatchCount \in Nat /\ BatchCount > 0
  /\ Lease \in Nat /\ JobTimeout \in Nat /\ SyncInterval \in Nat /\ MaxVersion \in Nat
  /\ ClaimTime \in Nat
  BY ConstantsAssumption

LEMMA Bounds ==
  /\ 0 \in 0 .. Lease + 1 /\ 0 \in 0 .. SyncInterval /\ SyncInterval \in 0 .. SyncInterval
  /\ 0 \in 0 .. ClaimTime + JobTimeout /\ 0 \in 0 .. BatchCount /\ 0 \in 0 .. MaxVersion
  BY Numbers

LEMMA NoTextType == NoText \in Texts
  BY DEF NoText, Texts

(* What the row operators return *)
LEMMA NewRowType == \A auto \in BOOLEAN : NewRow(auto) \in PageRow
  BY NoTextType, Bounds DEF NewRow, PageRow, NoTime

LEMMA VacantRowType ==
  ASSUME NEW s \in {"absent", "live", "gone"}
  PROVE  VacantRow(s) \in PageRow
  <1>1. NewRow(FALSE) \in PageRow
    BY NewRowType
  <1>2. QED
    BY <1>1 DEF VacantRow, PageRow

LEMMA UnclaimedType ==
  ASSUME NEW row \in PageRow, NEW s \in {"idle", "queued", "running", "failed"}
  PROVE  Unclaimed(row, s) \in PageRow
  BY Bounds DEF Unclaimed, PageRow

LEMMA ScheduledType ==
  ASSUME NEW row \in PageRow, NEW auto \in BOOLEAN
  PROVE  /\ Scheduled(row, auto) \in PageRow
         /\ auto => Scheduled(row, auto).next # NoTime
  <1>1. NextAfter(row.checked) \in 0 .. SyncInterval
    BY Numbers DEF NextAfter, PageRow, NoTime
  <1>2. Scheduled(row, auto) \in PageRow
    BY <1>1 DEF Scheduled, PageRow
  <1>3. auto => Scheduled(row, auto).next = NextAfter(row.checked)
    BY DEF Scheduled, PageRow
  <1>4. QED
    BY <1>1, <1>2, <1>3, Numbers DEF NoTime

LEMMA SettledType ==
  ASSUME NEW row \in PageRow, NEW s \in {"idle", "queued", "running", "failed"}
  PROVE  Settled(row, s) \in PageRow
  <1>1. Unclaimed(row, s) \in PageRow
    BY UnclaimedType
  <1>2. QED
    BY <1>1, Bounds DEF Settled, PageRow, NoTime

LEMMA ClaimedType ==
  ASSUME NEW row \in PageRow, NEW t \in Tokens, NEW age \in ClaimAges
  PROVE  Claimed(row, t, age) \in PageRow
  <1>1. age \in 0 .. Lease + 1
    BY Numbers DEF ClaimAges
  <1>2. QED
    BY <1>1 DEF Claimed, PageRow

LEMMA PublishedType ==
  ASSUME NEW row \in PageRow, NEW text \in Texts
  PROVE  Published(row, text) \in PageRow
  <1>1. Settled(row, "idle") \in PageRow
    BY SettledType
  <1>2. QED
    BY <1>1 DEF Published, PageRow

LEMMA FailedRowType ==
  ASSUME NEW row \in PageRow
  PROVE  FailedRow(row) \in PageRow
  <1>1. Settled(row, "failed") \in PageRow
    BY SettledType
  <1>2. QED
    BY <1>1 DEF FailedRow, PageRow

LEMMA AgedType ==
  ASSUME NEW row \in PageRow
  PROVE  Aged(row) \in PageRow
  <1>1. AtMost(Lease + 1, row.claimAge + 1) \in 0 .. Lease + 1
    BY Numbers DEF AtMost, PageRow
  <1>2. Sooner(row.next) \in {NoTime} \cup (0 .. SyncInterval)
    BY Numbers DEF Sooner, PageRow, NoTime
  <1>3. Older(row.checked) \in {NoTime} \cup (0 .. SyncInterval)
    BY Numbers DEF Older, AtMost, PageRow, NoTime
  <1>4. QED
    BY <1>1, <1>2, <1>3 DEF Aged, PageRow

-----------------------------------------------------------------------------
(* The row invariants, as a predicate on one row, and the operators that    *)
(* keep it                                                                  *)
RowFits(row) ==
  /\ row.sync = "running" <=> row.token # NoToken
  /\ ~row.auto => row.next = NoTime
  /\ row.row = "live" =>
       /\ row.content = row.hash /\ row.chunks = row.hash
       /\ row.status = "ready" <=> row.hash # NoText
       /\ row.status = "processing" =>
            row.sync \in {"queued", "running"} /\ row.reason # "automatic"
       /\ row.auto /\ row.sync \notin {"queued", "running"} => row.next # NoTime

LEMMA NewRowFits ==
  /\ \A auto \in BOOLEAN : RowFits(NewRow(auto))
  /\ \A s \in {"absent", "gone"} : RowFits(VacantRow(s))
  BY DEF RowFits, NewRow, VacantRow

LEMMA RequeuedFits ==
  ASSUME NEW row \in PageRow, RowFits(row)
  PROVE  Requeued(row) \in PageRow /\ RowFits(Requeued(row))
  <1>1. Unclaimed(row, "queued") \in PageRow
    BY UnclaimedType
  <1>2. Requeued(row) \in PageRow
    <2> DEFINE free   == Unclaimed(row, "queued")
               status == IF row.hash = NoText THEN "processing" ELSE free.status
    <2>1. status \in {"processing", "ready", "failed"}
      BY <1>1 DEF PageRow
    <2>2. Requeued(row) = [free EXCEPT !.reason = "manual", !.status = status]
      BY <1>1 DEF Requeued, PageRow
    <2> HIDE DEF free, status
    <2>3. free \in PageRow
      BY <1>1 DEF free
    <2>4. QED
      BY <2>1, <2>2, <2>3 DEF PageRow
  <1>3. RowFits(Requeued(row))
    BY DEF RowFits, Requeued, Unclaimed, PageRow
  <1>4. QED
    BY <1>2, <1>3

LEMMA ScheduledFits ==
  ASSUME NEW row \in PageRow, RowFits(row), NEW auto \in BOOLEAN
  PROVE  RowFits(Scheduled(row, auto))
  <1>1. auto => Scheduled(row, auto).next # NoTime
    BY ScheduledType
  <1>2. QED
    BY <1>1 DEF RowFits, Scheduled, PageRow

LEMMA CancelledFits ==
  ASSUME NEW row \in PageRow, RowFits(row), ~row.auto, IsAutomaticWork(row)
  PROVE  Cancelled(row) \in PageRow /\ RowFits(Cancelled(row))
  <1>1. Cancelled(row) \in PageRow
    BY UnclaimedType DEF Cancelled
  <1>2. RowFits(Cancelled(row))
    BY DEF RowFits, IsAutomaticWork, Cancelled, Unclaimed, PageRow
  <1>3. QED
    BY <1>1, <1>2

LEMMA ClaimedFits ==
  ASSUME NEW row \in PageRow, RowFits(row), NEW t \in Tokens, NEW age
  PROVE  RowFits(Claimed(row, t, age))
  <1>1. t # NoToken
    BY ConstantsAssumption
  <1>2. QED
    BY <1>1 DEF RowFits, Claimed, PageRow

LEMMA SettledFields ==
  ASSUME NEW row \in PageRow, NEW s \in {"idle", "failed"}
  PROVE  /\ Settled(row, s).sync = s /\ Settled(row, s).token = NoToken
         /\ Settled(row, s).auto = row.auto /\ Settled(row, s).row = row.row
         /\ row.auto => Settled(row, s).next # NoTime
         /\ ~row.auto => Settled(row, s).next = NoTime
         /\ Settled(row, s).content = row.content /\ Settled(row, s).hash = row.hash
         /\ Settled(row, s).chunks = row.chunks /\ Settled(row, s).status = row.status
  BY Numbers DEF Settled, Unclaimed, PageRow, NoTime

LEMMA PublishedFits ==
  ASSUME NEW row \in PageRow, NEW text \in Texts, text # NoText
  PROVE  RowFits(Published(row, text))
  <1>1. Settled(row, "idle") \in PageRow
    BY SettledType
  <1>2. QED
    BY <1>1, SettledFields DEF RowFits, Published, PageRow

LEMMA FailedRowFits ==
  ASSUME NEW row \in PageRow, RowFits(row)
  PROVE  RowFits(FailedRow(row))
  <1>1. Settled(row, "failed") \in PageRow
    BY SettledType
  <1>2. QED
    BY <1>1, SettledFields DEF RowFits, FailedRow, PageRow

LEMMA AgedFits ==
  ASSUME NEW row \in PageRow, RowFits(row)
  PROVE  RowFits(Aged(row))
  <1>1. Sooner(row.next) = NoTime <=> row.next = NoTime
    BY DEF Sooner, NoTime, PageRow
  <1>2. QED
    BY <1>1 DEF RowFits, Aged, PageRow

-----------------------------------------------------------------------------
(* The inductive invariant: every variable is typed, every row fits, and    *)
(* what each worker remembers fits its control state                        *)
RowsFit == \A d \in Docs : RowFits(page[d])

WebpageInv == TypeOK /\ InFlightOK /\ RowsFit

(* Updating one row, or one worker's memory *)
LEMMA OneRow ==
  ASSUME TypeOK, RowsFit, NEW d \in Docs, NEW row \in PageRow, RowFits(row),
         page' = [page EXCEPT ![d] = row]
  PROVE  page' \in [Docs -> PageRow] /\ RowsFit'
  BY DEF TypeOK, RowsFit

LEMMA OneWorker ==
  ASSUME TypeOK, InFlightOK, NEW w \in Workers, NEW state \in WorkerState, InFlight(state),
         worker' = [worker EXCEPT ![w] = state]
  PROVE  worker' \in [Workers -> WorkerState] /\ InFlightOK'
  BY DEF TypeOK, InFlightOK

LEMMA IdleWorkerType == IdleWorker \in WorkerState /\ InFlight(IdleWorker)
  BY NoTextType, Bounds DEF IdleWorker, WorkerState, InFlight, TimedPCs

LEMMA DropOne ==
  ASSUME TypeOK, InFlightOK, NEW w \in Workers, Drop(w)
  PROVE  worker' \in [Workers -> WorkerState] /\ InFlightOK'
  BY OneWorker, IdleWorkerType DEF Drop

LEMMA GotoOne ==
  ASSUME TypeOK, InFlightOK, NEW w \in Workers,
         NEW pc \in {"fetch", "fetching", "embedding", "finish", "failing"},
         worker[w].pc \notin {"idle", "claiming"},
         pc = "embedding" => worker[w].pc = "embed",
         pc = "finish" => worker[w].got # NoText,
         Goto(w, pc)
  PROVE  worker' \in [Workers -> WorkerState] /\ InFlightOK'
  <1> DEFINE state == [worker[w] EXCEPT !.pc = pc]
  <1>1. worker[w] \in WorkerState /\ InFlight(worker[w])
    BY DEF TypeOK, InFlightOK
  <1>2. state \in WorkerState
    BY <1>1 DEF WorkerState, TimedPCs
  <1>3. InFlight(state)
    BY <1>1 DEF InFlight, WorkerState
  <1>4. worker' = [worker EXCEPT ![w] = state]
    BY DEF Goto
  <1>5. QED
    BY <1>2, <1>3, <1>4, OneWorker

(* The claimed document of a worker that is past its claim *)
LEMMA ClaimedDoc ==
  ASSUME TypeOK, InFlightOK, NEW w \in Workers, worker[w].pc \notin {"idle", "claiming"}
  PROVE  worker[w].doc \in Docs
  BY DEF TypeOK, InFlightOK, InFlight, WorkerState

-----------------------------------------------------------------------------
(* Requests keep the invariant *)
LEMMA RequestStep == WebpageInv /\ Request => WebpageInv'
  <1> SUFFICES ASSUME WebpageInv, Request
               PROVE  WebpageInv'
    OBVIOUS
  <1> USE DEF WebpageInv
  <1>0. SUFFICES page' \in [Docs -> PageRow] /\ RowsFit'
    BY DEF Request, Create, Enqueue, SetAutoSync, Delete, OnlyRows, TypeOK, InFlightOK
  <1>1. ASSUME NEW d \in Docs, NEW auto \in BOOLEAN, Create(d, auto)
        PROVE  page' \in [Docs -> PageRow] /\ RowsFit'
    BY <1>1, OneRow, NewRowType, NewRowFits DEF Create
  <1>2. ASSUME NEW d \in Docs, Enqueue(d)
        PROVE  page' \in [Docs -> PageRow] /\ RowsFit'
    <2>1. page[d] \in PageRow /\ RowFits(page[d])
      BY DEF TypeOK, RowsFit
    <2>2. Requeued(page[d]) \in PageRow /\ RowFits(Requeued(page[d]))
      BY <2>1, RequeuedFits
    <2>3. QED
      BY <1>2, <2>2, OneRow DEF Enqueue
  <1>3. ASSUME NEW d \in Docs, SetAutoSync(d)
        PROVE  page' \in [Docs -> PageRow] /\ RowsFit'
    <2> DEFINE auto == ~page[d].auto
               row  == Scheduled(page[d], auto)
               new  == IF ~auto /\ IsAutomaticWork(row) THEN Cancelled(row) ELSE row
    <2>1. page[d] \in PageRow /\ RowFits(page[d]) /\ auto \in BOOLEAN
      BY DEF TypeOK, RowsFit, PageRow
    <2>2. row \in PageRow /\ RowFits(row)
      BY <2>1, ScheduledType, ScheduledFits
    <2>3. row.auto = auto
      BY <2>1 DEF Scheduled, PageRow
    <2>4. new \in PageRow /\ RowFits(new)
      <3> HIDE DEF row, auto
      <3>1. CASE ~auto /\ IsAutomaticWork(row)
        BY <2>2, <2>3, <3>1, CancelledFits
      <3>2. CASE ~(~auto /\ IsAutomaticWork(row))
        BY <2>2, <3>2
      <3>3. QED
        BY <3>1, <3>2
    <2>5. page' = [page EXCEPT ![d] = new]
      BY <1>3 DEF SetAutoSync
    <2>6. QED
      <3> HIDE DEF new
      <3> QED BY <2>4, <2>5, OneRow
  <1>4. ASSUME NEW d \in Docs, Delete(d)
        PROVE  page' \in [Docs -> PageRow] /\ RowsFit'
    BY <1>4, OneRow, VacantRowType, NewRowFits DEF Delete
  <1>5. QED
    BY <1>1, <1>2, <1>3, <1>4 DEF Request

-----------------------------------------------------------------------------
(* Steps that change nothing but a worker's memory keep the invariant *)
LEMMA MemoryStep ==
  ASSUME WebpageInv, OnlyWorker, worker' \in [Workers -> WorkerState] /\ InFlightOK'
  PROVE  WebpageInv'
  BY DEF WebpageInv, TypeOK, RowsFit, OnlyWorker

LEMMA ScanStep ==
  ASSUME WebpageInv, NEW w \in Workers, Scan(w)
  PROVE  WebpageInv'
  <1> DEFINE state == [worker[w] EXCEPT !.pc = "claiming"]
  <1>1. state \in WorkerState /\ InFlight(state)
    BY DEF WebpageInv, TypeOK, InFlightOK, InFlight, Scan, WorkerState
  <1>2. worker' = [worker EXCEPT ![w] = state]
    BY DEF Scan
  <1>3. QED
    BY <1>1, <1>2, OneWorker, MemoryStep DEF WebpageInv, Scan

LEMMA DropStep ==
  ASSUME WebpageInv, NEW w \in Workers, Drop(w), OnlyWorker
  PROVE  WebpageInv'
  BY DropOne, MemoryStep DEF WebpageInv

LEMMA SkipStep ==
  ASSUME WebpageInv, NEW w \in Workers, NEW d \in Docs, SkipCandidate(w, d)
  PROVE  WebpageInv'
  <1>1. CASE Tail(cands[w]) = << >>
    BY <1>1, DropStep DEF SkipCandidate
  <1>2. CASE Tail(cands[w]) # << >>
    BY <1>2, MemoryStep DEF SkipCandidate, WebpageInv, TypeOK, InFlightOK
  <1>3. QED
    BY <1>1, <1>2

LEMMA GotoStep ==
  ASSUME WebpageInv, NEW w \in Workers,
         NEW pc \in {"fetch", "fetching", "embedding", "finish", "failing"},
         worker[w].pc \notin {"idle", "claiming"},
         pc = "embedding" => worker[w].pc = "embed",
         pc = "finish" => worker[w].got # NoText,
         Goto(w, pc), OnlyWorker
  PROVE  WebpageInv'
  BY GotoOne, MemoryStep DEF WebpageInv

LEMMA AdmissionStep ==
  ASSUME WebpageInv, NEW w \in Workers, Begin(w) \/ CheckFetch(w) \/ CheckEmbed(w)
  PROVE  WebpageInv'
  <1>1. CASE Drop(w) /\ OnlyWorker
    BY <1>1, DropStep
  <1>2. CASE worker[w].pc = "claimed" /\ StartJob(w) /\ OnlyWorker
    <2> DEFINE state == [worker[w] EXCEPT !.pc = "fetch", !.age = 0]
    <2>1. worker[w] \in WorkerState /\ InFlight(worker[w])
      BY DEF WebpageInv, TypeOK, InFlightOK
    <2>2. state \in WorkerState
      BY <2>1, Bounds DEF WorkerState, TimedPCs
    <2>3. InFlight(state)
      BY <1>2, <2>1 DEF InFlight, WorkerState
    <2>4. worker' = [worker EXCEPT ![w] = state]
      BY <1>2, <2>1 DEF StartJob
    <2>5. QED
      BY <1>2, <2>2, <2>3, <2>4, OneWorker, MemoryStep DEF WebpageInv
  <1>3. CASE worker[w].pc = "fetch" /\ Goto(w, "fetching") /\ OnlyWorker
    BY <1>3, GotoStep
  <1>4. CASE worker[w].pc = "embed" /\ Goto(w, "embedding") /\ OnlyWorker
    BY <1>4, GotoStep
  <1>5. QED
    BY <1>1, <1>2, <1>3, <1>4 DEF Begin, CheckFetch, CheckEmbed, CheckAdmission

LEMMA FetchedStep ==
  ASSUME WebpageInv, NEW w \in Workers, Fetched(w)
  PROVE  WebpageInv'
  <1> DEFINE text == Append(worker[w].got, site[worker[w].doc])
             next == IF Len(worker[w].got) + 1 = UrlCount THEN "digest" ELSE "fetch"
             state == [worker[w] EXCEPT !.got = text, !.pc = next]
  <1>1. worker[w] \in WorkerState /\ InFlight(worker[w]) /\ worker[w].pc = "fetching"
    BY DEF WebpageInv, TypeOK, InFlightOK, Fetched
  <1>2. worker[w].doc \in Docs
    BY <1>1, ClaimedDoc DEF WebpageInv
  <1>3. worker[w].got \in Seq(0 .. MaxVersion) /\ site[worker[w].doc] \in 0 .. MaxVersion
    BY <1>1, <1>2 DEF WorkerState, Texts, WebpageInv, TypeOK
  <1>4. text \in Texts /\ text # NoText
    BY <1>3, AppendProperties DEF Texts, NoText
  <1>5. state \in WorkerState /\ InFlight(state)
    <2> HIDE DEF text
    <2> QED BY <1>1, <1>2, <1>4 DEF WorkerState, InFlight, TimedPCs
  <1>6. worker' = [worker EXCEPT ![w] = state]
    BY DEF Fetched
  <1>7. QED
    <2> HIDE DEF state
    <2> QED BY <1>5, <1>6, OneWorker, MemoryStep DEF WebpageInv, Fetched

LEMMA FingerprintStep ==
  ASSUME WebpageInv, NEW w \in Workers, Fingerprint(w)
  PROVE  WebpageInv'
  <1>1. worker[w] \in WorkerState /\ InFlight(worker[w]) /\ worker[w].pc = "digest"
    BY DEF WebpageInv, TypeOK, InFlightOK, Fingerprint
  <1>2. worker[w].got # NoText
    BY <1>1 DEF InFlight
  <1>3. CASE worker[w].known = worker[w].got
    BY <1>1, <1>2, <1>3, GotoStep DEF Fingerprint
  <1>4. CASE worker[w].known # worker[w].got
    <2> DEFINE state == [worker[w] EXCEPT !.pc = "embed", !.left = BatchCount]
    <2>1. BatchCount \in 0 .. BatchCount /\ BatchCount > 0
      BY Numbers
    <2>2. state \in WorkerState /\ InFlight(state)
      BY <1>1, <1>2, <2>1 DEF WorkerState, InFlight, TimedPCs
    <2>3. worker' = [worker EXCEPT ![w] = state]
      BY <1>4 DEF Fingerprint
    <2>4. QED
      BY <2>2, <2>3, OneWorker, MemoryStep DEF WebpageInv, Fingerprint
  <1>5. QED
    BY <1>3, <1>4

LEMMA EmbeddedStep ==
  ASSUME WebpageInv, NEW w \in Workers, Embedded(w)
  PROVE  WebpageInv'
  <1> DEFINE state == [worker[w] EXCEPT
               !.left = worker[w].left - 1,
               !.pc = IF worker[w].left = 1 THEN "finish" ELSE "embed"]
  <1>1. worker[w] \in WorkerState /\ InFlight(worker[w]) /\ worker[w].pc = "embedding"
    BY DEF WebpageInv, TypeOK, InFlightOK, Embedded
  <1>2. worker[w].left \in 0 .. BatchCount /\ worker[w].left > 0
    BY <1>1 DEF WorkerState, InFlight
  <1>3. worker[w].left - 1 \in 0 .. BatchCount /\ (worker[w].left # 1 => worker[w].left - 1 > 0)
    BY <1>2, Numbers
  <1>4. state \in WorkerState /\ InFlight(state)
    BY <1>1, <1>3 DEF WorkerState, InFlight, TimedPCs
  <1>5. worker' = [worker EXCEPT ![w] = state]
    BY DEF Embedded
  <1>6. QED
    BY <1>4, <1>5, OneWorker, MemoryStep DEF WebpageInv, Embedded

-----------------------------------------------------------------------------
(* The steps of a worker that write its document's row *)
LEMMA ClaimStep ==
  ASSUME WebpageInv, NEW w \in Workers, NEW d \in Docs, NEW t \in Tokens, Claim(w, d, t)
  PROVE  WebpageInv'
  <1>0. PICK age \in ClaimAges :
          /\ page' = [page EXCEPT ![d] = Claimed(page[d], t, age)]
          /\ worker' = [worker EXCEPT ![w] = [IdleWorker EXCEPT
               !.pc = "claimed", !.doc = d, !.token = t, !.known = page[d].hash, !.age = age]]
    BY DEF Claim
  <1> DEFINE state == [IdleWorker EXCEPT
               !.pc = "claimed", !.doc = d, !.token = t, !.known = page[d].hash, !.age = age]
  <1>1. page[d] \in PageRow /\ RowFits(page[d])
    BY DEF WebpageInv, TypeOK, RowsFit
  <1>2. page' \in [Docs -> PageRow] /\ RowsFit'
    BY <1>0, <1>1, OneRow, ClaimedType, ClaimedFits DEF WebpageInv
  <1>3. state \in WorkerState
    <2>1. age \in 0 .. ClaimTime + JobTimeout
      BY Numbers DEF ClaimAges
    <2>2. QED
      BY <1>1, <2>1, IdleWorkerType DEF WorkerState, PageRow
  <1>4. InFlight(state)
    BY ConstantsAssumption DEF InFlight, IdleWorker
  <1>5. worker' = [worker EXCEPT ![w] = state]
    BY <1>0
  <1>6. worker' \in [Workers -> WorkerState] /\ InFlightOK'
    BY <1>3, <1>4, <1>5, OneWorker DEF WebpageInv
  <1>7. QED
    BY <1>2, <1>6 DEF Claim, WebpageInv, TypeOK

LEMMA FinishStep ==
  ASSUME WebpageInv, NEW w \in Workers, Finish(w)
  PROVE  WebpageInv'
  <1> DEFINE d == worker[w].doc
             text == worker[w].got
  <1>1. worker[w] \in WorkerState /\ InFlight(worker[w]) /\ worker[w].pc = "finish"
    BY DEF WebpageInv, TypeOK, InFlightOK, Finish
  <1>2. d \in Docs /\ text \in Texts /\ text # NoText
    BY <1>1, ClaimedDoc DEF WebpageInv, WorkerState, InFlight
  <1>3. page[d] \in PageRow
    BY <1>2 DEF WebpageInv, TypeOK
  <1>4. Published(page[d], text) \in PageRow /\ RowFits(Published(page[d], text))
    BY <1>2, <1>3, PublishedType, PublishedFits
  <1>5. page' \in [Docs -> PageRow] /\ RowsFit'
    BY <1>2, <1>4, OneRow DEF Finish, WebpageInv
  <1>6. worker' \in [Workers -> WorkerState] /\ InFlightOK'
    BY <1>1, DropOne, GotoOne DEF Finish, WebpageInv
  <1>7. QED
    BY <1>5, <1>6 DEF Finish, WebpageInv, TypeOK

LEMMA FailStep ==
  ASSUME WebpageInv, NEW w \in Workers, Fail(w)
  PROVE  WebpageInv'
  <1> DEFINE d == worker[w].doc
  <1>1. d \in Docs
    BY DEF Fail, Current
  <1>2. page[d] \in PageRow /\ RowFits(page[d])
    BY <1>1 DEF WebpageInv, TypeOK, RowsFit
  <1>3. FailedRow(page[d]) \in PageRow /\ RowFits(FailedRow(page[d]))
    BY <1>2, FailedRowType, FailedRowFits
  <1>4. page' \in [Docs -> PageRow] /\ RowsFit'
    BY <1>1, <1>3, OneRow DEF Fail, WebpageInv
  <1>5. worker' \in [Workers -> WorkerState] /\ InFlightOK'
    BY DropOne DEF Fail, WebpageInv
  <1>6. QED
    BY <1>4, <1>5 DEF Fail, WebpageInv, TypeOK

LEMMA WorkerStepKeeps ==
  ASSUME WebpageInv, NEW w \in Workers, WorkerStep(w)
  PROVE  WebpageInv'
  <1>1. CASE Scan(w)
    BY <1>1, ScanStep
  <1>2. CASE Begin(w) \/ CheckFetch(w) \/ CheckEmbed(w)
    BY <1>2, AdmissionStep
  <1>3. ASSUME NEW d \in Docs, SkipCandidate(w, d)
        PROVE  WebpageInv'
    BY <1>3, SkipStep
  <1>4. ASSUME NEW d \in Docs, NEW t \in Tokens, Claim(w, d, t)
        PROVE  WebpageInv'
    BY <1>4, ClaimStep
  <1>5. CASE Fetched(w)
    BY <1>5, FetchedStep
  <1>6. CASE Fingerprint(w)
    BY <1>6, FingerprintStep
  <1>7. CASE Embedded(w)
    BY <1>7, EmbeddedStep
  <1>8. CASE Finish(w)
    BY <1>8, FinishStep
  <1>9. CASE Fail(w)
    BY <1>9, FailStep
  <1>10. CASE FinishRefused(w) \/ FailRefused(w)
    BY <1>10, DropStep DEF FinishRefused, FailRefused
  <1>11. QED
    BY <1>1, <1>2, <1>3, <1>4, <1>5, <1>6, <1>7, <1>8, <1>9, <1>10 DEF WorkerStep

(* A failing job, a fault *)
LEMMA FailureStep ==
  ASSUME WebpageInv, NEW w \in Workers, JobFails(w) \/ Fault(w)
  PROVE  WebpageInv'
  <1>1. CASE StepFails(w) \/ TimeoutFires(w) \/ FinishRaises(w)
    <2>1. worker[w].pc \notin {"idle", "claiming"} /\ Goto(w, "failing") /\ OnlyWorker
      BY <1>1 DEF StepFails, TimeoutFires, FinishRaises, Timed, TimedPCs
    <2>2. QED
      BY <2>1, GotoStep
  <1>2. CASE ClaimRaises(w) \/ FailRaises(w)
    BY <1>2, DropStep DEF ClaimRaises, FailRaises
  <1>3. CASE Crash(w)
    <2>1. worker' \in [Workers -> WorkerState] /\ InFlightOK'
      BY <1>3, DropOne DEF Crash, WebpageInv
    <2>2. QED
      BY <1>3, <2>1 DEF Crash, WebpageInv, TypeOK, RowsFit
  <1>4. QED
    BY <1>1, <1>2, <1>3 DEF JobFails, Fault

-----------------------------------------------------------------------------
(* Account erasure and the environment *)
LEMMA EraseStepKeeps ==
  ASSUME WebpageInv, NEW o \in Owners, EraseFence(o) \/ EraseAbort(o) \/ EraseStep(o)
  PROVE  WebpageInv'
  <1>1. CASE EraseFence(o) \/ EraseAbort(o)
    BY <1>1 DEF EraseFence, EraseAbort, WebpageInv, TypeOK, InFlightOK, RowsFit
  <1>2. ASSUME NEW w \in Workers, EraseDrain(o, w)
        PROVE  WebpageInv'
    <2>1. worker' \in [Workers -> WorkerState] /\ InFlightOK'
      <3>1. CASE Drop(w)
        BY <3>1, DropOne DEF WebpageInv
      <3>2. CASE UNCHANGED <<cands, worker>>
        BY <3>2 DEF WebpageInv, TypeOK, InFlightOK
      <3>3. QED
        BY <1>2, <3>1, <3>2 DEF EraseDrain
    <2>2. QED
      BY <1>2, <2>1 DEF EraseDrain, WebpageInv, TypeOK, RowsFit
  <1>3. CASE EraseRows(o)
    <2>1. page' \in [Docs -> PageRow] /\ RowsFit'
      BY <1>3, VacantRowType, NewRowFits DEF EraseRows, WebpageInv, TypeOK, RowsFit
    <2>2. QED
      BY <1>3, <2>1 DEF EraseRows, WebpageInv, TypeOK, InFlightOK
  <1>4. QED
    BY <1>1, <1>2, <1>3 DEF EraseStep

LEMMA SiteStep ==
  ASSUME WebpageInv, NEW d \in Docs, SiteChanges(d)
  PROVE  WebpageInv'
  <1>1. site' \in [Docs -> 0 .. MaxVersion]
    BY Numbers DEF SiteChanges, WebpageInv, TypeOK
  <1>2. QED
    BY <1>1 DEF SiteChanges, WebpageInv, TypeOK, InFlightOK, RowsFit

LEMMA TickStep ==
  ASSUME WebpageInv, Tick
  PROVE  WebpageInv'
  <1>1. page' \in [Docs -> PageRow] /\ RowsFit'
    BY AgedType, AgedFits DEF Tick, WebpageInv, TypeOK, RowsFit
  <1>2. ASSUME NEW w \in Workers
        PROVE  worker'[w] \in WorkerState /\ InFlight(worker'[w])
    <2>1. worker[w] \in WorkerState /\ InFlight(worker[w])
      BY DEF WebpageInv, TypeOK, InFlightOK
    <2> DEFINE age == AtMost(Patience(worker[w].pc), worker[w].age + 1)
    <2>2. age \in 0 .. ClaimTime + JobTimeout
      BY <2>1, Numbers DEF AtMost, Patience, WorkerState
    <2> HIDE DEF age
    <2>3. [worker[w] EXCEPT !.age = age] \in WorkerState
      BY <2>1, <2>2 DEF WorkerState
    <2>4. InFlight([worker[w] EXCEPT !.age = age])
      BY <2>1 DEF InFlight, WorkerState
    <2>5. QED
      BY <2>1, <2>3, <2>4 DEF Tick, age
  <1>3. worker' \in [Workers -> WorkerState] /\ InFlightOK'
    BY <1>2 DEF Tick, InFlightOK
  <1>4. QED
    BY <1>1, <1>3 DEF Tick, WebpageInv, TypeOK

-----------------------------------------------------------------------------
LEMMA InitHolds == Init => WebpageInv
  <1> SUFFICES ASSUME Init PROVE WebpageInv
    OBVIOUS
  <1>1. \A d \in Docs : page[d] \in PageRow /\ RowFits(page[d])
    BY VacantRowType, NewRowFits DEF Init
  <1>2. \A w \in Workers : worker[w] \in WorkerState /\ InFlight(worker[w])
    BY IdleWorkerType DEF Init
  <1>3. QED
    BY <1>1, <1>2, Bounds DEF Init, WebpageInv, TypeOK, InFlightOK, RowsFit

LEMMA NextKeeps == WebpageInv /\ [Next]_vars => WebpageInv'
  <1> SUFFICES ASSUME WebpageInv, [Next]_vars PROVE WebpageInv'
    OBVIOUS
  <1>1. CASE Disturbance
    BY <1>1, RequestStep, FailureStep, EraseStepKeeps DEF Disturbance
  <1>2. CASE Calm
    BY <1>2, WorkerStepKeeps, FailureStep, EraseStepKeeps, SiteStep, TickStep DEF Calm
  <1>3. CASE UNCHANGED vars
    BY <1>3 DEF vars, WebpageInv, TypeOK, InFlightOK, RowsFit
  <1>4. QED
    BY <1>1, <1>2, <1>3 DEF Next

LEMMA Inductive == Spec => []WebpageInv
  BY InitHolds, NextKeeps, PTL DEF Spec

(* Every reachable state has the types the code relies on. *)
THEOREM TypeCorrect == Spec => []TypeOK
  BY Inductive, PTL DEF WebpageInv

(* No transaction of the repository breaks the check constraints of         *)
(* document_webpages.                                                       *)
THEOREM RowChecksHold == Spec => []RowChecks
  <1>1. WebpageInv => RowChecks
    BY DEF WebpageInv, RowsFit, RowFits, RowChecks
  <1>2. QED
    BY <1>1, Inductive, PTL

(* Text, hash and chunks always describe one version of the page: what      *)
(* _complete writes under the row lock it writes together.                  *)
THEOREM OneStoredVersionHolds == Spec => []OneStoredVersion
  <1>1. WebpageInv => OneStoredVersion
    BY DEF WebpageInv, RowsFit, RowFits, OneStoredVersion, Live
  <1>2. QED
    BY <1>1, Inductive, PTL

(* A document shown as processing has an attempt its owner asked for.       *)
THEOREM ProcessingHasWorkHolds == Spec => []ProcessingHasWork
  <1>1. WebpageInv => ProcessingHasWork
    BY DEF WebpageInv, RowsFit, RowFits, ProcessingHasWork, Pending, Live
  <1>2. QED
    BY <1>1, Inductive, PTL

(* Automatic synchronization never runs out of attempts.                    *)
THEOREM AutomaticIsScheduledHolds == Spec => []AutomaticIsScheduled
  <1>1. WebpageInv => AutomaticIsScheduled
    BY DEF WebpageInv, RowsFit, RowFits, AutomaticIsScheduled, Pending, Live
  <1>2. QED
    BY <1>1, Inductive, PTL
============================================================================
