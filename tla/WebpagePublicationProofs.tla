---------------------- MODULE WebpagePublicationProofs ----------------------
(***************************************************************************)
(* What the claim token and the lease achieve, proved for every number of  *)
(* documents, workers and tokens: a worker that still holds its claim      *)
(* knows what is stored, publishes what is not older, and, if it keeps its *)
(* deadlines and the lease has room for them, is not disturbed.  The       *)
(* webpage component therefore implements PublishedDocuments.              *)
(***************************************************************************)
EXTENDS WebpageSyncProofs

(* A text of every selected page, or none                                   *)
Whole(text) == text = NoText \/ Len(text) = UrlCount

(* No page of the text is newer than what the crawler fetches now           *)
NotNewer(text, version) == \A i \in 1 .. Len(text) : text[i] <= version

(* As far as it has been fetched, a text is not older than the known one    *)
Advances(got, known) == \A i \in 1 .. Len(got) : i <= Len(known) => known[i] <= got[i]

Stored(row, version) ==
  /\ Whole(row.hash) /\ NotNewer(row.hash, version)
  /\ row.row # "live" => row.chunks = NoText

Working(state, version) ==
  /\ state.token \in Tokens
  /\ Whole(state.known) /\ NotNewer(state.known, version)
  /\ NotNewer(state.got, version) /\ Advances(state.got, state.known)
  /\ state.pc = "claimed" => state.got = NoText
  /\ state.pc \in {"fetch", "fetching"} => Len(state.got) < UrlCount
  /\ state.pc \in {"digest", "embed", "embedding", "finish"} => Len(state.got) = UrlCount
  /\ AtWork(state.pc) => state.age <= Patience(state.pc)

(* The worker's token is the row's: nobody has taken the claim away         *)
Holds(row, state) == row.token = state.token

(* What a claim's age may be ahead of the age its worker counts: once the   *)
(* timeout is started, the time the claim took                              *)
Ahead(pc) == IF pc = "claimed" THEN 0 ELSE ClaimTime

Undisturbed(row, state) ==
  /\ state.known = row.hash
  /\ Punctual /\ AtWork(state.pc) => row.claimAge <= state.age + Ahead(state.pc)

StoredOK  == \A d \in Docs : Stored(page[d], site[d])
WorkingOK == \A w \in Workers, d \in Docs :
  worker[w].doc = d => /\ Working(worker[w], site[d])
                       /\ Holds(page[d], worker[w]) => Undisturbed(page[d], worker[w])

PublicationInv == WebpageInv /\ StoredOK /\ WorkingOK

-----------------------------------------------------------------------------
(* What one step may do to one row                                          *)
RowStays(d) ==
  /\ page'[d].row = page[d].row /\ page'[d].token = page[d].token
  /\ page'[d].hash = page[d].hash /\ page'[d].chunks = page[d].chunks
  /\ page'[d].claimAge = page[d].claimAge

RowFreed(d) ==
  /\ page'[d].row = page[d].row /\ page'[d].token = NoToken
  /\ page'[d].hash = page[d].hash /\ page'[d].chunks = page[d].chunks

RowEmpty(d) ==
  /\ page'[d].token = NoToken /\ page'[d].hash = NoText /\ page'[d].chunks = NoText
  /\ ~Live(d) \/ page'[d].row = "gone"

RowChange(d) ==
  \/ RowStays(d) \/ RowFreed(d) \/ RowEmpty(d)
  \/ \E w \in Workers, t \in Tokens : Claim(w, d, t)
  \/ \E w \in Workers : Finish(w) /\ worker[w].doc = d
  \/ Tick

LEMMA RowFields ==
  ASSUME NEW row \in PageRow
  PROVE  /\ \A auto \in BOOLEAN : LET new == Scheduled(row, auto) IN
              /\ new.row = row.row /\ new.token = row.token /\ new.claimAge = row.claimAge
              /\ new.hash = row.hash /\ new.chunks = row.chunks
         /\ Cancelled(row).row = row.row /\ Cancelled(row).token = NoToken
         /\ Cancelled(row).hash = row.hash /\ Cancelled(row).chunks = row.chunks
         /\ Requeued(row).row = row.row /\ Requeued(row).token = NoToken
         /\ Requeued(row).hash = row.hash /\ Requeued(row).chunks = row.chunks
         /\ FailedRow(row).row = row.row /\ FailedRow(row).token = NoToken
         /\ FailedRow(row).hash = row.hash /\ FailedRow(row).chunks = row.chunks
  BY DEF PageRow, Scheduled, Cancelled, Unclaimed, Requeued, Settled, FailedRow

LEMMA ClaimedFields ==
  ASSUME NEW row \in PageRow, NEW t \in Tokens, NEW age
  PROVE  LET new == Claimed(row, t, age) IN
         /\ new.row = row.row /\ new.token = t
         /\ new.hash = row.hash /\ new.chunks = row.chunks
         /\ new.claimAge = age /\ new.status = row.status /\ new.sync = "running"
  BY DEF PageRow, Claimed

(* What a claim writes, and what its worker remembers of it                 *)
LEMMA ClaimFacts ==
  ASSUME WebpageInv, NEW w \in Workers, NEW d \in Docs, NEW t \in Tokens, Claim(w, d, t)
  PROVE  /\ \A x \in Docs : x # d => page'[x] = page[x]
         /\ \A v \in Workers : v # w => worker'[v] = worker[v]
         /\ \E age \in ClaimAges :
              /\ page'[d] = Claimed(page[d], t, age)
              /\ worker'[w].doc = d /\ worker'[w].token = t /\ worker'[w].pc = "claimed"
              /\ worker'[w].known = page[d].hash /\ worker'[w].got = NoText
              /\ worker'[w].age = age
  <1>1. page \in [Docs -> PageRow] /\ worker \in [Workers -> WorkerState]
    BY DEF WebpageInv, TypeOK
  <1>2. PICK age \in ClaimAges :
          /\ page' = [page EXCEPT ![d] = Claimed(page[d], t, age)]
          /\ worker' = [worker EXCEPT ![w] = [IdleWorker EXCEPT
               !.pc = "claimed", !.doc = d, !.token = t, !.known = page[d].hash, !.age = age]]
    BY DEF Claim
  <1>3. QED
    BY <1>1, <1>2 DEF IdleWorker

LEMMA PublishedFields ==
  ASSUME NEW row \in PageRow, NEW text \in Texts
  PROVE  /\ Published(row, text).row = row.row /\ Published(row, text).token = NoToken
         /\ Published(row, text).hash = text /\ Published(row, text).chunks = text
         /\ Published(row, text).status = "ready" /\ Published(row, text).sync = "idle"
  <1>1. Settled(row, "idle") \in PageRow
    BY SettledType
  <1>2. QED
    BY <1>1, SettledFields DEF Published, PageRow

LEMMA AgedFields ==
  ASSUME NEW row \in PageRow
  PROVE  /\ Aged(row).row = row.row /\ Aged(row).token = row.token
         /\ Aged(row).hash = row.hash /\ Aged(row).chunks = row.chunks
         /\ Aged(row).status = row.status /\ Aged(row).sync = row.sync
         /\ Aged(row).claimAge <= row.claimAge + 1
  <1>1. AtMost(Lease + 1, row.claimAge + 1) <= row.claimAge + 1 /\ row.claimAge <= row.claimAge + 1
    BY Numbers DEF AtMost, PageRow
  <1>2. QED
    BY <1>1 DEF PageRow, Aged

(* The steps that write no row *)
LEMMA RowsUnchanged ==
  ASSUME Next, page' # page
  PROVE  \/ Request
         \/ \E w \in Workers : Finish(w) \/ Fail(w)
         \/ \E w \in Workers, d \in Docs, t \in Tokens : Claim(w, d, t)
         \/ \E o \in Owners : EraseRows(o)
         \/ Tick
  BY DEF Next, Disturbance, Calm, WorkerStep, JobFails, Fault, Scan, Begin, SkipCandidate,
         CheckFetch, Fetched, Fingerprint, CheckEmbed, Embedded, CheckAdmission, FinishRefused,
         FailRefused, StepFails, TimeoutFires, ClaimRaises, FinishRaises, FailRaises, Crash,
         OnlyWorker, EraseFence, EraseAbort, EraseStep, EraseDrain, SiteChanges

LEMMA RowChanges ==
  ASSUME WebpageInv, Next, NEW d \in Docs
  PROVE  RowChange(d)
  <1> USE DEF RowChange
  <1>0. page \in [Docs -> PageRow] /\ page[d] \in PageRow
    BY DEF WebpageInv, TypeOK
  <1>1. CASE page'[d] = page[d]
    BY <1>1 DEF RowStays
  <1>2. ASSUME NEW x \in Docs, NEW auto \in BOOLEAN, Create(x, auto)
        PROVE  RowChange(d)
    <2>1. CASE x = d
      BY <1>0, <1>2, <2>1 DEF Create, NewRow, RowEmpty, Live
    <2>2. QED
      BY <1>0, <1>1, <1>2, <2>1 DEF Create
  <1>3. ASSUME NEW x \in Docs, Enqueue(x)
        PROVE  RowChange(d)
    BY <1>0, <1>1, <1>3, RowFields DEF Enqueue, RowFreed
  <1>4. ASSUME NEW x \in Docs, SetAutoSync(x)
        PROVE  RowChange(d)
    <2> DEFINE auto == ~page[x].auto
               row  == Scheduled(page[x], auto)
    <2>1. auto \in BOOLEAN /\ page[x] \in PageRow
      BY <1>0 DEF PageRow
    <2>2. row \in PageRow
      BY <2>1, ScheduledType
    <2>3. /\ row.row = page[x].row /\ row.token = page[x].token
          /\ row.claimAge = page[x].claimAge
          /\ row.hash = page[x].hash /\ row.chunks = page[x].chunks
      BY <2>1, RowFields
    <2>4. /\ Cancelled(row).row = page[x].row /\ Cancelled(row).token = NoToken
          /\ Cancelled(row).hash = page[x].hash /\ Cancelled(row).chunks = page[x].chunks
      BY <2>2, <2>3, RowFields
    <2>5. \/ page' = [page EXCEPT ![x] = row]
          \/ page' = [page EXCEPT ![x] = Cancelled(row)]
      BY <1>4 DEF SetAutoSync
    <2>6. QED
      <3> HIDE DEF row
      <3> QED BY <1>0, <1>1, <2>3, <2>4, <2>5 DEF RowStays, RowFreed
  <1>5. ASSUME NEW x \in Docs, Delete(x)
        PROVE  RowChange(d)
    BY <1>0, <1>1, <1>5 DEF Delete, VacantRow, NewRow, RowEmpty
  <1>6. ASSUME NEW w \in Workers, NEW x \in Docs, NEW t \in Tokens, Claim(w, x, t)
        PROVE  RowChange(d)
    BY <1>0, <1>1, <1>6, ClaimFacts
  <1>7. ASSUME NEW w \in Workers, Finish(w)
        PROVE  RowChange(d)
    BY <1>0, <1>1, <1>7 DEF Finish
  <1>8. ASSUME NEW w \in Workers, Fail(w)
        PROVE  RowChange(d)
    BY <1>0, <1>1, <1>8, RowFields DEF Fail, RowFreed
  <1>9. ASSUME NEW o \in Owners, EraseRows(o)
        PROVE  RowChange(d)
    BY <1>0, <1>1, <1>9 DEF EraseRows, Erasable, VacantRow, NewRow, RowEmpty
  <1>10. CASE Request
    BY <1>2, <1>3, <1>4, <1>5, <1>10 DEF Request
  <1>11. CASE page' = page
    BY <1>1, <1>11
  <1>12. QED
    BY <1>6, <1>7, <1>8, <1>9, <1>10, <1>11, RowsUnchanged

-----------------------------------------------------------------------------
(* What one step may do to one worker's memory                              *)
Remembers(w) ==
  /\ worker'[w].doc = worker[w].doc /\ worker'[w].token = worker[w].token
  /\ worker'[w].known = worker[w].known /\ worker'[w].got = worker[w].got

Begins(w) ==
  worker[w].pc = "claimed" /\ worker'[w].pc = "fetch" /\ worker'[w].age = 0

GoesOn(w) ==
  /\ worker'[w].age = worker[w].age
  /\ \/ worker'[w].pc = worker[w].pc
     \/ worker'[w].pc = "failing"
     \/ worker[w].pc = "fetch" /\ worker'[w].pc = "fetching"
     \/ /\ worker[w].pc \in {"digest", "embed", "embedding"}
        /\ worker'[w].pc \in {"embed", "embedding", "finish"}

WorkerChange(w) ==
  \/ worker'[w].doc = NoDoc
  \/ Remembers(w) /\ (Begins(w) \/ GoesOn(w))
  \/ Fetched(w)
  \/ \E d \in Docs, t \in Tokens : Claim(w, d, t)
  \/ Tick

LEMMA DropChange ==
  ASSUME WebpageInv, NEW w \in Workers, NEW v \in Workers, Drop(v)
  PROVE  WorkerChange(w)
  BY DEF WebpageInv, TypeOK, WorkerChange, Drop, IdleWorker, Remembers, GoesOn

LEMMA GotoChange ==
  ASSUME WebpageInv, NEW w \in Workers, NEW v \in Workers, NEW pc, Goto(v, pc),
         \/ pc = "failing"
         \/ worker[v].pc = "fetch" /\ pc = "fetching"
         \/ worker[v].pc = "digest" /\ pc = "finish"
         \/ worker[v].pc = "embed" /\ pc = "embedding"
  PROVE  WorkerChange(w)
  <1>1. worker \in [Workers -> WorkerState] /\ worker[v] \in WorkerState
    BY DEF WebpageInv, TypeOK
  <1>2. /\ worker'[v].pc = pc
        /\ worker'[v].doc = worker[v].doc /\ worker'[v].token = worker[v].token
        /\ worker'[v].known = worker[v].known /\ worker'[v].got = worker[v].got
        /\ worker'[v].age = worker[v].age
    BY <1>1 DEF Goto, WorkerState
  <1>3. CASE v = w
    BY <1>2, <1>3 DEF WorkerChange, Remembers, GoesOn
  <1>4. CASE v # w
    BY <1>1, <1>4 DEF Goto, WorkerChange, Remembers, GoesOn
  <1>5. QED
    BY <1>3, <1>4

LEMMA WorkerChanges ==
  ASSUME WebpageInv, Next, NEW w \in Workers
  PROVE  WorkerChange(w)
  <1>0. worker \in [Workers -> WorkerState]
    BY DEF WebpageInv, TypeOK
  <1>1. CASE worker'[w] = worker[w]
    BY <1>1 DEF WorkerChange, Remembers, GoesOn
  <1>2. ASSUME NEW v \in Workers, Scan(v)
        PROVE  WorkerChange(w)
    <2>1. worker[v] \in WorkerState /\ worker[v].doc = NoDoc
      BY <1>0, <1>2 DEF Scan, WebpageInv, InFlightOK, InFlight
    <2>2. worker'[v].doc = NoDoc
      BY <1>0, <1>2, <2>1 DEF Scan, WorkerState
    <2>3. QED
      BY <1>0, <1>1, <1>2, <2>2 DEF Scan, WorkerChange
  <1>3. ASSUME NEW v \in Workers, NEW d \in Docs, SkipCandidate(v, d)
        PROVE  WorkerChange(w)
    BY <1>1, <1>3, DropChange DEF SkipCandidate
  <1>4. ASSUME NEW v \in Workers, NEW d \in Docs, NEW t \in Tokens, Claim(v, d, t)
        PROVE  WorkerChange(w)
    <2>1. CASE v = w
      BY <1>4, <2>1 DEF WorkerChange
    <2>2. CASE v # w
      BY <1>1, <1>4, <2>2, ClaimFacts
    <2>3. QED
      BY <2>1, <2>2
  <1>5. ASSUME NEW v \in Workers, Begin(v) \/ CheckFetch(v) \/ CheckEmbed(v)
        PROVE  WorkerChange(w)
    <2>1. CASE worker[v].pc = "claimed" /\ StartJob(v)
      <3>1. CASE v = w
        BY <1>0, <2>1, <3>1 DEF StartJob, WorkerState, WorkerChange, Remembers, Begins
      <3>2. CASE v # w
        BY <1>0, <1>1, <2>1, <3>2 DEF StartJob
      <3>3. QED
        BY <3>1, <3>2
    <2>2. QED
      BY <1>5, <2>1, DropChange, GotoChange DEF Begin, CheckFetch, CheckEmbed, CheckAdmission
  <1>6. ASSUME NEW v \in Workers, Fetched(v)
        PROVE  WorkerChange(w)
    <2>1. CASE v = w
      BY <1>6, <2>1 DEF WorkerChange
    <2>2. CASE v # w
      BY <1>0, <1>1, <1>6, <2>2 DEF Fetched
    <2>3. QED
      BY <2>1, <2>2
  <1>7. ASSUME NEW v \in Workers, Fingerprint(v) \/ Embedded(v)
        PROVE  WorkerChange(w)
    <2>1. CASE Fingerprint(v) /\ worker[v].known = worker[v].got
      BY <2>1, GotoChange DEF Fingerprint
    <2>2. CASE (Fingerprint(v) /\ worker[v].known # worker[v].got) \/ Embedded(v)
      <3>1. /\ worker[v].pc \in {"digest", "embedding"}
            /\ worker'[v].pc \in {"embed", "finish"}
            /\ worker'[v].doc = worker[v].doc /\ worker'[v].token = worker[v].token
            /\ worker'[v].known = worker[v].known /\ worker'[v].got = worker[v].got
            /\ worker'[v].age = worker[v].age
        BY <1>0, <2>2 DEF Fingerprint, Embedded, WorkerState
      <3>2. CASE v = w
        BY <3>1, <3>2 DEF WorkerChange, Remembers, GoesOn
      <3>3. CASE v # w
        BY <1>0, <1>1, <2>2, <3>3 DEF Fingerprint, Embedded
      <3>4. QED
        BY <3>2, <3>3
    <2>3. QED
      BY <1>7, <2>1, <2>2
  <1>8. ASSUME NEW v \in Workers, Finish(v) \/ FinishRefused(v) \/ Fail(v) \/ FailRefused(v)
        PROVE  WorkerChange(w)
    BY <1>8, DropChange, GotoChange DEF Finish, FinishRefused, Fail, FailRefused
  <1>9. ASSUME NEW v \in Workers, JobFails(v) \/ Fault(v)
        PROVE  WorkerChange(w)
    BY <1>9, DropChange, GotoChange DEF JobFails, Fault, StepFails, TimeoutFires, ClaimRaises,
       FinishRaises, FailRaises, Crash
  <1>10. ASSUME NEW v \in Workers, WorkerStep(v)
         PROVE  WorkerChange(w)
    BY <1>2, <1>3, <1>4, <1>5, <1>6, <1>7, <1>8, <1>10 DEF WorkerStep
  <1>11. CASE Request
    BY <1>1, <1>11 DEF Request, Create, Enqueue, SetAutoSync, Delete, OnlyRows
  <1>12. ASSUME NEW o \in Owners, EraseFence(o) \/ EraseAbort(o) \/ EraseStep(o)
         PROVE  WorkerChange(w)
    BY <1>1, <1>12, DropChange DEF EraseFence, EraseAbort, EraseStep, EraseDrain, EraseRows
  <1>13. ASSUME NEW x \in Docs, SiteChanges(x)
         PROVE  WorkerChange(w)
    BY <1>1, <1>13 DEF SiteChanges
  <1>14. CASE Tick
    BY <1>14 DEF WorkerChange
  <1>15. QED
    BY <1>9, <1>10, <1>11, <1>12, <1>13, <1>14 DEF Next, Disturbance, Calm

(* The steps that change neither the site nor the fences                    *)
Quiet == site' = site /\ fenced' = fenced /\ wiped' = wiped

LEMMA OutsideSteps ==
  ASSUME Next
  PROVE  \/ Quiet
         \/ \E d \in Docs : SiteChanges(d)
         \/ site' = site /\ \E o \in Owners : EraseFence(o) \/ EraseRows(o)
  <1>1. ASSUME Request
        PROVE  Quiet
    BY <1>1 DEF Quiet, Request, Create, Enqueue, SetAutoSync, Delete, OnlyRows
  <1>2. ASSUME NEW w \in Workers, WorkerStep(w)
        PROVE  Quiet
    BY <1>2 DEF Quiet, WorkerStep, Scan, Begin, SkipCandidate, Claim, CheckFetch, Fetched,
                Fingerprint, CheckEmbed, Embedded, CheckAdmission, Finish, FinishRefused, Fail,
                FailRefused, OnlyWorker
  <1>3. ASSUME NEW w \in Workers, JobFails(w) \/ Fault(w)
        PROVE  Quiet
    BY <1>3 DEF Quiet, JobFails, Fault, StepFails, TimeoutFires, ClaimRaises, FinishRaises,
                FailRaises, Crash, OnlyWorker
  <1>4. ASSUME NEW o \in Owners, EraseFence(o) \/ EraseAbort(o) \/ EraseStep(o)
        PROVE  Quiet \/ (site' = site /\ (EraseFence(o) \/ EraseRows(o)))
    BY <1>4 DEF Quiet, EraseStep, EraseDrain, EraseAbort, EraseFence, EraseRows
  <1>5. Tick => Quiet
    BY DEF Quiet, Tick
  <1>6. QED
    BY <1>1, <1>2, <1>3, <1>4, <1>5 DEF Next, Disturbance, Calm

(* The site only moves forward *)
LEMMA SiteGrows ==
  ASSUME WebpageInv, Next, NEW d \in Docs
  PROVE  site[d] \in Nat /\ site'[d] \in Nat /\ site[d] <= site'[d]
  <1>1. site \in [Docs -> 0 .. MaxVersion] /\ MaxVersion \in Nat
    BY Numbers DEF WebpageInv, TypeOK
  <1>2. site' = site \/ \E x \in Docs : SiteChanges(x)
    BY OutsideSteps DEF Quiet
  <1>3. QED
    BY <1>1, <1>2 DEF SiteChanges

-----------------------------------------------------------------------------
(* Texts *)
LEMMA TextFacts ==
  ASSUME NEW text \in Texts
  PROVE  Len(text) \in Nat /\ \A i \in 1 .. Len(text) : text[i] \in 0 .. MaxVersion
  <1>1. text \in Seq(0 .. MaxVersion)
    BY DEF Texts
  <1>2. QED
    BY <1>1, ElementOfSeq, LenProperties

LEMMA EmptyText ==
  /\ Len(NoText) = 0 /\ Whole(NoText) /\ \A known : Advances(NoText, known)
  /\ \A v : NotNewer(NoText, v)
  BY DEF NoText, Whole, Advances, NotNewer

LEMMA StillNotNewer ==
  ASSUME NEW text \in Texts, NEW u \in Nat, NEW v \in Nat, u <= v, NotNewer(text, u)
  PROVE  NotNewer(text, v)
  BY TextFacts, Numbers DEF NotNewer

LEMMA OnePageMore ==
  ASSUME NEW got \in Texts, NEW known \in Texts, NEW v \in 0 .. MaxVersion,
         NotNewer(got, v), NotNewer(known, v), Advances(got, known)
  PROVE  /\ Len(Append(got, v)) = Len(got) + 1
         /\ NotNewer(Append(got, v), v) /\ Advances(Append(got, v), known)
  <1>1. /\ Len(Append(got, v)) = Len(got) + 1 /\ Len(got) \in Nat
        /\ \A i \in 1 .. Len(got) : Append(got, v)[i] = got[i]
        /\ Append(got, v)[Len(got) + 1] = v
    BY DEF Texts
  <1>2. ASSUME NEW i \in 1 .. Len(got) + 1
        PROVE  Append(got, v)[i] <= v /\ (i <= Len(known) => known[i] <= Append(got, v)[i])
    <2>1. CASE i \in 1 .. Len(got)
      BY <1>1, <2>1 DEF NotNewer, Advances
    <2>2. CASE i = Len(got) + 1
      <3>1. i <= Len(known) => i \in 1 .. Len(known)
        BY <1>1, <2>2, TextFacts
      <3>2. QED
        BY <1>1, <2>2, <3>1, Numbers DEF NotNewer
    <2>3. QED
      BY <1>1, <2>1, <2>2
  <1>3. QED
    BY <1>1, <1>2 DEF NotNewer, Advances

-----------------------------------------------------------------------------
(* The invariant, one row and one worker at a time                          *)
LEMMA FinishFacts ==
  ASSUME PublicationInv, NEW w \in Workers, Finish(w)
  PROVE  /\ worker[w].doc \in Docs /\ worker[w].got \in Texts
         /\ Live(worker[w].doc) /\ Admitted(worker[w].doc)
         /\ page'[worker[w].doc] = Published(page[worker[w].doc], worker[w].got)
         /\ page[worker[w].doc] \in PageRow
         /\ worker[w].got # NoText
         /\ Working(worker[w], site[worker[w].doc])
         /\ worker[w].known = page[worker[w].doc].hash
         /\ Len(worker[w].got) = UrlCount
  <1>1. worker[w] \in WorkerState /\ InFlight(worker[w]) /\ worker[w].pc = "finish"
    BY DEF PublicationInv, WebpageInv, TypeOK, InFlightOK, Finish
  <1>2. /\ worker[w].doc \in Docs /\ worker[w].got \in Texts /\ worker[w].got # NoText
        /\ Live(worker[w].doc) /\ Admitted(worker[w].doc)
        /\ Holds(page[worker[w].doc], worker[w])
    BY <1>1 DEF Finish, Publishable, Current, Holds, WorkerState, InFlight
  <1>3. page \in [Docs -> PageRow]
    BY DEF PublicationInv, WebpageInv, TypeOK
  <1>4. Working(worker[w], site[worker[w].doc]) /\ Undisturbed(page[worker[w].doc], worker[w])
    BY <1>2 DEF PublicationInv, WorkingOK
  <1>5. QED
    BY <1>1, <1>2, <1>3, <1>4 DEF Finish, Working, Undisturbed

LEMMA StoredStep ==
  ASSUME PublicationInv, Next, NEW d \in Docs
  PROVE  Stored(page'[d], site'[d])
  <1>0. /\ page[d] \in PageRow /\ page[d].hash \in Texts /\ Stored(page[d], site[d])
        /\ site[d] \in Nat /\ site'[d] \in Nat /\ site[d] <= site'[d]
    BY SiteGrows DEF PublicationInv, WebpageInv, TypeOK, StoredOK, PageRow
  <1>1. Whole(page[d].hash) /\ NotNewer(page[d].hash, site'[d])
    BY <1>0, StillNotNewer DEF Stored
  <1>2. CASE RowStays(d) \/ RowFreed(d)
    BY <1>0, <1>1, <1>2 DEF RowStays, RowFreed, Stored
  <1>3. CASE RowEmpty(d)
    BY <1>3, EmptyText DEF RowEmpty, Stored
  <1>4. ASSUME NEW w \in Workers, NEW t \in Tokens, Claim(w, d, t)
        PROVE  Stored(page'[d], site'[d])
    <2>1. PICK age : page'[d] = Claimed(page[d], t, age)
      BY <1>4, ClaimFacts DEF PublicationInv
    <2>2. QED
      BY <1>0, <1>1, <2>1, ClaimedFields DEF Stored
  <1>5. ASSUME NEW w \in Workers, Finish(w), worker[w].doc = d
        PROVE  Stored(page'[d], site'[d])
    <2>1. page'[d].row = "live" /\ page'[d].hash = worker[w].got
      BY <1>5, FinishFacts, PublishedFields DEF Live
    <2>2. Len(worker[w].got) = UrlCount /\ NotNewer(worker[w].got, site'[d])
      BY <1>0, <1>5, FinishFacts, StillNotNewer DEF Working
    <2>3. QED
      BY <2>1, <2>2 DEF Stored, Whole
  <1>6. CASE Tick
    <2>1. page'[d] = Aged(page[d])
      BY <1>6 DEF Tick
    <2>2. QED
      BY <1>0, <1>1, <2>1, AgedFields DEF Stored
  <1>7. QED
    BY <1>2, <1>3, <1>4, <1>5, <1>6, RowChanges DEF RowChange, PublicationInv

LEMMA WorkingStep ==
  ASSUME PublicationInv, Next, NEW w \in Workers, NEW d \in Docs, worker'[w].doc = d
  PROVE  Working(worker'[w], site'[d])
  <1>0. /\ worker \in [Workers -> WorkerState] /\ worker[w] \in WorkerState
        /\ worker[w].known \in Texts /\ worker[w].got \in Texts
        /\ site[d] \in Nat /\ site'[d] \in Nat /\ site[d] <= site'[d]
        /\ site[d] \in 0 .. MaxVersion
    BY SiteGrows DEF PublicationInv, WebpageInv, TypeOK, WorkerState
  <1>1. ASSUME worker[w].doc = d
        PROVE  /\ Working(worker[w], site[d])
               /\ NotNewer(worker[w].known, site'[d]) /\ NotNewer(worker[w].got, site'[d])
    BY <1>0, <1>1, StillNotNewer DEF PublicationInv, WorkingOK, Working
  <1>2. CASE Remembers(w) /\ (Begins(w) \/ GoesOn(w))
    <2>1. Working(worker[w], site[d]) /\ worker[w].pc = "claimed" => Len(worker[w].got) < UrlCount
      BY EmptyText, Numbers DEF Working
    <2>2. worker[w].doc = d
      BY <1>2 DEF Remembers
    <2>3. AtWork(worker'[w].pc) => worker'[w].age <= Patience(worker'[w].pc)
      BY <1>1, <1>2, <2>2, Numbers DEF Begins, GoesOn, Working, Patience, AtWork, TimedPCs
    <2>4. QED
      BY <1>1, <1>2, <2>1, <2>2, <2>3 DEF Remembers, Begins, GoesOn, Working
  <1>3. CASE Fetched(w)
    <2> DEFINE text == Append(worker[w].got, site[d])
    <2>1. /\ worker[w].doc = d /\ worker[w].pc = "fetching"
          /\ worker'[w].token = worker[w].token /\ worker'[w].known = worker[w].known
          /\ worker'[w].got = text /\ site' = site
          /\ worker'[w].pc = IF Len(worker[w].got) + 1 = UrlCount THEN "digest" ELSE "fetch"
          /\ worker'[w].age = worker[w].age
      BY <1>0, <1>3 DEF Fetched, WorkerState, OnlyWorker
    <2>2. Len(worker[w].got) < UrlCount /\ Len(worker[w].got) \in Nat
      BY <1>0, <1>1, <2>1, TextFacts DEF Working
    <2>3. /\ Len(text) = Len(worker[w].got) + 1
          /\ NotNewer(text, site[d]) /\ Advances(text, worker[w].known)
      BY <1>0, <1>1, <2>1, OnePageMore DEF Working
    <2>4. worker'[w].age <= Patience(worker'[w].pc)
      BY <1>1, <2>1 DEF Working, Patience, AtWork, TimedPCs
    <2> HIDE DEF text
    <2>5. QED
      BY <1>1, <2>1, <2>2, <2>3, <2>4, Numbers DEF Working
  <1>4. ASSUME NEW x \in Docs, NEW t \in Tokens, Claim(w, x, t)
        PROVE  Working(worker'[w], site'[d])
    <2>1. /\ worker'[w].doc = x /\ worker'[w].token = t /\ worker'[w].pc = "claimed"
          /\ worker'[w].known = page[x].hash /\ worker'[w].got = NoText
          /\ worker'[w].age \in ClaimAges
      BY <1>4, ClaimFacts DEF PublicationInv
    <2>2. Stored(page[d], site[d]) /\ site' = site
      BY <1>4 DEF PublicationInv, StoredOK, Claim
    <2>3. worker'[w].age <= Patience(worker'[w].pc)
      BY <2>1, Numbers DEF ClaimAges, Patience
    <2>4. QED
      BY <2>1, <2>2, <2>3, EmptyText DEF Stored, Working
  <1>5. CASE Tick
    <2>1. /\ worker'[w].doc = worker[w].doc /\ worker'[w].token = worker[w].token
          /\ worker'[w].pc = worker[w].pc /\ worker'[w].known = worker[w].known
          /\ worker'[w].got = worker[w].got
          /\ worker'[w].age = IF AtWork(worker[w].pc)
                                THEN AtMost(Patience(worker[w].pc), worker[w].age + 1)
                                ELSE worker[w].age
      BY <1>0, <1>5 DEF Tick, WorkerState
    <2>2. AtWork(worker'[w].pc) => worker'[w].age <= Patience(worker'[w].pc)
      BY <1>0, <2>1, Numbers DEF AtMost, Patience, WorkerState
    <2>3. QED
      BY <1>1, <2>1, <2>2 DEF Working
  <1>6. worker'[w].doc # NoDoc
    BY ConstantsAssumption
  <1>7. QED
    BY <1>2, <1>3, <1>4, <1>5, <1>6, WorkerChanges DEF WorkerChange, PublicationInv

LEMMA HoldingStep ==
  ASSUME PublicationInv, Next, NEW w \in Workers, NEW d \in Docs, worker'[w].doc = d,
         Holds(page'[d], worker'[w])
  PROVE  Undisturbed(page'[d], worker'[w])
  <1>0. /\ page \in [Docs -> PageRow] /\ page[d] \in PageRow
        /\ worker \in [Workers -> WorkerState] /\ worker[w] \in WorkerState
        /\ page[d].claimAge \in Nat /\ worker[w].age \in Nat
    BY Numbers DEF PublicationInv, WebpageInv, TypeOK, PageRow, WorkerState
  <1>1. page'[d].token # NoToken
    BY WorkingStep, ConstantsAssumption DEF Working, Holds
  <1>2. worker[w].doc = d /\ Holds(page[d], worker[w]) => Undisturbed(page[d], worker[w])
    BY DEF PublicationInv, WorkingOK
  <1>3. ASSUME NEW x \in Docs, NEW t \in Tokens, Claim(w, x, t)
        PROVE  Undisturbed(page'[d], worker'[w])
    <2>1. PICK age \in ClaimAges :
            /\ page'[x] = Claimed(page[x], t, age) /\ worker'[w].doc = x
            /\ worker'[w].known = page[x].hash /\ worker'[w].age = age
            /\ worker'[w].pc = "claimed"
      BY <1>3, ClaimFacts DEF PublicationInv
    <2>2. page'[d].claimAge = age /\ page'[d].hash = page[d].hash
      BY <1>0, <2>1, ClaimedFields
    <2>3. QED
      BY <2>1, <2>2, Numbers DEF Undisturbed, Ahead, ClaimAges
  <1>4. ASSUME NEW v \in Workers, NEW t \in Tokens, Claim(v, d, t), v # w
        PROVE  FALSE
    <2>1. worker'[w] = worker[w]
      BY <1>4, ClaimFacts DEF PublicationInv
    <2>2. worker[w].token # t
      BY <1>4 DEF Claim, Fresh
    <2>3. page'[d].token = t
      BY <1>0, <1>4, ClaimFacts, ClaimedFields DEF PublicationInv
    <2>4. QED
      BY <2>1, <2>2, <2>3 DEF Holds
  <1>5. ASSUME NEW v \in Workers, Finish(v), worker[v].doc = d
        PROVE  FALSE
    BY <1>0, <1>1, <1>5, FinishFacts, PublishedFields
  <1>6. CASE Tick
    <2>1. /\ worker'[w].doc = worker[w].doc /\ worker'[w].token = worker[w].token
          /\ worker'[w].pc = worker[w].pc /\ worker'[w].known = worker[w].known
      BY <1>0, <1>6 DEF Tick, WorkerState
    <2>2. page'[d] = Aged(page[d])
      BY <1>6 DEF Tick
    <2>3. Undisturbed(page[d], worker[w])
      BY <1>0, <1>2, <2>1, <2>2, AgedFields DEF Holds
    <2>4. Punctual /\ AtWork(worker[w].pc) => worker'[w].age = worker[w].age + 1
      <3>1. SUFFICES ASSUME Punctual, AtWork(worker[w].pc)
                     PROVE  worker'[w].age = worker[w].age + 1
        OBVIOUS
      <3>2. worker[w].age < Patience(worker[w].pc)
        BY <1>6, <3>1 DEF Tick, OnTime
      <3>3. AtMost(Patience(worker[w].pc), worker[w].age + 1) = worker[w].age + 1
        BY <1>0, <3>2, Numbers DEF AtMost, Patience
      <3>4. QED
        BY <1>0, <1>6, <3>1, <3>3 DEF Tick, WorkerState
    <2>5. page'[d].hash = page[d].hash /\ page'[d].claimAge <= page[d].claimAge + 1
      BY <1>0, <2>2, AgedFields
    <2>6. page'[d].claimAge \in Nat
      BY <1>0, <2>2, AgedType, Numbers DEF PageRow
    <2>7. ASSUME Punctual, AtWork(worker'[w].pc)
          PROVE  page'[d].claimAge <= worker'[w].age + Ahead(worker'[w].pc)
      <3>1. page[d].claimAge <= worker[w].age + Ahead(worker[w].pc)
        BY <2>1, <2>3, <2>7 DEF Undisturbed
      <3>2. worker'[w].age = worker[w].age + 1
        BY <2>1, <2>4, <2>7
      <3>3. Ahead(worker[w].pc) \in Nat
        BY Numbers DEF Ahead
      <3>4. QED
        BY <1>0, <2>1, <2>5, <2>6, <3>1, <3>2, <3>3
    <2>8. worker'[w].known = page'[d].hash
      BY <2>1, <2>3, <2>5 DEF Undisturbed
    <2>9. QED
      BY <2>7, <2>8 DEF Undisturbed
  <1>7. CASE RowStays(d) /\ Remembers(w) /\ (Begins(w) \/ GoesOn(w))
    <2>1. /\ worker[w].doc = d /\ Undisturbed(page[d], worker[w])
          /\ page'[d].claimAge = page[d].claimAge
      BY <1>2, <1>7 DEF RowStays, Remembers, Holds
    <2>2. worker'[w].known = page'[d].hash
      BY <1>7, <2>1 DEF RowStays, Remembers, Undisturbed
    <2>3. CASE Begins(w)
      <3>1. worker[w].age <= ClaimTime
        BY <2>1, <2>3 DEF PublicationInv, WorkingOK, Working, Begins, AtWork, Patience
      <3>2. Punctual => page[d].claimAge <= ClaimTime
        BY <1>0, <2>1, <2>3, <3>1, Numbers DEF Begins, Undisturbed, AtWork, Ahead
      <3>3. QED
        BY <2>1, <2>2, <2>3, <3>2, Numbers DEF Begins, Undisturbed, Ahead
    <2>4. CASE GoesOn(w)
      BY <2>1, <2>2, <2>4 DEF GoesOn, Undisturbed, AtWork, Ahead, TimedPCs
    <2>5. QED
      BY <1>7, <2>3, <2>4
  <1>8. CASE RowStays(d) /\ Fetched(w)
    <2>1. /\ worker[w].doc = d /\ worker[w].pc = "fetching"
          /\ worker'[w].token = worker[w].token /\ worker'[w].known = worker[w].known
          /\ worker'[w].age = worker[w].age /\ worker'[w].pc # "claimed"
      BY <1>0, <1>8 DEF Fetched, WorkerState
    <2>2. QED
      BY <1>2, <1>8, <2>1 DEF RowStays, Holds, Undisturbed, AtWork, Ahead, TimedPCs
  <1>9. worker'[w].doc # NoDoc
    BY ConstantsAssumption
  <1>10. \/ RowStays(d) \/ Tick
         \/ \E v \in Workers, t \in Tokens : Claim(v, d, t)
    BY <1>1, <1>5, RowChanges DEF RowChange, RowFreed, RowEmpty, PublicationInv
  <1>11. \/ Remembers(w) /\ (Begins(w) \/ GoesOn(w))
         \/ Fetched(w) \/ Tick
         \/ \E x \in Docs, t \in Tokens : Claim(w, x, t)
    BY <1>9, WorkerChanges DEF WorkerChange, PublicationInv
  <1>12. CASE \E v \in Workers, t \in Tokens : Claim(v, d, t)
    BY <1>3, <1>4, <1>12
  <1>13. CASE RowStays(d)
    BY <1>3, <1>6, <1>7, <1>8, <1>11, <1>13
  <1>14. QED
    BY <1>6, <1>10, <1>12, <1>13

-----------------------------------------------------------------------------
LEMMA PublicationStep == PublicationInv /\ [Next]_vars => PublicationInv'
  <1> SUFFICES ASSUME PublicationInv, [Next]_vars PROVE PublicationInv'
    OBVIOUS
  <1>1. WebpageInv'
    BY NextKeeps DEF PublicationInv
  <1>2. CASE Next
    <2>1. StoredOK'
      BY <1>2, StoredStep DEF StoredOK
    <2>2. WorkingOK'
      BY <1>2, WorkingStep, HoldingStep DEF WorkingOK
    <2>3. QED
      BY <1>1, <2>1, <2>2 DEF PublicationInv
  <1>3. CASE UNCHANGED vars
    BY <1>1, <1>3 DEF vars, PublicationInv, StoredOK, WorkingOK
  <1>4. QED
    BY <1>2, <1>3

LEMMA PublicationInvariant == Spec => []PublicationInv
  <1>1. Init => PublicationInv
    <2> SUFFICES ASSUME Init PROVE PublicationInv
      OBVIOUS
    <2>1. StoredOK
      BY EmptyText DEF Init, VacantRow, NewRow, StoredOK, Stored
    <2>2. WorkingOK
      BY ConstantsAssumption DEF Init, IdleWorker, WorkingOK
    <2>3. QED
      BY <2>1, <2>2, InitHolds DEF PublicationInv
  <1>2. QED
    BY <1>1, PublicationStep, PTL DEF Spec

-----------------------------------------------------------------------------
(* Whether a publication has chunks is decided by the hash the claim saw,   *)
(* whether it needs them by the stored one: while the token is the row's    *)
(* they are the same, so finish never raises for want of chunks.            *)
THEOREM NeverShortOfChunksHolds == Spec => []NeverShortOfChunks
  <1>1. PublicationInv => NeverShortOfChunks
    BY DEF PublicationInv, WorkingOK, NeverShortOfChunks, Publishable, HasChunks, Current, Holds,
       Undisturbed
  <1>2. QED
    BY <1>1, PublicationInvariant, PTL

(* A claim is never up for another worker while its own is at work, for     *)
(* every lease, deadline and duration of the claim that leave room for each *)
(* other: claimed_at is renewed with the token, and the claim's age is at   *)
(* most what the job's timeout counts and what the claim took before it.    *)
THEOREM LeaseOutlivesJobHolds == Spec => []LeaseOutlivesJob
  <1>1. PublicationInv => LeaseOutlivesJob
    <2> SUFFICES ASSUME PublicationInv, Punctual, ClaimTime + JobTimeout <= Lease,
                        NEW w \in Workers, AtWork(worker[w].pc), Current(w)
                 PROVE  ~LeaseExpired(worker[w].doc)
      BY DEF LeaseOutlivesJob, JobEndsWithinLease
    <2> DEFINE d == worker[w].doc
    <2>1. d \in Docs /\ Holds(page[d], worker[w])
      BY DEF Current, Holds
    <2>2. /\ page[d].claimAge <= worker[w].age + Ahead(worker[w].pc)
          /\ worker[w].age <= Patience(worker[w].pc)
      BY <2>1 DEF PublicationInv, WorkingOK, Working, Undisturbed
    <2>3. worker[w].age \in Nat /\ page[d].claimAge \in Nat
      BY <2>1, Numbers DEF PublicationInv, WebpageInv, TypeOK, WorkerState, PageRow
    <2>4. Patience(worker[w].pc) + Ahead(worker[w].pc) <= ClaimTime + JobTimeout
      BY Numbers DEF Patience, Ahead
    <2>5. page[d].claimAge <= Lease
      BY <2>2, <2>3, <2>4, Numbers DEF Patience, Ahead
    <2>6. QED
      BY <2>3, <2>5, Numbers DEF LeaseExpired
  <1>2. QED
    BY <1>1, PublicationInvariant, PTL

(* A whole text fetched for a claim is not older than what the claim knew   *)
LEMMA FinishAdvances ==
  ASSUME PublicationInv, NEW w \in Workers, Finish(w), page[worker[w].doc].chunks # NoText
  PROVE  AtLeast(worker[w].got, page[worker[w].doc].chunks)
  <1> DEFINE d == worker[w].doc
  <1>1. page[d].chunks = page[d].hash
    BY FinishFacts DEF PublicationInv, WebpageInv, RowsFit, RowFits, Live
  <1>2. Len(page[d].chunks) = UrlCount /\ Len(worker[w].got) = UrlCount
    BY <1>1, FinishFacts DEF PublicationInv, StoredOK, Stored, Whole
  <1>3. Advances(worker[w].got, page[d].chunks)
    BY <1>1, FinishFacts DEF Working
  <1>4. QED
    BY <1>2, <1>3, Numbers DEF AtLeast, Advances

(* A stale worker never puts back older text, and a failure never removes   *)
(* it: _complete compares the token under the row lock.                     *)
THEOREM PublicationMovesForwardHolds == Spec => PublicationMovesForward
  <1> DEFINE Kept(d) == /\ page'[d].chunks # NoText /\ AtLeast(page'[d].chunks, page[d].chunks)
                        /\ page'[d].status = "ready"
             Forward == \A d \in Docs : Live(d) /\ Live(d)' /\ page[d].chunks # NoText => Kept(d)
  <1>1. PublicationInv /\ [Next]_vars => [Forward]_vars
    <2> SUFFICES ASSUME PublicationInv, Next, NEW d \in Docs,
                        Live(d), Live(d)', page[d].chunks # NoText
                 PROVE  Kept(d)
      OBVIOUS
    <2>0. page[d] \in PageRow /\ page[d].chunks \in Texts
      BY DEF PublicationInv, WebpageInv, TypeOK, PageRow
    <2>1. page'[d].chunks # NoText /\ AtLeast(page'[d].chunks, page[d].chunks)
      <3>1. CASE page'[d].chunks = page[d].chunks
        BY <2>0, <3>1, TextFacts DEF AtLeast
      <3>2. ASSUME NEW w \in Workers, Finish(w), worker[w].doc = d
            PROVE  page'[d].chunks # NoText /\ AtLeast(page'[d].chunks, page[d].chunks)
        BY <3>2, FinishFacts, FinishAdvances, PublishedFields
      <3>3. ASSUME NEW w \in Workers, NEW t \in Tokens, Claim(w, d, t)
            PROVE  page'[d].chunks = page[d].chunks
        BY <2>0, <3>3, ClaimFacts, ClaimedFields DEF PublicationInv
      <3>4. CASE Tick
        BY <2>0, <3>1, <3>4, AgedFields DEF Tick
      <3>5. QED
        BY <3>1, <3>2, <3>3, <3>4, RowChanges
           DEF RowChange, RowStays, RowFreed, RowEmpty, Live, PublicationInv
    <2>2. page'[d].status = "ready"
      <3>1. RowsFit'
        BY PublicationStep DEF PublicationInv, WebpageInv
      <3>2. QED
        BY <2>1, <3>1 DEF RowsFit, RowFits, Live
    <2>3. QED
      BY <2>1, <2>2
  <1>2. QED
    BY <1>1, PublicationInvariant, PTL DEF Spec, PublicationMovesForward

-----------------------------------------------------------------------------
(* Turning the schedule off ends automatic work only; every other attempt   *)
(* ends by a step of the worker that holds its claim, with the attempt's    *)
(* result or failure.                                                       *)
THEOREM RequestedWorkIsKeptHolds == Spec => RequestedWorkIsKept
  <1> DEFINE Ends(d) == /\ Pending(d) /\ page[d].reason # "automatic"
                        /\ Live(d)' /\ ~Pending(d)'
             Held(d) == \E w \in Workers :
                          worker[w].doc = d /\ worker[w].token = page[d].token /\ Reports(w)
             Kept == \A d \in Docs :
                       Pending(d) /\ page[d].reason # "automatic" /\ Live(d)' /\ ~Pending(d)' =>
                         \E w \in Workers :
                           worker[w].doc = d /\ worker[w].token = page[d].token /\ Reports(w)
  <1>1. WebpageInv /\ [Next]_vars => [Kept]_vars
    <2> SUFFICES ASSUME WebpageInv, Next, NEW d \in Docs, Ends(d)
                 PROVE  Held(d)
      OBVIOUS
    <2>0. page \in [Docs -> PageRow] /\ page[d] \in PageRow
      BY DEF WebpageInv, TypeOK
    <2>1. page'[d] # page[d] /\ page'[d].sync \notin {"queued", "running"} /\ Live(d)
      BY DEF Pending, Live
    <2>2. ASSUME NEW x \in Docs, NEW auto \in BOOLEAN, Create(x, auto)
          PROVE  FALSE
      BY <2>0, <2>1, <2>2 DEF Create, NewRow, Live
    <2>3. ASSUME NEW x \in Docs, Enqueue(x)
          PROVE  FALSE
      BY <2>0, <2>1, <2>3 DEF Enqueue, Pending, Live
    <2>4. ASSUME NEW x \in Docs, SetAutoSync(x)
          PROVE  FALSE
      <3> DEFINE auto == ~page[x].auto
                 row  == Scheduled(page[x], auto)
      <3>1. row.sync = page[x].sync /\ row.reason = page[x].reason
        BY <2>0 DEF Scheduled, PageRow
      <3>2. \/ page' = [page EXCEPT ![x] = row]
            \/ IsAutomaticWork(row) /\ page' = [page EXCEPT ![x] = Cancelled(row)]
        BY <2>4 DEF SetAutoSync
      <3>3. QED
        <4> HIDE DEF row
        <4> QED BY <2>0, <2>1, <3>1, <3>2 DEF IsAutomaticWork, Pending
    <2>5. ASSUME NEW x \in Docs, Delete(x)
          PROVE  FALSE
      BY <2>0, <2>1, <2>5 DEF Delete, VacantRow, NewRow, Live
    <2>6. ASSUME NEW w \in Workers, NEW x \in Docs, NEW t \in Tokens, Claim(w, x, t)
          PROVE  FALSE
      BY <2>0, <2>1, <2>6, ClaimFacts, ClaimedFields
    <2>7. ASSUME NEW w \in Workers, Finish(w) \/ Fail(w)
          PROVE  Held(d)
      <3>1. worker[w].doc = d
        BY <2>0, <2>1, <2>7 DEF Finish, Fail
      <3>2. worker[w].token = page[d].token
        BY <2>7, <3>1 DEF Finish, Fail, Publishable, Current
      <3>3. worker \in [Workers -> WorkerState]
        BY DEF WebpageInv, TypeOK
      <3>4. Reports(w)
        <4>1. worker[w].pc \in {"finish", "failing"}
          BY <2>7 DEF Finish, Fail
        <4>2. CASE Drop(w)
          BY <3>3, <4>1, <4>2 DEF Drop, IdleWorker, Reports
        <4>3. CASE Finish(w) /\ Goto(w, "failing")
          BY <3>3, <4>1, <4>3 DEF Finish, Goto, WorkerState, Reports
        <4>4. QED
          BY <2>7, <4>2, <4>3 DEF Finish, Fail
      <3>5. QED
        BY <3>1, <3>2, <3>4
    <2>8. ASSUME NEW o \in Owners, EraseRows(o)
          PROVE  FALSE
      BY <2>0, <2>1, <2>8 DEF EraseRows, VacantRow, NewRow, Live
    <2>9. ~Tick
      BY <2>0, <2>1, AgedFields DEF Tick, Pending
    <2>10. QED
      BY <2>1, <2>2, <2>3, <2>4, <2>5, <2>6, <2>7, <2>8, <2>9, RowsUnchanged DEF Request
  <1>2. QED
    BY <1>1, Inductive, PTL DEF Spec, RequestedWorkIsKept

(* A row goes by the request of its own admitted owner, alone, or by the    *)
(* erasure of its own owner.                                                *)
THEOREM OthersArePreservedHolds == Spec => OthersArePreserved
  <1> DEFINE Own(d) == \/ Admitted(d) /\ \A x \in Docs \ {d} : page'[x] = page[x]
                       \/ erasing[OwnerOf[d]] = "drained"
             Kept == \A d \in Docs : Live(d) /\ ~Live(d)' => Own(d)
  <1>1. WebpageInv /\ [Next]_vars => [Kept]_vars
    <2> SUFFICES ASSUME WebpageInv, Next, NEW d \in Docs, Live(d), ~Live(d)'
                 PROVE  Own(d)
      BY DEF vars, Live
    <2>0. page \in [Docs -> PageRow] /\ page[d] \in PageRow
      BY DEF WebpageInv, TypeOK
    <2>1. ASSUME NEW x \in Docs, Delete(x)
          PROVE  Own(d)
      BY <2>0, <2>1 DEF Delete, Live
    <2>2. ASSUME NEW o \in Owners, EraseRows(o)
          PROVE  Own(d)
      BY <2>0, <2>2 DEF EraseRows, Erasable, Live
    <2>3. ASSUME NEW x \in Docs, NEW auto \in BOOLEAN, Create(x, auto)
          PROVE  FALSE
      BY <2>0, <2>3 DEF Create, NewRow, Live
    <2>4. ASSUME NEW x \in Docs, Enqueue(x)
          PROVE  FALSE
      BY <2>0, <2>4, RowFields DEF Enqueue, Live
    <2>5. ASSUME NEW x \in Docs, SetAutoSync(x)
          PROVE  FALSE
      <3> DEFINE auto == ~page[x].auto
                 row  == Scheduled(page[x], auto)
      <3>1. auto \in BOOLEAN /\ page[x] \in PageRow
        BY <2>0 DEF PageRow
      <3>2. row \in PageRow /\ row.row = page[x].row /\ Cancelled(row).row = row.row
        BY <3>1, ScheduledType, RowFields
      <3>3. page' = [page EXCEPT ![x] = row] \/ page' = [page EXCEPT ![x] = Cancelled(row)]
        BY <2>5 DEF SetAutoSync
      <3>4. QED
        <4> HIDE DEF row
        <4> QED BY <2>0, <3>2, <3>3 DEF Live
    <2>6. ASSUME NEW w \in Workers, NEW x \in Docs, NEW t \in Tokens, Claim(w, x, t)
          PROVE  FALSE
      BY <2>0, <2>6, ClaimedFields DEF Claim, Live
    <2>7. ASSUME NEW w \in Workers, Finish(w)
          PROVE  FALSE
      <3>1. worker[w].got \in Texts
        BY DEF WebpageInv, TypeOK, WorkerState
      <3>2. QED
        BY <2>0, <2>7, <3>1, PublishedFields DEF Finish, Live
    <2>8. ASSUME NEW w \in Workers, Fail(w)
          PROVE  FALSE
      BY <2>0, <2>8, RowFields DEF Fail, Live
    <2>9. ~Tick
      BY <2>0, AgedFields DEF Tick, Live
    <2>10. page' # page
      BY DEF Live
    <2>11. QED
      BY <2>1, <2>2, <2>3, <2>4, <2>5, <2>6, <2>7, <2>8, <2>9, <2>10, RowsUnchanged DEF Request
  <1>2. QED
    BY <1>1, Inductive, PTL DEF Spec, OthersArePreserved

-----------------------------------------------------------------------------
(* The refinement: how a row looks to readers                               *)
Shown(row) == [
  row |-> IF row.row = "live" THEN row.status ELSE row.row, text |-> row.chunks]

ReaderDoc(d) ==
  [x \in Docs |-> [row  |-> IF Live(x) THEN page[x].status ELSE page[x].row,
                   text |-> page[x].chunks]][d]

LEMMA ReaderDocIs ==
  ASSUME NEW d \in Docs
  PROVE  /\ ReaderDoc(d) = Shown(page[d])
         /\ \A s : [ReaderDoc(d) EXCEPT !.row = s] = [row |-> s, text |-> page[d].chunks]
  BY DEF ReaderDoc, Shown, Live

LEMMA Becoming ==
  ASSUME TypeOK, NEW d \in Docs, NEW row, page' = [page EXCEPT ![d] = row],
         NEW state, state = Shown(row), Admitted(d), fenced' = fenced, wiped' = wiped
  PROVE  Documents!Becomes(d, state)
  BY DEF TypeOK, Shown, Live, Admitted, Documents!Becomes, Documents!Admitted

LEMMA NothingShown ==
  ASSUME TypeOK, \A d \in Docs : Shown(page'[d]) = Shown(page[d]), fenced' = fenced, wiped' = wiped
  PROVE  UNCHANGED Documents!docVars
  <1>1. [d \in Docs |-> Shown(page[d])]' = [d \in Docs |-> Shown(page[d])]
    OBVIOUS
  <1>2. QED
    BY <1>1 DEF Shown, Live, Documents!docVars

LEMMA ShownLive ==
  ASSUME TypeOK, NEW d \in Docs
  PROVE  Documents!Live(d) <=> Live(d)
  BY DEF TypeOK, PageRow, Live, Documents!Live, Documents!LiveStates

LEMMA PageText ==
  ASSUME NEW text \in Texts, Len(text) = UrlCount
  PROVE  text \in PageTexts
  <1>1. text \in Seq(0 .. MaxVersion)
    BY DEF Texts
  <1>2. text \in [1 .. Len(text) -> 0 .. MaxVersion]
    BY <1>1, LenProperties
  <1>3. QED
    BY <1>2 DEF PageTexts

LEMMA SameShown ==
  ASSUME TypeOK, NEW d \in Docs, NEW row, page' = [page EXCEPT ![d] = row],
         Shown(row) = Shown(page[d]), fenced' = fenced, wiped' = wiped
  PROVE  UNCHANGED Documents!docVars
  <1>1. \A x \in Docs : Shown(page'[x]) = Shown(page[x])
    BY DEF TypeOK
  <1>2. QED
    BY <1>1, NothingShown

(* Rows and fence of every step that is not an erasure or a tick            *)
LEMMA RequestShown ==
  ASSUME PublicationInv, Request
  PROVE  [Documents!Next]_(Documents!docVars)
  <1>0. TypeOK /\ page \in [Docs -> PageRow] /\ RowsFit
    BY DEF PublicationInv, WebpageInv, TypeOK
  <1>1. ASSUME NEW d \in Docs, NEW auto \in BOOLEAN, Create(d, auto)
        PROVE  Documents!Register(d)
    <2>1. Shown(NewRow(auto)) = [row |-> "processing", text |-> NoText]
      BY DEF Shown, NewRow
    <2>2. page[d].chunks = NoText /\ page[d].row = "absent"
      BY <1>1 DEF Create, PublicationInv, StoredOK, Stored
    <2>3. Documents!Becomes(d, [row |-> "processing", text |-> NoText])
      BY <1>0, <1>1, <2>1, Becoming DEF Create, OnlyRows
    <2>4. ReaderDoc(d).row = "absent"
      BY <2>2, ReaderDocIs DEF Shown
    <2>5. [ReaderDoc(d) EXCEPT !.row = "processing"] = [row |-> "processing", text |-> NoText]
      BY <2>2, ReaderDocIs
    <2>6. QED
      BY <2>3, <2>4, <2>5 DEF Documents!Register, Documents!Becomes, ReaderDoc
  <1>2. ASSUME NEW d \in Docs, Enqueue(d)
        PROVE  [Documents!Next]_(Documents!docVars)
    <2> DEFINE row == Requeued(page[d])
    <2>0. page[d] \in PageRow /\ RowFits(page[d]) /\ page[d].row = "live"
      BY <1>0, <1>2 DEF RowsFit, Enqueue, Live
    <2>1. page' = [page EXCEPT ![d] = row] /\ fenced' = fenced /\ wiped' = wiped /\ Admitted(d)
      BY <1>2 DEF Enqueue, OnlyRows
    <2>2. row.row = "live" /\ row.chunks = page[d].chunks
      BY <2>0, RowFields
    <2>3. row.status = IF page[d].hash = NoText THEN "processing" ELSE page[d].status
      BY <2>0 DEF Requeued, Unclaimed, PageRow
    <2>4. CASE page[d].hash # NoText
      <3>1. Shown(row) = Shown(page[d])
        BY <2>0, <2>2, <2>3, <2>4 DEF Shown
      <3>2. QED
        BY <1>0, <2>1, <3>1, SameShown
    <2>5. CASE page[d].hash = NoText
      <3>1. page[d].status = "failed" /\ page[d].chunks = NoText
        BY <1>2, <2>0, <2>5 DEF Enqueue, Pending, Live, RowFits, PageRow
      <3>2. Shown(row) = [row |-> "processing", text |-> NoText]
        BY <2>2, <2>3, <2>5, <3>1 DEF Shown
      <3>3. Documents!Becomes(d, [row |-> "processing", text |-> NoText])
        BY <1>0, <2>1, <3>2, Becoming
      <3>4. ReaderDoc(d).row = "failed" /\ ReaderDoc(d).text = NoText
        BY <2>0, <3>1, ReaderDocIs DEF Shown
      <3>5. [ReaderDoc(d) EXCEPT !.row = "processing"] = [row |-> "processing", text |-> NoText]
        BY <3>1, ReaderDocIs
      <3>6. Documents!Restart(d)
        BY <3>3, <3>4, <3>5 DEF Documents!Restart, Documents!Becomes, ReaderDoc
      <3>7. QED
        BY <3>6 DEF Documents!Next, Documents!Change
    <2>6. QED
      BY <2>4, <2>5
  <1>3. ASSUME NEW d \in Docs, SetAutoSync(d)
        PROVE  UNCHANGED Documents!docVars
    <2> DEFINE auto == ~page[d].auto
               row  == Scheduled(page[d], auto)
    <2>0. page[d] \in PageRow /\ auto \in BOOLEAN
      BY <1>0 DEF PageRow
    <2>1. row \in PageRow /\ row.row = page[d].row /\ row.chunks = page[d].chunks
      BY <2>0, ScheduledType, RowFields
    <2>2. row.status = page[d].status
      BY <2>0 DEF Scheduled, PageRow
    <2>3. \/ page' = [page EXCEPT ![d] = row]
          \/ page' = [page EXCEPT ![d] = Cancelled(row)]
      BY <1>3 DEF SetAutoSync
    <2>4. fenced' = fenced /\ wiped' = wiped
      BY <1>3 DEF SetAutoSync, OnlyRows
    <2> HIDE DEF row
    <2>5. Shown(row) = Shown(page[d])
      BY <2>1, <2>2 DEF Shown
    <2>6. Shown(Cancelled(row)) = Shown(row)
      BY <2>1 DEF Shown, Cancelled, Unclaimed, PageRow
    <2>7. QED
      BY <1>0, <2>3, <2>4, <2>5, <2>6, SameShown
  <1>4. ASSUME NEW d \in Docs, Delete(d)
        PROVE  Documents!Remove(d)
    <2>1. Shown(VacantRow("gone")) = Documents!Gone
      BY DEF Shown, VacantRow, NewRow, Documents!Gone
    <2>2. Documents!Becomes(d, Documents!Gone)
      BY <1>0, <1>4, <2>1, Becoming DEF Delete, OnlyRows
    <2>3. QED
      BY <1>0, <1>4, <2>2, ShownLive DEF Documents!Remove, Delete
  <1>5. QED
    BY <1>1, <1>2, <1>3, <1>4 DEF Request, Documents!Next, Documents!Change

(* _complete publishes a text that is not older; a failed attempt withdraws *)
(* a document that has none, and leaves any other to its readers            *)
LEMMA FinishShown ==
  ASSUME PublicationInv, NEW w \in Workers, Finish(w),
         NEW d, d = worker[w].doc, NEW text, text = worker[w].got
  PROVE  Documents!Next
  <1> DEFINE row == Published(page[d], text)
  <1>0. TypeOK /\ page[d] \in PageRow /\ d \in Docs /\ Live(d) /\ Admitted(d) /\ text \in Texts
    BY DEF PublicationInv, WebpageInv, TypeOK, WorkerState, Finish, Publishable, Current
  <1>1. page' = [page EXCEPT ![d] = row] /\ fenced' = fenced /\ wiped' = wiped
    BY DEF Finish
  <1>2. Len(text) = UrlCount
    BY FinishFacts
  <1>3. text \in PageTexts
    BY <1>0, <1>2, PageText
  <1>4. Shown(row) = [row |-> "ready", text |-> text]
    BY <1>0, PublishedFields DEF Shown, Live
  <1>5. Documents!Becomes(d, [row |-> "ready", text |-> text])
    <2> HIDE DEF row
    <2> QED BY <1>0, <1>1, <1>4, Becoming
  <1>6. page[d].chunks # NoText =>
          <<page[d].chunks, text>> \in {p \in PageTexts \X PageTexts : AtLeast(p[2], p[1])}
    <2> SUFFICES ASSUME page[d].chunks # NoText
                 PROVE  page[d].chunks \in PageTexts /\ AtLeast(text, page[d].chunks)
      BY <1>3
    <2>1. page[d].chunks = page[d].hash
      BY <1>0 DEF PublicationInv, WebpageInv, RowsFit, RowFits, Live
    <2>2. page[d].chunks \in Texts /\ Len(page[d].chunks) = UrlCount
      BY <1>0, <2>1 DEF PublicationInv, StoredOK, Stored, Whole, PageRow
    <2>3. QED
      BY <2>2, PageText, FinishAdvances
  <1>7. Documents!Publish(d, text)
    BY <1>0, <1>5, <1>6, ShownLive DEF Documents!Publish
  <1>8. Documents!Change(d)
    <2>1. text \in [x \in Docs |-> PageTexts][d]
      BY <1>0, <1>3
    <2>2. QED
      BY <1>7, <2>1 DEF Documents!Change
  <1>9. QED
    BY <1>0, <1>8 DEF Documents!Next

LEMMA FailShown ==
  ASSUME PublicationInv, NEW w \in Workers, Fail(w), NEW d, d = worker[w].doc
  PROVE  [Documents!Next]_(Documents!docVars)
  <1> DEFINE row == FailedRow(page[d])
  <1>0. /\ TypeOK /\ page[d] \in PageRow /\ RowFits(page[d]) /\ d \in Docs
        /\ Live(d) /\ Admitted(d)
    BY DEF PublicationInv, WebpageInv, TypeOK, RowsFit, Fail, Current
  <1>1. page' = [page EXCEPT ![d] = row] /\ fenced' = fenced /\ wiped' = wiped
    BY DEF Fail
  <1>2. row.row = "live" /\ row.chunks = page[d].chunks
    BY <1>0, RowFields DEF Live
  <1>3. row.status = IF page[d].hash = NoText THEN "failed" ELSE page[d].status
    BY <1>0, SettledType, SettledFields DEF FailedRow, PageRow
  <1>4. CASE page[d].hash # NoText
    <2>1. Shown(row) = Shown(page[d])
      BY <1>0, <1>2, <1>3, <1>4 DEF Shown, Live
    <2>2. QED
      BY <1>0, <1>1, <2>1, SameShown
  <1>5. CASE page[d].hash = NoText
    <2>1. page[d].chunks = NoText
      BY <1>0, <1>5 DEF RowFits, Live
    <2>2. Shown(row) = [row |-> "failed", text |-> NoText]
      BY <1>2, <1>3, <1>5, <2>1 DEF Shown
    <2>3. Documents!Becomes(d, [row |-> "failed", text |-> NoText])
      BY <1>0, <1>1, <2>2, Becoming
    <2>4. [ReaderDoc(d) EXCEPT !.row = "failed"] = [row |-> "failed", text |-> NoText]
      BY <1>0, <2>1, ReaderDocIs
    <2>5. Documents!Withdraw(d)
      BY <1>0, <2>3, <2>4, ShownLive DEF Documents!Withdraw, Documents!Becomes, ReaderDoc
    <2>6. QED
      BY <1>0, <2>5 DEF Documents!Next, Documents!Change
  <1>6. QED
    BY <1>4, <1>5

LEMMA ClaimShown ==
  ASSUME PublicationInv, NEW w \in Workers, NEW d \in Docs, NEW t \in Tokens, Claim(w, d, t)
  PROVE  UNCHANGED Documents!docVars
  <1>1. TypeOK /\ page[d] \in PageRow
    BY DEF PublicationInv, WebpageInv, TypeOK
  <1>2. PICK age \in ClaimAges : page' = [page EXCEPT ![d] = Claimed(page[d], t, age)]
    BY DEF Claim
  <1>3. Shown(Claimed(page[d], t, age)) = Shown(page[d])
    BY <1>1, ClaimedFields DEF Shown
  <1>4. QED
    BY <1>1, <1>2, <1>3, SameShown DEF Claim

LEMMA TickShown ==
  ASSUME PublicationInv, Tick
  PROVE  UNCHANGED Documents!docVars
  <1>1. TypeOK /\ page \in [Docs -> PageRow]
    BY DEF PublicationInv, WebpageInv, TypeOK
  <1>2. \A d \in Docs : Shown(page'[d]) = Shown(page[d])
    BY <1>1, AgedFields DEF Tick, Shown
  <1>3. QED
    BY <1>1, <1>2, NothingShown DEF Tick

LEMMA EraseShown ==
  ASSUME PublicationInv, NEW o \in Owners, EraseRows(o)
  PROVE  Documents!Next
  <1>1. TypeOK
    BY DEF PublicationInv, WebpageInv
  <1>2. [d \in Docs |-> Shown(page[d])]' =
          [d \in Docs |-> IF OwnerOf[d] = o /\ Live(d) THEN Documents!Gone ELSE Shown(page[d])]
    BY DEF EraseRows, Erasable, Shown, VacantRow, NewRow, Documents!Gone
  <1>3. Documents!Erase(o)
    BY <1>1, <1>2, ShownLive DEF EraseRows, Shown, Live, Documents!Erase
  <1>4. QED
    BY <1>3 DEF Documents!Next

(* Rows, claims, workers and schedules implement what readers are promised: *)
(* a synchronization publishes a whole text that is not older, in one       *)
(* transaction, or it changes nothing a search can see.                     *)
THEOREM WebpageDocumentsImplement == Spec => DocumentsImplemented
  <1>1. Init => Documents!Init
    BY DEF Init, Documents!Init, Live, VacantRow, NewRow
  <1>2. PublicationInv /\ [Next]_vars => [Documents!Next]_(Documents!docVars)
    <2> SUFFICES ASSUME PublicationInv, [Next]_vars
                 PROVE  [Documents!Next]_(Documents!docVars)
      OBVIOUS
    <2>1. CASE UNCHANGED vars
      BY <2>1 DEF vars, Documents!docVars, Live
    <2>2. CASE Next /\ page' = page /\ ~Tick /\ ~\E o \in Owners : EraseRows(o)
      <3>1. ASSUME NEW o \in Owners, EraseFence(o)
            PROVE  Documents!Next
        BY <3>1 DEF EraseFence, Live, Documents!Fence, Documents!Next
      <3>2. CASE fenced' = fenced /\ wiped' = wiped
        BY <2>2, <3>2 DEF Documents!docVars, Live
      <3>3. QED
        BY <2>2, <3>1, <3>2, OutsideSteps DEF Quiet, SiteChanges
    <2>3. CASE Next /\ page' # page
      BY <2>3, RowsUnchanged, RequestShown, FinishShown, FailShown, ClaimShown, EraseShown,
         TickShown
    <2>4. QED
      BY <2>1, <2>2, <2>3, TickShown, EraseShown
  <1>3. QED
    BY <1>1, <1>2, PublicationInvariant, PTL DEF Spec, DocumentsImplemented, Documents!Spec
============================================================================
