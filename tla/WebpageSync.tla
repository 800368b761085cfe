---------------------------- MODULE WebpageSync ----------------------------
(***************************************************************************)
(* The durable queue of webpage synchronizations: the rows of documents    *)
(* and document_webpages, the requests that change them, the workers that  *)
(* claim, fetch, embed and publish, and the owner's account erasure.       *)
(*                                                                         *)
(* Every repository transaction starts by taking the owner's transaction-  *)
(* level advisory lock and holds it until it commits, so two transactions  *)
(* of one owner never overlap: each is one action here.  What a worker     *)
(* does between two transactions is a sequence of actions of its own, and  *)
(* what it remembers from one to the next may be stale.                    *)
(*                                                                         *)
(* Times are kept relative to the present: the age of a claim and of the   *)
(* last check, and the time left until the next automatic attempt.  They   *)
(* stop at the first value past which no condition tells them apart.       *)
(***************************************************************************)
EXTENDS Integers, Sequences, FiniteSets

CONSTANTS
  Docs,          \* ids of webpage documents; an id is used once (uuid4)
  Owners,        \* user ids
  OwnerOf,       \* [Docs -> Owners]
  Workers,       \* processes; each runs one webpage worker
  Tokens,        \* claim tokens
  NoDoc, NoToken,
  UrlCount,      \* pages selected for a document
  BatchCount,    \* embedding batches of a changed document
  ScanLimit,     \* candidates one claim looks at
  Lease,         \* CLAIM_LEASE
  JobTimeout,    \* JOB_TIMEOUT
  ClaimTime,     \* how long a punctual process takes from claimed_at to the job's start
  SyncInterval,  \* SYNC_INTERVAL
  MaxVersion,    \* bound: changes of a document's site
  Punctual       \* TRUE: a job's deadline fires on time.  FALSE: a process may stall

ASSUME ConstantsAssumption ==
  /\ OwnerOf \in [Docs -> Owners]
  /\ NoDoc \notin Docs /\ NoToken \notin Tokens
  /\ {UrlCount, BatchCount, ScanLimit, Lease, JobTimeout, SyncInterval} \subseteq Nat \ {0}
  /\ ClaimTime \in Nat /\ MaxVersion \in Nat
  /\ Punctual \in BOOLEAN

ASSUME DeadlineAssumption == JobTimeout < Lease

VARIABLES
  page,     \* [Docs -> PageRow]: a document row joined with its webpage row
  order,    \* the documents, by documents.updated_at
  site,     \* [Docs -> version]: the text the crawler would fetch now
  cands,    \* [Workers -> candidates left of the last scan, oldest first]
  worker,   \* [Workers -> WorkerState]: the memory of each worker
  marked,   \* [Workers -> SUBSET Owners]: _erased_owner_hashes of each process
  fenced,   \* owners in rag_erased_owners
  erasing,  \* [Owners -> step of the erasure request in progress]
  wiped     \* owners whose rows an erasure transaction has deleted

vars == <<page, order, site, cands, worker, marked, fenced, erasing, wiped>>

-----------------------------------------------------------------------------
(* A stored or fetched text is the sequence of the versions of its pages;  *)
(* the empty sequence is no text (content_hash NULL).                      *)
Texts  == Seq(0 .. MaxVersion)
NoText == << >>
NoTime == -1

PageRow == [
  row      : {"absent", "live", "gone"},
  status   : {"processing", "ready", "failed"},    \* documents.status
  content  : Texts,                                \* content
  hash     : Texts,                                \* content_hash
  chunks   : Texts,                                \* the text the chunks were cut from
  sync     : {"idle", "queued", "running", "failed"},
  reason   : {"initial", "manual", "automatic"},
  auto     : BOOLEAN,
  token    : Tokens \cup {NoToken},
  claimAge : 0 .. Lease + 1,                       \* now - claimed_at
  next     : {NoTime} \cup (0 .. SyncInterval),    \* next_sync_at - now
  checked  : {NoTime} \cup (0 .. SyncInterval)]    \* now - last_checked_at

NewRow(auto) == [
  row |-> "live", status |-> "processing",
  content |-> NoText, hash |-> NoText, chunks |-> NoText,
  sync |-> "queued", reason |-> "initial", auto |-> auto,
  token |-> NoToken, claimAge |-> 0, next |-> NoTime, checked |-> NoTime]

VacantRow(state) == [NewRow(FALSE) EXCEPT !.row = state, !.sync = "idle"]

Live(d)    == page[d].row = "live"
Pending(d) == Live(d) /\ page[d].sync \in {"queued", "running"}
Admitted(d) == OwnerOf[d] \notin fenced

(* Faulty: updated_at keeps its first value *)
Touch_Once(d) ==
  order' = IF \E i \in 1 .. Len(order) : order[i] = d THEN order ELSE Append(order, d)

(* The transaction touched the document: it becomes the last by updated_at *)
Touch(d) == order' = Append(SelectSeq(order, LAMBDA x : x # d), d)

-----------------------------------------------------------------------------
(* The worker's control state names what it does next.                     *)
TimedPCs == {"fetch", "fetching", "digest", "embed", "embedding", "finish"}

WorkerState == [
  pc    : {"idle", "claiming", "claimed", "failing"} \cup TimedPCs,
  doc   : Docs \cup {NoDoc},       \* the claim: document_id,
  token : Tokens \cup {NoToken},   \*   token,
  known : Texts,                   \*   content_hash as it was claimed
  got   : Texts,                   \* pages fetched so far
  left  : 0 .. BatchCount,         \* batches left to embed
  age   : 0 .. ClaimTime + JobTimeout]   \* since claimed_at; from Begin on, since the
                                   \* job's timeout was started

IdleWorker == [
  pc |-> "idle", doc |-> NoDoc, token |-> NoToken,
  known |-> NoText, got |-> NoText, left |-> 0, age |-> 0]

Timed(w) == worker[w].pc \in TimedPCs

AtWork(pc) == pc \in TimedPCs \cup {"claimed"}

(* Faulty: the claim token is not compared *)
Current_NoToken(w) ==
  LET d == worker[w].doc IN
  d \in Docs /\ Admitted(d) /\ Live(d) /\ page[d].sync = "running"

(* Faulty: the owner is not asserted active *)
Current_NoFence(w) ==
  LET d == worker[w].doc IN
  /\ d \in Docs
  /\ Live(d) /\ page[d].sync = "running" /\ page[d].token = worker[w].token

(* claim_is_current, and the checks _complete repeats under the row lock   *)
Current(w) ==
  LET d == worker[w].doc IN
  /\ d \in Docs
  /\ Admitted(d) /\ Live(d)
  /\ page[d].sync = "running" /\ page[d].token = worker[w].token

(* uuid4: a token nothing refers to any more is as good as a new one       *)
Fresh(t) ==
  /\ \A d \in Docs : page[d].token # t
  /\ \A w \in Workers : worker[w].token # t

LeaseExpired(d) == page[d].sync = "running" /\ page[d].claimAge > Lease

Due(d) ==
  /\ Live(d)
  /\ \/ page[d].sync = "queued"
     \/ LeaseExpired(d)
     \/ /\ page[d].auto /\ page[d].sync \in {"idle", "failed"}
        /\ page[d].next = 0

Goto(w, pc) == worker' = [worker EXCEPT ![w].pc = pc] /\ UNCHANGED cands

Drop(w) ==
  /\ worker' = [worker EXCEPT ![w] = IdleWorker]
  /\ cands' = [cands EXCEPT ![w] = << >>]

Init ==
  /\ page = [d \in Docs |-> VacantRow("absent")]
  /\ order = << >>
  /\ site = [d \in Docs |-> 0]
  /\ cands = [w \in Workers |-> << >>]
  /\ worker = [w \in Workers |-> IdleWorker]
  /\ marked = [w \in Workers |-> {}]
  /\ fenced = {}
  /\ erasing = [o \in Owners |-> "no"]
  /\ wiped = {}

-----------------------------------------------------------------------------
(* Requests of the owner                                                   *)

OnlyRows == UNCHANGED <<site, cands, worker, marked, fenced, erasing, wiped>>

(* Faulty: the owner is not asserted active *)
Create_NoFence(d, auto) ==
  /\ page[d].row = "absent"
  /\ page' = [page EXCEPT ![d] = NewRow(auto)]
  /\ Touch(d) /\ OnlyRows

(* POST /documents/webpages *)
Create(d, auto) ==
  /\ page[d].row = "absent" /\ Admitted(d)
  /\ page' = [page EXCEPT ![d] = NewRow(auto)]
  /\ Touch(d) /\ OnlyRows

(* Faulty: counts the interval from the wrong side of the last check *)
NextAfter_Added(age) == IF age = NoTime THEN SyncInterval ELSE SyncInterval + age

NextAfter(age) == IF age = NoTime THEN SyncInterval ELSE SyncInterval - age

Scheduled(row, auto) == [row EXCEPT
  !.auto = auto, !.next = IF auto THEN NextAfter(row.checked) ELSE NoTime]

Unclaimed(row, sync) == [row EXCEPT !.sync = sync, !.token = NoToken, !.claimAge = 0]

(* Faulty: the claim's token stays *)
Cancelled_KeepsToken(row) == [row EXCEPT !.sync = "idle"]

Cancelled(row) == Unclaimed(row, "idle")

(* Faulty: any queued or running work is cancelled *)
IsAutomaticWork_Any(row) == row.sync \in {"queued", "running"}

IsAutomaticWork(row) == row.reason = "automatic" /\ row.sync \in {"queued", "running"}

(* PATCH /documents/{id}/webpage; an equal value changes nothing.  Turning  *)
(* the schedule off cancels the automatic attempt it started                *)
SetAutoSync(d) ==
  LET auto == ~page[d].auto
      row  == Scheduled(page[d], auto) IN
  /\ Live(d) /\ Admitted(d)
  /\ page' = [page EXCEPT ![d] =
       IF ~auto /\ IsAutomaticWork(row) THEN Cancelled(row) ELSE row]
  /\ Touch(d) /\ OnlyRows

Requeued(row) == [Unclaimed(row, "queued") EXCEPT
  !.reason = "manual",
  !.status = IF row.hash = NoText THEN "processing" ELSE @]

(* POST /documents/{id}/sync; queued or running answers 409 *)
Enqueue(d) ==
  /\ Live(d) /\ Admitted(d) /\ ~Pending(d)
  /\ page' = [page EXCEPT ![d] = Requeued(@)]
  /\ Touch(d) /\ OnlyRows

(* DELETE /documents/{id} *)
Delete(d) ==
  /\ Live(d) /\ Admitted(d)
  /\ page' = [page EXCEPT ![d] = VacantRow("gone")]
  /\ order' = SelectSeq(order, LAMBDA x : x # d)
  /\ OnlyRows

-----------------------------------------------------------------------------
(* The worker: claim                                                       *)

OnlyWorker == UNCHANGED <<page, order, site, marked, fenced, erasing, wiped>>

Oldest(seq) == SubSeq(seq, 1, IF Len(seq) < ScanLimit THEN Len(seq) ELSE ScanLimit)

(* The unlocked query for candidates.  Nothing due: sleep and poll again    *)
Scan(w) ==
  /\ worker[w].pc = "idle"
  /\ Oldest(SelectSeq(order, Due)) # << >>
  /\ worker' = [worker EXCEPT ![w].pc = "claiming"]
  /\ cands' = [cands EXCEPT ![w] = Oldest(SelectSeq(order, Due))]
  /\ OnlyWorker

AtCandidate(w, d) ==
  worker[w].pc = "claiming" /\ cands[w] # << >> /\ d = Head(cands[w])

(* The candidate is no longer due, or its owner is being erased *)
SkipCandidate(w, d) ==
  /\ AtCandidate(w, d)
  /\ ~(Due(d) /\ Admitted(d))
  /\ IF Tail(cands[w]) = << >>
       THEN Drop(w)
       ELSE cands' = [cands EXCEPT ![w] = Tail(@)] /\ UNCHANGED worker
  /\ OnlyWorker

(* Faulty: a claim taken over keeps the time it was first claimed *)
Claimed_KeepsAge(row, t, age) == [row EXCEPT
  !.reason = IF row.sync \in {"idle", "failed"} THEN "automatic" ELSE @,
  !.sync = "running", !.token = t]

Claimed(row, t, age) == [row EXCEPT
  !.reason = IF row.sync \in {"idle", "failed"} THEN "automatic" ELSE @,
  !.sync = "running", !.token = t, !.claimAge = age]

(* claimed_at is taken when the owner's lock is held; the stored URLs are   *)
(* decrypted one after the other before the commit, so that a claim may be  *)
(* of any age when it is committed                                          *)
ClaimAges == {age \in 0 .. ClaimTime : age <= Lease + 1}

Claim(w, d, t) ==
  /\ AtCandidate(w, d)
  /\ Due(d) /\ Admitted(d) /\ Fresh(t)
  /\ \E age \in ClaimAges :
       /\ page' = [page EXCEPT ![d] = Claimed(@, t, age)]
       /\ worker' = [worker EXCEPT ![w] = [IdleWorker EXCEPT
            !.pc = "claimed", !.doc = d, !.token = t, !.known = page[d].hash, !.age = age]]
  /\ Touch(d)
  /\ cands' = [cands EXCEPT ![w] = << >>]
  /\ UNCHANGED <<site, marked, fenced, erasing, wiped>>

(* The stored URLs cannot be decrypted, or the database fails: the claim's  *)
(* transaction is rolled back and the whole scan is given up                *)
ClaimRaises(w) ==
  /\ worker[w].pc = "claiming"
  /\ Drop(w) /\ OnlyWorker

(* The timeout counts from here, not from claimed_at *)
StartJob(w) ==
  /\ worker' = [worker EXCEPT ![w].pc = "fetch", ![w].age = 0]
  /\ UNCHANGED cands

(* Faulty: the drained owners are not looked at *)
Begin_Unchecked(w) == worker[w].pc = "claimed" /\ StartJob(w) /\ OnlyWorker

(* process: an owner this process has already drained is not worked for     *)
Begin(w) ==
  /\ worker[w].pc = "claimed"
  /\ IF OwnerOf[worker[w].doc] \in marked[w] THEN Drop(w) ELSE StartJob(w)
  /\ OnlyWorker

-----------------------------------------------------------------------------
(* The worker: fetch, fingerprint, embed                                   *)

CheckAdmission(w, from, to) ==
  /\ worker[w].pc = from
  /\ IF Current(w) THEN Goto(w, to) ELSE Drop(w)
  /\ OnlyWorker

CheckFetch(w) == CheckAdmission(w, "fetch", "fetching")

Fetched(w) ==
  /\ worker[w].pc = "fetching"
  /\ worker' = [worker EXCEPT
       ![w].got = Append(@, site[worker[w].doc]),
       ![w].pc = IF Len(worker[w].got) + 1 = UrlCount THEN "digest" ELSE "fetch"]
  /\ UNCHANGED cands /\ OnlyWorker

(* Text the document already holds is neither cut into chunks nor embedded  *)
Fingerprint(w) ==
  /\ worker[w].pc = "digest"
  /\ IF worker[w].known = worker[w].got
       THEN Goto(w, "finish")
       ELSE /\ worker' = [worker EXCEPT ![w].pc = "embed", ![w].left = BatchCount]
            /\ UNCHANGED cands
  /\ OnlyWorker

CheckEmbed(w) == CheckAdmission(w, "embed", "embedding")

Embedded(w) ==
  /\ worker[w].pc = "embedding"
  /\ worker' = [worker EXCEPT
       ![w].left = @ - 1,
       ![w].pc = IF worker[w].left = 1 THEN "finish" ELSE "embed"]
  /\ UNCHANGED cands /\ OnlyWorker

(* The crawler, the fingerprint service or the embedder fails, or the text  *)
(* is unusable                                                              *)
StepFails(w) ==
  /\ worker[w].pc \in {"fetching", "digest", "embedding"}
  /\ Goto(w, "failing") /\ OnlyWorker

(* asyncio.timeout(JOB_TIMEOUT) *)
TimeoutFires(w) ==
  /\ Timed(w) /\ worker[w].age = JobTimeout
  /\ Goto(w, "failing") /\ OnlyWorker

-----------------------------------------------------------------------------
(* The worker: _complete, for finish and for fail                          *)

Settled(row, sync) == [Unclaimed(row, sync) EXCEPT
  !.checked = 0, !.next = IF row.auto THEN SyncInterval ELSE NoTime]

(* Chunks were made only if the text differs from the one the claim knew    *)
HasChunks(w) == worker[w].known # worker[w].got

Publishable(w) ==
  Current(w) /\ (page[worker[w].doc].hash # worker[w].got => HasChunks(w))

(* Faulty: the new content_hash is not stored *)
Published_KeepsHash(row, text) == [Settled(row, "idle") EXCEPT
  !.status = "ready", !.content = text, !.chunks = text]

Published(row, text) == [Settled(row, "idle") EXCEPT
  !.status = "ready", !.content = text, !.hash = text, !.chunks = text]

(* Faulty: the document stays processing when its first attempt fails *)
FailedRow_Processing(row) == Settled(row, "failed")

(* Faulty: a failed attempt has no successor *)
FailedRow_NoNext(row) == [Settled(row, "failed") EXCEPT
  !.next = NoTime, !.status = IF row.hash = NoText THEN "failed" ELSE @]

FailedRow(row) == [Settled(row, "failed") EXCEPT
  !.status = IF row.hash = NoText THEN "failed" ELSE @]

(* The timeout may fire while the commit's answer is awaited *)
Finish(w) ==
  LET d == worker[w].doc IN
  /\ worker[w].pc = "finish" /\ Publishable(w)
  /\ page' = [page EXCEPT ![d] = Published(@, worker[w].got)]
  /\ Touch(d)
  /\ \/ Drop(w)
     \/ worker[w].age = JobTimeout /\ Goto(w, "failing")
  /\ UNCHANGED <<site, marked, fenced, erasing, wiped>>

(* Another worker, the owner or an erasure has taken the claim away *)
FinishRefused(w) ==
  /\ worker[w].pc = "finish" /\ ~Current(w)
  /\ Drop(w) /\ OnlyWorker

(* Chunks are missing, or encryption or the database fails: rolled back *)
FinishRaises(w) ==
  /\ worker[w].pc = "finish"
  /\ Goto(w, "failing") /\ OnlyWorker

Fail(w) ==
  LET d == worker[w].doc IN
  /\ worker[w].pc = "failing" /\ Current(w)
  /\ page' = [page EXCEPT ![d] = FailedRow(@)]
  /\ Touch(d) /\ Drop(w)
  /\ UNCHANGED <<site, marked, fenced, erasing, wiped>>

FailRefused(w) ==
  /\ worker[w].pc = "failing" /\ ~Current(w)
  /\ Drop(w) /\ OnlyWorker

(* fail itself raises: the claim stays running until its lease expires *)
FailRaises(w) ==
  /\ worker[w].pc = "failing"
  /\ Drop(w) /\ OnlyWorker

(* The process stops or crashes; a new one has drained nobody *)
Crash(w) ==
  /\ Drop(w)
  /\ marked' = [marked EXCEPT ![w] = {}]
  /\ UNCHANGED <<page, order, site, fenced, erasing, wiped>>

-----------------------------------------------------------------------------
(* Account erasure: DELETE /users/{id}/data, served by some process         *)

EraseFence(o) ==
  /\ erasing[o] = "no"
  /\ fenced' = fenced \cup {o}
  /\ erasing' = [erasing EXCEPT ![o] = "fenced"]
  /\ UNCHANGED <<page, order, site, cands, worker, marked, wiped>>

(* erase_user of the webpage worker: mark, cancel the owner's active task   *)
EraseDrain(o, w) ==
  /\ erasing[o] = "fenced"
  /\ marked' = [marked EXCEPT ![w] = @ \cup {o}]
  /\ IF \E d \in Docs : worker[w].doc = d /\ OwnerOf[d] = o /\ worker[w].pc # "claimed"
       THEN Drop(w) ELSE UNCHANGED <<cands, worker>>
  /\ erasing' = [erasing EXCEPT ![o] = "drained"]
  /\ UNCHANGED <<page, order, site, fenced, wiped>>

(* Faulty: deletes whatever is there *)
Erasable_All(o, d) == Live(d)

Erasable(o, d) == OwnerOf[d] = o /\ Live(d)

(* rag_erase_user_data: the fence again and every row, in one transaction   *)
EraseRows(o) ==
  /\ erasing[o] = "drained"
  /\ fenced' = fenced \cup {o}
  /\ page' = [d \in Docs |->
       IF Erasable(o, d) THEN VacantRow("gone") ELSE page[d]]
  /\ order' = SelectSeq(order, LAMBDA x : OwnerOf[x] # o)
  /\ erasing' = [erasing EXCEPT ![o] = "no"]
  /\ wiped' = wiped \cup {o}
  /\ UNCHANGED <<site, cands, worker, marked>>

(* A step of the request fails, or its process dies: the fence remains      *)
EraseAbort(o) ==
  /\ erasing[o] # "no"
  /\ erasing' = [erasing EXCEPT ![o] = "no"]
  /\ UNCHANGED <<page, order, site, cands, worker, marked, fenced, wiped>>

-----------------------------------------------------------------------------
(* The environment                                                         *)

SiteChanges(d) ==
  /\ site[d] < MaxVersion
  /\ site' = [site EXCEPT ![d] = @ + 1]
  /\ UNCHANGED <<page, order, cands, worker, marked, fenced, erasing, wiped>>

AtMost(bound, n) == IF n < bound THEN n ELSE bound
Sooner(t) == IF t > 0 THEN t - 1 ELSE t
Older(t)  == IF t = NoTime THEN t ELSE AtMost(SyncInterval, t + 1)

Aged(row) == [row EXCEPT
  !.claimAge = IF row.sync = "running" THEN AtMost(Lease + 1, @ + 1) ELSE @,
  !.next = Sooner(@), !.checked = Older(@)]

Patience(pc) == IF pc = "claimed" THEN ClaimTime ELSE JobTimeout

(* A process that keeps its deadlines starts the job within ClaimTime of    *)
(* claimed_at and lets no time pass after the job's deadline.  The timeout  *)
(* enforces the second; nothing in the code enforces the first              *)
OnTime(w) == AtWork(worker[w].pc) => worker[w].age < Patience(worker[w].pc)

Tick ==
  /\ Punctual => \A w \in Workers : OnTime(w)
  /\ page' = [d \in Docs |-> Aged(page[d])]
  /\ worker' = [w \in Workers |->
       IF AtWork(worker[w].pc)
         THEN [worker[w] EXCEPT !.age = AtMost(Patience(worker[w].pc), @ + 1)]
         ELSE worker[w]]
  /\ UNCHANGED <<order, site, cands, marked, fenced, erasing, wiped>>

-----------------------------------------------------------------------------
Request ==
  \/ \E d \in Docs, auto \in BOOLEAN : Create(d, auto)
  \/ \E d \in Docs : Enqueue(d) \/ SetAutoSync(d) \/ Delete(d)

WorkerStep(w) ==
  \/ Scan(w) \/ Begin(w)
  \/ \E d \in Docs : SkipCandidate(w, d) \/ \E t \in Tokens : Claim(w, d, t)
  \/ CheckFetch(w) \/ Fetched(w) \/ Fingerprint(w)
  \/ CheckEmbed(w) \/ Embedded(w)
  \/ Finish(w) \/ FinishRefused(w) \/ Fail(w) \/ FailRefused(w)

JobFails(w) == StepFails(w) \/ TimeoutFires(w)

Fault(w) == ClaimRaises(w) \/ FinishRaises(w) \/ FailRaises(w) \/ Crash(w)

EraseStep(o) == (\E w \in Workers : EraseDrain(o, w)) \/ EraseRows(o)

(* What comes from outside: requests of the owners, and faults *)
Disturbance ==
  \/ Request
  \/ \E w \in Workers : Fault(w)
  \/ \E o \in Owners : EraseFence(o) \/ EraseAbort(o)

Calm ==
  \/ \E w \in Workers : WorkerStep(w) \/ JobFails(w)
  \/ \E o \in Owners : EraseStep(o)
  \/ \E d \in Docs : SiteChanges(d)
  \/ Tick

Next == Disturbance \/ Calm

Spec == Init /\ [][Next]_vars

(* Every process keeps running its worker and its clock, and in the end no  *)
(* request comes in and nothing but crawling and embedding fails any more.  *)
Fairness ==
  /\ \A w \in Workers : WF_vars(WorkerStep(w))
  /\ WF_vars(Tick)

FairSpec == Spec /\ Fairness /\ <>[][~Disturbance]_vars

-----------------------------------------------------------------------------
(* Properties                                                              *)

(* Every variable keeps its type; order and cands are only sequences of     *)
(* documents that others were selected from.                                *)
TypeOK ==
  /\ page \in [Docs -> PageRow]
  /\ site \in [Docs -> 0 .. MaxVersion]
  /\ worker \in [Workers -> WorkerState]
  /\ marked \in [Workers -> SUBSET Owners]
  /\ fenced \subseteq Owners
  /\ erasing \in [Owners -> {"no", "fenced", "drained"}]
  /\ wiped \subseteq Owners

(* What a worker remembers fits what it does next: a claim exactly while it *)
(* is not looking for one, fetched text before it fingerprints, batches     *)
(* left while it embeds.                                                    *)
InFlight(state) ==
  /\ state.doc = NoDoc <=> state.pc \in {"idle", "claiming"}
  /\ state.pc \in {"digest", "embed", "embedding", "finish"} => state.got # NoText
  /\ state.pc \in {"embed", "embedding"} => state.left > 0

InFlightOK == \A w \in Workers : InFlight(worker[w])

(* No step commits a row the database's check constraints would refuse:     *)
(* a claim token is set exactly while the attempt runs, and a document      *)
(* without automatic synchronization has no next attempt                    *)
(* (ck_document_webpages_claim, ck_document_webpages_schedule).             *)
RowChecks ==
  \A d \in Docs :
    /\ page[d].sync = "running" <=> page[d].token # NoToken
    /\ ~page[d].auto => page[d].next = NoTime

(* Text, hash and chunks always describe one version, and a document is     *)
(* ready exactly when it has one: no search ever reads half a publication.  *)
OneStoredVersion ==
  \A d \in Docs : Live(d) =>
    /\ page[d].content = page[d].hash /\ page[d].chunks = page[d].hash
    /\ page[d].status = "ready" <=> page[d].hash # NoText

(* A document shown as processing has an attempt, requested by its owner,   *)
(* queued or running: neither a failed claim, a fenced schedule nor a       *)
(* crashed worker leaves it processing for ever.                            *)
ProcessingHasWork ==
  \A d \in Docs : Live(d) /\ page[d].status = "processing" =>
    Pending(d) /\ page[d].reason # "automatic"

(* A settled document with automatic synchronization always has a next      *)
(* attempt, whatever sequence of toggles, attempts and failures led to it.  *)
AutomaticIsScheduled ==
  \A d \in Docs : Live(d) /\ page[d].auto /\ ~Pending(d) => page[d].next # NoTime

(* No worker ever reaches publication without the chunks it needs: while a  *)
(* claim is current, the hash it remembers is the stored one.               *)
NeverShortOfChunks ==
  \A w \in Workers :
    worker[w].pc = "finish" /\ Current(w) => Publishable(w)

(* "Abandoned claims recover after a 15-minute lease; the whole job has a   *)
(* ten-minute deadline": the claim of a worker that is still at work is     *)
(* never up for another worker.                                             *)
JobEndsWithinLease ==
  \A w \in Workers :
    AtWork(worker[w].pc) /\ Current(w) => ~LeaseExpired(worker[w].doc)

(* A lease outlives the job as long as a process keeps its deadlines and    *)
(* the time the claim itself takes, from claimed_at through the decryption  *)
(* of its URLs to the start of the job's timeout, is no longer than what    *)
(* the lease leaves over that timeout.                                      *)
LeaseOutlivesJob ==
  Punctual /\ ClaimTime + JobTimeout <= Lease => JobEndsWithinLease

(* Once the owner's erasure has deleted the rows, no row of that owner is   *)
(* ever there again, whatever a worker or request still in flight does.     *)
WipedStaysEmpty ==
  \A d \in Docs : OwnerOf[d] \in wiped => OwnerOf[d] \in fenced /\ ~Live(d)

(* After a process has drained an owner, its worker does not fetch or embed *)
(* for that owner again, even if the claim was committed before the drain.  *)
DrainedStaysIdle ==
  \A w \in Workers, d \in Docs :
    worker[w].doc = d /\ OwnerOf[d] \in marked[w] => worker[w].pc = "claimed"

Erasure == INSTANCE OwnerErasure WITH
  Items <- Docs, held <- {d \in Docs : Live(d)}, closed <- fenced, erased <- wiped

(* The webpage component implements OwnerErasure: no row is created for a   *)
(* fenced owner, and an erasure removes all rows of its owner, no others    *)
(* with it, in the one transaction that acknowledges it.                    *)
ErasureImplemented == Erasure!Spec

AtLeast(new, old) == \A i \in 1 .. Len(old) : new[i] >= old[i]

PageTexts == [1 .. UrlCount -> 0 .. MaxVersion]

Documents == INSTANCE PublishedDocuments WITH
  TextsOf  <- [d \in Docs |-> PageTexts],
  NotOlder <- {p \in PageTexts \X PageTexts : AtLeast(p[2], p[1])},   \* <<old, new>>
  doc <- [d \in Docs |->
    [row |-> IF Live(d) THEN page[d].status ELSE page[d].row, text |-> page[d].chunks]]

(* The webpage component implements PublishedDocuments: whatever workers,   *)
(* claims and schedules do, a reader finds a whole text, never an older one *)
(* than before, and no change at all to a document of a fenced owner.       *)
DocumentsImplemented == Documents!Spec

(* What a document publishes only moves forward: a stale worker never puts  *)
(* back text older than what is stored, a failed attempt never removes it.  *)
PublicationMovesForward ==
  [][\A d \in Docs : Live(d) /\ Live(d)' /\ page[d].chunks # NoText =>
       /\ page'[d].chunks # NoText /\ AtLeast(page'[d].chunks, page[d].chunks)
       /\ page'[d].status = "ready"]_vars

(* After the fence is committed nothing of the owner is published.          *)
NothingPublishedAfterFence ==
  [][\A d \in Docs : ~Admitted(d) =>
       page'[d].chunks = page[d].chunks \/ page'[d].row = "gone"]_vars

(* Rows of an owner who is not being erased are removed only by that        *)
(* owner's own request ("Other owners' documents ... are preserved").       *)
OthersArePreserved ==
  [][\A d \in Docs : Live(d) /\ ~Live(d)' =>
       \/ Admitted(d) /\ \A x \in Docs \ {d} : page'[x] = page[x]
       \/ erasing[OwnerOf[d]] = "drained"]_vars

(* The worker writes its result, or that it failed, and is through with it  *)
Reports(w) ==
  /\ worker[w].pc \in {"finish", "failing"}
  /\ worker'[w].pc # worker[w].pc

(* An attempt the owner asked for ends only by a step of the worker that    *)
(* holds its claim, with its result or its failure: neither turning         *)
(* automatic synchronization off nor a worker that lost the claim ends it.  *)
RequestedWorkIsKept ==
  [][\A d \in Docs :
       Pending(d) /\ page[d].reason # "automatic" /\ Live(d)' /\ ~Pending(d)' =>
         \E w \in Workers :
           worker[w].doc = d /\ worker[w].token = page[d].token /\ Reports(w)]_vars

(* Every queued or abandoned attempt of an owner who is not being erased is *)
(* settled in the end ("Abandoned claims recover after a 15-minute lease"). *)
PendingIsServed ==
  \A d \in Docs : (Pending(d) /\ Admitted(d)) ~> (~Pending(d) \/ ~Admitted(d))

(* "Abandoned claims recover after a 15-minute lease": a claim whose lease   *)
(* has expired is taken over, unless its own owner is being erased.         *)
AbandonedClaimsRecover ==
  \A d \in Docs :
    (LeaseExpired(d) /\ Admitted(d)) ~> (~LeaseExpired(d) \/ ~Admitted(d))

(* A document with automatic synchronization is attempted again and again.  *)
AutomaticIsAttempted ==
  \A d \in Docs :
    (Live(d) /\ page[d].auto /\ Admitted(d))
      ~> (page[d].sync = "running" \/ ~Live(d) \/ ~page[d].auto \/ ~Admitted(d))
============================================================================
