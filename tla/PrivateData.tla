---------------------------- MODULE PrivateData ----------------------------
(***************************************************************************)
(* How private text is stored: encrypted by the release that runs now, in  *)
(* plain text by the one before, and converted by the backfill while the   *)
(* service runs.  A ciphertext is bound to the resource and the field it   *)
(* was written for and can be read only as the same field of the same      *)
(* resource; binding strings are written out by every writer, every reader *)
(* and the backfill, and nothing but these properties makes them agree.    *)
(*                                                                         *)
(* One transaction of the service is one action and waits for rows the     *)
(* backfill has locked.  An outage of the cipher rolls a transaction back  *)
(* and leaves the store as it was.  All rows are of one owner: an owner is *)
(* part of every binding, on all sides the owner of the document, and is   *)
(* left out; so is a chunk's metadata, read and written with its text.     *)
(* Who may claim a document, and when, is the subject of WebpageSync; how  *)
(* an erasure waits for jobs and removes files, of DocumentIngest.         *)
(***************************************************************************)
EXTENDS Naturals

CONSTANTS
  Files, Webpages,       \* document ids
  Revisions,             \* knowledge revision ids
  Seqs,                  \* a text is cut into these chunks
  Names, Errors, Pages,  \* what users and failures write; a page or a file's text
  Empty,                 \* ""
  Code,                  \* "storage_encryption_unavailable"
  VaultLike,             \* texts that begin like a ciphertext, "vault:"
  None,
  Rows,                  \* the rows of the four tables the backfill converts
  Id                     \* [Rows -> Nat]: the order of their ids

Docs  == Files \cup Webpages
Texts == Names \cup Errors \cup Pages \cup {Empty, Code}

Document(d)     == <<"documents", d>>
Chunk(d, s)     == <<"chunks", d, s>>
Frozen(r, d, s) == <<"knowledge_revision_chunks", r, d, s>>
Page(d)         == <<"document_webpages", d>>

ChunksOf(d)  == {Chunk(d, s) : s \in Seqs}
FrozenOf(r)  == {Frozen(r, d, s) : d \in Files, s \in Seqs}
FrozenRows   == UNION {FrozenOf(r) : r \in Revisions}

ASSUME ConstantsAssumption ==
  /\ Files \cap Webpages = {}
  /\ Seqs \subseteq Nat
  /\ None \notin Texts /\ Empty \notin Pages /\ Code \notin VaultLike
  /\ VaultLike \subseteq Names \cup Pages
  /\ Rows = {Document(d) : d \in Docs} \cup (UNION {ChunksOf(d) : d \in Docs})
              \cup FrozenRows \cup {Page(d) : d \in Webpages}
  /\ Id \in [Rows -> Nat]
  /\ \A q, r \in Rows : q[1] = r[1] /\ Id[q] = Id[r] => q = r

(* A column of a row                                                        *)
Columns == [
  documents                 |-> {"name", "error"},
  chunks                    |-> {"text"},
  knowledge_revision_chunks |-> {"document_name", "text"},
  document_webpages         |-> {"url", "content", "sync_error", "content_hash"}]

PlacesOf(row) == {<<row, c>> : c \in Columns[row[1]]}
Places == UNION {PlacesOf(row) : row \in Rows}

-----------------------------------------------------------------------------
(* Stored values                                                           *)
Binding(resource, field) == <<resource, field>>

NoValue         == [form |-> "null", text |-> None, at |-> None]
Plain(t)        == [form |-> "plain", text |-> t, at |-> None]
Sealed(t, b)    == [form |-> "sealed", text |-> t, at |-> b]    \* encrypt
Keyed(t, b)     == [form |-> "keyed", text |-> t, at |-> b]     \* lookup

(* encrypted: a value is told from a plain one by how it begins             *)
LooksEncrypted(v) == v.form \in {"sealed", "keyed"} \/ v.text \in VaultLike

(* read_text: what looks encrypted is decrypted, which fails under another  *)
(* binding than it was encrypted for, and for what is no ciphertext         *)
Opens(v, b) == IF LooksEncrypted(v) THEN v.form = "sealed" /\ v.at = b ELSE TRUE

(* content_hash: the digest of the text, hexadecimal, or its keyed lookup    *)
Digest(t) == Plain(t)
Fingerprint(d, t) == Keyed(t, Binding(d, <<"webpage:content-fingerprint">>))
Unchanged(v, d, t) == v \in {Digest(t), Fingerprint(d, t)}

-----------------------------------------------------------------------------
VARIABLES
  store,     \* [Places -> value]: what is committed
  created,   \* documents that exist or existed; an id is used once
  worker,    \* the webpage worker's job
  backfill,  \* the backfill's transaction
  fenced     \* the owner's data are being erased, or are

(* History, read by properties only *)
VARIABLES
  written,   \* [Places -> text last written there by the service]
  migrated   \* a backfill was committed

vars == <<store, created, worker, backfill, fenced, written, migrated>>

IdleWorker  == [pc |-> "idle", doc |-> None, known |-> NoValue, got |-> None, chunked |-> FALSE]
NoBackfill  == [
  table |-> 0, after |-> 0, locked |-> {}, converted |-> [p \in Places |-> NoValue]]

Exists(row) == \E p \in PlacesOf(row) : store[p] # NoValue

NameOf(d)     == <<Document(d), "name">>
ErrorOf(d)    == <<Document(d), "error">>
TextOf(d, s)  == <<Chunk(d, s), "text">>
UrlOf(d)      == <<Page(d), "url">>
ContentOf(d)  == <<Page(d), "content">>
SyncErrorOf(d) == <<Page(d), "sync_error">>
HashOf(d)     == <<Page(d), "content_hash">>
FrozenName(r, d, s) == <<Frozen(r, d, s), "document_name">>
FrozenText(r, d, s) == <<Frozen(r, d, s), "text">>

(* Faulty: the backfill reads its rows without FOR UPDATE *)
Free_Always(rows) == TRUE

(* No row the transaction must lock is locked by the backfill               *)
Free(rows) == rows \cap backfill.locked = {}

(* lock_active_owner, in every transaction of the service                   *)
Active == ~fenced

(* A transaction of the service leaves a new store                          *)
Put(new) ==
  /\ Active
  /\ store' = new
  /\ written' = [p \in Places |-> IF new[p] # store[p] THEN new[p].text ELSE written[p]]
  /\ UNCHANGED <<backfill, fenced, migrated>>

-----------------------------------------------------------------------------
(* Who reads what under which binding: pairs of a place and a binding       *)

(* SearchRepository._hit *)
HitReads ==
  {<<NameOf(d), Binding(d, <<"document:name">>)>> : d \in Docs} \cup
  {<<TextOf(d, s), Binding(d, <<"chunk", s, "text">>)>> : d \in Docs, s \in Seqs} \cup
  {<<FrozenName(r, d, s), Binding(r, <<"document", d, "name">>)>> :
     r \in Revisions, d \in Files, s \in Seqs} \cup
  {<<FrozenText(r, d, s), Binding(r, <<"document", d, "chunk", s, "text">>)>> :
     r \in Revisions, d \in Files, s \in Seqs}

(* _to_private_record *)
RecordReads ==
  {<<NameOf(d), Binding(d, <<"document:name">>)>> : d \in Docs} \cup
  {<<ErrorOf(d), Binding(d, <<"document:error">>)>> : d \in Docs} \cup
  {<<UrlOf(d), Binding(d, <<"webpage:url", 0>>)>> : d \in Webpages} \cup
  {<<SyncErrorOf(d), Binding(d, <<"webpage:error">>)>> : d \in Webpages}

(* WebpageRepository._detail and get_chunks, get_chunks_for_reindex *)
DetailReads == {<<ContentOf(d), Binding(d, <<"webpage:content">>)>> : d \in Webpages}
ChunkReads  ==
  {<<TextOf(d, s), Binding(d, <<"chunk", s, "text">>)>> : d \in Webpages, s \in Seqs}
ReindexReads ==
  {<<TextOf(d, s), Binding(d, <<"chunk", s, "text">>)>> : d \in Docs, s \in Seqs}

Reads == HitReads \cup RecordReads \cup DetailReads \cup ChunkReads \cup ReindexReads

-----------------------------------------------------------------------------
(* Requests                                                                *)

OnlyStore == UNCHANGED worker

(* POST /documents *)
Upload(d, n) ==
  /\ d \in Files \ created
  /\ created' = created \cup {d}
  /\ Put([store EXCEPT ![NameOf(d)] = Sealed(n, Binding(d, <<"document:name">>))])
  /\ OnlyStore

(* POST /documents/webpages *)
Register(d, n, u) ==
  /\ d \in Webpages \ created
  /\ created' = created \cup {d}
  /\ Put([store EXCEPT
       ![NameOf(d)]    = Sealed(n, Binding(d, <<"document:name">>)),
       ![UrlOf(d)]     = Sealed(u, Binding(d, <<"webpage:url", 0>>)),
       ![ContentOf(d)] = Sealed(Empty, Binding(d, <<"webpage:content">>))])
  /\ OnlyStore

WithChunks(d, t) == [p \in Places |->
  IF p[1] \in ChunksOf(d) THEN Sealed(t, Binding(d, <<"chunk", p[1][3], "text">>)) ELSE store[p]]

(* replace_chunks_and_mark_ready *)
Ingest(d, t) ==
  /\ d \in Files /\ Exists(Document(d)) /\ Free({Document(d)} \cup ChunksOf(d))
  /\ Put([WithChunks(d, t) EXCEPT ![ErrorOf(d)] = NoValue])
  /\ UNCHANGED created /\ OnlyStore

(* mark_failed and mark_reindex_failed *)
MarkFailed(d, e) ==
  /\ d \in Files /\ Exists(Document(d)) /\ Free({Document(d)})
  /\ Put([store EXCEPT ![ErrorOf(d)] = Sealed(e, Binding(d, <<"document:error">>))])
  /\ UNCHANGED created /\ OnlyStore

(* mark_storage_unavailable: a fixed machine code, without the cipher        *)
MarkUnavailable(d) ==
  /\ d \in Files /\ Exists(Document(d)) /\ Free({Document(d)})
  /\ Put([store EXCEPT ![ErrorOf(d)] = Plain(Code)])
  /\ UNCHANGED created /\ OnlyStore

(* replace_embeddings_and_mark_ready: the chunks keep their texts             *)
Reindex(d) ==
  /\ d \in Files /\ Exists(Document(d)) /\ \A s \in Seqs : store[TextOf(d, s)] # NoValue
  /\ Free({Document(d)} \cup ChunksOf(d))
  /\ Put([store EXCEPT ![ErrorOf(d)] = NoValue])
  /\ UNCHANGED created /\ OnlyStore

(* POST /documents/{id}/sync; queued or running answers 409                  *)
Enqueue(d) ==
  /\ Exists(Page(d)) /\ Free({Document(d), Page(d)}) /\ worker.doc # d
  /\ Put([store EXCEPT
       ![SyncErrorOf(d)] = NoValue,
       ![ErrorOf(d)] = IF store[HashOf(d)] = NoValue THEN NoValue ELSE @])
  /\ UNCHANGED created /\ OnlyStore

(* DELETE /documents/{id}; frozen chunks stay                                *)
Delete(d) ==
  LET rows == {Document(d), Page(d)} \cup ChunksOf(d) IN
  /\ Exists(Document(d)) /\ Free(rows)
  /\ Put([p \in Places |-> IF p[1] \in rows THEN NoValue ELSE store[p]])
  /\ UNCHANGED created /\ OnlyStore

(* Faulty: neither the status nor the chunks are asked for *)
Ready_Any(d) == Exists(Document(d))

Ready(d) == (\A s \in Seqs : store[TextOf(d, s)] # NoValue) /\ store[ErrorOf(d)] = NoValue

(* What create reads, to write it again for the revision *)
SourceOpens(d) ==
  /\ Opens(store[NameOf(d)], Binding(d, <<"document:name">>))
  /\ \A s \in Seqs : Opens(store[TextOf(d, s)], Binding(d, <<"chunk", s, "text">>))

WithFrozen(r, d) == [p \in Places |->
  LET q == p[1][4] IN
  IF p[1] \notin {Frozen(r, d, s) : s \in Seqs} THEN store[p]
  ELSE IF p[2] = "text"
    THEN Sealed(store[TextOf(d, q)].text, Binding(r, <<"document", d, "chunk", q, "text">>))
    ELSE Sealed(store[NameOf(d)].text, Binding(r, <<"document", d, "name">>))]

(* KnowledgeRevisionRepository.create, of one file; it waits for the lock    *)
(* on the table while the backfill has its trigger disabled                  *)
CreateRevision(r, d) ==
  /\ \A row \in FrozenOf(r) : ~Exists(row)
  /\ Ready(d) /\ SourceOpens(d)
  /\ backfill.table < 3
  /\ Put(WithFrozen(r, d))
  /\ UNCHANGED created /\ OnlyStore

-----------------------------------------------------------------------------
(* Account erasure                                                         *)

(* rag_fence_owner_erasure                                                  *)
Fence ==
  /\ fenced' = TRUE
  /\ UNCHANGED <<store, created, worker, backfill, written, migrated>>

(* rag_erase_user_data: documents with their chunks and webpage rows, and   *)
(* revisions with their frozen chunks; it waits for locked rows and, while  *)
(* the backfill has the trigger disabled, for the frozen table              *)
Erase ==
  /\ fenced /\ Free(Rows) /\ backfill.table < 3
  /\ store' = [p \in Places |-> NoValue]
  /\ written' = [p \in Places |-> None]
  /\ UNCHANGED <<created, worker, backfill, fenced, migrated>>

-----------------------------------------------------------------------------
(* The webpage worker                                                      *)

AllButWorker == UNCHANGED <<store, created, backfill, fenced, written, migrated>>

Claim(d) ==
  /\ worker.pc = "idle" /\ Exists(Page(d)) /\ Free({Document(d), Page(d)})
  /\ Opens(store[UrlOf(d)], Binding(d, <<"webpage:url", 0>>))
  /\ Put([store EXCEPT ![SyncErrorOf(d)] = NoValue])
  /\ worker' = [IdleWorker EXCEPT !.pc = "fetch", !.doc = d, !.known = store[HashOf(d)]]
  /\ UNCHANGED created

(* Every page fetched; chunks are made only of text the claim did not know   *)
Fetch(t) ==
  /\ worker.pc = "fetch"
  /\ worker' = [worker EXCEPT !.pc = "finish", !.got = t,
       !.chunked = ~Unchanged(worker.known, worker.doc, t)]
  /\ AllButWorker

FetchFails == worker.pc = "fetch" /\ worker' = [worker EXCEPT !.pc = "failing"] /\ AllButWorker

Changed(d, t)  == store[HashOf(d)] # Fingerprint(d, t)
Publishable(d) == Changed(d, worker.got) => worker.chunked

(* Faulty: the new chunks are stored, the hash is not *)
Publication_KeepsHash(d, t) ==
  IF Changed(d, t)
    THEN [WithChunks(d, t) EXCEPT ![ContentOf(d)] = Sealed(t, Binding(d, <<"webpage:content">>))]
    ELSE store

Publication(d, t) ==
  IF Changed(d, t)
    THEN [WithChunks(d, t) EXCEPT
            ![ContentOf(d)] = Sealed(t, Binding(d, <<"webpage:content">>)),
            ![HashOf(d)]    = Fingerprint(d, t)]
    ELSE store

Finish(d) ==
  /\ worker.pc = "finish" /\ worker.doc = d
  /\ Exists(Page(d)) /\ Free({Document(d), Page(d)} \cup ChunksOf(d))
  /\ Publishable(d)
  /\ Put([Publication(d, worker.got) EXCEPT ![ErrorOf(d)] = NoValue, ![SyncErrorOf(d)] = NoValue])
  /\ worker' = IdleWorker
  /\ UNCHANGED created

(* The cipher or the database fails, or the text has no chunks               *)
FinishRaises ==
  worker.pc = "finish" /\ worker' = [worker EXCEPT !.pc = "failing"] /\ AllButWorker

Fail(d, e) ==
  /\ worker.pc = "failing" /\ worker.doc = d
  /\ Exists(Page(d)) /\ Free({Document(d), Page(d)})
  /\ Put([store EXCEPT
       ![SyncErrorOf(d)] = Sealed(e, Binding(d, <<"webpage:error">>)),
       ![ErrorOf(d)] = IF store[HashOf(d)] = NoValue
                       THEN Sealed(e, Binding(d, <<"document:error">>)) ELSE @])
  /\ worker' = IdleWorker
  /\ UNCHANGED created

(* The document is deleted, the claim is lost, the owner is fenced, the      *)
(* process ends                                                             *)
GiveUp == worker.pc # "idle" /\ worker' = IdleWorker /\ AllButWorker

-----------------------------------------------------------------------------
(* The backfill                                                            *)

TableNames == <<"documents", "chunks", "knowledge_revision_chunks", "document_webpages">>

OnlyBackfill == UNCHANGED <<store, created, worker, fenced, written, migrated>>

Begin ==
  /\ backfill.table = 0
  /\ backfill' = [NoBackfill EXCEPT !.table = 1]
  /\ OnlyBackfill

(* where t.id > :after order by t.id                                         *)
Ahead == {row \in Rows :
  Exists(row) /\ row[1] = TableNames[backfill.table] /\ Id[row] >= backfill.after}

(* The binding the backfill writes and validates a place under *)
DocumentField == [name |-> <<"document:name">>, error |-> <<"document:error">>]
PageField == [url          |-> <<"webpage:url", 0>>,
              content      |-> <<"webpage:content">>,
              sync_error   |-> <<"webpage:error">>,
              content_hash |-> <<"webpage:content-fingerprint">>]

Target(p) ==
  LET row == p[1] IN
  Binding(row[2],
    IF row[1] = "documents" THEN DocumentField[p[2]]
    ELSE IF row[1] = "document_webpages" THEN PageField[p[2]]
    ELSE IF row[1] = "chunks" THEN <<"chunk", row[3], "text">>
    ELSE IF p[2] = "text" THEN <<"document", row[3], "chunk", row[4], "text">>
    ELSE <<"document", row[3], "name">>)

IsHash(p) == p[2] = "content_hash"

(* Faulty: what looks encrypted is left alone *)
Convertible_Unvalidated(p) == TRUE

(* What looks encrypted is validated; a hash is not                          *)
Convertible(p) ==
  store[p] # NoValue /\ ~IsHash(p) /\ LooksEncrypted(store[p]) => Opens(store[p], Target(p))

(* Faulty: the lookup is made under the binding of another field *)
Converted_OtherField(p) ==
  LET v == store[p] IN
  IF v.form # "plain" \/ (LooksEncrypted(v) /\ ~IsHash(p)) THEN v
  ELSE IF IsHash(p) THEN Keyed(v.text, Binding(p[1][2], <<"webpage:content">>))
  ELSE Sealed(v.text, Target(p))

Converted(p) ==
  LET v == store[p] IN
  IF v.form # "plain" \/ (LooksEncrypted(v) /\ ~IsHash(p)) THEN v
  ELSE IF IsHash(p) THEN Keyed(v.text, Target(p))
  ELSE Sealed(v.text, Target(p))

(* The next row is locked and converted; nobody sees it before the commit.   *)
(* Rows of a batch are converted together in the code                        *)
Visit(row) ==
  /\ backfill.table # 0
  /\ row \in Ahead /\ \A q \in Ahead : Id[row] <= Id[q]
  /\ \A p \in PlacesOf(row) : Convertible(p)
  /\ backfill' = [backfill EXCEPT
       !.after = Id[row] + 1,
       !.locked = @ \cup {row},
       !.converted = [p \in Places |-> IF p[1] = row THEN Converted(p) ELSE backfill.converted[p]]]
  /\ OnlyBackfill

NextTable ==
  /\ backfill.table \in 1 .. 3 /\ Ahead = {}
  /\ backfill' = [backfill EXCEPT !.table = @ + 1, !.after = 0]
  /\ OnlyBackfill

ConvertedStore ==
  [p \in Places |-> IF p[1] \in backfill.locked THEN backfill.converted[p] ELSE store[p]]

Commit ==
  /\ backfill.table = 4 /\ Ahead = {}
  /\ store' = ConvertedStore
  /\ backfill' = NoBackfill
  /\ migrated' = TRUE
  /\ UNCHANGED <<created, worker, fenced, written>>

(* Faulty: the tables converted so far are committed *)
Rollback_Keeps ==
  /\ backfill.table # 0
  /\ store' = ConvertedStore
  /\ backfill' = NoBackfill
  /\ UNCHANGED <<created, worker, fenced, written, migrated>>

(* lock_timeout, a deadlock, the cipher, a value that cannot be read, a crash *)
Rollback ==
  /\ backfill.table # 0
  /\ backfill' = NoBackfill
  /\ OnlyBackfill

-----------------------------------------------------------------------------
(* What the release before encryption has left                              *)
LegacyText(p, name, text, error, last) ==
  LET d == p[1][2] IN
  IF p[2] \in {"name", "url"} THEN name[d]
  ELSE IF p[2] = "error" THEN error[d]
  ELSE IF p[2] = "sync_error" THEN last[d]
  ELSE IF p[2] = "content" /\ text[d] = None THEN Empty
  ELSE text[d]

LegacyFrozen(p, name, frozen) ==
  LET t == frozen[p[1][2]][p[1][3]] IN
  IF t = None \/ p[2] = "text" THEN t ELSE name[p[1][3]]

LegacyTexts(there, name, text, error, last, frozen) == [p \in Places |->
  IF p[1] \in FrozenRows THEN LegacyFrozen(p, name, frozen)
  ELSE IF p[1][2] \in there THEN LegacyText(p, name, text, error, last) ELSE None]

(* A failed attempt is the document's error as long as there is no text,     *)
(* and the webpage's last error until the next one is queued or claimed     *)
FailureLeft(text, error, last) == IF text = None THEN last \in {None, error} ELSE error = None

Init ==
  /\ \E there \in SUBSET Docs, name \in [Docs -> Names], text \in [Docs -> Pages \cup {None}],
        error \in [Docs -> Errors \cup {None}], last \in [Webpages -> Errors \cup {None}],
        frozen \in [Revisions -> [Files -> Pages \cup {None}]] :
       /\ \A d \in Docs \ there : text[d] = None /\ error[d] = None
       /\ \A d \in Webpages : FailureLeft(text[d], error[d], last[d])
       /\ written = LegacyTexts(there, name, text, error, last, frozen)
       /\ created = there \cup {d \in Files : \E r \in Revisions : frozen[r][d] # None}
  /\ store = [p \in Places |-> IF written[p] = None THEN NoValue ELSE Plain(written[p])]
  /\ worker = IdleWorker
  /\ backfill = NoBackfill
  /\ fenced = FALSE
  /\ migrated = FALSE

Request ==
  \/ \E d \in Files, n \in Names : Upload(d, n)
  \/ \E d \in Webpages, n, u \in Names : Register(d, n, u)
  \/ \E d \in Files, t \in Pages : Ingest(d, t)
  \/ \E d \in Files, e \in Errors : MarkFailed(d, e)
  \/ \E d \in Files : MarkUnavailable(d) \/ Reindex(d)
  \/ \E d \in Webpages : Enqueue(d)
  \/ \E d \in Docs : Delete(d)
  \/ \E r \in Revisions, d \in Files : CreateRevision(r, d)

EraseStep == Fence \/ Erase

WorkerStep ==
  \/ \E d \in Webpages : Claim(d) \/ Finish(d) \/ \E e \in Errors : Fail(d, e)
  \/ \E t \in Pages : Fetch(t)
  \/ FetchFails \/ FinishRaises \/ GiveUp

BackfillStep == Begin \/ (\E row \in Rows : Visit(row)) \/ NextTable \/ Commit \/ Rollback

Next == Request \/ EraseStep \/ WorkerStep \/ BackfillStep

Spec == Init /\ [][Next]_vars

-----------------------------------------------------------------------------
(* Properties                                                              *)

Bindings ==
  {e[2] : e \in Reads} \cup {Binding(d, <<"webpage:content-fingerprint">>) : d \in Webpages}

Values ==
  {NoValue} \cup [form : {"plain"}, text : Texts, at : {None}]
            \cup [form : {"sealed", "keyed"}, text : Texts, at : Bindings]

(* Every variable keeps its type; only documents that were created have     *)
(* rows, and a claim is of a webpage.                                       *)
TypeOK ==
  /\ store \in [Places -> Values]
  /\ created \subseteq Docs
  /\ \A d \in Docs : Exists(Document(d)) => d \in created
  /\ worker \in [pc : {"idle", "fetch", "finish", "failing"}, doc : Webpages \cup {None},
                 known : Values, got : Pages \cup {None}, chunked : BOOLEAN]
  /\ backfill.table \in 0 .. 4 /\ backfill.after \in Nat
  /\ backfill.locked \subseteq Rows /\ backfill.converted \in [Places -> Values]
  /\ written \in [Places -> Texts \cup {None}]
  /\ fenced \in BOOLEAN /\ migrated \in BOOLEAN

(* A text from before encryption that begins like a ciphertext              *)
Ambiguous(v) == v.form = "plain" /\ v.text \in VaultLike

(* Whatever writers and backfill do to a value in whatever order, every     *)
(* reader can open it and finds the text that was last written there: no    *)
(* two binding strings disagree and no update is lost.  (A text left in     *)
(* plain that begins like a ciphertext cannot be read at all.)              *)
ReadsAsWritten ==
  /\ \A p \in Places : store[p].text = written[p]
  /\ \A e \in Reads : ~Ambiguous(store[e[1]]) => Opens(store[e[1]], e[2])

(* "Unchanged normalized text" is recognized across the conversion: the     *)
(* stored hash is the digest or the fingerprint of the text that the        *)
(* content and the chunks hold, as the worker will compute it.              *)
HashDescribesText ==
  \A d \in Webpages : store[HashOf(d)] # NoValue =>
    /\ Unchanged(store[HashOf(d)], d, written[ContentOf(d)])
    /\ \A s \in Seqs : written[TextOf(d, s)] = written[ContentOf(d)]

(* A synchronization that straddles the commit of the backfill, its claim   *)
(* before and its publication after, does not fail for want of chunks.      *)
StraddlingSyncIsPublishable ==
  \A d \in Webpages :
    worker.pc = "finish" /\ worker.doc = d /\ store[HashOf(d)].form = "keyed" => Publishable(d)

(* Once a backfill has been committed, no private text is stored in plain:  *)
(* neither a row it passed nor one written while it ran or since, and only  *)
(* the machine code of an outage, which says nothing private, is.           *)
MigratedLeavesNoPlaintext ==
  migrated => \A p \in Places : store[p].form = "plain" => store[p] = Plain(Code)

(* Frozen chunks keep their text until the erasure of a fenced owner, which *)
(* takes every row at once and never meets a backfill half done; before     *)
(* that their representation changes only by the commit of a whole          *)
(* backfill.                                                                *)
FrozenTextIsKept ==
  [][\A row \in FrozenRows : \A p \in PlacesOf(row) : store'[p] # store[p] /\ store[p] # NoValue =>
       \/ backfill.table = 4 /\ migrated' /\ written'[p] = written[p]
       \/ /\ fenced /\ \A q \in Places : store'[q] = NoValue
          /\ backfill.locked = {}]_vars

(* "Unchanged normalized text updates timestamps without embedding or       *)
(* replacing any chunk IDs": fetched text that is the stored one can be     *)
(* published.                                                               *)
UnchangedIsPublishable ==
  \A d \in Webpages :
    worker.pc = "finish" /\ worker.doc = d /\ Exists(Page(d)) /\ written[ContentOf(d)] = worker.got
      => Publishable(d)
============================================================================
