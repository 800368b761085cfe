-------------------------- MODULE PrivateDataProofs --------------------------
(***************************************************************************)
(* The properties of PrivateData for any documents, revisions, texts and   *)
(* orders of rows, and any interleaving of requests, worker and backfill.  *)
(***************************************************************************)
EXTENDS PrivateData, TLAPS

-----------------------------------------------------------------------------
(* Rows, places and values are told apart by their components              *)

LEMMA RowFacts ==
  /\ \A d : Document(d)[1] = "documents" /\ Document(d)[2] = d
  /\ \A d, s : Chunk(d, s)[1] = "chunks" /\ Chunk(d, s)[2] = d /\ Chunk(d, s)[3] = s
  /\ \A r, d, s : /\ Frozen(r, d, s)[1] = "knowledge_revision_chunks"
                  /\ Frozen(r, d, s)[2] = r /\ Frozen(r, d, s)[3] = d /\ Frozen(r, d, s)[4] = s
  /\ \A d : Page(d)[1] = "document_webpages" /\ Page(d)[2] = d
BY DEF Document, Chunk, Frozen, Page

LEMMA PlaceFacts ==
  /\ \A d : NameOf(d)[1] = Document(d) /\ NameOf(d)[2] = "name"
  /\ \A d : ErrorOf(d)[1] = Document(d) /\ ErrorOf(d)[2] = "error"
  /\ \A d, s : TextOf(d, s)[1] = Chunk(d, s) /\ TextOf(d, s)[2] = "text"
  /\ \A d : UrlOf(d)[1] = Page(d) /\ UrlOf(d)[2] = "url"
  /\ \A d : ContentOf(d)[1] = Page(d) /\ ContentOf(d)[2] = "content"
  /\ \A d : SyncErrorOf(d)[1] = Page(d) /\ SyncErrorOf(d)[2] = "sync_error"
  /\ \A d : HashOf(d)[1] = Page(d) /\ HashOf(d)[2] = "content_hash"
  /\ \A r, d, s : FrozenName(r, d, s)[1] = Frozen(r, d, s) /\ FrozenName(r, d, s)[2] = "document_name"
  /\ \A r, d, s : FrozenText(r, d, s)[1] = Frozen(r, d, s) /\ FrozenText(r, d, s)[2] = "text"
BY DEF NameOf, ErrorOf, TextOf, UrlOf, ContentOf, SyncErrorOf, HashOf, FrozenName, FrozenText

LEMMA ValueFacts ==
  /\ NoValue.form = "null" /\ NoValue.text = None
  /\ \A t : Plain(t).form = "plain" /\ Plain(t).text = t
  /\ \A t, b : Sealed(t, b).form = "sealed" /\ Sealed(t, b).text = t /\ Sealed(t, b).at = b
  /\ \A t, b : Keyed(t, b).form = "keyed" /\ Keyed(t, b).text = t /\ Keyed(t, b).at = b
BY DEF NoValue, Plain, Sealed, Keyed

(* The kinds of rows *)
IsDocument(row) == \E d \in Docs : row = Document(d)
IsChunk(row)    == \E d \in Docs, s \in Seqs : row = Chunk(d, s)
IsFrozen(row)   == \E r \in Revisions, d \in Files, s \in Seqs : row = Frozen(r, d, s)
IsPage(row)     == \E d \in Webpages : row = Page(d)

LEMMA RowKinds ==
  \A row : row \in Rows <=> IsDocument(row) \/ IsChunk(row) \/ IsFrozen(row) \/ IsPage(row)
<1>1. \A row : row \in UNION {ChunksOf(d) : d \in Docs} <=> IsChunk(row)
  BY DEF ChunksOf, IsChunk
<1>2. \A row : row \in FrozenRows <=> IsFrozen(row)
  BY DEF FrozenRows, FrozenOf, IsFrozen
<1>3. \A row : row \in {Document(d) : d \in Docs} <=> IsDocument(row)
  BY DEF IsDocument
<1>4. \A row : row \in {Page(d) : d \in Webpages} <=> IsPage(row)
  BY DEF IsPage
<1>5. Rows = {Document(d) : d \in Docs} \cup (UNION {ChunksOf(d) : d \in Docs})
               \cup FrozenRows \cup {Page(d) : d \in Webpages}
  BY ConstantsAssumption
<1> QED
  BY <1>1, <1>2, <1>3, <1>4, <1>5

LEMMA FrozenKind == \A row : row \in FrozenRows <=> IsFrozen(row)
BY DEF FrozenRows, FrozenOf, IsFrozen

LEMMA ColumnFacts ==
  /\ Columns["documents"] = {"name", "error"}
  /\ Columns["chunks"] = {"text"}
  /\ Columns["knowledge_revision_chunks"] = {"document_name", "text"}
  /\ Columns["document_webpages"] = {"url", "content", "sync_error", "content_hash"}
BY DEF Columns

(* The places are exactly the named ones                                    *)
LEMMA PlaceKinds ==
  \A p : p \in Places <=>
    \/ \E d \in Docs : p \in {NameOf(d), ErrorOf(d)}
    \/ \E d \in Docs, s \in Seqs : p = TextOf(d, s)
    \/ \E r \in Revisions, d \in Files, s \in Seqs : p \in {FrozenName(r, d, s), FrozenText(r, d, s)}
    \/ \E d \in Webpages : p \in {UrlOf(d), ContentOf(d), SyncErrorOf(d), HashOf(d)}
<1>1. \A p : p \in Places <=> \E row \in Rows : p \in PlacesOf(row)
  BY DEF Places
<1>2. \A p, d : p \in PlacesOf(Document(d)) <=> p \in {NameOf(d), ErrorOf(d)}
  BY RowFacts, ColumnFacts DEF PlacesOf, NameOf, ErrorOf
<1>3. \A p, d, s : p \in PlacesOf(Chunk(d, s)) <=> p = TextOf(d, s)
  BY RowFacts, ColumnFacts DEF PlacesOf, TextOf
<1>4. \A p, r, d, s : p \in PlacesOf(Frozen(r, d, s)) <=> p \in {FrozenName(r, d, s), FrozenText(r, d, s)}
  BY RowFacts, ColumnFacts DEF PlacesOf, FrozenName, FrozenText
<1>5. \A p, d : p \in PlacesOf(Page(d)) <=> p \in {UrlOf(d), ContentOf(d), SyncErrorOf(d), HashOf(d)}
  BY RowFacts, ColumnFacts DEF PlacesOf, UrlOf, ContentOf, SyncErrorOf, HashOf
<1>6. \A row \in Rows : IsDocument(row) \/ IsChunk(row) \/ IsFrozen(row) \/ IsPage(row)
  BY RowKinds
<1>7. /\ \A d \in Docs : Document(d) \in Rows
      /\ \A d \in Docs, s \in Seqs : Chunk(d, s) \in Rows
      /\ \A r \in Revisions, d \in Files, s \in Seqs : Frozen(r, d, s) \in Rows
      /\ \A d \in Webpages : Page(d) \in Rows
  BY RowKinds DEF IsDocument, IsChunk, IsFrozen, IsPage
<1> QED
  <2> SUFFICES ASSUME NEW p
               PROVE  p \in Places <=>
    \/ \E d \in Docs : p \in {NameOf(d), ErrorOf(d)}
    \/ \E d \in Docs, s \in Seqs : p = TextOf(d, s)
    \/ \E r \in Revisions, d \in Files, s \in Seqs : p \in {FrozenName(r, d, s), FrozenText(r, d, s)}
    \/ \E d \in Webpages : p \in {UrlOf(d), ContentOf(d), SyncErrorOf(d), HashOf(d)}
    OBVIOUS
  <2>1. ASSUME NEW row \in Rows, p \in PlacesOf(row)
        PROVE  \/ \E d \in Docs : p \in {NameOf(d), ErrorOf(d)}
               \/ \E d \in Docs, s \in Seqs : p = TextOf(d, s)
               \/ \E r \in Revisions, d \in Files, s \in Seqs : p \in {FrozenName(r, d, s), FrozenText(r, d, s)}
               \/ \E d \in Webpages : p \in {UrlOf(d), ContentOf(d), SyncErrorOf(d), HashOf(d)}
    <3>1. CASE IsDocument(row)
      BY <2>1, <3>1, <1>2 DEF IsDocument
    <3>2. CASE IsChunk(row)
      BY <2>1, <3>2, <1>3 DEF IsChunk
    <3>3. CASE IsFrozen(row)
      BY <2>1, <3>3, <1>4 DEF IsFrozen
    <3>4. CASE IsPage(row)
      BY <2>1, <3>4, <1>5 DEF IsPage
    <3> QED
      BY <3>1, <3>2, <3>3, <3>4, <1>6
  <2>2. ASSUME NEW d \in Docs, p \in {NameOf(d), ErrorOf(d)}
        PROVE  p \in Places
    BY <2>2, <1>1, <1>2, <1>7
  <2>3. ASSUME NEW d \in Docs, NEW s \in Seqs, p = TextOf(d, s)
        PROVE  p \in Places
    BY <2>3, <1>1, <1>3, <1>7
  <2>4. ASSUME NEW r \in Revisions, NEW d \in Files, NEW s \in Seqs,
               p \in {FrozenName(r, d, s), FrozenText(r, d, s)}
        PROVE  p \in Places
    BY <2>4, <1>1, <1>4, <1>7
  <2>5. ASSUME NEW d \in Webpages, p \in {UrlOf(d), ContentOf(d), SyncErrorOf(d), HashOf(d)}
        PROVE  p \in Places
    BY <2>5, <1>1, <1>5, <1>7
  <2> QED
    BY <1>1, <2>1, <2>2, <2>3, <2>4, <2>5

LEMMA NamedPlaces ==
  /\ \A d \in Docs : NameOf(d) \in Places /\ ErrorOf(d) \in Places
  /\ \A d \in Docs, s \in Seqs : TextOf(d, s) \in Places
  /\ \A r \in Revisions, d \in Files, s \in Seqs :
       FrozenName(r, d, s) \in Places /\ FrozenText(r, d, s) \in Places
  /\ \A d \in Webpages :
       UrlOf(d) \in Places /\ ContentOf(d) \in Places /\ SyncErrorOf(d) \in Places /\ HashOf(d) \in Places
BY PlaceKinds

LEMMA Hashes ==
  /\ \A d : ~IsHash(NameOf(d)) /\ ~IsHash(ErrorOf(d))
  /\ \A d, s : ~IsHash(TextOf(d, s))
  /\ \A r, d, s : ~IsHash(FrozenName(r, d, s)) /\ ~IsHash(FrozenText(r, d, s))
  /\ \A d : ~IsHash(UrlOf(d)) /\ ~IsHash(ContentOf(d)) /\ ~IsHash(SyncErrorOf(d)) /\ IsHash(HashOf(d))
BY PlaceFacts DEF IsHash

LEMMA RowPlaces ==
  /\ \A p \in Places : p[1] \in Rows /\ p \in PlacesOf(p[1])
  /\ \A row \in Rows : \A p : p \in PlacesOf(row) => p \in Places /\ p[1] = row
BY DEF Places, PlacesOf

-----------------------------------------------------------------------------
(* Bindings: every reader opens a place under the binding it is written     *)
(* under, and every place but the hashes has a reader                       *)

LEMMA Targets ==
  /\ \A d : Target(NameOf(d)) = Binding(d, <<"document:name">>)
  /\ \A d : Target(ErrorOf(d)) = Binding(d, <<"document:error">>)
  /\ \A d, s : Target(TextOf(d, s)) = Binding(d, <<"chunk", s, "text">>)
  /\ \A d : Target(UrlOf(d)) = Binding(d, <<"webpage:url", 0>>)
  /\ \A d : Target(ContentOf(d)) = Binding(d, <<"webpage:content">>)
  /\ \A d : Target(SyncErrorOf(d)) = Binding(d, <<"webpage:error">>)
  /\ \A d : Target(HashOf(d)) = Binding(d, <<"webpage:content-fingerprint">>)
  /\ \A r, d, s : Target(FrozenName(r, d, s)) = Binding(r, <<"document", d, "name">>)
  /\ \A r, d, s : Target(FrozenText(r, d, s)) = Binding(r, <<"document", d, "chunk", s, "text">>)
<1>1. /\ DocumentField["name"] = <<"document:name">>
      /\ DocumentField["error"] = <<"document:error">>
      /\ PageField["url"] = <<"webpage:url", 0>>
      /\ PageField["content"] = <<"webpage:content">>
      /\ PageField["sync_error"] = <<"webpage:error">>
      /\ PageField["content_hash"] = <<"webpage:content-fingerprint">>
  BY DEF DocumentField, PageField
<1>2. \A p : p[1][1] = "documents" => Target(p) = Binding(p[1][2], DocumentField[p[2]])
  BY DEF Target
<1>3. \A p : p[1][1] = "document_webpages" => Target(p) = Binding(p[1][2], PageField[p[2]])
  BY DEF Target
<1>4. \A p : p[1][1] = "chunks" => Target(p) = Binding(p[1][2], <<"chunk", p[1][3], "text">>)
  BY DEF Target
<1>5. \A p : p[1][1] = "knowledge_revision_chunks" =>
        Target(p) = Binding(p[1][2], IF p[2] = "text" THEN <<"document", p[1][3], "chunk", p[1][4], "text">>
                                     ELSE <<"document", p[1][3], "name">>)
  BY DEF Target
<1>6. \A d : /\ Target(NameOf(d)) = Binding(d, <<"document:name">>)
             /\ Target(ErrorOf(d)) = Binding(d, <<"document:error">>)
  BY <1>1, <1>2, PlaceFacts, RowFacts
<1>7. \A d : /\ Target(UrlOf(d)) = Binding(d, <<"webpage:url", 0>>)
             /\ Target(ContentOf(d)) = Binding(d, <<"webpage:content">>)
             /\ Target(SyncErrorOf(d)) = Binding(d, <<"webpage:error">>)
             /\ Target(HashOf(d)) = Binding(d, <<"webpage:content-fingerprint">>)
  BY <1>1, <1>3, PlaceFacts, RowFacts
<1>8. \A d, s : Target(TextOf(d, s)) = Binding(d, <<"chunk", s, "text">>)
  BY <1>4, PlaceFacts, RowFacts
<1>9. \A r, d, s : /\ Target(FrozenName(r, d, s)) = Binding(r, <<"document", d, "name">>)
                   /\ Target(FrozenText(r, d, s)) = Binding(r, <<"document", d, "chunk", s, "text">>)
  BY <1>5, PlaceFacts, RowFacts
<1> QED
  BY <1>6, <1>7, <1>8, <1>9

LEMMA ReadsTarget ==
  \A e \in Reads : e[1] \in Places /\ ~IsHash(e[1]) /\ e[2] = Target(e[1])
<1> DEFINE Fine(e) == e[1] \in Places /\ ~IsHash(e[1]) /\ e[2] = Target(e[1])
<1>0. Files \subseteq Docs /\ Webpages \subseteq Docs
  BY DEF Docs
<1>1. \A d \in Docs : /\ Fine(<<NameOf(d), Binding(d, <<"document:name">>)>>)
                      /\ Fine(<<ErrorOf(d), Binding(d, <<"document:error">>)>>)
  BY Targets, NamedPlaces, Hashes
<1>2. \A d \in Docs, s \in Seqs : Fine(<<TextOf(d, s), Binding(d, <<"chunk", s, "text">>)>>)
  BY Targets, NamedPlaces, Hashes
<1>3. \A r \in Revisions, d \in Files, s \in Seqs :
        /\ Fine(<<FrozenName(r, d, s), Binding(r, <<"document", d, "name">>)>>)
        /\ Fine(<<FrozenText(r, d, s), Binding(r, <<"document", d, "chunk", s, "text">>)>>)
  <2> SUFFICES ASSUME NEW r \in Revisions, NEW d \in Files, NEW s \in Seqs
               PROVE  /\ Fine(<<FrozenName(r, d, s), Binding(r, <<"document", d, "name">>)>>)
                      /\ Fine(<<FrozenText(r, d, s), Binding(r, <<"document", d, "chunk", s, "text">>)>>)
    OBVIOUS
  <2>1. /\ FrozenName(r, d, s) \in Places /\ FrozenText(r, d, s) \in Places
        /\ ~IsHash(FrozenName(r, d, s)) /\ ~IsHash(FrozenText(r, d, s))
    BY NamedPlaces, Hashes
  <2>2. /\ Target(FrozenName(r, d, s)) = Binding(r, <<"document", d, "name">>)
        /\ Target(FrozenText(r, d, s)) = Binding(r, <<"document", d, "chunk", s, "text">>)
    BY Targets
  <2> QED
    BY <2>1, <2>2
<1>4. \A d \in Webpages : /\ Fine(<<UrlOf(d), Binding(d, <<"webpage:url", 0>>)>>)
                          /\ Fine(<<SyncErrorOf(d), Binding(d, <<"webpage:error">>)>>)
                          /\ Fine(<<ContentOf(d), Binding(d, <<"webpage:content">>)>>)
  BY Targets, NamedPlaces, Hashes
<1> HIDE DEF Fine
<1> DEFINE
      C(d, s) == <<TextOf(d, s), Binding(d, <<"chunk", s, "text">>)>>
      N(r, d, s) == <<FrozenName(r, d, s), Binding(r, <<"document", d, "name">>)>>
      T(r, d, s) == <<FrozenText(r, d, s), Binding(r, <<"document", d, "chunk", s, "text">>)>>
      Names1 == {<<NameOf(d), Binding(d, <<"document:name">>)>> : d \in Docs}
      Text(D) == {C(d, s) : d \in D, s \in Seqs}
      Names2 == {N(r, d, s) : r \in Revisions, d \in Files, s \in Seqs}
      Texts2 == {T(r, d, s) : r \in Revisions, d \in Files, s \in Seqs}
<1>5. \A e \in Names1 : Fine(e)
  BY <1>1
<1>a. /\ \A d \in Docs, s \in Seqs : Fine(C(d, s))
      /\ \A r \in Revisions, d \in Files, s \in Seqs : Fine(N(r, d, s)) /\ Fine(T(r, d, s))
  BY <1>2, <1>3
<1> HIDE DEF C, N, T
<1>6. ASSUME NEW D \in SUBSET Docs, NEW e \in Text(D)
      PROVE  Fine(e)
  <2>1. PICK d \in D, s \in Seqs : e = C(d, s)
    OBVIOUS
  <2> QED
    BY <2>1, <1>a
<1>7. ASSUME NEW e \in Names2
      PROVE  Fine(e)
  <2>1. PICK r \in Revisions, d \in Files, s \in Seqs : e = N(r, d, s)
    OBVIOUS
  <2> QED
    BY <2>1, <1>a
<1>8. ASSUME NEW e \in Texts2
      PROVE  Fine(e)
  <2>1. PICK r \in Revisions, d \in Files, s \in Seqs : e = T(r, d, s)
    OBVIOUS
  <2> QED
    BY <2>1, <1>a
<1>9. \A e \in RecordReads \cup DetailReads : Fine(e)
  BY <1>1, <1>4 DEF RecordReads, DetailReads
<1>10. /\ HitReads = Names1 \cup Text(Docs) \cup Names2 \cup Texts2
       /\ ChunkReads = Text(Webpages)
       /\ ReindexReads = Text(Docs)
  BY DEF HitReads, ChunkReads, ReindexReads, C, N, T
<1> HIDE DEF Names1, Text, Names2, Texts2
<1>11. \A e \in Reads : Fine(e)
  BY <1>0, <1>5, <1>6, <1>7, <1>8, <1>9, <1>10 DEF Reads
<1> QED
  BY <1>11 DEF Fine

LEMMA EveryPlaceIsRead == \A p \in Places : Target(p) \in Bindings
<1> SUFFICES ASSUME NEW p \in Places
             PROVE  Target(p) \in Bindings
  OBVIOUS
<1>1. ASSUME NEW d \in Docs, p \in {NameOf(d), ErrorOf(d)}
      PROVE  Target(p) \in Bindings
  <2>1. /\ <<NameOf(d), Binding(d, <<"document:name">>)>> \in Reads
        /\ <<ErrorOf(d), Binding(d, <<"document:error">>)>> \in Reads
    BY DEF Reads, RecordReads
  <2> QED
    BY <1>1, <2>1, Targets DEF Bindings
<1>2. ASSUME NEW d \in Docs, NEW s \in Seqs, p = TextOf(d, s)
      PROVE  Target(p) \in Bindings
  <2>1. <<TextOf(d, s), Binding(d, <<"chunk", s, "text">>)>> \in Reads
    BY DEF Reads, ReindexReads
  <2> QED
    BY <1>2, <2>1, Targets DEF Bindings
<1>3. ASSUME NEW r \in Revisions, NEW d \in Files, NEW s \in Seqs,
             p \in {FrozenName(r, d, s), FrozenText(r, d, s)}
      PROVE  Target(p) \in Bindings
  <2>1. /\ <<FrozenName(r, d, s), Binding(r, <<"document", d, "name">>)>> \in Reads
        /\ <<FrozenText(r, d, s), Binding(r, <<"document", d, "chunk", s, "text">>)>> \in Reads
    BY DEF Reads, HitReads
  <2> QED
    BY <1>3, <2>1, Targets DEF Bindings
<1>4. ASSUME NEW d \in Webpages, p \in {UrlOf(d), ContentOf(d), SyncErrorOf(d), HashOf(d)}
      PROVE  Target(p) \in Bindings
  <2>1. /\ <<UrlOf(d), Binding(d, <<"webpage:url", 0>>)>> \in Reads
        /\ <<SyncErrorOf(d), Binding(d, <<"webpage:error">>)>> \in Reads
        /\ <<ContentOf(d), Binding(d, <<"webpage:content">>)>> \in Reads
    BY DEF Reads, RecordReads, DetailReads
  <2>2. Binding(d, <<"webpage:content-fingerprint">>) \in Bindings
    BY DEF Bindings
  <2> QED
    BY <1>4, <2>1, <2>2, Targets DEF Bindings
<1> QED
  BY <1>1, <1>2, <1>3, <1>4, PlaceKinds

-----------------------------------------------------------------------------
(* The invariant                                                           *)

(* What may be stored at a place: nothing, a text in plain, or its form for *)
(* this place and no other *)
Fit(p, v) ==
  \/ v = NoValue
  \/ \E t \in Texts : v = Plain(t)
  \/ ~IsHash(p) /\ \E t \in Texts : v = Sealed(t, Target(p))
  \/ IsHash(p) /\ \E t \in Texts : v = Keyed(t, Target(p))

StoreFits(s) == s \in [Places -> Values] /\ \A p \in Places : Fit(p, s[p])

(* The rows that go with a document *)
RowsOf(d) == {Document(d), Page(d)} \cup ChunksOf(d)

(* A document that was not created has no row, and no row is without name *)
RowsGoTogether(s, c) ==
  \A d \in Docs :
    /\ d \notin c => s[NameOf(d)] = NoValue
    /\ s[NameOf(d)] = NoValue => \A p \in Places : p[1] \in RowsOf(d) => s[p] = NoValue

(* A hash, the content and the chunks hold the same text *)
HashFits(s) ==
  \A d \in Webpages : s[HashOf(d)] # NoValue =>
    /\ s[HashOf(d)].text = s[ContentOf(d)].text
    /\ \A q \in Seqs : s[TextOf(d, q)].text = s[ContentOf(d)].text

(* What the worker knows of the hash is still what is stored, or its        *)
(* document is gone *)
WorkerFits ==
  /\ worker \in [pc : {"idle", "fetch", "finish", "failing"}, doc : Webpages \cup {None},
                 known : Values, got : Pages \cup {None}, chunked : BOOLEAN]
  /\ worker.pc # "idle" => worker.doc \in Webpages
  /\ worker.pc \in {"fetch", "finish"} =>
       \/ store[HashOf(worker.doc)] = NoValue
       \/ store[HashOf(worker.doc)].text = worker.known.text
  /\ worker.pc = "finish" => worker.got \in Pages
  /\ worker.pc = "finish" /\ ~worker.chunked => worker.known.text = worker.got

(* The place of a row in the backfill's order *)
TableOf(row) ==
  IF row[1] = "documents" THEN 1
  ELSE IF row[1] = "chunks" THEN 2
  ELSE IF row[1] = "knowledge_revision_chunks" THEN 3 ELSE 4

Later(row) ==
  \/ TableOf(row) > backfill.table
  \/ TableOf(row) = backfill.table /\ Id[row] >= backfill.after

BackfillTyped ==
  /\ backfill \in [table : 0 .. 4, after : Nat, locked : SUBSET Rows,
                   converted : [Places -> Values]]
  /\ migrated \in BOOLEAN

(* Locked rows exist, belong to a table that was reached, and were          *)
(* converted from what is still stored *)
LockedFits ==
  /\ \A row \in backfill.locked : TableOf(row) <= backfill.table /\ Exists(row)
  /\ \A p \in Places : p[1] \in backfill.locked =>
       Convertible(p) /\ backfill.converted[p] = Converted(p)

(* A private text is in plain only before the first backfill, and a running *)
(* one has it locked or still ahead *)
PlainFits ==
  \A p \in Places : store[p].form = "plain" /\ store[p] # Plain(Code) =>
    /\ ~migrated
    /\ backfill.table # 0 => p[1] \in backfill.locked \/ Later(p[1])

StoreInv ==
  /\ StoreFits(store)
  /\ created \subseteq Docs
  /\ written = [p \in Places |-> store[p].text]
  /\ RowsGoTogether(store, created)
  /\ HashFits(store)
  /\ BackfillTyped
  /\ LockedFits
  /\ PlainFits

PrivateInv == StoreInv /\ WorkerFits /\ fenced \in BOOLEAN

(* What a transaction of the service may write *)
GoodWrite(new) ==
  /\ new \in [Places -> Values]
  /\ \A p \in Places : new[p] # store[p] =>
       /\ Fit(p, new[p])
       /\ new[p].form = "plain" => new[p] = Plain(Code)
       /\ p[1] \notin backfill.locked
       /\ p[1] \in FrozenRows => store[p] = NoValue

(* Frozen places change by the commit of a backfill, which keeps their      *)
(* text, or go in an erasure                                                *)
FrozenKept ==
  \A p \in Places : p[1] \in FrozenRows /\ store'[p] # store[p] /\ store[p] # NoValue =>
    \/ backfill.table = 4 /\ migrated' /\ written'[p] = written[p]
    \/ /\ fenced /\ \A q \in Places : store'[q] = NoValue
       /\ backfill.locked = {}

-----------------------------------------------------------------------------
(* Values                                                                  *)

LEMMA FitIsValue ==
  ASSUME NEW p \in Places, NEW v, Fit(p, v)
  PROVE  v \in Values
<1>1. Target(p) \in Bindings
  BY EveryPlaceIsRead
<1>2. NoValue \in Values
  BY DEF Values
<1>3. \A t \in Texts : Plain(t) \in Values
  BY DEF Values, Plain
<1>4. \A t \in Texts : Sealed(t, Target(p)) \in Values /\ Keyed(t, Target(p)) \in Values
  BY <1>1 DEF Values, Sealed, Keyed
<1> QED
  BY <1>2, <1>3, <1>4 DEF Fit

LEMMA FitForms ==
  ASSUME NEW p, NEW v, Fit(p, v)
  PROVE  /\ v = NoValue <=> v.form = "null"
         /\ v.form = "plain" => v = Plain(v.text) /\ v.text \in Texts
         /\ v.form = "sealed" => ~IsHash(p) /\ v = Sealed(v.text, Target(p)) /\ v.text \in Texts
         /\ v.form = "keyed" => IsHash(p) /\ v = Keyed(v.text, Target(p)) /\ v.text \in Texts
         /\ v.form \in {"null", "plain", "sealed", "keyed"}
         /\ v # NoValue => v.text \in Texts
BY ValueFacts DEF Fit

LEMMA ExistsByPlace ==
  \A row \in Rows : Exists(row) <=> \E p \in Places : p[1] = row /\ store[p] # NoValue
BY RowPlaces DEF Exists

(* Converting a fitting value keeps its text, fits, and leaves nothing plain *)
LEMMA ConvertedFits ==
  ASSUME NEW p \in Places, Fit(p, store[p]), Convertible(p)
  PROVE  /\ Fit(p, Converted(p))
         /\ Converted(p).text = store[p].text
         /\ Converted(p).form # "plain"
         /\ Converted(p) = NoValue <=> store[p] = NoValue
<1>1. CASE store[p].form = "plain" /\ ~(LooksEncrypted(store[p]) /\ ~IsHash(p))
  <2>1. store[p].text \in Texts
    BY <1>1, FitForms
  <2>2. Converted(p) = IF IsHash(p) THEN Keyed(store[p].text, Target(p)) ELSE Sealed(store[p].text, Target(p))
    BY <1>1 DEF Converted
  <2> QED
    BY <1>1, <2>1, <2>2, ValueFacts DEF Fit
<1>2. CASE store[p].form = "plain" /\ LooksEncrypted(store[p]) /\ ~IsHash(p)
  BY <1>2, ValueFacts DEF Convertible, Opens
<1>3. CASE store[p].form # "plain"
  <2>1. Converted(p) = store[p]
    BY <1>3 DEF Converted
  <2> QED
    BY <1>3, <2>1
<1> QED
  BY <1>1, <1>2, <1>3

LEMMA TableFacts ==
  /\ \A row \in Rows : TableOf(row) \in 1 .. 4
  /\ \A row \in Rows, k \in 1 .. 4 : row[1] = TableNames[k] <=> TableOf(row) = k
  /\ \A row \in FrozenRows : TableOf(row) = 3
<1>1. \A row \in Rows : row[1] \in {"documents", "chunks", "knowledge_revision_chunks", "document_webpages"}
  BY RowKinds, RowFacts DEF IsDocument, IsChunk, IsFrozen, IsPage
<1>2. /\ TableNames[1] = "documents" /\ TableNames[2] = "chunks"
      /\ TableNames[3] = "knowledge_revision_chunks" /\ TableNames[4] = "document_webpages"
  BY DEF TableNames
<1>3. \A row \in FrozenRows : row[1] = "knowledge_revision_chunks"
  BY FrozenKind, RowFacts DEF IsFrozen
<1> QED
  BY <1>1, <1>2, <1>3 DEF TableOf

-----------------------------------------------------------------------------
(* A transaction of the service                                            *)

LEMMA ServiceStep ==
  ASSUME StoreInv, NEW new, GoodWrite(new), Put(new),
         created' \subseteq Docs, RowsGoTogether(new, created'), HashFits(new)
  PROVE  StoreInv' /\ FrozenKept
<1> USE DEF StoreInv
<1>1. store' = new /\ backfill' = backfill /\ migrated' = migrated
  BY DEF Put
<1>2. \A p \in Places : Fit(p, new[p])
  BY DEF GoodWrite, StoreFits
<1>3. StoreFits(store)'
  BY <1>1, <1>2 DEF StoreFits, GoodWrite
<1>4. (written = [p \in Places |-> store[p].text])'
  <2>1. written' = [p \in Places |-> IF new[p] # store[p] THEN new[p].text ELSE written[p]]
    BY DEF Put
  <2>2. \A p \in Places : (IF new[p] # store[p] THEN new[p].text ELSE written[p]) = new[p].text
    OBVIOUS
  <2> QED
    BY <1>1, <2>1, <2>2
<1>5. \A p \in Places : p[1] \in backfill.locked => store'[p] = store[p]
  BY <1>1 DEF GoodWrite
<1>6. LockedFits'
  <2>1. \A row \in backfill'.locked : TableOf(row) <= backfill'.table
    BY <1>1 DEF LockedFits
  <2>2. ASSUME NEW row \in backfill.locked
        PROVE  Exists(row)'
    <3>1. row \in Rows /\ Exists(row)
      BY DEF BackfillTyped, LockedFits
    <3>2. PICK p \in Places : p[1] = row /\ store[p] # NoValue
      BY <3>1, ExistsByPlace
    <3>3. p \in PlacesOf(row) /\ store'[p] # NoValue
      BY <3>1, <3>2, <1>5, RowPlaces
    <3> QED
      BY <3>3 DEF Exists
  <2>3. ASSUME NEW p \in Places, p[1] \in backfill.locked
        PROVE  Convertible(p)' /\ backfill'.converted[p] = Converted(p)'
    <3>1. store'[p] = store[p]
      BY <2>3, <1>5
    <3>2. Convertible(p) /\ backfill.converted[p] = Converted(p)
      BY <2>3 DEF LockedFits
    <3>3. Convertible(p)'
      BY <3>1, <3>2 DEF Convertible
    <3>4. Converted(p)' = Converted(p)
      BY <3>1 DEF Converted
    <3> QED
      BY <3>2, <3>3, <3>4, <1>1
  <2> QED
    BY <1>1, <2>1, <2>2, <2>3 DEF LockedFits
<1>7. PlainFits'
  <2> SUFFICES ASSUME NEW p \in Places, store'[p].form = "plain", store'[p] # Plain(Code)
               PROVE  /\ ~migrated'
                      /\ backfill'.table # 0 => p[1] \in backfill'.locked \/ Later(p[1])'
    BY DEF PlainFits
  <2>1. store'[p] = store[p]
    BY <1>1 DEF GoodWrite
  <2> QED
    BY <1>1, <2>1 DEF PlainFits, Later
<1>8. FrozenKept
  BY <1>1 DEF FrozenKept, GoodWrite
<1>9. BackfillTyped'
  BY <1>1 DEF BackfillTyped
<1> QED
  BY <1>1, <1>3, <1>4, <1>6, <1>7, <1>8, <1>9

(* Steps that leave the store alone *)
LEMMA StoreKept ==
  ASSUME StoreInv, UNCHANGED <<store, created, backfill, written, migrated>>
  PROVE  StoreInv' /\ FrozenKept
BY DEF StoreInv, FrozenKept, BackfillTyped, LockedFits, PlainFits, Later, Convertible, Converted, Exists

-----------------------------------------------------------------------------
(* The backfill                                                            *)

LEMMA BeginStep ==
  ASSUME StoreInv, Begin
  PROVE  StoreInv' /\ FrozenKept
<1> USE DEF StoreInv
<1>1. UNCHANGED <<store, created, written, migrated>>
  BY DEF Begin, OnlyBackfill
<1>2. /\ backfill' = [NoBackfill EXCEPT !.table = 1]
      /\ backfill'.table = 1 /\ backfill'.after = 0 /\ backfill'.locked = {}
      /\ backfill'.converted = [p \in Places |-> NoValue]
  BY DEF Begin, NoBackfill
<1>3. BackfillTyped'
  <2>1. NoValue \in Values
    BY DEF Values
  <2> QED
    BY <1>1, <1>2, <2>1 DEF BackfillTyped, NoBackfill
<1>4. LockedFits'
  BY <1>2 DEF LockedFits
<1>5. ASSUME NEW row \in Rows
      PROVE  Later(row)'
  <2>1. TableOf(row) \in 1 .. 4 /\ Id[row] \in Nat
    BY TableFacts, ConstantsAssumption
  <2> QED
    BY <2>1, <1>2 DEF Later
<1>6. PlainFits'
  BY <1>1, <1>5, RowPlaces DEF PlainFits
<1> QED
  BY <1>1, <1>3, <1>4, <1>6 DEF FrozenKept

LEMMA VisitStep ==
  ASSUME StoreInv, NEW row \in Rows, Visit(row)
  PROVE  StoreInv' /\ FrozenKept
<1> USE DEF StoreInv
<1>1. UNCHANGED <<store, created, written, migrated>>
  BY DEF Visit, OnlyBackfill
<1>2. /\ backfill'.table = backfill.table
      /\ backfill'.after = Id[row] + 1
      /\ backfill'.locked = backfill.locked \cup {row}
      /\ backfill'.converted =
           [p \in Places |-> IF p[1] = row THEN Converted(p) ELSE backfill.converted[p]]
  BY DEF Visit, BackfillTyped
<1>3. /\ Exists(row) /\ TableOf(row) = backfill.table /\ backfill.table \in 1 .. 4
      /\ Id[row] >= backfill.after
      /\ \A q \in Ahead : Id[row] <= Id[q]
      /\ \A p \in PlacesOf(row) : Convertible(p)
  <2>1. backfill.table \in 1 .. 4 /\ row \in Ahead
    BY DEF Visit, BackfillTyped
  <2> QED
    BY <2>1, TableFacts DEF Visit, Ahead
<1>4. ASSUME NEW p \in Places, Convertible(p)
      PROVE  Converted(p) \in Values
  BY <1>4, ConvertedFits, FitIsValue DEF StoreFits
<1>5. BackfillTyped'
  <2>1. backfill'.converted \in [Places -> Values]
    BY <1>2, <1>3, <1>4, RowPlaces DEF BackfillTyped
  <2>2. Id[row] + 1 \in Nat
    BY ConstantsAssumption
  <2>3. backfill' = [backfill EXCEPT
          !.after = Id[row] + 1,
          !.locked = @ \cup {row},
          !.converted = [p \in Places |-> IF p[1] = row THEN Converted(p) ELSE backfill.converted[p]]]
    BY DEF Visit
  <2> QED
    BY <1>1, <1>2, <2>1, <2>2, <2>3 DEF BackfillTyped
<1>6. LockedFits'
  <2>1. \A q \in backfill'.locked : TableOf(q) <= backfill'.table /\ Exists(q)'
    BY <1>1, <1>2, <1>3 DEF LockedFits, Exists
  <2>2. ASSUME NEW p \in Places, p[1] \in backfill'.locked
        PROVE  Convertible(p)' /\ backfill'.converted[p] = Converted(p)'
    <3>1. Convertible(p)' = Convertible(p) /\ Converted(p)' = Converted(p)
      BY <1>1 DEF Convertible, Converted
    <3>2. CASE p[1] = row
      BY <3>1, <3>2, <1>2, <1>3, RowPlaces
    <3>3. CASE p[1] # row
      BY <3>1, <3>3, <2>2, <1>2 DEF LockedFits
    <3> QED
      BY <3>2, <3>3
  <2> QED
    BY <2>1, <2>2 DEF LockedFits
<1>7. PlainFits'
  <2> SUFFICES ASSUME NEW p \in Places, store'[p].form = "plain", store'[p] # Plain(Code)
               PROVE  /\ ~migrated'
                      /\ p[1] \in backfill'.locked \/ Later(p[1])'
    BY DEF PlainFits
  <2>1. ~migrated /\ (p[1] \in backfill.locked \/ Later(p[1]))
    BY <1>1, <1>3 DEF PlainFits
  <2>2. CASE p[1] \in backfill.locked \cup {row}
    BY <2>1, <2>2, <1>1, <1>2
  <2>3. CASE p[1] # row /\ TableOf(p[1]) > backfill.table
    BY <2>1, <2>3, <1>1, <1>2 DEF Later
  <2>4. CASE p[1] # row /\ TableOf(p[1]) = backfill.table /\ Id[p[1]] >= backfill.after
    <3>1. p[1] \in Rows /\ Exists(p[1])
      BY <1>1, RowPlaces, ExistsByPlace, ValueFacts
    <3>2. p[1] \in Ahead
      BY <3>1, <2>4, <1>3, TableFacts DEF Ahead
    <3>3. Id[row] <= Id[p[1]]
      BY <3>2, <1>3
    <3>4. Id[row] # Id[p[1]]
      <4>1. p[1][1] = row[1]
        BY <3>1, <2>4, <1>3, TableFacts
      <4> QED
        BY <4>1, <3>1, <2>4, ConstantsAssumption
    <3>5. Id[row] \in Nat /\ Id[p[1]] \in Nat
      BY <3>1, ConstantsAssumption
    <3>6. Id[p[1]] >= Id[row] + 1
      BY <3>3, <3>4, <3>5
    <3> QED
      BY <3>6, <2>1, <2>4, <1>1, <1>2 DEF Later
  <2> QED
    BY <2>1, <2>2, <2>3, <2>4 DEF Later
<1> QED
  BY <1>1, <1>5, <1>6, <1>7 DEF FrozenKept

LEMMA NextTableStep ==
  ASSUME StoreInv, NextTable
  PROVE  StoreInv' /\ FrozenKept
<1> USE DEF StoreInv
<1>1. UNCHANGED <<store, created, written, migrated>>
  BY DEF NextTable, OnlyBackfill
<1>2. /\ backfill'.table = backfill.table + 1 /\ backfill.table \in 1 .. 3
      /\ backfill'.after = 0
      /\ backfill'.locked = backfill.locked
      /\ backfill'.converted = backfill.converted
  BY DEF NextTable, BackfillTyped
<1>3. BackfillTyped'
  <2>1. backfill' = [backfill EXCEPT !.table = backfill.table + 1, !.after = 0]
    BY DEF NextTable
  <2>2. backfill.table + 1 \in 0 .. 4 /\ 0 \in Nat
    BY <1>2
  <2> QED
    BY <1>1, <2>1, <2>2 DEF BackfillTyped
<1>4. LockedFits'
  <2>1. \A q \in backfill'.locked : TableOf(q) <= backfill'.table /\ Exists(q)'
    <3> SUFFICES ASSUME NEW q \in backfill.locked
                 PROVE  TableOf(q) <= backfill.table + 1 /\ Exists(q)'
      BY <1>2
    <3>1. TableOf(q) <= backfill.table /\ Exists(q) /\ TableOf(q) \in 1 .. 4
      BY TableFacts DEF LockedFits, BackfillTyped
    <3> QED
      BY <1>1, <1>2, <3>1 DEF Exists
  <2>2. \A p \in Places : Convertible(p)' = Convertible(p) /\ Converted(p)' = Converted(p)
    BY <1>1 DEF Convertible, Converted
  <2> QED
    BY <1>2, <2>1, <2>2 DEF LockedFits
<1>5. PlainFits'
  <2> SUFFICES ASSUME NEW p \in Places, store'[p].form = "plain", store'[p] # Plain(Code)
               PROVE  /\ ~migrated'
                      /\ p[1] \in backfill'.locked \/ Later(p[1])'
    BY DEF PlainFits
  <2>1. ~migrated /\ (p[1] \in backfill.locked \/ Later(p[1]))
    BY <1>1, <1>2 DEF PlainFits
  <2>2. CASE p[1] \in backfill.locked
    BY <2>1, <2>2, <1>1, <1>2
  <2>3. CASE TableOf(p[1]) > backfill.table
    <3>1. TableOf(p[1]) \in 1 .. 4 /\ Id[p[1]] \in Nat
      BY RowPlaces, TableFacts, ConstantsAssumption
    <3> QED
      BY <3>1, <2>1, <2>3, <1>1, <1>2 DEF Later
  <2>4. CASE TableOf(p[1]) = backfill.table /\ Id[p[1]] >= backfill.after
    <3>1. p[1] \in Rows /\ Exists(p[1])
      BY <1>1, RowPlaces, ExistsByPlace, ValueFacts
    <3>2. p[1] \in Ahead
      BY <3>1, <2>4, <1>2, TableFacts DEF Ahead
    <3> QED
      BY <3>2 DEF NextTable
  <2> QED
    BY <2>1, <2>2, <2>3, <2>4 DEF Later
<1> QED
  BY <1>1, <1>3, <1>4, <1>5 DEF FrozenKept

LEMMA RollbackStep ==
  ASSUME StoreInv, Rollback
  PROVE  StoreInv' /\ FrozenKept
<1> USE DEF StoreInv
<1>1. UNCHANGED <<store, created, written, migrated>>
  BY DEF Rollback, OnlyBackfill
<1>2. backfill' = NoBackfill /\ backfill'.table = 0 /\ backfill'.locked = {}
  BY DEF Rollback, NoBackfill
<1>3. BackfillTyped'
  <2>1. NoValue \in Values
    BY DEF Values
  <2> QED
    BY <1>1, <1>2, <2>1 DEF BackfillTyped, NoBackfill
<1>4. LockedFits' /\ PlainFits'
  BY <1>1, <1>2 DEF LockedFits, PlainFits
<1> QED
  BY <1>1, <1>3, <1>4 DEF FrozenKept

LEMMA CommitStep ==
  ASSUME StoreInv, Commit
  PROVE  /\ StoreInv' /\ FrozenKept
         /\ \A p \in Places : /\ store'[p].text = store[p].text
                              /\ store'[p] = NoValue <=> store[p] = NoValue
<1> USE DEF StoreInv
<1>1. /\ UNCHANGED <<created, written>> /\ migrated' = TRUE
      /\ backfill' = NoBackfill /\ backfill'.table = 0 /\ backfill'.locked = {}
      /\ store' = ConvertedStore
      /\ backfill.table = 4 /\ Ahead = {}
  BY DEF Commit, NoBackfill
<1>2. ASSUME NEW p \in Places
      PROVE  /\ Fit(p, store'[p])
             /\ store'[p].text = store[p].text
             /\ store'[p] = NoValue <=> store[p] = NoValue
             /\ store'[p].form = "plain" => p[1] \notin backfill.locked /\ store'[p] = store[p]
  <2>1. store'[p] = IF p[1] \in backfill.locked THEN backfill.converted[p] ELSE store[p]
    BY <1>1 DEF ConvertedStore
  <2>2. CASE p[1] \in backfill.locked
    <3>1. Convertible(p) /\ store'[p] = Converted(p) /\ Fit(p, store[p])
      BY <2>1, <2>2 DEF LockedFits, StoreFits
    <3> QED
      BY <3>1, ConvertedFits
  <2>3. CASE p[1] \notin backfill.locked
    BY <2>1, <2>3 DEF StoreFits
  <2> QED
    BY <2>2, <2>3
<1>3. StoreFits(store)'
  <2>1. store' = [p \in Places |-> store'[p]]
    BY <1>1 DEF ConvertedStore
  <2>2. \A p \in Places : store'[p] \in Values
    BY <1>2, FitIsValue
  <2> QED
    BY <1>2, <2>1, <2>2 DEF StoreFits
<1>4. (written = [p \in Places |-> store[p].text])'
  BY <1>1, <1>2
<1>5. RowsGoTogether(store, created)'
  BY <1>1, <1>2, NamedPlaces DEF RowsGoTogether
<1>6. HashFits(store)'
  <2>1. Webpages \subseteq Docs
    BY DEF Docs
  <2> QED
    BY <1>2, <2>1, NamedPlaces DEF HashFits
<1>7. BackfillTyped'
  <2>1. NoValue \in Values
    BY DEF Values
  <2> QED
    BY <1>1, <2>1 DEF BackfillTyped, NoBackfill
<1>8. LockedFits'
  BY <1>1 DEF LockedFits
<1>9. ASSUME NEW p \in Places, store'[p].form = "plain"
      PROVE  store'[p] = Plain(Code)
  <2>1. p[1] \notin backfill.locked /\ store'[p] = store[p]
    BY <1>2, <1>9
  <2>2. SUFFICES ASSUME store[p] # Plain(Code)
                 PROVE  FALSE
    BY <2>1
  <2>3. p[1] \in Rows /\ Exists(p[1]) /\ TableOf(p[1]) \in 1 .. 4
    BY <1>9, <2>1, RowPlaces, ExistsByPlace, ValueFacts, TableFacts
  <2>4. Later(p[1])
    BY <1>1, <1>9, <2>1, <2>2 DEF PlainFits
  <2>5. p[1] \in Ahead
    BY <1>1, <2>3, <2>4, TableFacts DEF Later, Ahead
  <2> QED
    BY <1>1, <2>5
<1>10. PlainFits'
  BY <1>9 DEF PlainFits
<1>11. FrozenKept
  BY <1>1 DEF FrozenKept
<1> QED
  BY <1>1, <1>2, <1>3, <1>4, <1>5, <1>6, <1>7, <1>8, <1>10, <1>11

-----------------------------------------------------------------------------
(* What requests and publications write                                    *)

LEMMA WritableForms ==
  ASSUME NEW p \in Places, NEW t \in Texts
  PROVE  /\ Fit(p, NoValue) /\ NoValue.form # "plain"
         /\ Fit(p, Plain(t))
         /\ ~IsHash(p) => Fit(p, Sealed(t, Target(p))) /\ Sealed(t, Target(p)).form # "plain"
         /\ IsHash(p) => Fit(p, Keyed(t, Target(p))) /\ Keyed(t, Target(p)).form # "plain"
BY ValueFacts DEF Fit

(* It is enough that what changes is writable *)
LEMMA GoodWriteRule ==
  ASSUME StoreFits(store), NEW new, new = [p \in Places |-> new[p]],
         \A p \in Places : new[p] # store[p] =>
           /\ Fit(p, new[p])
           /\ new[p].form = "plain" => new[p] = Plain(Code)
           /\ p[1] \notin backfill.locked
           /\ p[1] \in FrozenRows => store[p] = NoValue
  PROVE  GoodWrite(new)
<1>1. \A p \in Places : Fit(p, new[p])
  BY DEF StoreFits
<1>2. \A p \in Places : new[p] \in Values
  BY <1>1, FitIsValue
<1> QED
  BY <1>2 DEF GoodWrite

LEMMA RowOwners ==
  /\ \A d : Document(d) \in RowsOf(d) /\ Page(d) \in RowsOf(d)
  /\ \A d, s : s \in Seqs => Chunk(d, s) \in RowsOf(d)
  /\ \A d, e, row : row \in RowsOf(d) /\ row \in RowsOf(e) => d = e
  /\ \A d, row : row \in RowsOf(d) => row \notin FrozenRows /\ row[2] = d
<1>1. \A d, row : row \in RowsOf(d) => row[2] = d /\ row[1] # "knowledge_revision_chunks"
  BY RowFacts DEF RowsOf, ChunksOf
<1>2. \A row \in FrozenRows : row[1] = "knowledge_revision_chunks"
  BY FrozenKind, RowFacts DEF IsFrozen
<1>3. \A d, s : s \in Seqs => Chunk(d, s) \in ChunksOf(d)
  BY DEF ChunksOf
<1>4. /\ \A d : Document(d) \in RowsOf(d) /\ Page(d) \in RowsOf(d)
      /\ \A d, s : s \in Seqs => Chunk(d, s) \in RowsOf(d)
  BY <1>3 DEF RowsOf
<1> QED
  BY <1>1, <1>2, <1>4

(* Writes to the rows of a document that keeps its name, and to frozen rows *)
LEMMA RowsRule ==
  ASSUME RowsGoTogether(store, created), NEW c, created \subseteq c,
         NEW new, NEW d \in c, new[NameOf(d)] # NoValue,
         \A p \in Places : new[p] # store[p] => p[1] \in RowsOf(d) \cup FrozenRows
  PROVE  RowsGoTogether(new, c)
<1> SUFFICES ASSUME NEW e \in Docs
             PROVE  /\ e \notin c => new[NameOf(e)] = NoValue
                    /\ new[NameOf(e)] = NoValue =>
                         \A p \in Places : p[1] \in RowsOf(e) => new[p] = NoValue
  BY DEF RowsGoTogether
<1>1. CASE e = d
  BY <1>1
<1>2. CASE e # d
  <2>1. ASSUME NEW p \in Places, p[1] \in RowsOf(e)
        PROVE  new[p] = store[p]
    BY <2>1, <1>2, RowOwners
  <2>2. NameOf(e) \in Places /\ NameOf(e)[1] \in RowsOf(e)
    BY NamedPlaces, PlaceFacts, RowOwners
  <2> QED
    BY <2>1, <2>2 DEF RowsGoTogether
<1> QED
  BY <1>1, <1>2

(* Texts that no hash describes *)
LEMMA HashRule ==
  ASSUME HashFits(store), NEW new,
         \A d \in Webpages : /\ new[HashOf(d)] = store[HashOf(d)]
                             /\ new[ContentOf(d)] = store[ContentOf(d)]
                             /\ \A q \in Seqs : new[TextOf(d, q)] = store[TextOf(d, q)]
  PROVE  HashFits(new)
BY DEF HashFits

(* A document with a row has a name and was created; without one, none of   *)
(* its rows is locked                                                       *)
LEMMA RowsExist ==
  ASSUME StoreInv, NEW d \in Docs
  PROVE  /\ Exists(Document(d)) => d \in created /\ store[NameOf(d)] # NoValue
         /\ d \in Webpages /\ Exists(Page(d)) => d \in created /\ store[NameOf(d)] # NoValue
         /\ d \notin created => RowsOf(d) \cap backfill.locked = {}
         /\ d \notin created => \A p \in Places : p[1] \in RowsOf(d) => store[p] = NoValue
<1> USE DEF StoreInv
<1>1. ASSUME NEW row \in Rows, row \in RowsOf(d), Exists(row)
      PROVE  d \in created /\ store[NameOf(d)] # NoValue
  <2>1. PICK p \in Places : p[1] = row /\ store[p] # NoValue
    BY <1>1, ExistsByPlace
  <2> QED
    BY <1>1, <2>1 DEF RowsGoTogether
<1>2. Document(d) \in Rows /\ (d \in Webpages => Page(d) \in Rows)
  BY RowKinds DEF IsDocument, IsPage
<1>3. ASSUME d \notin created
      PROVE  /\ RowsOf(d) \cap backfill.locked = {}
             /\ \A p \in Places : p[1] \in RowsOf(d) => store[p] = NoValue
  BY <1>1, <1>3 DEF RowsGoTogether, LockedFits, BackfillTyped
<1> QED
  BY <1>1, <1>2, <1>3, RowOwners

(* A transaction that writes rows of one document, which has a name after   *)
LEMMA DocumentWrite ==
  ASSUME StoreInv, NEW d \in Docs, NEW new, Put(new), new = [p \in Places |-> new[p]],
         created \subseteq created', created' \subseteq Docs, d \in created',
         new[NameOf(d)] # NoValue, HashFits(new),
         \A p \in Places : new[p] # store[p] =>
           /\ p[1] \in RowsOf(d) /\ p[1] \notin backfill.locked
           /\ Fit(p, new[p])
           /\ new[p].form = "plain" => new[p] = Plain(Code)
  PROVE  StoreInv' /\ FrozenKept
<1>1. GoodWrite(new)
  BY GoodWriteRule, RowOwners DEF StoreInv
<1>2. RowsGoTogether(new, created')
  BY RowsRule DEF StoreInv
<1> QED
  BY <1>1, <1>2, ServiceStep

LEMMA UploadStep ==
  ASSUME StoreInv, NEW d \in Files, NEW n \in Names, Upload(d, n)
  PROVE  StoreInv' /\ FrozenKept
<1> DEFINE v == Sealed(n, Target(NameOf(d)))
           new == [store EXCEPT ![NameOf(d)] = v]
<1>1. d \in Docs \ created /\ n \in Texts /\ created' = created \cup {d}
  BY DEF Upload, Docs, Texts
<1>2. Put(new)
  BY Targets DEF Upload
<1>3. NameOf(d) \in Places /\ NameOf(d)[1] \in RowsOf(d) /\ ~IsHash(NameOf(d))
  BY <1>1, NamedPlaces, PlaceFacts, RowOwners, Hashes
<1>4. new = [p \in Places |-> new[p]] /\ \A p \in Places : new[p] = IF p = NameOf(d) THEN v ELSE store[p]
  BY DEF StoreInv, StoreFits
<1>5. Fit(NameOf(d), v) /\ v.form # "plain" /\ v # NoValue
  BY <1>1, <1>3, WritableForms, ValueFacts
<1>6. HashFits(new)
  <2>1. \A e \in Webpages : /\ new[HashOf(e)] = store[HashOf(e)]
                            /\ new[ContentOf(e)] = store[ContentOf(e)]
                            /\ \A q \in Seqs : new[TextOf(e, q)] = store[TextOf(e, q)]
    BY <1>4, NamedPlaces, PlaceFacts DEF Docs
  <2> QED
    BY <2>1, HashRule DEF StoreInv
<1>7. RowsOf(d) \cap backfill.locked = {}
  BY <1>1, RowsExist
<1> HIDE DEF v, new
<1>8. created \subseteq created' /\ created' \subseteq Docs /\ d \in created'
  BY <1>1 DEF StoreInv
<1>9. new[NameOf(d)] # NoValue
  BY <1>3, <1>4, <1>5
<1>10. \A p \in Places : new[p] # store[p] =>
           /\ p[1] \in RowsOf(d) /\ p[1] \notin backfill.locked
           /\ Fit(p, new[p])
           /\ new[p].form = "plain" => new[p] = Plain(Code)
  BY <1>3, <1>4, <1>5, <1>7
<1> QED
  BY <1>1, <1>2, <1>4, <1>6, <1>8, <1>9, <1>10, DocumentWrite

LEMMA RegisterStep ==
  ASSUME StoreInv, NEW d \in Webpages, NEW n \in Names, NEW u \in Names, Register(d, n, u)
  PROVE  StoreInv' /\ FrozenKept
<1> DEFINE new == [store EXCEPT ![NameOf(d)]    = Sealed(n, Target(NameOf(d))),
                                ![UrlOf(d)]     = Sealed(u, Target(UrlOf(d))),
                                ![ContentOf(d)] = Sealed(Empty, Target(ContentOf(d)))]
           Q == {NameOf(d), UrlOf(d), ContentOf(d)}
<1>1. /\ d \in Docs \ created /\ created' = created \cup {d}
      /\ n \in Texts /\ u \in Texts /\ Empty \in Texts
  BY DEF Register, Docs, Texts
<1>2. Put(new)
  BY Targets DEF Register
<1>3. \A q \in Q : q \in Places /\ q[1] \in RowsOf(d) /\ ~IsHash(q)
  BY <1>1, NamedPlaces, PlaceFacts, RowOwners, Hashes
<1>4. NameOf(d) # UrlOf(d) /\ NameOf(d) # ContentOf(d) /\ UrlOf(d) # ContentOf(d)
  BY PlaceFacts
<1>5. /\ new = [p \in Places |-> new[p]]
      /\ \A p \in Places \ Q : new[p] = store[p]
      /\ new[NameOf(d)] = Sealed(n, Target(NameOf(d)))
      /\ new[UrlOf(d)] = Sealed(u, Target(UrlOf(d)))
      /\ new[ContentOf(d)] = Sealed(Empty, Target(ContentOf(d)))
  BY <1>3, <1>4 DEF StoreInv, StoreFits
<1> HIDE DEF new
<1>6. \A q \in Q : Fit(q, new[q]) /\ new[q].form # "plain" /\ new[q] # NoValue
  BY <1>1, <1>3, <1>5, WritableForms, ValueFacts
<1>7. RowsOf(d) \cap backfill.locked = {} /\ store[HashOf(d)] = NoValue
  BY <1>1, RowsExist, NamedPlaces, PlaceFacts, RowOwners
<1>8. HashFits(new)
  <2>1. \A e \in Webpages : /\ new[HashOf(e)] = store[HashOf(e)]
                            /\ e # d => new[ContentOf(e)] = store[ContentOf(e)]
                            /\ \A q \in Seqs : new[TextOf(e, q)] = store[TextOf(e, q)]
    <3>1. \A e \in Webpages : /\ HashOf(e) \in Places \ Q
                              /\ e # d => ContentOf(e) \in Places \ Q
                              /\ \A q \in Seqs : TextOf(e, q) \in Places \ Q
      BY NamedPlaces, PlaceFacts, RowFacts DEF Docs
    <3> QED
      BY <1>5, <3>1
  <2> QED
    BY <2>1, <1>7 DEF HashFits, StoreInv
<1>9. created \subseteq created' /\ created' \subseteq Docs /\ d \in created'
  BY <1>1 DEF StoreInv
<1>10. \A p \in Places : new[p] # store[p] =>
           /\ p[1] \in RowsOf(d) /\ p[1] \notin backfill.locked
           /\ Fit(p, new[p])
           /\ new[p].form = "plain" => new[p] = Plain(Code)
  BY <1>3, <1>5, <1>6, <1>7
<1> QED
  BY <1>1, <1>2, <1>5, <1>6, <1>8, <1>9, <1>10, DocumentWrite

LEMMA ChunkWrites ==
  ASSUME NEW d \in Docs, NEW t \in Texts
  PROVE  /\ WithChunks(d, t) = [p \in Places |-> WithChunks(d, t)[p]]
         /\ \A p \in Places : p[1] \notin ChunksOf(d) => WithChunks(d, t)[p] = store[p]
         /\ \A p \in Places : p[1] \in ChunksOf(d) =>
              /\ WithChunks(d, t)[p] = Sealed(t, Target(p))
              /\ ~IsHash(p) /\ p[1] \in RowsOf(d) /\ \E s \in Seqs : p = TextOf(d, s)
         /\ \A s \in Seqs : TextOf(d, s) \in Places /\ TextOf(d, s)[1] \in ChunksOf(d)
<1>1. ASSUME NEW p \in Places, p[1] \in ChunksOf(d)
      PROVE  \E s \in Seqs : p = TextOf(d, s)
  <2>1. PICK s \in Seqs : p[1] = Chunk(d, s)
    BY <1>1 DEF ChunksOf
  <2>2. p \in PlacesOf(Chunk(d, s))
    BY <2>1, RowPlaces
  <2>3. p = TextOf(d, s)
    BY <2>2, RowFacts, ColumnFacts DEF PlacesOf, TextOf
  <2> QED
    BY <2>3
<1>2. ASSUME NEW p \in Places, p[1] \in ChunksOf(d)
      PROVE  WithChunks(d, t)[p] = Sealed(t, Target(p)) /\ ~IsHash(p) /\ p[1] \in RowsOf(d)
  <2>1. PICK s \in Seqs : p = TextOf(d, s)
    BY <1>1, <1>2
  <2>2. WithChunks(d, t)[p] = Sealed(t, Binding(d, <<"chunk", s, "text">>))
    BY <1>2, <2>1, PlaceFacts, RowFacts DEF WithChunks
  <2> QED
    BY <2>1, <2>2, Targets, Hashes, PlaceFacts, RowOwners
<1>3. /\ WithChunks(d, t) = [p \in Places |-> WithChunks(d, t)[p]]
      /\ \A p \in Places : p[1] \notin ChunksOf(d) => WithChunks(d, t)[p] = store[p]
  BY DEF WithChunks
<1>4. \A s \in Seqs : TextOf(d, s) \in Places /\ TextOf(d, s)[1] \in ChunksOf(d)
  BY NamedPlaces, PlaceFacts DEF ChunksOf
<1> QED
  BY <1>1, <1>2, <1>3, <1>4

LEMMA IngestStep ==
  ASSUME StoreInv, NEW d \in Files, NEW t \in Pages, Ingest(d, t)
  PROVE  StoreInv' /\ FrozenKept
<1> DEFINE new == [WithChunks(d, t) EXCEPT ![ErrorOf(d)] = NoValue]
<1>1. /\ d \in Docs /\ d \notin Webpages /\ t \in Texts /\ created' = created
      /\ Exists(Document(d)) /\ Put(new)
      /\ Document(d) \notin backfill.locked
      /\ \A row \in ChunksOf(d) : row \notin backfill.locked
  BY ConstantsAssumption DEF Ingest, Docs, Texts, Free
<1>2. /\ new = [p \in Places |-> new[p]]
      /\ \A p \in Places : p # ErrorOf(d) => new[p] = WithChunks(d, t)[p]
      /\ new[ErrorOf(d)] = NoValue
      /\ ErrorOf(d) \in Places /\ ErrorOf(d)[1] = Document(d)
  BY <1>1, ChunkWrites, NamedPlaces, PlaceFacts
<1> HIDE DEF new
<1>3. NameOf(d) \in Places /\ new[NameOf(d)] = store[NameOf(d)]
  <2>1. NameOf(d) \in Places /\ NameOf(d) # ErrorOf(d) /\ NameOf(d)[1] \notin ChunksOf(d)
    BY <1>1, NamedPlaces, PlaceFacts, RowFacts DEF ChunksOf
  <2> QED
    BY <1>1, <1>2, <2>1, ChunkWrites
<1>4. d \in created /\ new[NameOf(d)] # NoValue
  BY <1>1, <1>3, RowsExist
<1>5. HashFits(new)
  <2>1. ASSUME NEW e \in Webpages, NEW p \in Places, p[1] \in RowsOf(e)
        PROVE  new[p] = store[p]
    <3>1. p[1] \notin RowsOf(d) /\ Document(d) \in RowsOf(d)
      BY <2>1, <1>1, RowOwners
    <3> QED
      BY <3>1, <1>1, <1>2, ChunkWrites DEF RowsOf
  <2>2. \A e \in Webpages : /\ new[HashOf(e)] = store[HashOf(e)]
                            /\ new[ContentOf(e)] = store[ContentOf(e)]
                            /\ \A q \in Seqs : new[TextOf(e, q)] = store[TextOf(e, q)]
    BY <2>1, NamedPlaces, PlaceFacts, RowOwners DEF Docs
  <2> QED
    BY <2>2, HashRule DEF StoreInv
<1>6. \A p \in Places : new[p] # store[p] =>
           /\ p[1] \in RowsOf(d) /\ p[1] \notin backfill.locked
           /\ Fit(p, new[p])
           /\ new[p].form = "plain" => new[p] = Plain(Code)
  BY <1>1, <1>2, ChunkWrites, WritableForms, RowOwners
<1>7. created \subseteq created' /\ created' \subseteq Docs /\ d \in created'
  BY <1>1, <1>4 DEF StoreInv
<1> QED
  BY <1>1, <1>2, <1>4, <1>5, <1>6, <1>7, DocumentWrite

(* A transaction that writes the error of a document or the sync_error of a *)
(* webpage and nothing else *)
ErrorsOnly(d, new, Q) ==
  /\ new = [p \in Places |-> new[p]]
  /\ Q \subseteq Places
  /\ \A p \in Places \ Q : new[p] = store[p]
  /\ \A q \in Q : /\ q[2] \in {"error", "sync_error"} /\ q[1] \in RowsOf(d)
                  /\ q[1] \notin backfill.locked /\ Fit(q, new[q])
                  /\ new[q].form = "plain" => new[q] = Plain(Code)

LEMMA ErrorWrite ==
  ASSUME StoreInv, NEW d \in Docs, NEW new, NEW Q, Put(new), ErrorsOnly(d, new, Q),
         created' = created, d \in created, store[NameOf(d)] # NoValue
  PROVE  StoreInv' /\ FrozenKept
<1> USE DEF ErrorsOnly
<1>1. ASSUME NEW e \in Docs
      PROVE  /\ NameOf(e) \in Places \ Q
             /\ \A q \in Seqs : TextOf(e, q) \in Places \ Q
             /\ e \in Webpages => HashOf(e) \in Places \ Q /\ ContentOf(e) \in Places \ Q
  BY NamedPlaces, PlaceFacts
<1>2. new[NameOf(d)] # NoValue
  BY <1>1
<1>3. HashFits(new)
  <2>1. \A e \in Webpages : /\ new[HashOf(e)] = store[HashOf(e)]
                            /\ new[ContentOf(e)] = store[ContentOf(e)]
                            /\ \A q \in Seqs : new[TextOf(e, q)] = store[TextOf(e, q)]
    BY <1>1 DEF Docs
  <2> QED
    BY <2>1, HashRule DEF StoreInv
<1>4. \A p \in Places : new[p] # store[p] =>
           /\ p[1] \in RowsOf(d) /\ p[1] \notin backfill.locked
           /\ Fit(p, new[p])
           /\ new[p].form = "plain" => new[p] = Plain(Code)
  OBVIOUS
<1>5. created \subseteq created' /\ created' \subseteq Docs /\ d \in created'
  BY DEF StoreInv
<1> QED
  BY <1>2, <1>3, <1>4, <1>5, DocumentWrite

LEMMA MarkStep ==
  ASSUME StoreInv, NEW d \in Files,
         (\E e \in Errors : MarkFailed(d, e)) \/ MarkUnavailable(d) \/ Reindex(d)
  PROVE  StoreInv' /\ FrozenKept
<1>1. PICK v : /\ Put([store EXCEPT ![ErrorOf(d)] = v])
               /\ \/ \E e \in Errors : v = Sealed(e, Target(ErrorOf(d)))
                  \/ v \in {Plain(Code), NoValue}
  BY Targets DEF MarkFailed, MarkUnavailable, Reindex
<1> DEFINE new == [store EXCEPT ![ErrorOf(d)] = v]
           Q == {ErrorOf(d)}
<1>2. /\ d \in Docs /\ Exists(Document(d)) /\ Document(d) \notin backfill.locked /\ created' = created
      /\ Errors \subseteq Texts /\ Code \in Texts
  BY DEF MarkFailed, MarkUnavailable, Reindex, Docs, Texts, Free
<1>3. ErrorOf(d) \in Places /\ ErrorOf(d)[1] = Document(d) /\ ErrorOf(d)[2] = "error" /\ ~IsHash(ErrorOf(d))
  BY <1>2, NamedPlaces, PlaceFacts, Hashes
<1>4. /\ new = [p \in Places |-> new[p]]
      /\ \A p \in Places \ Q : new[p] = store[p]
      /\ new[ErrorOf(d)] = v
  BY <1>3 DEF StoreInv, StoreFits
<1>5. Fit(ErrorOf(d), v) /\ (v.form = "plain" => v = Plain(Code))
  BY <1>1, <1>2, <1>3, WritableForms, ValueFacts
<1>6. Put(new) /\ d \in created /\ store[NameOf(d)] # NoValue /\ Document(d) \in RowsOf(d)
  BY <1>1, <1>2, RowsExist, RowOwners
<1> HIDE DEF new
<1>7. ErrorsOnly(d, new, Q)
  BY <1>2, <1>3, <1>4, <1>5, <1>6 DEF ErrorsOnly
<1> HIDE DEF Q
<1> QED
  BY <1>2, <1>6, <1>7, ErrorWrite

LEMMA EnqueueStep ==
  ASSUME StoreInv, NEW d \in Webpages, Enqueue(d)
  PROVE  StoreInv' /\ FrozenKept
<1> DEFINE v == IF store[HashOf(d)] = NoValue THEN NoValue ELSE store[ErrorOf(d)]
           new == [store EXCEPT ![SyncErrorOf(d)] = NoValue, ![ErrorOf(d)] = v]
           Q == {q \in {SyncErrorOf(d), ErrorOf(d)} : new[q] # store[q]}
<1>1. /\ d \in Docs /\ Exists(Page(d))
      /\ Page(d) \notin backfill.locked /\ Document(d) \notin backfill.locked
      /\ created' = created
  BY DEF Enqueue, Docs, Free
<1>2. /\ SyncErrorOf(d) \in Places /\ SyncErrorOf(d)[1] = Page(d) /\ SyncErrorOf(d)[2] = "sync_error"
      /\ ErrorOf(d) \in Places /\ ErrorOf(d)[1] = Document(d) /\ ErrorOf(d)[2] = "error"
      /\ Page(d) \in RowsOf(d) /\ Document(d) \in RowsOf(d)
      /\ SyncErrorOf(d) # ErrorOf(d)
  BY <1>1, NamedPlaces, PlaceFacts, RowOwners
<1>3. Put(new)
  <2>1. [store EXCEPT
       ![SyncErrorOf(d)] = NoValue,
       ![ErrorOf(d)] = IF store[HashOf(d)] = NoValue THEN NoValue ELSE @] = new
    BY <1>2 DEF StoreInv, StoreFits
  <2> QED
    BY <2>1 DEF Enqueue
<1>4. /\ new = [p \in Places |-> new[p]]
      /\ \A p \in Places : p \notin {SyncErrorOf(d), ErrorOf(d)} => new[p] = store[p]
      /\ new[SyncErrorOf(d)] = NoValue
      /\ new[ErrorOf(d)] \in {NoValue, store[ErrorOf(d)]}
  BY <1>2 DEF StoreInv, StoreFits
<1> HIDE DEF new
<1>5. d \in created /\ store[NameOf(d)] # NoValue
  BY <1>1, RowsExist
<1>6. \A q \in Q : Fit(q, new[q]) /\ new[q].form # "plain"
  BY <1>2, <1>4, ValueFacts DEF Fit
<1>7. ErrorsOnly(d, new, Q)
  BY <1>1, <1>2, <1>4, <1>6 DEF ErrorsOnly
<1> HIDE DEF Q
<1> QED
  BY <1>1, <1>3, <1>5, <1>7, ErrorWrite

LEMMA DeleteStep ==
  ASSUME StoreInv, NEW d \in Docs, Delete(d)
  PROVE  StoreInv' /\ FrozenKept
<1> DEFINE new == [p \in Places |-> IF p[1] \in RowsOf(d) THEN NoValue ELSE store[p]]
<1>1. Put(new) /\ RowsOf(d) \cap backfill.locked = {} /\ created' = created
  BY DEF Delete, RowsOf, Free
<1>2. /\ new = [p \in Places |-> new[p]]
      /\ \A p \in Places : new[p] = IF p[1] \in RowsOf(d) THEN NoValue ELSE store[p]
  OBVIOUS
<1> HIDE DEF new
<1>3. \A p \in Places : new[p] # store[p] =>
           /\ Fit(p, new[p])
           /\ new[p].form = "plain" => new[p] = Plain(Code)
           /\ p[1] \notin backfill.locked
           /\ p[1] \in FrozenRows => store[p] = NoValue
  BY <1>1, <1>2, RowOwners, ValueFacts DEF Fit
<1>4. GoodWrite(new)
  BY <1>2, <1>3, GoodWriteRule DEF StoreInv
<1>5. RowsGoTogether(new, created')
  <2> SUFFICES ASSUME NEW e \in Docs
               PROVE  /\ e \notin created => new[NameOf(e)] = NoValue
                      /\ new[NameOf(e)] = NoValue =>
                           \A p \in Places : p[1] \in RowsOf(e) => new[p] = NoValue
    BY <1>1 DEF RowsGoTogether
  <2>1. NameOf(e) \in Places /\ NameOf(e)[1] \in RowsOf(e)
    BY NamedPlaces, PlaceFacts, RowOwners
  <2>2. CASE e = d
    BY <2>1, <2>2, <1>2
  <2>3. CASE e # d
    BY <2>1, <2>3, <1>2, RowOwners DEF StoreInv, RowsGoTogether
  <2> QED
    BY <2>2, <2>3
<1>6. HashFits(new)
  <2> SUFFICES ASSUME NEW e \in Webpages, new[HashOf(e)] # NoValue
               PROVE  /\ new[HashOf(e)].text = new[ContentOf(e)].text
                      /\ \A q \in Seqs : new[TextOf(e, q)].text = new[ContentOf(e)].text
    BY DEF HashFits
  <2>1. /\ HashOf(e) \in Places /\ ContentOf(e) \in Places /\ \A q \in Seqs : TextOf(e, q) \in Places
        /\ HashOf(e)[1] \in RowsOf(e) /\ ContentOf(e)[1] \in RowsOf(e)
        /\ \A q \in Seqs : TextOf(e, q)[1] \in RowsOf(e)
    BY NamedPlaces, PlaceFacts, RowOwners DEF Docs
  <2>2. e # d
    BY <2>1, <1>2
  <2> QED
    BY <2>1, <2>2, <1>2, RowOwners DEF StoreInv, HashFits
<1> QED
  BY <1>1, <1>4, <1>5, <1>6, ServiceStep DEF StoreInv

LEMMA RevisionStep ==
  ASSUME StoreInv, NEW r \in Revisions, NEW d \in Files, CreateRevision(r, d)
  PROVE  StoreInv' /\ FrozenKept
<1> DEFINE new == WithFrozen(r, d)
<1>1. /\ d \in Docs /\ Put(new) /\ created' = created /\ Ready(d) /\ backfill.table < 3
      /\ \A row \in FrozenOf(r) : ~Exists(row)
  BY DEF CreateRevision, Docs
<1>2. new = [p \in Places |-> new[p]]
  BY DEF WithFrozen
<1>3. \A p \in Places : p[1] \notin {Frozen(r, d, s) : s \in Seqs} => new[p] = store[p]
  BY DEF WithFrozen
<1>4. ASSUME NEW p \in Places, NEW s \in Seqs, p[1] = Frozen(r, d, s)
      PROVE  /\ new[p] = Sealed(new[p].text, Target(p)) /\ new[p].text \in Texts
             /\ ~IsHash(p) /\ store[p] = NoValue /\ p[1] \in FrozenRows /\ p[1] \notin backfill.locked
  <2>1. p \in {FrozenName(r, d, s), FrozenText(r, d, s)}
    BY <1>4, RowPlaces, RowFacts, ColumnFacts DEF PlacesOf, FrozenName, FrozenText
  <2>2. store[TextOf(d, s)].text \in Texts /\ store[NameOf(d)].text \in Texts
    <3>1. TextOf(d, s) \in Places /\ NameOf(d) \in Places /\ TextOf(d, s)[1] \in RowsOf(d)
      BY <1>1, NamedPlaces, PlaceFacts, RowOwners
    <3>2. store[TextOf(d, s)] # NoValue
      BY <1>1 DEF Ready
    <3>3. store[NameOf(d)] # NoValue
      BY <1>1, <3>1, <3>2 DEF StoreInv, RowsGoTogether
    <3> QED
      BY <3>1, <3>2, <3>3, FitForms DEF StoreInv, StoreFits
  <2>3. \/ /\ p[2] = "text"
           /\ new[p] = Sealed(store[TextOf(d, s)].text, Binding(r, <<"document", d, "chunk", s, "text">>))
        \/ /\ p[2] # "text"
           /\ new[p] = Sealed(store[NameOf(d)].text, Binding(r, <<"document", d, "name">>))
    <3>1. p[1][4] = s /\ p[1] \in {Frozen(r, d, q) : q \in Seqs}
      BY <1>4, RowFacts
    <3> QED
      BY <3>1 DEF WithFrozen
  <2>4. new[p] = Sealed(new[p].text, Target(p)) /\ new[p].text \in Texts
    <3>1. CASE p = FrozenText(r, d, s)
      BY <3>1, <2>2, <2>3, Targets, PlaceFacts, ValueFacts
    <3>2. CASE p = FrozenName(r, d, s)
      BY <3>2, <2>2, <2>3, Targets, PlaceFacts, ValueFacts
    <3> QED
      BY <2>1, <3>1, <3>2
  <2>5. p[1] \in FrozenRows /\ p[1] \in FrozenOf(r) /\ p[1] \in Rows
    BY <1>4, RowPlaces DEF FrozenRows, FrozenOf
  <2>6. store[p] = NoValue
    BY <1>1, <2>5, ExistsByPlace
  <2>7. p[1] \notin backfill.locked
    <3>1. TableOf(p[1]) = 3
      BY <2>5, TableFacts
    <3>2. backfill.table \in 0 .. 4
      BY DEF StoreInv, BackfillTyped
    <3> QED
      BY <3>1, <3>2, <1>1 DEF StoreInv, LockedFits
  <2> QED
    BY <2>1, <2>4, <2>5, <2>6, <2>7, Hashes
<1> HIDE DEF new
<1>5. \A p \in Places : new[p] # store[p] =>
           /\ Fit(p, new[p])
           /\ new[p].form = "plain" => new[p] = Plain(Code)
           /\ p[1] \notin backfill.locked
           /\ p[1] \in FrozenRows => store[p] = NoValue
  <2> SUFFICES ASSUME NEW p \in Places, new[p] # store[p]
               PROVE  /\ Fit(p, new[p])
                      /\ new[p].form = "plain" => new[p] = Plain(Code)
                      /\ p[1] \notin backfill.locked
                      /\ p[1] \in FrozenRows => store[p] = NoValue
    OBVIOUS
  <2>1. PICK s \in Seqs : p[1] = Frozen(r, d, s)
    BY <1>3
  <2>2. /\ new[p] = Sealed(new[p].text, Target(p)) /\ new[p].text \in Texts
        /\ ~IsHash(p) /\ store[p] = NoValue /\ p[1] \notin backfill.locked
    BY <2>1, <1>4
  <2> QED
    BY <2>2, WritableForms
<1>6. GoodWrite(new)
  BY <1>2, <1>5, GoodWriteRule DEF StoreInv
<1>7. ASSUME NEW p \in Places, NEW e, p[1] \in RowsOf(e)
      PROVE  new[p] = store[p]
  BY <1>7, <1>3, RowOwners DEF FrozenRows, FrozenOf
<1>8. RowsGoTogether(new, created')
  <2>1. \A e \in Docs : NameOf(e) \in Places /\ NameOf(e)[1] \in RowsOf(e)
    BY NamedPlaces, PlaceFacts, RowOwners
  <2> QED
    BY <1>1, <1>7, <2>1 DEF StoreInv, RowsGoTogether
<1>9. HashFits(new)
  <2>1. \A e \in Webpages : /\ new[HashOf(e)] = store[HashOf(e)]
                            /\ new[ContentOf(e)] = store[ContentOf(e)]
                            /\ \A q \in Seqs : new[TextOf(e, q)] = store[TextOf(e, q)]
    BY <1>7, NamedPlaces, PlaceFacts, RowOwners DEF Docs
  <2> QED
    BY <2>1, HashRule DEF StoreInv
<1> QED
  BY <1>1, <1>6, <1>8, <1>9, ServiceStep DEF StoreInv

(* Rows that do not exist fit everything                                     *)
LEMMA EraseHolds ==
  ASSUME StoreInv, Erase
  PROVE  StoreInv' /\ FrozenKept
<1>1. /\ store' = [p \in Places |-> NoValue] /\ written' = [p \in Places |-> None]
      /\ UNCHANGED <<created, backfill, migrated>> /\ fenced
  BY DEF Erase
<1>2. backfill.locked = {}
  BY DEF Erase, Free, StoreInv, BackfillTyped
<1>3. \A p \in Places : store'[p] = NoValue
  BY <1>1
<1>4. StoreFits(store)' /\ (written = [p \in Places |-> store[p].text])'
  <2>1. NoValue \in Values
    BY DEF Values
  <2> QED
    BY <1>1, <2>1, ValueFacts DEF StoreFits, Fit
<1>5. RowsGoTogether(store, created)'
  BY <1>3, NamedPlaces DEF RowsGoTogether
<1>6. HashFits(store)'
  BY <1>3, NamedPlaces DEF HashFits
<1>7. BackfillTyped' /\ LockedFits' /\ PlainFits'
  BY <1>1, <1>2, <1>3, ValueFacts DEF StoreInv, BackfillTyped, LockedFits, PlainFits
<1>8. FrozenKept
  BY <1>1, <1>2, <1>3 DEF FrozenKept
<1> QED
  BY <1>1, <1>4, <1>5, <1>6, <1>7, <1>8 DEF StoreInv

LEMMA ClaimStep ==
  ASSUME StoreInv, NEW d \in Webpages, Claim(d)
  PROVE  StoreInv' /\ FrozenKept
<1> DEFINE new == [store EXCEPT ![SyncErrorOf(d)] = NoValue]
           Q == {SyncErrorOf(d)}
<1>1. /\ d \in Docs /\ Put(new) /\ Exists(Page(d)) /\ Page(d) \notin backfill.locked
      /\ created' = created
  BY DEF Claim, Docs, Free
<1>2. /\ SyncErrorOf(d) \in Places /\ SyncErrorOf(d)[1] = Page(d) /\ SyncErrorOf(d)[2] = "sync_error"
      /\ Page(d) \in RowsOf(d)
  BY NamedPlaces, PlaceFacts, RowOwners
<1>3. /\ new = [p \in Places |-> new[p]]
      /\ \A p \in Places \ Q : new[p] = store[p]
      /\ new[SyncErrorOf(d)] = NoValue
  BY <1>2 DEF StoreInv, StoreFits
<1> HIDE DEF new
<1>4. d \in created /\ store[NameOf(d)] # NoValue
  BY <1>1, RowsExist
<1>5. NoValue.form # "plain" /\ Fit(SyncErrorOf(d), NoValue)
  BY ValueFacts DEF Fit
<1>6. ErrorsOnly(d, new, Q)
  BY <1>1, <1>2, <1>3, <1>5 DEF ErrorsOnly
<1> HIDE DEF Q
<1> QED
  BY <1>1, <1>4, <1>6, ErrorWrite

LEMMA FailStep ==
  ASSUME StoreInv, NEW d \in Webpages, NEW e \in Errors, Fail(d, e)
  PROVE  StoreInv' /\ FrozenKept
<1> DEFINE v == IF store[HashOf(d)] = NoValue THEN Sealed(e, Target(ErrorOf(d))) ELSE store[ErrorOf(d)]
           new == [store EXCEPT ![SyncErrorOf(d)] = Sealed(e, Target(SyncErrorOf(d))),
                                ![ErrorOf(d)] = v]
           Q == {q \in {SyncErrorOf(d), ErrorOf(d)} : new[q] # store[q]}
<1>1. /\ d \in Docs /\ Exists(Page(d)) /\ e \in Texts
      /\ Page(d) \notin backfill.locked /\ Document(d) \notin backfill.locked
      /\ created' = created
  BY DEF Fail, Docs, Texts, Free
<1>2. /\ SyncErrorOf(d) \in Places /\ SyncErrorOf(d)[1] = Page(d) /\ SyncErrorOf(d)[2] = "sync_error"
      /\ ErrorOf(d) \in Places /\ ErrorOf(d)[1] = Document(d) /\ ErrorOf(d)[2] = "error"
      /\ Page(d) \in RowsOf(d) /\ Document(d) \in RowsOf(d)
      /\ ~IsHash(SyncErrorOf(d)) /\ ~IsHash(ErrorOf(d))
      /\ SyncErrorOf(d) # ErrorOf(d)
  BY <1>1, NamedPlaces, PlaceFacts, RowOwners, Hashes
<1>3. Put(new)
  <2>1. Put([store EXCEPT
       ![SyncErrorOf(d)] = Sealed(e, Target(SyncErrorOf(d))),
       ![ErrorOf(d)] = IF store[HashOf(d)] = NoValue
                       THEN Sealed(e, Target(ErrorOf(d))) ELSE @])
    BY Targets DEF Fail
  <2>2. [store EXCEPT
       ![SyncErrorOf(d)] = Sealed(e, Target(SyncErrorOf(d))),
       ![ErrorOf(d)] = IF store[HashOf(d)] = NoValue
                       THEN Sealed(e, Target(ErrorOf(d))) ELSE @] = new
    BY <1>2 DEF StoreInv, StoreFits
  <2> QED
    BY <2>1, <2>2
<1>4. /\ new = [p \in Places |-> new[p]]
      /\ \A p \in Places : p \notin {SyncErrorOf(d), ErrorOf(d)} => new[p] = store[p]
      /\ new[SyncErrorOf(d)] = Sealed(e, Target(SyncErrorOf(d)))
      /\ new[ErrorOf(d)] \in {Sealed(e, Target(ErrorOf(d))), store[ErrorOf(d)]}
  BY <1>2 DEF StoreInv, StoreFits
<1> HIDE DEF new
<1>5. d \in created /\ store[NameOf(d)] # NoValue
  BY <1>1, RowsExist
<1>6. \A q \in Q : Fit(q, new[q]) /\ new[q].form # "plain"
  BY <1>1, <1>2, <1>4, WritableForms
<1>7. ErrorsOnly(d, new, Q)
  BY <1>1, <1>2, <1>4, <1>6 DEF ErrorsOnly
<1> HIDE DEF Q
<1> QED
  BY <1>1, <1>3, <1>5, <1>7, ErrorWrite

(* What a publication leaves at the places of its document                  *)
LEMMA PublicationWrites ==
  ASSUME StoreInv, NEW d \in Webpages, NEW t \in Pages
  PROVE  LET N == Publication(d, t) IN
         /\ N = [p \in Places |-> N[p]]
         /\ \A p \in Places : p[1] \notin ChunksOf(d) \cup {Page(d)} => N[p] = store[p]
         /\ \A p \in Places : N[p] # store[p] => p[1] \in RowsOf(d) /\ Fit(p, N[p]) /\ N[p].form # "plain"
         /\ HashFits(N)
<1> DEFINE N == Publication(d, t)
<1>0. d \in Docs /\ t \in Texts
  BY DEF Docs, Texts
<1>1. CASE ~Changed(d, t)
  <2>1. N = store
    BY <1>1 DEF Publication
  <2> QED
    BY <2>1 DEF StoreInv, StoreFits
<1>2. CASE Changed(d, t)
  <2> DEFINE W == WithChunks(d, t)
  <2>1. N = [W EXCEPT ![ContentOf(d)] = Sealed(t, Target(ContentOf(d))),
                      ![HashOf(d)]    = Keyed(t, Target(HashOf(d)))]
    BY <1>2, Targets DEF Publication, Fingerprint
  <2>2. /\ ContentOf(d) \in Places /\ ContentOf(d)[1] = Page(d) /\ ~IsHash(ContentOf(d))
        /\ HashOf(d) \in Places /\ HashOf(d)[1] = Page(d) /\ IsHash(HashOf(d))
        /\ Page(d) \in RowsOf(d) /\ Page(d) \notin ChunksOf(d)
    BY NamedPlaces, PlaceFacts, Hashes, RowOwners, RowFacts DEF ChunksOf
  <2>3. /\ N = [p \in Places |-> N[p]]
        /\ \A p \in Places : p \notin {ContentOf(d), HashOf(d)} => N[p] = W[p]
        /\ N[ContentOf(d)] = Sealed(t, Target(ContentOf(d)))
        /\ N[HashOf(d)] = Keyed(t, Target(HashOf(d)))
    <3>1. W = [p \in Places |-> W[p]]
      BY <1>0, ChunkWrites
    <3>2. ContentOf(d) # HashOf(d)
      BY <2>2
    <3> HIDE DEF W, N
    <3> QED
      BY <3>1, <3>2, <2>1, <2>2
  <2> HIDE DEF N
  <2>4. \A p \in Places : p[1] \notin ChunksOf(d) \cup {Page(d)} => N[p] = store[p]
    BY <2>2, <2>3, <1>0, ChunkWrites
  <2>5. ASSUME NEW p \in Places, N[p] # store[p]
        PROVE  p[1] \in RowsOf(d) /\ Fit(p, N[p]) /\ N[p].form # "plain"
    <3>1. CASE p \in {ContentOf(d), HashOf(d)}
      BY <3>1, <2>2, <2>3, <1>0, WritableForms
    <3>2. CASE p \notin {ContentOf(d), HashOf(d)}
      <4>1. N[p] = W[p] /\ p[1] \in ChunksOf(d)
        BY <3>2, <2>3, <2>5, <1>0, ChunkWrites
      <4>2. N[p] = Sealed(t, Target(p)) /\ ~IsHash(p) /\ p[1] \in RowsOf(d)
        BY <4>1, <1>0, ChunkWrites
      <4> QED
        BY <4>2, <1>0, WritableForms
    <3> QED
      BY <3>1, <3>2
  <2>6. HashFits(N)
    <3> SUFFICES ASSUME NEW e \in Webpages, N[HashOf(e)] # NoValue
                 PROVE  /\ N[HashOf(e)].text = N[ContentOf(e)].text
                        /\ \A q \in Seqs : N[TextOf(e, q)].text = N[ContentOf(e)].text
      BY DEF HashFits
    <3>1. CASE e = d
      <4>1. \A q \in Seqs : N[TextOf(d, q)] = Sealed(t, Target(TextOf(d, q)))
        BY <2>2, <2>3, <1>0, ChunkWrites
      <4> QED
        BY <3>1, <4>1, <2>3, ValueFacts
    <3>2. CASE e # d
      <4>1. \A p \in Places : p[1] \in RowsOf(e) => N[p] = store[p]
        BY <3>2, <2>5, RowOwners
      <4>2. /\ N[HashOf(e)] = store[HashOf(e)] /\ N[ContentOf(e)] = store[ContentOf(e)]
            /\ \A q \in Seqs : N[TextOf(e, q)] = store[TextOf(e, q)]
        BY <4>1, NamedPlaces, PlaceFacts, RowOwners DEF Docs
      <4> QED
        BY <4>2 DEF StoreInv, HashFits
    <3> QED
      BY <3>1, <3>2
  <2> QED
    BY <2>3, <2>4, <2>5, <2>6 DEF N
<1> QED
  BY <1>1, <1>2

LEMMA FinishStep ==
  ASSUME PrivateInv, NEW d \in Webpages, Finish(d)
  PROVE  StoreInv' /\ FrozenKept
<1> DEFINE N == Publication(d, worker.got)
           new == [N EXCEPT ![ErrorOf(d)] = NoValue, ![SyncErrorOf(d)] = NoValue]
<1>1. /\ d \in Docs /\ worker.got \in Pages /\ Exists(Page(d)) /\ created' = created
      /\ Put(new) /\ RowsOf(d) \cap backfill.locked = {}
  BY DEF Finish, Docs, Free, RowsOf, PrivateInv, WorkerFits
<1>2. /\ N = [p \in Places |-> N[p]]
      /\ \A p \in Places : p[1] \notin ChunksOf(d) \cup {Page(d)} => N[p] = store[p]
      /\ \A p \in Places : N[p] # store[p] => p[1] \in RowsOf(d) /\ Fit(p, N[p]) /\ N[p].form # "plain"
      /\ HashFits(N)
  BY <1>1, PublicationWrites DEF PrivateInv
<1> HIDE DEF N
<1>3. /\ ErrorOf(d) \in Places /\ ErrorOf(d)[1] = Document(d) /\ ErrorOf(d)[2] = "error"
      /\ SyncErrorOf(d) \in Places /\ SyncErrorOf(d)[1] = Page(d) /\ SyncErrorOf(d)[2] = "sync_error"
      /\ Document(d) \in RowsOf(d) /\ Page(d) \in RowsOf(d)
  BY <1>1, NamedPlaces, PlaceFacts, RowOwners
<1>4. /\ new = [p \in Places |-> new[p]]
      /\ \A p \in Places : new[p] = IF p \in {ErrorOf(d), SyncErrorOf(d)} THEN NoValue ELSE N[p]
  BY <1>2, <1>3
<1> HIDE DEF new
<1>5. d \in created /\ store[NameOf(d)] # NoValue
  BY <1>1, RowsExist DEF PrivateInv
<1>6. new[NameOf(d)] # NoValue
  <2>1. /\ NameOf(d) \in Places /\ NameOf(d) \notin {ErrorOf(d), SyncErrorOf(d)}
        /\ NameOf(d)[1] \notin ChunksOf(d) \cup {Page(d)}
    BY <1>1, NamedPlaces, PlaceFacts, RowFacts DEF ChunksOf
  <2> QED
    BY <2>1, <1>2, <1>4, <1>5
<1>7. HashFits(new)
  <2>1. ASSUME NEW e \in Webpages
        PROVE  /\ new[HashOf(e)] = N[HashOf(e)]
               /\ new[ContentOf(e)] = N[ContentOf(e)]
               /\ \A q \in Seqs : new[TextOf(e, q)] = N[TextOf(e, q)]
    BY <1>4, NamedPlaces, PlaceFacts DEF Docs
  <2> QED
    BY <2>1, <1>2 DEF HashFits
<1>8. \A p \in Places : new[p] # store[p] =>
           /\ p[1] \in RowsOf(d) /\ p[1] \notin backfill.locked
           /\ Fit(p, new[p])
           /\ new[p].form = "plain" => new[p] = Plain(Code)
  BY <1>1, <1>2, <1>3, <1>4, ValueFacts DEF Fit
<1>9. created \subseteq created' /\ created' \subseteq Docs /\ d \in created'
  BY <1>1, <1>5 DEF PrivateInv, StoreInv
<1> QED
  BY <1>1, <1>4, <1>6, <1>7, <1>8, <1>9, DocumentWrite DEF PrivateInv

-----------------------------------------------------------------------------
(* The worker                                                              *)

(* Only a publication changes the hash of a webpage that stays              *)
LEMMA RequestKeepsHash ==
  ASSUME StoreInv, Request, NEW d \in Webpages
  PROVE  store'[HashOf(d)] \in {NoValue, store[HashOf(d)]}
<1>1. HashOf(d) \in Places /\ HashOf(d)[1] = Page(d) /\ HashOf(d)[2] = "content_hash"
  BY NamedPlaces, PlaceFacts
<1>2. store = [p \in Places |-> store[p]]
  BY DEF StoreInv, StoreFits
<1>3. \A e : HashOf(d) \notin {NameOf(e), ErrorOf(e), UrlOf(e), ContentOf(e)}
  BY PlaceFacts
<1>4. ASSUME NEW e \in Files, NEW n \in Names, Upload(e, n)
      PROVE  store'[HashOf(d)] \in {NoValue, store[HashOf(d)]}
  BY <1>1, <1>2, <1>3, <1>4 DEF Upload, Put
<1>5. ASSUME NEW e \in Webpages, NEW n \in Names, NEW u \in Names, Register(e, n, u)
      PROVE  store'[HashOf(d)] \in {NoValue, store[HashOf(d)]}
  BY <1>1, <1>2, <1>3, <1>5 DEF Register, Put
<1>6. ASSUME NEW e \in Files, NEW t \in Pages, Ingest(e, t)
      PROVE  store'[HashOf(d)] \in {NoValue, store[HashOf(d)]}
  <2>1. e \in Docs /\ t \in Texts
    BY DEF Docs, Texts
  <2>2. store' = [WithChunks(e, t) EXCEPT ![ErrorOf(e)] = NoValue]
    BY <1>6 DEF Ingest, Put
  <2>3. HashOf(d)[1] \notin ChunksOf(e)
    BY <1>1, RowFacts DEF ChunksOf
  <2>4. WithChunks(e, t) = [p \in Places |-> WithChunks(e, t)[p]] /\ WithChunks(e, t)[HashOf(d)] = store[HashOf(d)]
    BY <2>1, <2>3, <1>1, ChunkWrites
  <2> QED
    BY <2>2, <2>4, <1>1, <1>3
<1>7. ASSUME NEW e \in Files,
             (\E x \in Errors : MarkFailed(e, x)) \/ MarkUnavailable(e) \/ Reindex(e)
      PROVE  store'[HashOf(d)] \in {NoValue, store[HashOf(d)]}
  BY <1>1, <1>2, <1>3, <1>7 DEF MarkFailed, MarkUnavailable, Reindex, Put
<1>10. ASSUME NEW e \in Webpages, Enqueue(e)
       PROVE  store'[HashOf(d)] \in {NoValue, store[HashOf(d)]}
  <2>1. HashOf(d) \notin {SyncErrorOf(e), ErrorOf(e)}
    BY PlaceFacts
  <2> QED
    BY <2>1, <1>1, <1>2, <1>10 DEF Enqueue, Put
<1>8. ASSUME NEW e \in Docs, Delete(e)
      PROVE  store'[HashOf(d)] \in {NoValue, store[HashOf(d)]}
  BY <1>1, <1>8 DEF Delete, Put
<1>9. ASSUME NEW r \in Revisions, NEW e \in Files, CreateRevision(r, e)
      PROVE  store'[HashOf(d)] \in {NoValue, store[HashOf(d)]}
  <2>1. HashOf(d)[1] \notin {Frozen(r, e, s) : s \in Seqs}
    BY <1>1, RowFacts
  <2>2. store' = WithFrozen(r, e)
    BY <1>9 DEF CreateRevision, Put
  <2> QED
    BY <2>1, <2>2, <1>1 DEF WithFrozen
<1> QED
  BY <1>4, <1>5, <1>6, <1>7, <1>8, <1>9, <1>10 DEF Request

LEMMA IdleFits == IdleWorker.pc = "idle" /\
  IdleWorker \in [pc : {"idle", "fetch", "finish", "failing"}, doc : Webpages \cup {None},
                  known : Values, got : Pages \cup {None}, chunked : BOOLEAN]
BY DEF IdleWorker, Values

LEMMA WorkerKept ==
  ASSUME WorkerFits, UNCHANGED worker,
         \A d \in Webpages : \/ store'[HashOf(d)] = NoValue
                             \/ /\ store'[HashOf(d)].text = store[HashOf(d)].text
                                /\ store[HashOf(d)] # NoValue
  PROVE  WorkerFits'
BY DEF WorkerFits

LEMMA WorkerStepFits ==
  ASSUME PrivateInv, WorkerStep
  PROVE  WorkerFits'
<1> USE DEF PrivateInv
<1>1. ASSUME NEW d \in Webpages, Claim(d)
      PROVE  WorkerFits'
  <2>1. /\ HashOf(d) \in Places /\ HashOf(d) # SyncErrorOf(d)
        /\ store' = [store EXCEPT ![SyncErrorOf(d)] = NoValue]
        /\ store = [p \in Places |-> store[p]] /\ store[HashOf(d)] \in Values
    BY <1>1, NamedPlaces, PlaceFacts DEF Claim, Put, StoreInv, StoreFits
  <2>2. store'[HashOf(d)] = store[HashOf(d)]
    BY <2>1
  <2>3. /\ worker' = [IdleWorker EXCEPT !.pc = "fetch", !.doc = d, !.known = store[HashOf(d)]]
        /\ worker'.pc = "fetch" /\ worker'.doc = d /\ worker'.known = store[HashOf(d)]
    BY <1>1 DEF Claim, IdleWorker
  <2> QED
    BY <2>1, <2>2, <2>3, IdleFits DEF WorkerFits
<1>2. ASSUME NEW t \in Pages, Fetch(t)
      PROVE  WorkerFits'
  <2>1. /\ store' = store /\ worker.pc = "fetch"
        /\ worker' = [worker EXCEPT !.pc = "finish", !.got = t,
                        !.chunked = ~Unchanged(worker.known, worker.doc, t)]
    BY <1>2 DEF Fetch, AllButWorker
  <2>2. /\ worker'.pc = "finish" /\ worker'.got = t /\ worker'.doc = worker.doc
        /\ worker'.known = worker.known
        /\ worker'.chunked = ~Unchanged(worker.known, worker.doc, t)
    BY <2>1 DEF WorkerFits
  <2>3. Unchanged(worker.known, worker.doc, t) => worker.known.text = t
    BY ValueFacts DEF Unchanged, Digest, Fingerprint
  <2>4. Unchanged(worker.known, worker.doc, t) \in BOOLEAN
    BY DEF Unchanged
  <2>5. worker' \in [pc : {"idle", "fetch", "finish", "failing"}, doc : Webpages \cup {None},
                     known : Values, got : Pages \cup {None}, chunked : BOOLEAN]
    BY <2>1, <2>4 DEF WorkerFits
  <2> HIDE DEF Unchanged
  <2> QED
    BY <2>1, <2>2, <2>3, <2>5 DEF WorkerFits
<1>3. ASSUME FetchFails \/ FinishRaises
      PROVE  WorkerFits'
  BY <1>3 DEF FetchFails, FinishRaises, AllButWorker, WorkerFits
<1>4. ASSUME worker' = IdleWorker
      PROVE  WorkerFits'
  BY <1>4, IdleFits DEF WorkerFits
<1> QED
  BY <1>1, <1>2, <1>3, <1>4 DEF WorkerStep, Finish, Fail, GiveUp

-----------------------------------------------------------------------------
(* Every step                                                              *)

LEMMA InitHolds == Init => PrivateInv
<1> SUFFICES ASSUME Init
             PROVE  PrivateInv
  OBVIOUS
<1>1. PICK there \in SUBSET Docs, name \in [Docs -> Names], text \in [Docs -> Pages \cup {None}],
           error \in [Docs -> Errors \cup {None}], last \in [Webpages -> Errors \cup {None}],
           frozen \in [Revisions -> [Files -> Pages \cup {None}]] :
        /\ \A d \in Docs \ there : text[d] = None /\ error[d] = None
        /\ written = LegacyTexts(there, name, text, error, last, frozen)
        /\ created = there \cup {d \in Files : \E r \in Revisions : frozen[r][d] # None}
  BY DEF Init
<1>2. /\ store = [p \in Places |-> IF written[p] = None THEN NoValue ELSE Plain(written[p])]
      /\ worker = IdleWorker /\ backfill = NoBackfill /\ fenced = FALSE /\ migrated = FALSE
  BY DEF Init
<1>3. /\ Names \subseteq Texts /\ Errors \subseteq Texts /\ Pages \subseteq Texts /\ Empty \in Texts
      /\ None \notin Texts /\ None \notin Names
      /\ Files \subseteq Docs /\ Webpages \subseteq Docs
  BY ConstantsAssumption DEF Texts, Docs
<1>4. written = [p \in Places |-> written[p]]
  BY <1>1 DEF LegacyTexts
<1>5. ASSUME NEW d \in Docs, NEW p \in Places, p[1] \in RowsOf(d)
      PROVE  written[p] = IF d \in there THEN LegacyText(p, name, text, error, last) ELSE None
  <2>1. p[1] \notin FrozenRows /\ p[1][2] = d
    BY <1>5, RowOwners
  <2> QED
    BY <1>1, <2>1 DEF LegacyTexts
<1>6. ASSUME NEW d \in Docs, NEW p \in Places, p[1] \in RowsOf(d)
      PROVE  written[p] \in Texts \cup {None}
  <2>1. p[1][2] = d
    BY <1>6, RowFacts DEF RowsOf, ChunksOf
  <2>2. p[2] = "sync_error" => d \in Webpages
    <3>1. p[2] = "sync_error" => \E e \in Webpages : p = SyncErrorOf(e)
      BY PlaceKinds, PlaceFacts
    <3> QED
      BY <2>1, <3>1, PlaceFacts, RowFacts
  <2>3. LegacyText(p, name, text, error, last) \in Texts \cup {None}
    BY <2>1, <2>2, <1>3 DEF LegacyText
  <2> QED
    BY <2>3, <1>5, <1>6
<1>7. ASSUME NEW p \in Places, p[1] \in FrozenRows
      PROVE  written[p] \in Texts \cup {None}
  <2>1. PICK r \in Revisions, d \in Files, s \in Seqs : p[1] = Frozen(r, d, s)
    BY <1>7, FrozenKind DEF IsFrozen
  <2>2. p[1][2] = r /\ p[1][3] = d
    BY <2>1, RowFacts
  <2>3. LegacyFrozen(p, name, frozen) \in Texts \cup {None}
    BY <2>2, <1>3 DEF LegacyFrozen
  <2> QED
    BY <2>3, <1>1, <1>7 DEF LegacyTexts
<1>8. \A p \in Places : p[1] \in FrozenRows \/ \E d \in Docs : p[1] \in RowsOf(d)
  <2>1. \A p \in Places : IsDocument(p[1]) \/ IsChunk(p[1]) \/ IsFrozen(p[1]) \/ IsPage(p[1])
    BY RowPlaces, RowKinds
  <2> QED
    BY <2>1, <1>3, FrozenKind, RowOwners DEF IsDocument, IsChunk, IsPage
<1>9. \A p \in Places : written[p] \in Texts \cup {None}
  BY <1>6, <1>7, <1>8
<1>10. \A p \in Places : /\ Fit(p, store[p]) /\ store[p].text = written[p]
                         /\ store[p] = NoValue <=> written[p] = None
  BY <1>2, <1>9, ValueFacts DEF Fit
<1>11. StoreFits(store)
  BY <1>2, <1>10, FitIsValue DEF StoreFits
<1>12. written = [p \in Places |-> store[p].text]
  BY <1>4, <1>10
<1>13. created \subseteq Docs
  BY <1>1, <1>3
<1>14. RowsGoTogether(store, created)
  <2> SUFFICES ASSUME NEW d \in Docs
               PROVE  /\ d \notin created => store[NameOf(d)] = NoValue
                      /\ store[NameOf(d)] = NoValue =>
                           \A p \in Places : p[1] \in RowsOf(d) => store[p] = NoValue
    BY DEF RowsGoTogether
  <2>1. NameOf(d) \in Places /\ NameOf(d)[1] \in RowsOf(d) /\ NameOf(d)[1][2] = d /\ NameOf(d)[2] = "name"
    BY NamedPlaces, PlaceFacts, RowFacts, RowOwners
  <2>2. CASE d \in there
    <3>1. LegacyText(NameOf(d), name, text, error, last) \in Names
      BY <2>1 DEF LegacyText
    <3>2. store[NameOf(d)] # NoValue /\ d \in created
      BY <2>1, <2>2, <3>1, <1>1, <1>3, <1>5, <1>10
    <3> QED
      BY <3>2
  <2>3. CASE d \notin there
    BY <2>1, <2>3, <1>5, <1>10
  <2> QED
    BY <2>2, <2>3
<1>15. HashFits(store)
  <2> SUFFICES ASSUME NEW d \in Webpages, store[HashOf(d)] # NoValue
               PROVE  /\ store[HashOf(d)].text = store[ContentOf(d)].text
                      /\ \A q \in Seqs : store[TextOf(d, q)].text = store[ContentOf(d)].text
    BY DEF HashFits
  <2>1. /\ HashOf(d) \in Places /\ HashOf(d)[1] \in RowsOf(d) /\ HashOf(d)[1][2] = d
        /\ HashOf(d)[2] = "content_hash"
        /\ ContentOf(d) \in Places /\ ContentOf(d)[1] \in RowsOf(d) /\ ContentOf(d)[1][2] = d
        /\ ContentOf(d)[2] = "content"
        /\ \A q \in Seqs : /\ TextOf(d, q) \in Places /\ TextOf(d, q)[1] \in RowsOf(d)
                           /\ TextOf(d, q)[1][2] = d /\ TextOf(d, q)[2] = "text"
    BY <1>3, NamedPlaces, PlaceFacts, RowFacts, RowOwners
  <2>2. d \in there /\ d \in Docs
    BY <2>1, <1>3, <1>5, <1>10
  <2>3. LegacyText(HashOf(d), name, text, error, last) = text[d]
    BY <2>1 DEF LegacyText
  <2>4. text[d] # None
    BY <2>1, <2>2, <2>3, <1>5, <1>10
  <2>5. /\ LegacyText(ContentOf(d), name, text, error, last) = text[d]
        /\ \A q \in Seqs : LegacyText(TextOf(d, q), name, text, error, last) = text[d]
    BY <2>1, <2>4 DEF LegacyText
  <2> QED
    BY <2>1, <2>2, <2>3, <2>5, <1>5, <1>10
<1>16. backfill.table = 0 /\ backfill.locked = {} /\ BackfillTyped
  <2>1. NoValue \in Values
    BY DEF Values
  <2>2. /\ NoBackfill.table = 0 /\ NoBackfill.locked = {}
        /\ NoBackfill \in [table : 0 .. 4, after : Nat, locked : SUBSET Rows,
                           converted : [Places -> Values]]
    BY <2>1 DEF NoBackfill
  <2>3. backfill = NoBackfill /\ migrated \in BOOLEAN
    BY <1>2
  <2> QED
    BY <2>2, <2>3 DEF BackfillTyped
<1>17. LockedFits /\ PlainFits
  BY <1>2, <1>16 DEF LockedFits, PlainFits
<1>18. WorkerFits
  BY <1>2, IdleFits DEF WorkerFits
<1> QED
  BY <1>2, <1>11, <1>12, <1>13, <1>14, <1>15, <1>16, <1>17, <1>18 DEF PrivateInv, StoreInv

LEMMA FencedTyped ==
  ASSUME PrivateInv, [Next]_vars
  PROVE  fenced' \in BOOLEAN
<1>1. CASE Request
  BY <1>1 DEF PrivateInv, Request, Upload, Register, Ingest, MarkFailed, MarkUnavailable, Reindex,
              Enqueue, Delete, CreateRevision, Put
<1>2. CASE EraseStep
  BY <1>2 DEF PrivateInv, EraseStep, Fence, Erase
<1>3. CASE WorkerStep
  BY <1>3 DEF PrivateInv, WorkerStep, Claim, Fetch, FetchFails, Finish, FinishRaises, Fail, GiveUp,
              Put, AllButWorker
<1>4. CASE BackfillStep
  BY <1>4 DEF PrivateInv, BackfillStep, Begin, Visit, NextTable, Commit, Rollback, OnlyBackfill
<1> QED
  BY <1>1, <1>2, <1>3, <1>4 DEF Next, vars, PrivateInv

LEMMA NextHolds ==
  ASSUME PrivateInv, [Next]_vars
  PROVE  PrivateInv' /\ FrozenKept
<1>6. fenced' \in BOOLEAN
  BY FencedTyped
<1>1. CASE Request
  <2>1. StoreInv' /\ FrozenKept
    BY <1>1, UploadStep, RegisterStep, IngestStep, MarkStep, EnqueueStep, DeleteStep, RevisionStep
    DEF Request, PrivateInv
  <2>2. UNCHANGED worker
    BY <1>1 DEF Request, Upload, Register, Ingest, MarkFailed, MarkUnavailable, Reindex, Enqueue,
                Delete, CreateRevision, OnlyStore
  <2>3. \A d \in Webpages : store'[HashOf(d)] \in {NoValue, store[HashOf(d)]}
    BY <1>1, RequestKeepsHash DEF PrivateInv
  <2>4. WorkerFits'
    BY <2>2, <2>3, WorkerKept DEF PrivateInv
  <2> QED
    BY <2>1, <2>4, <1>6 DEF PrivateInv
<1>5. CASE EraseStep
  <2>1. CASE Fence
    <3>1. UNCHANGED <<store, created, worker, backfill, written, migrated>>
      BY <2>1 DEF Fence
    <3>2. StoreInv' /\ FrozenKept
      BY <3>1, StoreKept DEF PrivateInv
    <3>3. WorkerFits'
      BY <3>1 DEF PrivateInv, WorkerFits
    <3> QED
      BY <3>2, <3>3, <1>6 DEF PrivateInv
  <2>2. CASE Erase
    <3>1. StoreInv' /\ FrozenKept
      BY <2>2, EraseHolds DEF PrivateInv
    <3>2. \A d \in Webpages : store'[HashOf(d)] = NoValue
      BY <2>2, NamedPlaces DEF Erase
    <3>3. UNCHANGED worker
      BY <2>2 DEF Erase
    <3>4. WorkerFits'
      BY <3>2, <3>3, WorkerKept DEF PrivateInv
    <3> QED
      BY <3>1, <3>4, <1>6 DEF PrivateInv
  <2> QED
    BY <1>5, <2>1, <2>2 DEF EraseStep
<1>2. CASE WorkerStep
  <2>1. WorkerFits'
    BY <1>2, WorkerStepFits
  <2>2. StoreInv' /\ FrozenKept
    <3>1. ASSUME NEW d \in Webpages, Claim(d) \/ Finish(d) \/ \E e \in Errors : Fail(d, e)
          PROVE  StoreInv' /\ FrozenKept
      BY <3>1, ClaimStep, FinishStep, FailStep DEF PrivateInv
    <3>2. ASSUME (\E t \in Pages : Fetch(t)) \/ FetchFails \/ FinishRaises \/ GiveUp
          PROVE  StoreInv' /\ FrozenKept
      BY <3>2, StoreKept DEF Fetch, FetchFails, FinishRaises, GiveUp, AllButWorker, PrivateInv
    <3> QED
      BY <1>2, <3>1, <3>2 DEF WorkerStep
  <2> QED
    BY <2>1, <2>2, <1>6 DEF PrivateInv
<1>3. CASE BackfillStep
  <2>1. UNCHANGED worker
    BY <1>3 DEF BackfillStep, Begin, Visit, NextTable, Commit, Rollback, OnlyBackfill
  <2>2. CASE Commit
    <3>1. /\ StoreInv' /\ FrozenKept
          /\ \A p \in Places : /\ store'[p].text = store[p].text
                               /\ store'[p] = NoValue <=> store[p] = NoValue
      BY <2>2, CommitStep DEF PrivateInv
    <3>2. WorkerFits'
      BY <2>1, <3>1, NamedPlaces, WorkerKept DEF PrivateInv
    <3> QED
      BY <3>1, <3>2, <1>6 DEF PrivateInv
  <2>3. CASE ~Commit
    <3>1. StoreInv' /\ FrozenKept
      BY <1>3, <2>3, BeginStep, VisitStep, NextTableStep, RollbackStep DEF BackfillStep, PrivateInv
    <3>2. store' = store
      BY <1>3, <2>3 DEF BackfillStep, Begin, Visit, NextTable, Rollback, OnlyBackfill
    <3>3. WorkerFits'
      BY <2>1, <3>2 DEF PrivateInv, WorkerFits
    <3> QED
      BY <3>1, <3>3, <1>6 DEF PrivateInv
  <2> QED
    BY <2>2, <2>3
<1>4. CASE UNCHANGED vars
  <2>1. StoreInv' /\ FrozenKept
    BY <1>4, StoreKept DEF vars, PrivateInv
  <2>2. WorkerFits'
    BY <1>4 DEF vars, PrivateInv, WorkerFits
  <2> QED
    BY <2>1, <2>2, <1>6 DEF PrivateInv
<1> QED
  BY <1>1, <1>2, <1>3, <1>4, <1>5 DEF Next

THEOREM PrivateInvariant == Spec => []PrivateInv
<1>1. PrivateInv /\ [Next]_vars => PrivateInv'
  BY NextHolds
<1> QED
  BY InitHolds, <1>1, PTL DEF Spec

-----------------------------------------------------------------------------
(* The properties                                                          *)

(* Every variable keeps its type, and only created documents have rows.     *)
THEOREM TypeCorrect == Spec => []TypeOK
<1>1. ASSUME PrivateInv
      PROVE  TypeOK
  <2> USE <1>1 DEF PrivateInv, StoreInv
  <2>1. store \in [Places -> Values] /\ \A p \in Places : store[p].text \in Texts \cup {None}
    BY FitForms, ValueFacts DEF StoreFits
  <2>2. written \in [Places -> Texts \cup {None}]
    BY <2>1
  <2>3. \A d \in Docs : Exists(Document(d)) => d \in created
    BY RowsExist
  <2>4. /\ backfill.table \in 0 .. 4 /\ backfill.after \in Nat
        /\ backfill.locked \subseteq Rows /\ backfill.converted \in [Places -> Values]
        /\ migrated \in BOOLEAN
    BY DEF BackfillTyped
  <2> QED
    BY <2>1, <2>2, <2>3, <2>4 DEF TypeOK, WorkerFits
<1> QED
  BY <1>1, PrivateInvariant, PTL

(* read_text at every reader opens whatever writers and backfill have left  *)
(* there, as the text that was last written, or reads a text in plain.      *)
THEOREM ReadsAsWrittenHolds == Spec => []ReadsAsWritten
<1>1. ASSUME PrivateInv
      PROVE  ReadsAsWritten
  <2> USE <1>1 DEF PrivateInv, StoreInv
  <2>1. \A p \in Places : store[p].text = written[p]
    OBVIOUS
  <2>2. ASSUME NEW e \in Reads, ~Ambiguous(store[e[1]])
        PROVE  Opens(store[e[1]], e[2])
    <3>1. e[1] \in Places /\ ~IsHash(e[1]) /\ e[2] = Target(e[1])
      BY ReadsTarget
    <3> DEFINE p == e[1]
               v == store[p]
    <3>2. Fit(p, v) /\ v.form # "keyed"
      BY <3>1, FitForms DEF StoreFits
    <3>3. CASE v.form = "sealed"
      BY <3>1, <3>2, <3>3, FitForms, ValueFacts DEF Opens
    <3>4. CASE v.form # "sealed"
      <4>1. v.text \notin VaultLike
        <5>1. None \notin VaultLike
          BY ConstantsAssumption DEF Texts
        <5> QED
          BY <5>1, <2>2, <3>2, <3>4, FitForms, ValueFacts DEF Ambiguous
      <4> QED
        BY <4>1, <3>2, <3>4, FitForms DEF Opens, LooksEncrypted
    <3> QED
      BY <3>3, <3>4
  <2> QED
    BY <2>1, <2>2 DEF ReadsAsWritten
<1> QED
  BY <1>1, PrivateInvariant, PTL

(* After a committed backfill only the machine code of an outage is stored  *)
(* in plain.                                                                *)
THEOREM MigratedLeavesNoPlaintextHolds == Spec => []MigratedLeavesNoPlaintext
<1>1. ASSUME PrivateInv
      PROVE  MigratedLeavesNoPlaintext
  BY <1>1 DEF PrivateInv, StoreInv, PlainFits, MigratedLeavesNoPlaintext
<1> QED
  BY <1>1, PrivateInvariant, PTL

(* content_hash is the digest or the fingerprint of the text that content   *)
(* and chunks hold, across publications and the conversion.                 *)
THEOREM HashDescribesTextHolds == Spec => []HashDescribesText
<1>1. ASSUME PrivateInv
      PROVE  HashDescribesText
  <2> USE <1>1 DEF PrivateInv, StoreInv
  <2> SUFFICES ASSUME NEW d \in Webpages, store[HashOf(d)] # NoValue
               PROVE  /\ Unchanged(store[HashOf(d)], d, written[ContentOf(d)])
                      /\ \A s \in Seqs : written[TextOf(d, s)] = written[ContentOf(d)]
    BY DEF HashDescribesText
  <2>1. /\ HashOf(d) \in Places /\ ContentOf(d) \in Places /\ \A s \in Seqs : TextOf(d, s) \in Places
        /\ IsHash(HashOf(d)) /\ Target(HashOf(d)) = Binding(d, <<"webpage:content-fingerprint">>)
    BY NamedPlaces, Hashes, Targets DEF Docs
  <2> DEFINE h == store[HashOf(d)]
  <2>2. h.text = written[ContentOf(d)]
    BY <2>1 DEF HashFits
  <2>3. \A s \in Seqs : written[TextOf(d, s)] = written[ContentOf(d)]
    BY <2>1 DEF HashFits
  <2>4. h \in {Plain(h.text), Keyed(h.text, Target(HashOf(d)))}
    BY <2>1, FitForms DEF StoreFits
  <2> QED
    BY <2>1, <2>2, <2>3, <2>4 DEF Unchanged, Digest, Fingerprint
<1> QED
  BY <1>1, PrivateInvariant, PTL

(* A claim from before the commit of a backfill is published after it.      *)
THEOREM StraddlingSyncIsPublishableHolds == Spec => []StraddlingSyncIsPublishable
<1>1. ASSUME PrivateInv
      PROVE  StraddlingSyncIsPublishable
  <2> USE <1>1 DEF PrivateInv, StoreInv
  <2> SUFFICES ASSUME NEW d \in Webpages, worker.pc = "finish", worker.doc = d,
                      store[HashOf(d)].form = "keyed", ~worker.chunked
               PROVE  ~Changed(d, worker.got)
    BY DEF StraddlingSyncIsPublishable, Publishable
  <2>1. HashOf(d) \in Places /\ Target(HashOf(d)) = Binding(d, <<"webpage:content-fingerprint">>)
    BY NamedPlaces, Targets
  <2>2. store[HashOf(d)].text = worker.got
    BY ValueFacts DEF WorkerFits
  <2>3. store[HashOf(d)] = Keyed(worker.got, Target(HashOf(d)))
    BY <2>1, <2>2, FitForms DEF StoreFits
  <2> QED
    BY <2>1, <2>3 DEF Changed, Fingerprint
<1> QED
  BY <1>1, PrivateInvariant, PTL

(* Only the commit of a backfill changes a frozen place, and never its      *)
(* text, until rag_erase_user_data takes all rows of a fenced owner.        *)
THEOREM FrozenTextIsKeptHolds == Spec => FrozenTextIsKept
<1>1. ASSUME PrivateInv, [Next]_vars
      PROVE  [\A row \in FrozenRows : \A p \in PlacesOf(row) : store'[p] # store[p] /\ store[p] # NoValue =>
                \/ backfill.table = 4 /\ migrated' /\ written'[p] = written[p]
                \/ /\ fenced /\ \A q \in Places : store'[q] = NoValue
                   /\ backfill.locked = {}]_vars
  <2>1. FrozenKept
    BY <1>1, NextHolds
  <2>2. \A row \in FrozenRows : \A p \in PlacesOf(row) : p \in Places /\ p[1] \in FrozenRows
    BY FrozenKind, RowKinds, RowPlaces
  <2> QED
    BY <2>1, <2>2 DEF FrozenKept
<1> QED
  BY <1>1, PrivateInvariant, PTL DEF Spec, FrozenTextIsKept
==============================================================================
