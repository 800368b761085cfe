------------------------- MODULE KnowledgeRevisions -------------------------
(***************************************************************************)
(* Knowledge revisions and the searches that read them.  A revision freezes *)
(* the chunks of the files its creator selected, and remembers which of    *)
(* the selected documents are webpages: those are read as they are now.    *)
(*                                                                         *)
(* A request is a sequence of transactions, each behind the owner's lock,  *)
(* with awaits between them in which documents are published and deleted,  *)
(* other requests use the same revision id, and the owner is erased.       *)
(* Documents change as PublishedDocuments allows, and in no other way.     *)
(* The ranking of the results and top_k are left out.                      *)
(***************************************************************************)
CONSTANTS
  Docs, Owners, OwnerOf, TextsOf, NoText, NotOlder,   \* as in PublishedDocuments
  Webpages,     \* documents with a document_webpages row; the others are files
  Revisions,    \* revision ids; the API chooses them
  NoOwner, NoRevision,
  Callers       \* requests in progress at one time

ASSUME RevisionsAssumption ==
  /\ OwnerOf \in [Docs -> Owners]
  /\ Webpages \subseteq Docs
  /\ NoOwner \notin Owners /\ NoRevision \notin Revisions
  /\ \A d \in Docs : NoText \notin TextsOf[d]

(* A text is not older than itself, nor than what its predecessors were.    *)
ASSUME AgeAssumption ==
  /\ \A d \in Docs : \A t \in TextsOf[d] : <<t, t>> \in NotOlder
  /\ \A d \in Docs : \A r, s, t \in TextsOf[d] :
       <<r, s>> \in NotOlder /\ <<s, t>> \in NotOlder => <<r, t>> \in NotOlder

VARIABLES
  doc,       \* doc, fenced and wiped: as in PublishedDocuments
  fenced,
  wiped,
  revision,  \* [Revisions -> RevisionState]
  call       \* [Callers -> CallState]

vars == <<doc, fenced, wiped, revision, call>>

Documents == INSTANCE PublishedDocuments

Ready(d)  == doc[d].row = "ready"
Active(o) == o \notin fenced

Texts == UNION {TextsOf[d] : d \in Docs}
Hits  == Docs \X Texts

-----------------------------------------------------------------------------
RevisionState == [
  owner  : Owners \cup {NoOwner},   \* knowledge_revisions.user_id
  frozen : SUBSET Hits,             \* knowledge_revision_chunks
  live   : SUBSET Docs]             \* knowledge_revision_webpages

NoRow == [owner |-> NoOwner, frozen |-> {}, live |-> {}]

Exists(r) == revision[r].owner # NoOwner

CallState == [
  pc    : {"idle", "unknown", "embedding", "replying", "results"},
  user  : Owners \cup {NoOwner},
  rev   : Revisions \cup {NoRevision},   \* NoRevision: the owner's documents
  pick  : SUBSET Docs,                   \* documentIds
  live  : SUBSET Docs,                   \* liveWebpageIds of the reply
  hits  : SUBSET Hits,                   \* rows of a search
  since : SUBSET (Docs \X (Texts \cup {NoText}))]   \* history: readable when asked

NoCall == [
  pc |-> "idle", user |-> NoOwner, rev |-> NoRevision, pick |-> {},
  live |-> {}, hits |-> {}, since |-> {}]

Init ==
  /\ Documents!Init
  /\ revision = [r \in Revisions |-> NoRow]
  /\ call = [c \in Callers |-> NoCall]

Sets(c, state) == call' = [call EXCEPT ![c] = state]
OnlyCalls == UNCHANGED <<doc, fenced, wiped, revision>>

At(c, pc) == call[c].pc = pc
User(c)   == call[c].user

(* What could be read when the request came in, or is not there yet         *)
Readable == {<<d, doc[d].text>> : d \in {x \in Docs : doc[x].row # "gone"}}

-----------------------------------------------------------------------------
(* POST /knowledge-revisions.  The capability names the user and the        *)
(* revision; documentIds may name anything.  No documentIds: all that are   *)
(* ready when the revision is created, which is one of the choices.         *)

(* repository.get finds the user's revision of that id *)
Replay(c, o, r) ==
  /\ At(c, "idle") /\ Active(o) /\ revision[r].owner = o
  /\ Sets(c, [NoCall EXCEPT
       !.pc = "replying", !.user = o, !.rev = r, !.live = revision[r].live])
  /\ OnlyCalls

(* It finds none; another request may create it before this one does        *)
NotKnown(c, o, r, pick) ==
  /\ At(c, "idle") /\ Active(o) /\ revision[r].owner # o
  /\ Sets(c, [NoCall EXCEPT !.pc = "unknown", !.user = o, !.rev = r, !.pick = pick])
  /\ OnlyCalls

Selected(c) == {d \in call[c].pick : Ready(d) /\ OwnerOf[d] = User(c)}

(* Faulty: every selected document is frozen *)
Pages_None(docs) == {}

Pages(docs) == docs \cap Webpages

Snapshot(o, docs) == [
  owner  |-> o,
  frozen |-> {<<d, doc[d].text>> : d \in docs \ Pages(docs)},
  live   |-> Pages(docs)]

(* Faulty: a row of that id is replaced *)
Create_Replaces(c) ==
  /\ At(c, "unknown") /\ Active(User(c)) /\ Selected(c) = call[c].pick
  /\ revision' = [revision EXCEPT ![call[c].rev] = Snapshot(User(c), Selected(c))]
  /\ Sets(c, [call[c] EXCEPT !.pc = "replying", !.live = Pages(Selected(c))])
  /\ UNCHANGED <<doc, fenced, wiped>>

(* Faulty: the owner is not asserted active *)
Create_NoFence(c) ==
  /\ At(c, "unknown") /\ Selected(c) = call[c].pick
  /\ ~Exists(call[c].rev)
  /\ revision' = [revision EXCEPT ![call[c].rev] = Snapshot(User(c), Selected(c))]
  /\ Sets(c, [call[c] EXCEPT !.pc = "replying", !.live = Pages(Selected(c))])
  /\ UNCHANGED <<doc, fenced, wiped>>

(* Faulty: a document that is not ready is taken along *)
Create_Unready(c) ==
  /\ At(c, "unknown") /\ Active(User(c))
  /\ ~Exists(call[c].rev)
  /\ revision' = [revision EXCEPT ![call[c].rev] = Snapshot(User(c), call[c].pick)]
  /\ Sets(c, [call[c] EXCEPT !.pc = "replying", !.live = Pages(call[c].pick)])
  /\ UNCHANGED <<doc, fenced, wiped>>

(* One transaction reads the documents and inserts the revision *)
Create(c) ==
  /\ At(c, "unknown") /\ Active(User(c)) /\ Selected(c) = call[c].pick
  /\ ~Exists(call[c].rev)
  /\ revision' = [revision EXCEPT ![call[c].rev] = Snapshot(User(c), Selected(c))]
  /\ Sets(c, [call[c] EXCEPT !.pc = "replying", !.live = Pages(Selected(c))])
  /\ UNCHANGED <<doc, fenced, wiped>>

(* A selected document is missing, another user's or not ready (409), the   *)
(* id is taken meanwhile (the insert fails), or the database or the cipher  *)
(* fails: rolled back                                                       *)
CreateRefused(c) == At(c, "unknown") /\ Sets(c, NoCall) /\ OnlyCalls

-----------------------------------------------------------------------------
(* POST /search and POST /knowledge-revisions/{id}/search                   *)

AskSearch(c, o, r) ==
  /\ At(c, "idle") /\ Active(o)
  /\ Sets(c, [NoCall EXCEPT
       !.pc = "embedding", !.user = o, !.rev = r, !.since = Readable])
  /\ OnlyCalls

OwnHits(o) == {<<d, doc[d].text>> : d \in {x \in Docs : Ready(x) /\ OwnerOf[x] = o}}

FrozenHits(o, r) == {h \in revision[r].frozen :
  revision[r].owner = o /\ h[1] \notin revision[r].live}

LiveHits(o, r) == {<<d, doc[d].text>> : d \in
  {x \in revision[r].live : revision[r].owner = o /\ OwnerOf[x] = o /\ Ready(x)}}

(* The query is embedded first; then one statement reads everything *)
Search(c) ==
  LET o == User(c)  r == call[c].rev IN
  /\ At(c, "embedding") /\ Active(o)
  /\ Sets(c, [call[c] EXCEPT !.pc = "results",
       !.hits = IF r = NoRevision THEN OwnHits(o) ELSE FrozenHits(o, r) \cup LiveHits(o, r)])
  /\ OnlyCalls

-----------------------------------------------------------------------------
(* The last admission check, then the answer *)
Answer(c) ==
  /\ call[c].pc \in {"replying", "results"} /\ Active(User(c))
  /\ Sets(c, NoCall) /\ OnlyCalls

(* Erased meanwhile (410), or the embedder, the cipher or the database fails *)
GiveUp(c) ==
  /\ call[c].pc \in {"embedding", "replying", "results"}
  /\ Sets(c, NoCall) /\ OnlyCalls

-----------------------------------------------------------------------------
(* Documents change, and owners are fenced, behind the requests' back       *)
DocumentsChange ==
  /\ \E d \in Docs : Documents!Change(d)
  /\ UNCHANGED <<revision, call>>

Fence(o) == Documents!Fence(o) /\ UNCHANGED <<revision, call>>

Erased(o) == [r \in Revisions |-> IF revision[r].owner = o THEN NoRow ELSE revision[r]]

(* rag_erase_user_data: documents and revisions, in one transaction *)
Erase(o) == Documents!Erase(o) /\ revision' = Erased(o) /\ UNCHANGED call

-----------------------------------------------------------------------------
RevisionStep(c) ==
  \/ \E o \in Owners, r \in Revisions :
       Replay(c, o, r) \/ \E pick \in SUBSET Docs : NotKnown(c, o, r, pick)
  \/ Create(c) \/ CreateRefused(c)

SearchStep(c) ==
  (\E o \in Owners, r \in Revisions \cup {NoRevision} : AskSearch(c, o, r)) \/ Search(c)

CallStep(c) == RevisionStep(c) \/ SearchStep(c) \/ Answer(c) \/ GiveUp(c)

Next ==
  \/ \E c \in Callers : CallStep(c)
  \/ DocumentsChange
  \/ \E o \in Owners : Fence(o) \/ Erase(o)

Spec == Init /\ [][Next]_vars

-----------------------------------------------------------------------------
(* Properties                                                              *)

(* Every variable keeps its type.                                           *)
TypeOK ==
  /\ \A d \in Docs : doc[d] \in Documents!DocStates(d)
  /\ doc = [d \in Docs |-> doc[d]]
  /\ fenced \subseteq Owners /\ wiped \subseteq Owners
  /\ revision \in [Revisions -> RevisionState]
  /\ call \in [Callers -> CallState]

(* A search never answers with text that was already deleted or replaced    *)
(* when the request came in, and never with two texts of one document: a    *)
(* webpage of the revision is read as it is now, not as it was selected,    *)
(* and "deleting a source yields no stale snapshot fallback".               *)
SearchIsCurrent ==
  \A c \in Callers : At(c, "results") => \A h \in call[c].hits :
    /\ OwnerOf[h[1]] = User(c)
    /\ \A g \in call[c].hits : g[1] = h[1] => g = h
    /\ call[c].rev = NoRevision \/ h[1] \in Webpages =>
         \E s \in call[c].since :
           s[1] = h[1] /\ (s[2] = NoText \/ <<s[2], h[2]>> \in NotOlder)

(* What a request is about to be told about its revision is what is stored, *)
(* whichever of several requests with the same id created it, and for whom, *)
(* unless the owner was erased meanwhile.                                   *)
RepliesAgree ==
  \A c \in Callers : At(c, "replying") /\ User(c) \notin wiped =>
    /\ revision[call[c].rev].owner = User(c)
    /\ revision[call[c].rev].live = call[c].live

(* A revision, once created, is never rewritten: neither by a synchronized, *)
(* reindexed or deleted document nor by another request with the same id.   *)
(* Only the erasure of its own owner removes it.                            *)
RevisionIsImmutable ==
  [][\A r \in Revisions : Exists(r) /\ revision'[r] # revision[r] =>
       revision'[r] = NoRow /\ revision[r].owner \in wiped']_vars

Items == Docs \cup Revisions

Erasure == INSTANCE OwnerErasure WITH
  Items <- Items \X Owners, OwnerOf <- [i \in Items \X Owners |-> i[2]],
  held <- {<<d, OwnerOf[d]>> : d \in {x \in Docs : Documents!Live(x)}} \cup
          {<<r, revision[r].owner>> : r \in {x \in Revisions : Exists(x)}},
  closed <- fenced, erased <- wiped

(* Documents and revisions together implement OwnerErasure: a request that  *)
(* was admitted before the fence creates no revision after it, and one      *)
(* transaction removes every document and revision of the owner, no others. *)
ErasureImplemented == Erasure!Spec
============================================================================
