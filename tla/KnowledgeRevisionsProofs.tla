---------------------- MODULE KnowledgeRevisionsProofs ----------------------
(***************************************************************************)
(* Revisions and searches, proved for any documents, owners, revision ids  *)
(* and any number of requests in progress.  The invariant has one part per *)
(* variable; a search in progress is tied to the documents by SinceOK:     *)
(* whatever is not deleted was readable when the request came in, and has  *)
(* not become older since.                                                 *)
(***************************************************************************)
EXTENDS KnowledgeRevisions, TLAPS

DocOK ==
  /\ doc = [d \in Docs |-> doc[d]]
  /\ \A d \in Docs :
       /\ doc[d] \in Documents!DocStates(d)
       /\ doc[d].row = "ready" => doc[d].text # NoText

FencesOK == fenced \subseteq Owners /\ wiped \subseteq fenced

RevisionOK(v) ==
  /\ v \in RevisionState
  /\ v.live \subseteq Webpages
  /\ \A h \in v.frozen : h[1] \notin Webpages /\ OwnerOf[h[1]] = v.owner
  /\ \A g, h \in v.frozen : g[1] = h[1] => g = h

RevisionsOK ==
  /\ revision = [r \in Revisions |-> revision[r]]
  /\ \A r \in Revisions : RevisionOK(revision[r])

CallsOK ==
  /\ call \in [Callers -> CallState]
  /\ \A c \in Callers :
       /\ ~At(c, "idle") => User(c) \in Owners
       /\ call[c].pc \in {"unknown", "replying"} => call[c].rev \in Revisions

(* s was readable of document d when a search was asked, and is not newer  *)
(* than the text t                                                         *)
Earlier(s, d, t) ==
  /\ s[1] = d /\ s[2] \in TextsOf[d] \cup {NoText}
  /\ s[2] = NoText \/ (t # NoText /\ <<s[2], t>> \in NotOlder)

SinceOK ==
  \A c \in Callers : At(c, "embedding") => \A d \in Docs :
    doc[d].row # "gone" => \E s \in call[c].since : Earlier(s, d, doc[d].text)

RevisionsInv ==
  /\ DocOK /\ FencesOK /\ RevisionsOK /\ CallsOK /\ SinceOK
  /\ SearchIsCurrent /\ RepliesAgree

-----------------------------------------------------------------------------
(* Documents                                                               *)

LEMMA BecomesDoc ==
  ASSUME DocOK, NEW x \in Docs, NEW s, Documents!Becomes(x, s),
         s \in Documents!DocStates(x), s.row = "ready" => s.text # NoText
  PROVE  DocOK' /\ \A d \in Docs : doc'[d] = IF d = x THEN s ELSE doc[d]
  BY DEF DocOK, Documents!Becomes, Documents!DocStates

(* A change keeps the documents well formed, and a document that is not     *)
(* gone had no newer text before it                                         *)
LEMMA ChangeDoc ==
  ASSUME DocOK, NEW x \in Docs, Documents!Change(x)
  PROVE  /\ DocOK'
         /\ \A d \in Docs : doc'[d].row # "gone" =>
              /\ doc[d].row # "gone"
              /\ \/ doc'[d].text = doc[d].text
                 \/ /\ doc'[d].text \in TextsOf[d]
                    /\ doc[d].text # NoText => <<doc[d].text, doc'[d].text>> \in NotOlder
  <1> USE RevisionsAssumption
  <1> DEFINE R(d) == doc'[d].row # "gone" =>
              /\ doc[d].row # "gone"
              /\ \/ doc'[d].text = doc[d].text
                 \/ /\ doc'[d].text \in TextsOf[d]
                    /\ doc[d].text # NoText => <<doc[d].text, doc'[d].text>> \in NotOlder
  <1>0. doc[x] \in Documents!DocStates(x)
    BY DEF DocOK
  <1>1. CASE Documents!Register(x)
    <2>1. [doc[x] EXCEPT !.row = "processing"] \in Documents!DocStates(x)
      BY <1>0 DEF Documents!DocStates, Documents!LiveStates
    <2>2. QED
      BY <1>0, <1>1, <2>1, BecomesDoc DEF Documents!Register, Documents!DocStates
  <1>2. CASE Documents!Withdraw(x)
    <2>1. [doc[x] EXCEPT !.row = "failed"] \in Documents!DocStates(x)
      BY <1>0 DEF Documents!DocStates, Documents!LiveStates
    <2>2. QED
      BY <1>0, <1>2, <2>1, BecomesDoc
         DEF Documents!Withdraw, Documents!DocStates, Documents!Live, Documents!LiveStates
  <1>3. CASE Documents!Restart(x)
    <2>1. [doc[x] EXCEPT !.row = "processing"] \in Documents!DocStates(x)
      BY <1>0 DEF Documents!DocStates, Documents!LiveStates
    <2>2. QED
      BY <1>0, <1>3, <2>1, BecomesDoc DEF Documents!Restart, Documents!DocStates
  <1>4. CASE Documents!Remove(x)
    <2>1. Documents!Gone \in Documents!DocStates(x) /\ Documents!Gone.row = "gone"
      BY DEF Documents!DocStates, Documents!Gone
    <2>2. QED
      BY <1>0, <1>4, <2>1, BecomesDoc DEF Documents!Remove
  <1>5. ASSUME NEW t \in TextsOf[x], Documents!Publish(x, t)
        PROVE  DocOK' /\ \A d \in Docs : R(d)
    <2> DEFINE s == [row |-> "ready", text |-> t]
    <2>1. s \in Documents!DocStates(x) /\ s.text # NoText /\ s.text = t
      BY DEF Documents!DocStates, Documents!LiveStates
    <2>2. DocOK' /\ \A d \in Docs : doc'[d] = IF d = x THEN s ELSE doc[d]
      BY <1>5, <2>1, BecomesDoc DEF Documents!Publish
    <2>3. doc[x].row # "gone"
      BY <1>5 DEF Documents!Publish, Documents!Live, Documents!LiveStates
    <2>4. QED
      BY <1>5, <2>1, <2>2, <2>3 DEF Documents!Publish
  <1>6. QED
    BY <1>1, <1>2, <1>3, <1>4, <1>5 DEF Documents!Change

LEMMA EraseDoc ==
  ASSUME DocOK, NEW o \in Owners, Documents!Erase(o)
  PROVE  DocOK' /\ \A d \in Docs : doc'[d].row # "gone" => doc'[d] = doc[d]
  <1>1. Documents!Gone.row = "gone" /\ \A d \in Docs : Documents!Gone \in Documents!DocStates(d)
    BY DEF Documents!DocStates, Documents!Gone
  <1>2. \A d \in Docs : doc'[d] \in {doc[d], Documents!Gone}
    BY DEF Documents!Erase
  <1>3. doc' = [d \in Docs |-> doc'[d]]
    BY DEF Documents!Erase
  <1>4. QED
    BY <1>1, <1>2, <1>3 DEF DocOK
-----------------------------------------------------------------------------
(* Revisions                                                               *)

LEMMA SnapshotOK ==
  ASSUME DocOK, NEW o \in Owners, NEW docs \in SUBSET Docs,
         \A d \in docs : Ready(d) /\ OwnerOf[d] = o
  PROVE  RevisionOK(Snapshot(o, docs))
  <1> DEFINE v == Snapshot(o, docs)
  <1>1. \A d \in docs : <<d, doc[d].text>> \in Hits
    BY DEF DocOK, Documents!DocStates, Ready, Hits, Texts
  <1>2. v.owner = o /\ v.live = Pages(docs) /\ v.live \subseteq Webpages /\ v.live \subseteq Docs
    BY DEF Snapshot, Pages
  <1>3. \A h \in v.frozen : \E d \in docs \ Pages(docs) : h = <<d, doc[d].text>>
    BY DEF Snapshot
  <1>4. v \in RevisionState
    <2>1. v.frozen \subseteq Hits
      BY <1>1, <1>3
    <2>2. v = [owner |-> v.owner, frozen |-> v.frozen, live |-> v.live]
      BY DEF Snapshot
    <2>3. QED
      BY <1>2, <2>1, <2>2 DEF RevisionState
  <1>5. \A h \in v.frozen : h[1] \notin Webpages /\ OwnerOf[h[1]] = v.owner
    BY <1>2, <1>3 DEF Pages
  <1>6. \A g, h \in v.frozen : g[1] = h[1] => g = h
    BY <1>3
  <1>7. QED
    BY <1>2, <1>4, <1>5, <1>6 DEF RevisionOK

LEMMA NoRowOK == RevisionOK(NoRow)
  BY DEF RevisionOK, NoRow, RevisionState

(* What a request can do to the revisions: at most fill the vacant row it  *)
(* asked for                                                               *)
LEMMA CreateKeeps ==
  ASSUME RevisionsInv, NEW c \in Callers, Create(c)
  PROVE  /\ RevisionsOK'
         /\ \A r \in Revisions : Exists(r) => revision'[r] = revision[r]
         /\ revision'[call[c].rev].owner = User(c)
         /\ revision'[call[c].rev].live = Pages(Selected(c))
  <1>1. call[c].rev \in Revisions /\ User(c) \in Owners
    BY DEF RevisionsInv, CallsOK, Create, At
  <1>2. Selected(c) \in SUBSET Docs /\ \A d \in Selected(c) : Ready(d) /\ OwnerOf[d] = User(c)
    BY DEF RevisionsInv, CallsOK, CallState, Selected
  <1>3. RevisionOK(Snapshot(User(c), Selected(c)))
    BY <1>1, <1>2, SnapshotOK DEF RevisionsInv
  <1>4. \A r \in Revisions : revision'[r] =
          IF r = call[c].rev THEN Snapshot(User(c), Selected(c)) ELSE revision[r]
    BY DEF RevisionsInv, RevisionsOK, Create
  <1>5. revision' = [r \in Revisions |-> revision'[r]]
    BY DEF RevisionsInv, RevisionsOK, Create
  <1>6. RevisionsOK'
    BY <1>3, <1>4, <1>5 DEF RevisionsInv, RevisionsOK
  <1>7. QED
    BY <1>1, <1>4, <1>6 DEF Create, Snapshot

LEMMA EraseKeeps ==
  ASSUME RevisionsOK, NEW o \in Owners, Erase(o)
  PROVE  /\ RevisionsOK'
         /\ \A r \in Revisions : revision'[r] =
              IF revision[r].owner = o THEN NoRow ELSE revision[r]
  BY NoRowOK DEF RevisionsOK, Erase, Erased

-----------------------------------------------------------------------------
(* Searches                                                                *)

(* What was readable before a change of the document still was readable     *)
(* before, and is not newer than what the change leaves                     *)
LEMMA LaterEarlier ==
  ASSUME NEW d \in Docs, NEW s, NEW t, NEW u, Earlier(s, d, t),
         u = t \/ (u \in TextsOf[d] /\ (t # NoText => <<t, u>> \in NotOlder)),
         t \in TextsOf[d] \cup {NoText}
  PROVE  Earlier(s, d, u)
  BY RevisionsAssumption, AgeAssumption DEF Earlier

(* What one search reads                                                   *)
LEMMA SearchReads ==
  ASSUME RevisionsInv, NEW c \in Callers, Search(c)
  PROVE  /\ call'[c].hits \subseteq Hits
         /\ \A h \in call'[c].hits : OwnerOf[h[1]] = User(c)
         /\ \A g, h \in call'[c].hits : g[1] = h[1] => g = h
         /\ \A h \in call'[c].hits : call[c].rev = NoRevision \/ h[1] \in Webpages =>
              \E s \in call[c].since :
                s[1] = h[1] /\ (s[2] = NoText \/ <<s[2], h[2]>> \in NotOlder)
  <1> DEFINE o == User(c)
             r == call[c].rev
             now(h) == h[1] \in Docs /\ Ready(h[1]) /\ h = <<h[1], doc[h[1]].text>>
                       /\ OwnerOf[h[1]] = o
             H == call'[c].hits
  <1>1. H = IF r = NoRevision THEN OwnHits(o) ELSE FrozenHits(o, r) \cup LiveHits(o, r)
    BY DEF RevisionsInv, CallsOK, CallState, Search, Sets
  <1>2. r \in Revisions \cup {NoRevision} /\ At(c, "embedding")
    BY DEF RevisionsInv, CallsOK, CallState, Search
  <1>3. \A h : now(h) =>
          /\ h \in Hits
          /\ \E s \in call[c].since :
               s[1] = h[1] /\ (s[2] = NoText \/ <<s[2], h[2]>> \in NotOlder)
    <2> SUFFICES ASSUME NEW h, now(h)
                 PROVE  /\ h \in Hits
                        /\ \E s \in call[c].since :
                             s[1] = h[1] /\ (s[2] = NoText \/ <<s[2], h[2]>> \in NotOlder)
      OBVIOUS
    <2>1. doc[h[1]].text \in TextsOf[h[1]] /\ doc[h[1]].row # "gone" /\ h[2] = doc[h[1]].text
      BY DEF RevisionsInv, DocOK, Documents!DocStates, Ready
    <2>2. h \in Hits
      BY <2>1 DEF Hits, Texts
    <2>3. PICK s \in call[c].since : Earlier(s, h[1], doc[h[1]].text)
      BY <1>2, <2>1 DEF RevisionsInv, SinceOK
    <2>4. QED
      BY <2>1, <2>2, <2>3 DEF Earlier
  <1>4. CASE r = NoRevision
    <2>1. \A h \in H : now(h)
      BY <1>1, <1>4 DEF OwnHits
    <2>2. QED
      BY <1>3, <2>1
  <1>5. CASE r \in Revisions
    <2> DEFINE v == revision[r]
    <2>1. RevisionOK(v) /\ r # NoRevision
      BY <1>5, RevisionsAssumption DEF RevisionsInv, RevisionsOK
    <2>2. \A h \in H : (h \in v.frozen /\ v.owner = o) \/ (now(h) /\ h[1] \in Webpages)
      BY <1>1, <2>1 DEF FrozenHits, LiveHits, RevisionOK, RevisionState
    <2>3. H \subseteq Hits
      BY <1>3, <2>1, <2>2 DEF RevisionOK, RevisionState
    <2>4. \A h \in H : OwnerOf[h[1]] = o
      BY <2>1, <2>2 DEF RevisionOK
    <2>5. \A g, h \in H : g[1] = h[1] => g = h
      BY <2>1, <2>2 DEF RevisionOK
    <2>6. \A h \in H : h[1] \in Webpages => now(h)
      BY <2>1, <2>2 DEF RevisionOK
    <2>7. QED
      BY <1>3, <2>1, <2>3, <2>4, <2>5, <2>6
  <1>6. QED
    BY <1>2, <1>4, <1>5
-----------------------------------------------------------------------------
(* Requests                                                                *)

(* The parts of the invariant that are about one request                    *)
CallOK(c) ==
  /\ call[c] \in CallState
  /\ ~At(c, "idle") => User(c) \in Owners
  /\ call[c].pc \in {"unknown", "replying"} => call[c].rev \in Revisions
  /\ At(c, "embedding") => \A d \in Docs :
       doc[d].row # "gone" => \E s \in call[c].since : Earlier(s, d, doc[d].text)
  /\ At(c, "results") => \A h \in call[c].hits :
       /\ OwnerOf[h[1]] = User(c)
       /\ \A g \in call[c].hits : g[1] = h[1] => g = h
       /\ call[c].rev = NoRevision \/ h[1] \in Webpages =>
            \E s \in call[c].since :
              s[1] = h[1] /\ (s[2] = NoText \/ <<s[2], h[2]>> \in NotOlder)
  /\ At(c, "replying") /\ User(c) \notin wiped =>
       /\ revision[call[c].rev].owner = User(c)
       /\ revision[call[c].rev].live = call[c].live

StoreOK == DocOK /\ FencesOK /\ RevisionsOK

LEMMA EachCall ==
  RevisionsInv <=>
    StoreOK /\ call = [c \in Callers |-> call[c]] /\ \A c \in Callers : CallOK(c)
  BY DEF RevisionsInv, StoreOK, CallsOK, SinceOK, SearchIsCurrent, RepliesAgree, CallOK

(* A step of something else leaves a request as good as it was              *)
LEMMA OtherCall ==
  ASSUME RevisionsInv, NEW c \in Callers, call'[c] = call[c],
         \A d \in Docs : doc'[d].row # "gone" =>
           /\ doc[d].row # "gone"
           /\ \/ doc'[d].text = doc[d].text
              \/ /\ doc'[d].text \in TextsOf[d]
                 /\ doc[d].text # NoText => <<doc[d].text, doc'[d].text>> \in NotOlder,
         wiped \subseteq wiped',
         \A r \in Revisions :
           revision'[r] = revision[r] \/ ~Exists(r) \/ revision[r].owner \in wiped'
  PROVE  CallOK(c)'
  <1>1. CallOK(c)
    BY EachCall
  <1>2. ASSUME At(c, "embedding"), NEW d \in Docs, doc'[d].row # "gone"
        PROVE  \E s \in call[c].since : Earlier(s, d, doc'[d].text)
    <2>1. doc[d].text \in TextsOf[d] \cup {NoText}
      BY DEF RevisionsInv, DocOK, Documents!DocStates
    <2>2. PICK s \in call[c].since : Earlier(s, d, doc[d].text)
      BY <1>1, <1>2 DEF CallOK
    <2>3. Earlier(s, d, doc'[d].text)
      BY <1>2, <2>1, <2>2, LaterEarlier
    <2>4. QED
      BY <2>3
  <1>3. At(c, "replying") /\ User(c) \notin wiped' =>
          /\ revision'[call[c].rev].owner = User(c)
          /\ revision'[call[c].rev].live = call[c].live
    BY <1>1, RevisionsAssumption DEF CallOK, Exists, At
  <1>4. At(c, "embedding")' => \A d \in Docs :
          doc'[d].row # "gone" => \E s \in call'[c].since : Earlier(s, d, doc[d].text)'
    BY <1>2 DEF At, Earlier
  <1>5. QED
    BY <1>1, <1>3, <1>4 DEF CallOK, At, User

LEMMA IdleCall ==
  ASSUME NEW c \in Callers, call'[c] = NoCall
  PROVE  CallOK(c)'
  BY DEF CallOK, NoCall, CallState, At, User

(* A step of a request leaves that request well formed                      *)
LEMMA OwnCall ==
  ASSUME RevisionsInv, NEW c \in Callers, CallStep(c)
  PROVE  CallOK(c)' /\ call' = [call EXCEPT ![c] = call'[c]]
  <1>0. CallOK(c) /\ call = [x \in Callers |-> call[x]]
    BY EachCall
  <1>1. ASSUME NEW o \in Owners, NEW r \in Revisions, Replay(c, o, r)
        PROVE  CallOK(c)' /\ call' = [call EXCEPT ![c] = call'[c]]
    <2> DEFINE s == [NoCall EXCEPT
                 !.pc = "replying", !.user = o, !.rev = r, !.live = revision[r].live]
    <2>1. call'[c] = s /\ call' = [call EXCEPT ![c] = call'[c]]
      BY <1>0, <1>1 DEF Replay, Sets
    <2>2. revision[r].live \in SUBSET Docs /\ revision' = revision
      BY <1>1 DEF RevisionsInv, RevisionsOK, RevisionOK, RevisionState, Replay, OnlyCalls
    <2>3. s \in CallState
      BY <2>2 DEF NoCall, CallState
    <2>4. s.pc = "replying" /\ s.user = o /\ s.rev = r /\ s.live = revision[r].live
      BY DEF NoCall
    <2>5. QED
      BY <1>1, <2>1, <2>2, <2>3, <2>4 DEF CallOK, At, User, Replay
  <1>2. ASSUME NEW o \in Owners, NEW r \in Revisions, NEW pick \in SUBSET Docs,
               NotKnown(c, o, r, pick)
        PROVE  CallOK(c)' /\ call' = [call EXCEPT ![c] = call'[c]]
    <2> DEFINE s == [NoCall EXCEPT !.pc = "unknown", !.user = o, !.rev = r, !.pick = pick]
    <2>1. call'[c] = s /\ call' = [call EXCEPT ![c] = call'[c]]
      BY <1>0, <1>2 DEF NotKnown, Sets
    <2>2. s \in CallState /\ s.pc = "unknown" /\ s.user = o /\ s.rev = r
      BY DEF NoCall, CallState
    <2>3. QED
      BY <2>1, <2>2 DEF CallOK, At, User
  <1>3. CASE Create(c)
    <2> DEFINE s == [call[c] EXCEPT !.pc = "replying", !.live = Pages(Selected(c))]
    <2>1. call'[c] = s /\ call' = [call EXCEPT ![c] = call'[c]]
      BY <1>0, <1>3 DEF Create, Sets
    <2>2. Pages(Selected(c)) \in SUBSET Docs
      BY <1>0 DEF CallOK, CallState, Pages, Selected
    <2>3. call[c].pc = "unknown" /\ User(c) \in Owners /\ call[c].rev \in Revisions
      BY <1>0, <1>3 DEF CallOK, Create, At
    <2>4. s \in CallState /\ s.pc = "replying" /\ s.user = User(c) /\ s.rev = call[c].rev
          /\ s.live = Pages(Selected(c))
      BY <1>0, <2>2 DEF CallOK, CallState, User
    <2>5. /\ revision'[call[c].rev].owner = User(c)
          /\ revision'[call[c].rev].live = Pages(Selected(c))
      BY <1>3, CreateKeeps
    <2>6. QED
      BY <2>1, <2>3, <2>4, <2>5 DEF CallOK, At, User
  <1>4. ASSUME NEW o \in Owners, NEW r \in Revisions \cup {NoRevision}, AskSearch(c, o, r)
        PROVE  CallOK(c)' /\ call' = [call EXCEPT ![c] = call'[c]]
    <2> DEFINE s == [NoCall EXCEPT
                 !.pc = "embedding", !.user = o, !.rev = r, !.since = Readable]
    <2>1. call'[c] = s /\ call' = [call EXCEPT ![c] = call'[c]]
      BY <1>0, <1>4 DEF AskSearch, Sets
    <2>2. \A d \in Docs : doc[d].text \in TextsOf[d] \cup {NoText}
      BY DEF RevisionsInv, DocOK, Documents!DocStates
    <2>3. Readable \in SUBSET (Docs \X (Texts \cup {NoText}))
      BY <2>2 DEF Readable, Texts
    <2>4. s \in CallState /\ s.pc = "embedding" /\ s.user = o /\ s.since = Readable
      BY <2>3 DEF NoCall, CallState
    <2>5. \A d \in Docs : doc[d].row # "gone" => \E e \in Readable : Earlier(e, d, doc[d].text)
      <3> SUFFICES ASSUME NEW d \in Docs, doc[d].row # "gone"
                   PROVE  \E e \in Readable : Earlier(e, d, doc[d].text)
        OBVIOUS
      <3>1. <<d, doc[d].text>> \in Readable
        BY DEF Readable
      <3>2. Earlier(<<d, doc[d].text>>, d, doc[d].text)
        BY <2>2, AgeAssumption DEF Earlier
      <3>3. QED
        BY <3>1, <3>2
    <2>6. doc' = doc
      BY <1>4 DEF AskSearch, OnlyCalls
    <2>7. QED
      BY <2>1, <2>4, <2>5, <2>6 DEF CallOK, At, User, Earlier
  <1>5. CASE Search(c)
    <2> DEFINE H == call'[c].hits
    <2>1. call'[c] = [call[c] EXCEPT !.pc = "results", !.hits = H]
          /\ call' = [call EXCEPT ![c] = call'[c]]
      BY <1>0, <1>5 DEF Search, Sets, CallOK, CallState
    <2>2. H \subseteq Hits
      BY <1>5, SearchReads
    <2>3. /\ call'[c] \in CallState /\ call'[c].pc = "results" /\ call'[c].user = User(c)
          /\ call'[c].rev = call[c].rev /\ call'[c].since = call[c].since
      <3> HIDE DEF H
      <3>1. QED
        BY <1>0, <2>1, <2>2 DEF CallOK, CallState, User
    <2>4. User(c) \in Owners
      BY <1>0, <1>5 DEF CallOK, Search, At
    <2>5. QED
      BY <1>5, <2>1, <2>3, <2>4, SearchReads DEF CallOK, At, User
  <1>6. CASE CreateRefused(c) \/ Answer(c) \/ GiveUp(c)
    <2>1. call'[c] = NoCall /\ call' = [call EXCEPT ![c] = call'[c]]
      BY <1>0, <1>6 DEF CreateRefused, Answer, GiveUp, Sets
    <2>2. QED
      BY <2>1, IdleCall
  <1>7. QED
    BY <1>1, <1>2, <1>3, <1>4, <1>5, <1>6 DEF CallStep, RevisionStep, SearchStep
-----------------------------------------------------------------------------
(* The invariant                                                           *)

LEMMA InitInv == Init => RevisionsInv
  <1> SUFFICES ASSUME Init PROVE RevisionsInv
    OBVIOUS
  <1>1. DocOK /\ FencesOK
    BY DEF Init, Documents!Init, DocOK, FencesOK, Documents!DocStates
  <1>2. RevisionsOK
    BY NoRowOK DEF Init, RevisionsOK
  <1>3. \A c \in Callers : CallOK(c)
    BY DEF Init, CallOK, NoCall, CallState, At, User
  <1>4. QED
    BY <1>1, <1>2, <1>3, EachCall DEF Init, StoreOK

(* What a step does to the revisions, whoever takes it                      *)
RevisionsKept ==
  /\ RevisionsOK'
  /\ \A r \in Revisions : Exists(r) =>
       \/ revision'[r] = revision[r]
       \/ revision'[r] = NoRow /\ revision[r].owner \in wiped'

LEMMA NextInv == RevisionsInv /\ [Next]_vars => RevisionsInv' /\ RevisionsKept
  <1> SUFFICES ASSUME RevisionsInv, [Next]_vars
               PROVE  RevisionsInv' /\ RevisionsKept
    OBVIOUS
  <1>0. call = [x \in Callers |-> call[x]] /\ StoreOK /\ \A c \in Callers : CallOK(c)
    BY EachCall
  <1> DEFINE Goal == /\ StoreOK' /\ RevisionsKept
                     /\ call' = [x \in Callers |-> call'[x]] /\ \A c \in Callers : CallOK(c)'
  <1> SUFFICES Goal
    BY DEF RevisionsInv, StoreOK, CallsOK, SinceOK, SearchIsCurrent, RepliesAgree, CallOK
  <1>1. ASSUME NEW x \in Callers, CallStep(x)
        PROVE  Goal
    <2>1. doc' = doc /\ fenced' = fenced /\ wiped' = wiped
      BY <1>1 DEF CallStep, RevisionStep, SearchStep, Replay, NotKnown, Create, CreateRefused,
                  AskSearch, Search, Answer, GiveUp, OnlyCalls
    <2>2. RevisionsOK' /\ \A r \in Revisions : Exists(r) => revision'[r] = revision[r]
      <3>1. CASE Create(x)
        BY <3>1, CreateKeeps
      <3>2. CASE revision' = revision
        BY <1>0, <3>2 DEF StoreOK, RevisionsOK
      <3>3. QED
        BY <1>1, <3>1, <3>2
           DEF CallStep, RevisionStep, SearchStep, Replay, NotKnown, CreateRefused,
               AskSearch, Search, Answer, GiveUp, OnlyCalls
    <2>3. CallOK(x)' /\ call' = [call EXCEPT ![x] = call'[x]]
      BY <1>1, OwnCall
    <2>4. ASSUME NEW c \in Callers, c # x
          PROVE  CallOK(c)'
      <3>1. call'[c] = call[c]
        BY <1>0, <2>3, <2>4
      <3>2. QED
        BY <2>1, <2>2, <3>1, OtherCall
    <2>5. StoreOK'
      BY <1>0, <2>1, <2>2 DEF StoreOK, DocOK, FencesOK
    <2>6. call' = [c \in Callers |-> call'[c]]
      BY <1>0, <2>3
    <2>7. QED
      BY <2>2, <2>3, <2>4, <2>5, <2>6 DEF RevisionsKept
  <1>2. CASE DocumentsChange
    <2>1. PICK d \in Docs : Documents!Change(d)
      BY <1>2 DEF DocumentsChange
    <2>2. revision' = revision /\ call' = call
      BY <1>2 DEF DocumentsChange
    <2>3. fenced' = fenced /\ wiped' = wiped
      BY <2>1 DEF Documents!Change, Documents!Register, Documents!Withdraw, Documents!Restart,
                  Documents!Remove, Documents!Publish, Documents!Becomes
    <2>4. StoreOK'
      BY <1>0, <2>1, <2>2, <2>3, ChangeDoc DEF StoreOK, FencesOK, RevisionsOK
    <2>5. \A c \in Callers : CallOK(c)'
      BY <1>0, <2>1, <2>2, <2>3, ChangeDoc, OtherCall DEF StoreOK
    <2>6. QED
      BY <1>0, <2>2, <2>4, <2>5 DEF RevisionsKept, StoreOK
  <1>3. ASSUME NEW o \in Owners, Fence(o)
        PROVE  Goal
    <2>1. revision' = revision /\ call' = call /\ doc' = doc /\ wiped' = wiped
          /\ fenced' = fenced \cup {o}
      BY <1>3 DEF Fence, Documents!Fence
    <2>2. StoreOK'
      BY <1>0, <2>1 DEF StoreOK, DocOK, FencesOK, RevisionsOK
    <2>3. \A c \in Callers : CallOK(c)'
      BY <2>1, OtherCall
    <2>4. QED
      BY <1>0, <2>1, <2>2, <2>3 DEF RevisionsKept, StoreOK
  <1>4. ASSUME NEW o \in Owners, Erase(o)
        PROVE  Goal
    <2>1. Documents!Erase(o) /\ call' = call
      BY <1>4 DEF Erase
    <2>2. DocOK' /\ \A d \in Docs : doc'[d].row # "gone" => doc'[d] = doc[d]
      BY <1>0, <2>1, EraseDoc DEF StoreOK
    <2>3. wiped' = wiped \cup {o} /\ fenced' = fenced \cup {o}
      BY <2>1 DEF Documents!Erase
    <2>4. RevisionsOK' /\ \A r \in Revisions :
            revision'[r] = IF revision[r].owner = o THEN NoRow ELSE revision[r]
      BY <1>0, <1>4, EraseKeeps DEF StoreOK
    <2>5. StoreOK'
      BY <1>0, <2>2, <2>3, <2>4 DEF StoreOK, FencesOK
    <2>6. RevisionsKept
      BY <2>3, <2>4 DEF RevisionsKept
    <2>7. ASSUME NEW c \in Callers PROVE CallOK(c)'
      BY <2>1, <2>2, <2>3, <2>4, OtherCall
    <2>8. QED
      BY <1>0, <2>1, <2>5, <2>6, <2>7
  <1>5. CASE UNCHANGED vars
    BY <1>0, <1>5 DEF vars, StoreOK, DocOK, FencesOK, RevisionsOK, RevisionsKept, CallOK,
                      At, User, Earlier
  <1>6. QED
    BY <1>1, <1>2, <1>3, <1>4, <1>5 DEF Next

THEOREM RevisionsInvHolds == Spec => []RevisionsInv
  BY InitInv, NextInv, PTL DEF Spec

(* The variables keep their types, for every instance.                      *)
THEOREM TypeCorrect == Spec => []TypeOK
  <1>1. RevisionsInv => TypeOK
    BY DEF RevisionsInv, TypeOK, DocOK, FencesOK, RevisionsOK, RevisionOK, CallsOK
  <1>2. QED
    BY <1>1, RevisionsInvHolds, PTL

(* Whatever is synchronized, reindexed or deleted while a search embeds its *)
(* query, its results are current and hold one text of each document.       *)
THEOREM SearchIsCurrentHolds == Spec => []SearchIsCurrent
  <1>1. RevisionsInv => SearchIsCurrent
    BY DEF RevisionsInv
  <1>2. QED
    BY <1>1, RevisionsInvHolds, PTL

(* However many requests race for one revision id, each is told what is     *)
(* stored.                                                                  *)
THEOREM RepliesAgreeHolds == Spec => []RepliesAgree
  <1>1. RevisionsInv => RepliesAgree
    BY DEF RevisionsInv
  <1>2. QED
    BY <1>1, RevisionsInvHolds, PTL

(* No step rewrites a revision; only the erasure of its owner removes it.   *)
THEOREM RevisionIsImmutableHolds == Spec => RevisionIsImmutable
  <1>1. RevisionsInv /\ [Next]_vars =>
          [\A r \in Revisions : Exists(r) /\ revision'[r] # revision[r] =>
             revision'[r] = NoRow /\ revision[r].owner \in wiped']_vars
    BY NextInv DEF RevisionsKept
  <1>2. QED
    BY <1>1, RevisionsInvHolds, PTL DEF Spec, RevisionIsImmutable
-----------------------------------------------------------------------------
(* Account erasure                                                         *)

Rows  == {<<d, OwnerOf[d]>> : d \in {x \in Docs : Documents!Live(x)}}
Taken == {<<r, revision[r].owner>> : r \in {x \in Revisions : Exists(x)}}

LEMMA ItemsOwned ==
  ASSUME RevisionsOK
  PROVE  Rows \cup Taken \subseteq Items \X Owners
  BY RevisionsAssumption DEF RevisionsOK, RevisionOK, RevisionState, Rows, Taken, Items, Exists

(* Only the rows of admitted owners, and revisions of active users, appear  *)
LEMMA RowsAppear ==
  ASSUME DocOK, NEW x \in Docs, Documents!Change(x), NEW i \in Rows' \ Rows
  PROVE  i[2] \notin fenced
  <1>1. PICK d \in Docs : Documents!Live(d)' /\ i = <<d, OwnerOf[d]>>
    BY DEF Rows
  <1>2. ~Documents!Live(d)
    BY <1>1 DEF Rows
  <1>3. PICK s : Documents!Becomes(x, s)
    BY DEF Documents!Change, Documents!Register, Documents!Withdraw, Documents!Restart,
           Documents!Remove, Documents!Publish
  <1>4. d = x
    BY <1>1, <1>2, <1>3 DEF DocOK, Documents!Becomes, Documents!Live
  <1>5. QED
    BY <1>1, <1>3, <1>4 DEF Documents!Becomes, Documents!Admitted

LEMMA RevisionAppears ==
  ASSUME RevisionsInv, NEW c \in Callers, Create(c), NEW i \in Taken' \ Taken
  PROVE  i[2] \notin fenced
  <1>1. PICK r \in Revisions : Exists(r)' /\ i = <<r, revision'[r].owner>>
    BY DEF Taken
  <1>2. ~Exists(r)
    BY <1>1, CreateKeeps DEF Taken
  <1>3. revision'[r] = Snapshot(User(c), Selected(c))
    BY <1>1, <1>2 DEF Create, RevisionsInv, RevisionsOK, Exists
  <1>4. QED
    BY <1>1, <1>3 DEF Create, Active, Snapshot

(* Documents and revisions implement the account erasure of OwnerErasure:   *)
(* nothing is created for a fenced owner, and one transaction removes all   *)
(* that the owner has and nothing else.                                     *)
THEOREM RevisionErasureImplements == Spec => ErasureImplemented
  <1> DEFINE held == Rows \cup Taken
  <1> USE DEF Rows, Taken
  <1>1. Init => Erasure!Init
    BY DEF Init, Documents!Init, Documents!Live, Documents!LiveStates, Erasure!Init, Exists,
           NoRow
  <1>2. RevisionsInv /\ [Next]_vars => [Erasure!Next]_Erasure!vars
    <2> SUFFICES ASSUME RevisionsInv, Next
                 PROVE  Erasure!Next \/ UNCHANGED Erasure!vars
      BY DEF vars, Erasure!vars, Documents!Live, Exists
    <2>0. held' \subseteq Items \X Owners
      <3>1. \A r \in Revisions : revision'[r].owner \in Owners \cup {NoOwner}
        BY NextInv DEF RevisionsKept, RevisionsOK, RevisionOK, RevisionState
      <3>2. Taken' \subseteq Items \X Owners
        BY <3>1 DEF Exists, Items
      <3>3. Rows' \subseteq Items \X Owners
        BY RevisionsAssumption DEF Items
      <3>4. QED
        BY <3>2, <3>3
    <2>1. ASSUME fenced' = fenced, wiped' = wiped,
                 \A i \in held' \ held : i[2] \notin fenced
          PROVE  Erasure!Use
      BY <2>0, <2>1 DEF Erasure!Use
    <2>2. ASSUME NEW c \in Callers, CallStep(c)
          PROVE  Erasure!Next
      <3>1. doc' = doc /\ fenced' = fenced /\ wiped' = wiped
        BY <2>2 DEF CallStep, RevisionStep, SearchStep, Replay, NotKnown, Create, CreateRefused,
                    AskSearch, Search, Answer, GiveUp, OnlyCalls
      <3>2. Rows' = Rows
        BY <3>1 DEF Documents!Live
      <3>3. CASE Create(c)
        <4>1. \A i \in held' \ held : i[2] \notin fenced
          BY <3>2, <3>3, RevisionAppears
        <4>2. QED
          BY <2>1, <3>1, <4>1 DEF Erasure!Next
      <3>4. CASE revision' = revision
        BY <2>1, <3>1, <3>2, <3>4 DEF Erasure!Next, Exists
      <3>5. QED
        BY <2>2, <3>3, <3>4
           DEF CallStep, RevisionStep, SearchStep, Replay, NotKnown, CreateRefused,
               AskSearch, Search, Answer, GiveUp, OnlyCalls
    <2>3. CASE DocumentsChange
      <3>1. PICK d \in Docs : Documents!Change(d)
        BY <2>3 DEF DocumentsChange
      <3>2. Taken' = Taken
        BY <2>3 DEF DocumentsChange, Exists
      <3>3. fenced' = fenced /\ wiped' = wiped
        BY <3>1 DEF Documents!Change, Documents!Register, Documents!Withdraw, Documents!Restart,
                    Documents!Remove, Documents!Publish, Documents!Becomes
      <3>4. \A i \in held' \ held : i[2] \notin fenced
        BY <3>1, <3>2, RowsAppear DEF RevisionsInv
      <3>5. QED
        BY <2>1, <3>3, <3>4 DEF Erasure!Next
    <2>4. ASSUME NEW o \in Owners, Fence(o)
          PROVE  Erasure!Close(o)
      BY <2>4 DEF Fence, Documents!Fence, Erasure!Close, Documents!Live, Exists
    <2>5. ASSUME NEW o \in Owners, Erase(o)
          PROVE  Erasure!Erase(o)
      <3>1. Documents!Erase(o) /\ doc = [d \in Docs |-> doc[d]]
        BY <2>5 DEF Erase, RevisionsInv, DocOK
      <3>2. \A d \in Docs : Documents!Live(d)' <=> Documents!Live(d) /\ OwnerOf[d] # o
        BY <3>1 DEF Documents!Erase, Documents!Live, Documents!Gone, Documents!LiveStates
      <3>3. \A r \in Revisions : revision'[r] =
              IF revision[r].owner = o THEN NoRow ELSE revision[r]
        BY <2>5, EraseKeeps DEF RevisionsInv
      <3>4. \A r \in Revisions : Exists(r)' <=> Exists(r) /\ revision[r].owner # o
        BY <3>3, RevisionsAssumption DEF Exists, NoRow
      <3>5. held \subseteq Items \X Owners
        BY ItemsOwned DEF RevisionsInv
      <3>6. Rows' = {i \in Rows : i[2] # o}
        BY <3>2
      <3>7. Taken' = {i \in Taken : i[2] # o}
        BY <3>3, <3>4 DEF Exists
      <3>8. held' = {i \in held : [j \in Items \X Owners |-> j[2]][i] # o}
        BY <3>5, <3>6, <3>7
      <3>9. QED
        BY <3>1, <3>8 DEF Documents!Erase, Erasure!Erase
    <2>6. QED
      BY <2>2, <2>3, <2>4, <2>5 DEF Next, Erasure!Next
  <1>3. QED
    BY <1>1, <1>2, RevisionsInvHolds, PTL DEF Spec, ErasureImplemented, Erasure!Spec

(* An owner whose erasure was acknowledged is fenced and has neither a      *)
(* document nor a revision, and none comes again, whatever request was      *)
(* under way.  It is what OwnerErasure promises of any component.           *)
ErasedOwnerHasNothing ==
  /\ wiped \subseteq fenced
  /\ \A d \in Docs : OwnerOf[d] \in wiped => ~Documents!Live(d)
  /\ \A r \in Revisions : Exists(r) => revision[r].owner \notin wiped

THEOREM ErasedOwnerHasNothingHolds == Spec => []ErasedOwnerHasNothing
  <1> DEFINE held == Rows \cup Taken
             Empty == /\ wiped \subseteq fenced /\ held \subseteq Items \X Owners
                      /\ \A i \in held : i[2] \notin wiped
  <1>1. Erasure!Init => Empty
    BY DEF Erasure!Init, Rows, Taken
  <1>2. Empty /\ [Erasure!Next]_Erasure!vars => Empty'
    <2>1. ASSUME Empty, UNCHANGED Erasure!vars
          PROVE  Empty'
      BY <2>1 DEF Erasure!vars, Rows, Taken
    <2>2. ASSUME Empty, Erasure!Use
          PROVE  Empty'
      <3>1. fenced' = fenced /\ wiped' = wiped
        BY <2>2 DEF Erasure!Use
      <3>2. ASSUME NEW i \in held'
            PROVE  i[2] \notin wiped
        <4>1. i \in Items \X Owners /\ (i \in held \/ i[2] \notin fenced)
          BY <2>2, <3>2 DEF Erasure!Use, Rows, Taken
        <4>2. QED
          BY <2>2, <4>1
      <3>3. QED
        BY <2>2, <3>1, <3>2 DEF Erasure!Use, Rows, Taken
    <2>3. ASSUME Empty, NEW o \in Owners, Erasure!Close(o)
          PROVE  Empty'
      BY <2>3 DEF Erasure!Close, Rows, Taken
    <2>4. ASSUME Empty, NEW o \in Owners, Erasure!Erase(o)
          PROVE  Empty'
      <3>1. fenced' = fenced \cup {o} /\ wiped' = wiped \cup {o}
        BY <2>4 DEF Erasure!Erase
      <3>2. held' = {i \in held : [j \in Items \X Owners |-> j[2]][i] # o}
        BY <2>4 DEF Erasure!Erase, Rows, Taken
      <3>3. \A i \in held' : i \in held /\ i[2] # o
        BY <2>4, <3>2
      <3>4. QED
        BY <2>4, <3>1, <3>3
    <2>5. QED
      BY <2>1, <2>2, <2>3, <2>4 DEF Erasure!Next
  <1>3. ASSUME Empty
        PROVE  ErasedOwnerHasNothing
    <2>1. ASSUME NEW d \in Docs, Documents!Live(d)
          PROVE  OwnerOf[d] \notin wiped
      <3>1. <<d, OwnerOf[d]>> \in held
        BY <2>1 DEF Rows
      <3>2. QED
        BY <1>3, <3>1
    <2>2. ASSUME NEW r \in Revisions, Exists(r)
          PROVE  revision[r].owner \notin wiped
      <3>1. <<r, revision[r].owner>> \in held
        BY <2>2 DEF Taken
      <3>2. QED
        BY <1>3, <3>1
    <2>3. QED
      BY <1>3, <2>1, <2>2 DEF ErasedOwnerHasNothing
  <1>4. QED
    BY <1>1, <1>2, <1>3, RevisionErasureImplements, PTL DEF ErasureImplemented, Erasure!Spec
============================================================================
