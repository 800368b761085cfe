------------------------- MODULE PublishedDocuments -------------------------
(***************************************************************************)
(* The documents as their readers see them: a row with a status, and the   *)
(* one text its chunks were cut from.  Uploads (DocumentIngest) and        *)
(* webpages (WebpageSync) both implement this specification, each with     *)
(* queues, workers, retries and files of its own; searches and revisions   *)
(* (KnowledgeRevisions) rely on nothing else.                              *)
(***************************************************************************)
CONSTANTS
  Docs,      \* document ids; an id is used once (uuid4)
  Owners,    \* user ids
  OwnerOf,   \* [Docs -> Owners]
  TextsOf,   \* [Docs -> set of the texts the document may have]
  NoText,    \* no chunks
  NotOlder   \* pairs <<s, t>> of texts: t is as recent as s

VARIABLES
  doc,       \* [Docs -> [row, text]]
  fenced,    \* owners in rag_erased_owners
  wiped      \* owners whose rows an erasure transaction has deleted

docVars == <<doc, fenced, wiped>>

LiveStates == {"processing", "ready", "failed"}

DocStates(d) ==
  [row : LiveStates \cup {"absent", "gone"}, text : TextsOf[d] \cup {NoText}]

Gone  == [row |-> "gone", text |-> NoText]

Live(d)     == doc[d].row \in LiveStates
Ready(d)    == doc[d].row = "ready"
Admitted(d) == OwnerOf[d] \notin fenced

Init ==
  /\ doc = [d \in Docs |-> [row |-> "absent", text |-> NoText]]
  /\ fenced = {} /\ wiped = {}

Becomes(d, state) ==
  /\ Admitted(d)
  /\ doc' = [doc EXCEPT ![d] = state]
  /\ UNCHANGED <<fenced, wiped>>

(* The row of an upload, or of a set of webpages, is created *)
Register(d) ==
  doc[d].row = "absent" /\ Becomes(d, [doc[d] EXCEPT !.row = "processing"])

(* Chunks and status are replaced in one transaction, by an ingestion, a    *)
(* reindexing or a synchronization                                          *)
Publish(d, t) ==
  /\ Live(d)
  /\ doc[d].text # NoText => <<doc[d].text, t>> \in NotOlder
  /\ Becomes(d, [row |-> "ready", text |-> t])

(* An attempt failed; chunks stay as they are *)
Withdraw(d) == Live(d) /\ Becomes(d, [doc[d] EXCEPT !.row = "failed"])

(* A document that never had text is tried again *)
Restart(d) ==
  /\ doc[d].row = "failed" /\ doc[d].text = NoText
  /\ Becomes(d, [doc[d] EXCEPT !.row = "processing"])

Remove(d) == Live(d) /\ Becomes(d, Gone)

Fence(o) == fenced' = fenced \cup {o} /\ UNCHANGED <<doc, wiped>>

Erase(o) ==
  /\ fenced' = fenced \cup {o} /\ wiped' = wiped \cup {o}
  /\ doc' = [d \in Docs |-> IF OwnerOf[d] = o /\ Live(d) THEN Gone ELSE doc[d]]

Change(d) ==
  \/ Register(d) \/ Withdraw(d) \/ Restart(d) \/ Remove(d)
  \/ \E t \in TextsOf[d] : Publish(d, t)

Next == (\E d \in Docs : Change(d)) \/ (\E o \in Owners : Fence(o) \/ Erase(o))

Spec == Init /\ [][Next]_docVars
============================================================================
