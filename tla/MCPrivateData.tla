--------------------------- MODULE MCPrivateData ---------------------------
(* Instances of PrivateData for TLC. *)
EXTENDS PrivateData, TLC

CONSTANTS file, web, r1

MCRows == {Document(d) : d \in Docs} \cup (UNION {ChunksOf(d) : d \in Docs})
            \cup FrozenRows \cup {Page(d) : d \in Webpages}

MCId == [row \in MCRows |->
  CASE row[1] \in {"documents", "document_webpages"} -> IF row[2] = file THEN 1 ELSE 2
    [] row[1] = "chunks" -> 2 * row[3] + (IF row[2] = file THEN 1 ELSE 0)
    [] row[1] = "knowledge_revision_chunks" -> row[4]]
============================================================================
