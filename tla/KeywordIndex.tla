---------------------------- MODULE KeywordIndex ----------------------------
(***************************************************************************)
(* The three tables behind SqliteVecStore (core/src/stores/sqlite-vec.ts): *)
(* chunks, vec_chunks, which refers to a chunk by its id, and fts_chunks,  *)
(* an FTS5 index with external content, which refers to it by the rowid    *)
(* that SQLite gave the row (core/src/workspace.ts).                       *)
(*                                                                         *)
(* Each action is one transaction.  A chunk's text is fixed by its id: the *)
(* document's hash and the chunk's index.                                  *)
(***************************************************************************)
EXTENDS Naturals

CONSTANTS
  Chunks,         \* chunk ids
  Docs,
  DocOf,          \* the document of a chunk
  TextOf,         \* the text of a chunk
  MaxRowid        \* bound on the rowids handed out

ASSUME DocOfAssumption == DocOf \in [Chunks -> Docs]
ASSUME MaxRowidAssumption == MaxRowid \in Nat

VARIABLES
  rowid,    \* the rowid of each row of chunks, 0 if there is none
  vec,      \* the ids in vec_chunks
  index,    \* the postings of fts_chunks: a rowid and the text filed under it
  replaced, \* history: a document was ingested again (a retried job, a second upload)
  deleted   \* history: DELETE /v1/documents/:id has removed chunks

indexVars == <<rowid, vec, index, replaced, deleted>>

Texts == {TextOf[c] : c \in Chunks}

IndexTypeOK ==
  /\ rowid \in [Chunks -> 0 .. MaxRowid]
  /\ vec \subseteq Chunks
  /\ index \subseteq (1 .. MaxRowid) \X Texts
  /\ replaced \in BOOLEAN /\ deleted \in BOOLEAN

IndexInit ==
  /\ rowid = [c \in Chunks |-> 0]
  /\ vec = {}
  /\ index = {}
  /\ replaced = FALSE /\ deleted = FALSE

Stored(c) == rowid[c] # 0

\* Mutant: the number of a removed row is handed out again.
IsNextRowid_Reused(r) ==
  \A c \in Chunks : rowid[c] # r

\* SQLite numbers a row one above the largest rowid in the table, and does so
\* before the row that it replaces is removed.
IsNextRowid(r) ==
  /\ \A c \in Chunks : rowid[c] < r
  /\ r = 1 \/ \E c \in Chunks : rowid[c] = r - 1

-----------------------------------------------------------------------------
\* Mutant: the keyword row is filed under the rowid the chunk had before.
InsertOne_OldRowid(c) ==
  /\ \E r \in 1 .. MaxRowid :
       /\ IsNextRowid(r)
       /\ rowid' = [rowid EXCEPT ![c] = r]
       /\ index' = index \cup {<<IF Stored(c) THEN rowid[c] ELSE r, TextOf[c]>>}
  /\ vec' = vec \cup {c}
  /\ replaced' = (replaced \/ Stored(c)) /\ UNCHANGED deleted

\* INSERT OR REPLACE into chunks gives a stored id a new rowid; the postings
\* of the old rowid are not removed.
InsertOne(c) ==
  /\ \E r \in 1 .. MaxRowid :
       /\ IsNextRowid(r)
       /\ rowid' = [rowid EXCEPT ![c] = r]
       /\ index' = index \cup {<<r, TextOf[c]>>}
  /\ vec' = vec \cup {c}
  /\ replaced' = (replaced \/ Stored(c)) /\ UNCHANGED deleted

\* Mutant: the row goes first, the keyword DELETE then looks up no rowid.
DeleteByDocument_RowFirst(d) ==
  LET gone == {c \in Chunks : DocOf[c] = d /\ Stored(c)} IN
  /\ rowid' = [c \in Chunks |-> IF c \in gone THEN 0 ELSE rowid[c]]
  /\ vec' = vec \ gone
  /\ deleted' = (deleted \/ gone # {}) /\ UNCHANGED replaced
  /\ UNCHANGED index

\* FTS5 removes the postings of the text the row has now.
DeleteByDocument(d) ==
  LET gone == {c \in Chunks : DocOf[c] = d /\ Stored(c)} IN
  /\ rowid' = [c \in Chunks |-> IF c \in gone THEN 0 ELSE rowid[c]]
  /\ vec' = vec \ gone
  /\ deleted' = (deleted \/ gone # {}) /\ UNCHANGED replaced
  /\ index' = index \ {<<rowid[c], TextOf[c]>> : c \in gone}

IndexNext ==
  \/ \E c \in Chunks : InsertOne(c)
  \/ \E d \in Docs : DeleteByDocument(d)

IndexSpec == IndexInit /\ [][IndexNext]_indexVars

-----------------------------------------------------------------------------
\* searchKeyword joins the postings with chunks by rowid.
SearchKeyword(t) == {c \in Chunks : Stored(c) /\ <<rowid[c], t>> \in index}

\* searchVector joins vec_chunks with chunks by id.
SearchVector == {c \in Chunks : Stored(c) /\ c \in vec}

HitsAreRight == \A t \in Texts : \A c \in SearchKeyword(t) : TextOf[c] = t

\* A keyword hit is a chunk that contains the keyword: as long as chunks are
\* only re-ingested or only deleted, the rowids that leave postings behind are
\* never given to another chunk (sqlite-vec.ts:101-131, 222-236).
HitsContainKeyword == ~(replaced /\ deleted) => HitsAreRight

\* What searchKeyword promises without a condition: "full-text search" hits.
\* Violated once a chunk was replaced and then others deleted.
HitsAlwaysContainKeyword == HitsAreRight

\* Both searches reach every stored chunk, whatever was replaced or deleted
\* before it: re-ingesting and deleting are safe for what remains.
StoredIsFound ==
  \A c \in Chunks :
    Stored(c) => c \in SearchKeyword(TextOf[c]) /\ c \in SearchVector
=============================================================================
