-------------------------- MODULE HybridRetrieval ---------------------------
(***************************************************************************)
(* One call of Retrieval.retrieve (core/src/retrieval/pipeline.ts): the    *)
(* question is embedded, two searches run one after the other, reciprocal  *)
(* rank fusion (rrf.ts) merges their ranks and the fused order picks from  *)
(* the dense hits.  A reranker (rerankers.ts) may then reorder them.       *)
(*                                                                         *)
(* Every await lets other requests change the chunk tables.  A score is a  *)
(* sum of 1 / (k + rank), compared here as a fraction.                     *)
(***************************************************************************)
EXTENDS Integers, Sequences, FiniteSets, SequencesExt, FiniteSetsExt

CONSTANTS
  RankedChunks,  \* ids of chunks
  TopK,          \* topK
  RrfK,          \* rrfK, 60
  Rerankers,     \* kinds of reranker: "identity", "cohere", "llm"
  EditedChunks,  \* those whose document may be deleted or ingested again meanwhile
  MaxEdits       \* bound on such changes

ASSUME RetrievalAssumption ==
  /\ EditedChunks \subseteq RankedChunks
  /\ TopK \in Nat \ {0} /\ RrfK \in Nat /\ MaxEdits \in Nat
  /\ Rerankers \subseteq {"identity", "cohere", "llm"}

Orders(S, n) == {s \in SeqOf(S, n) : IsInjective(s)}

VARIABLES
  stored,      \* the chunks of the tables
  retrieveAt,  \* "embed", "dense", "keyword", "fuse", "rerank", "done", "thrown"
  dense,       \* ids of searchVector's hits, best first
  keyword,     \* ids of searchKeyword's hits, best first
  fused,       \* reciprocalRankFusion([dense, keyword])
  found,       \* what retrieve returns
  reranked,    \* what the reranker returns
  edits

retrievalVars == <<stored, retrieveAt, dense, keyword, fused, found, reranked, edits>>

RetrievalTypeOK ==
  /\ stored \subseteq RankedChunks
  /\ retrieveAt \in {"embed", "dense", "keyword", "fuse", "rerank", "done", "thrown"}
  /\ {dense, keyword} \subseteq Orders(RankedChunks, 2 * TopK)
  /\ IsInjective(fused) /\ Len(found) <= TopK
  /\ ToSet(reranked) \subseteq RankedChunks /\ edits \in 0 .. MaxEdits

RetrievalInit ==
  /\ stored = RankedChunks /\ retrieveAt = "embed" /\ edits = 0
  /\ dense = <<>> /\ keyword = <<>> /\ fused = <<>> /\ found = <<>> /\ reranked = <<>>

\* A document is deleted or ingested again, while this call still reads.
EditChunks(c) ==
  /\ retrieveAt \in {"embed", "dense", "keyword"}
  /\ edits < MaxEdits /\ edits' = edits + 1
  /\ stored' = IF c \in stored THEN stored \ {c} ELSE stored \cup {c}
  /\ UNCHANGED <<retrieveAt, dense, keyword, fused, found, reranked>>

EmbedQuery ==
  /\ retrieveAt = "embed" /\ retrieveAt' \in {"dense", "thrown"}
  /\ UNCHANGED <<stored, dense, keyword, fused, found, reranked, edits>>

\* The nearest chunks: every chunk has a distance.
SearchVector ==
  /\ retrieveAt = "dense" /\ retrieveAt' = "keyword"
  /\ dense' \in {s \in Orders(stored, 2 * TopK) : Len(s) = Min({2 * TopK, Cardinality(stored)})}
  /\ UNCHANGED <<stored, keyword, fused, found, reranked, edits>>

\* The chunks that match, which may be none.
SearchKeyword ==
  /\ retrieveAt = "keyword" /\ retrieveAt' = "fuse"
  /\ keyword' \in Orders(stored, 2 * TopK)
  /\ UNCHANGED <<stored, dense, fused, found, reranked, edits>>

RankOf(list, c) == CHOOSE r \in DOMAIN list : list[r] = c

\* Mutant: the score of a list replaces the score of the one before it.
Score_Replaced(lists, c) ==
  LET last == Max({l \in DOMAIN lists : c \in ToSet(lists[l])})
  IN  [num |-> 1, den |-> RrfK + RankOf(lists[last], c)]

\* The sum over the lists that rank c, as a fraction.
Score(lists, c) ==
  FoldLeft(LAMBDA sum, list :
             IF c \notin ToSet(list) THEN sum
             ELSE LET d == RrfK + RankOf(list, c)
                  IN  [num |-> sum.num * d + sum.den, den |-> sum.den * d],
           [num |-> 0, den |-> 1], lists)

\* The Map holds ids in the order of their first occurrence; of two with the same
\* score the sort keeps that order.
ReciprocalRankFusion(lists) ==
  LET ids == FoldLeft(LAMBDA seen, c : IF c \in ToSet(seen) THEN seen ELSE Append(seen, c),
                      <<>>, FlattenSeq(lists))
      score == [c \in ToSet(ids) |-> Score(lists, c)]
      above(c, d) == score[c].num * score[d].den > score[d].num * score[c].den
      first(i, j) == above(ids[i], ids[j]) \/ (~above(ids[j], ids[i]) /\ i < j)
      order == SortSeq([i \in DOMAIN ids |-> i], first)
  IN  [k \in DOMAIN ids |-> ids[order[k]]]

\* Mutant: the fused list is cut before the dense hits are picked.
Picked_Cut(list) ==
  SelectSeq(SubSeq(list, 1, Min({TopK, Len(list)})), LAMBDA c : c \in ToSet(dense))

\* The first TopK of the fused list that have a dense hit.
Picked(list) ==
  LET hits == SelectSeq(list, LAMBDA c : c \in ToSet(dense))
  IN  SubSeq(hits, 1, Min({TopK, Len(hits)}))

Fuse ==
  /\ retrieveAt = "fuse" /\ retrieveAt' = "rerank"
  /\ fused' = ReciprocalRankFusion(<<dense, keyword>>)
  /\ found' = Picked(fused')
  /\ UNCHANGED <<stored, dense, keyword, reranked, edits>>

\* IdentityReranker.
IdentityRerank == retrieveAt' = "done" /\ reranked' = found

\* What a reranker is told: positions, in any order, some of which do not exist, cut
\* to the number that was asked for.
Told(positions, n) ==
  LET known == SelectSeq(SubSeq(positions, 1, Min({n, Len(positions)})),
                         LAMBDA i : i \in DOMAIN found)
  IN  [i \in DOMAIN known |-> found[known[i]]]

Replies == SeqOf(1 .. Len(found) + 1, TopK)

\* CohereReranker: a response that is not ok leaves the hits as they are, a request
\* that fails throws.
CohereRerank ==
  \/ retrieveAt' = "done" /\ reranked' = found
  \/ /\ retrieveAt' = "done"
     /\ \E positions \in Replies, n \in 1 .. TopK : reranked' = Told(positions, n)
  \/ retrieveAt' = "thrown" /\ UNCHANGED reranked

\* LlmReranker: without hits the model is not asked; of an answer that is no list the
\* first hits are returned; a model that fails throws.
LlmRerank ==
  \/ found = <<>> /\ retrieveAt' = "done" /\ reranked' = <<>>
  \/ /\ found # <<>> /\ retrieveAt' = "done"
     /\ \E n \in 1 .. TopK :
          \/ \E positions \in Replies : reranked' = Told(positions, n)
          \/ reranked' = SubSeq(found, 1, Min({n, Len(found)}))
  \/ found # <<>> /\ retrieveAt' = "thrown" /\ UNCHANGED reranked

Rerank(kind) ==
  /\ retrieveAt = "rerank"
  /\ \/ kind = "identity" /\ IdentityRerank
     \/ kind = "cohere" /\ CohereRerank
     \/ kind = "llm" /\ LlmRerank
  /\ UNCHANGED <<stored, dense, keyword, fused, found, edits>>

RetrievalNext ==
  \/ \E c \in EditedChunks : EditChunks(c)
  \/ EmbedQuery \/ SearchVector \/ SearchKeyword \/ Fuse
  \/ \E kind \in Rerankers : Rerank(kind)

RetrievalSpec == RetrievalInit /\ [][RetrievalNext]_retrievalVars

-----------------------------------------------------------------------------
(* Properties                                                              *)

Fusing == retrieveAt \in {"rerank", "done"}

\* c is ranked no lower than d by either search, and higher by one.
Ranks(list, c, d) == d \in ToSet(list) => c \in ToSet(list) /\ RankOf(list, c) <= RankOf(list, d)
Dominates(c, d) ==
  /\ Ranks(dense, c, d) /\ Ranks(keyword, c, d)
  /\ \E list \in {dense, keyword} : c \in ToSet(list) /\ ~Ranks(list, d, c)

\* Fusion never inverts what both searches agree on, and orders all they found.
FusionRespectsRanks ==
  Fusing =>
    /\ ToSet(fused) = ToSet(dense) \cup ToSet(keyword)
    /\ \A c, d \in ToSet(fused) : Dominates(c, d) => RankOf(fused, c) < RankOf(fused, d)

\* Keyword hits change the order of the dense hits but take no place of theirs:
\* the answer is full whenever the vector search could fill it.
KeywordTakesNoPlace == Fusing => Len(found) = Min({TopK, Len(dense)})

\* (Not kept.)  A chunk that only the keyword search found is returned when the
\* answer has room; a hit still exists; a reranker returns a hit once.
KeywordOnlyReturned ==
  Fusing /\ Len(found) < TopK => ToSet(keyword) \subseteq ToSet(found)
FoundIsStored == Fusing => ToSet(found) \subseteq stored
RerankedOnce == retrieveAt = "done" => IsInjective(reranked)
=============================================================================
