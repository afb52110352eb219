--------------------------- MODULE ContextBuilder ---------------------------
(* The prompt of a planning step (context/builder.ts): evidence in the order *)
(* of its score under one budget, history from the newest turn under         *)
(* another.  A text is its length in characters; the loops of buildContext   *)
(* are actions, one per hit and one per turn.                                *)
EXTENDS Integers, Sequences, SequencesExt, FiniteSetsExt

CONSTANTS
  HitChars,   \* lengths of the texts retrieved
  TurnChars,  \* lengths of the turns of the conversation
  MaxListed,  \* bound on the hits, and on the turns, of one prompt
  EvidenceMax,  \* retrievalMaxTokens of the models in use
  HistoryMax    \* historyMaxTokens

ASSUME ContextAssumption ==
  /\ HitChars \subseteq Nat /\ TurnChars \subseteq Nat /\ MaxListed \in Nat
  /\ EvidenceMax \subseteq Nat /\ HistoryMax \subseteq Nat

VARIABLES
  budget,
  contextAt,        \* "hits", "turns", "built"
  toPack,           \* hits the first loop has not seen
  packed,           \* truncatedHits
  retrievalTokens,
  toRecall,         \* turns the second loop has not seen, newest first
  recalled,         \* keptTurns
  historyTokens

contextVars == <<budget, contextAt, toPack, packed, retrievalTokens, toRecall, recalled,
                 historyTokens>>

\* ContextBudget, of which the builder enforces two parts.
Budgets == [retrieval : EvidenceMax, history : HistoryMax]

\* A retrieved chunk: its document, its score, the length of its text.
ContextHits == [doc : {"a", "b"}, score : 1 .. 2, chars : HitChars]

ContextTypeOK ==
  /\ budget \in Budgets /\ contextAt \in {"hits", "turns", "built"}
  /\ toPack \in Seq(ContextHits) /\ toRecall \in Seq(TurnChars) /\ recalled \in Seq(TurnChars)
  /\ packed \in Seq([doc : {"a", "b"}, score : 1 .. 2, chars : Nat])
  /\ retrievalTokens \in Nat /\ historyTokens \in Nat

\* estimateTokens: a token is four characters, and no text is free.
TokensOf(chars) == Max({1, (chars + 3) \div 4})

\* The hits by falling score; hits of the same score keep their order.
HitsByScore(hits) ==
  LET first(i, j) ==
        hits[i].score > hits[j].score \/ (hits[i].score = hits[j].score /\ i < j)
      order == SortSeq([i \in DOMAIN hits |-> i], first)
  IN  [k \in DOMAIN hits |-> hits[order[k]]]

ContextInit ==
  /\ budget \in Budgets
  /\ \E hits \in BoundedSeq(ContextHits, MaxListed) : toPack = HitsByScore(hits)
  /\ toRecall \in BoundedSeq(TurnChars, MaxListed)
  /\ contextAt = "hits" /\ packed = <<>> /\ recalled = <<>>
  /\ retrievalTokens = 0 /\ historyTokens = 0

Left == budget.retrieval - retrievalTokens

NextHit ==
  /\ contextAt = "hits" /\ toPack # <<>>
  /\ toPack' = Tail(toPack)
  /\ UNCHANGED <<budget, contextAt, toRecall, recalled, historyTokens>>

\* The whole hit fits.
PackHit ==
  /\ NextHit
  /\ Left > 0 /\ TokensOf(Head(toPack).chars) <= Left
  /\ packed' = Append(packed, Head(toPack))
  /\ retrievalTokens' = retrievalTokens + TokensOf(Head(toPack).chars)

\* Mutant: no room is kept for the mark.
CutChars_NoRoom(chars) == Min({chars, 4 * Left}) + 12

\* A hit that does not fit is cut when more than 64 tokens are left: 16 of their
\* characters are kept free for the mark of 12.
CutChars(chars) == Min({chars, Max({0, 4 * Left - 16})}) + 12

CutHit ==
  /\ NextHit
  /\ Left > 64 /\ TokensOf(Head(toPack).chars) > Left
  /\ packed' = Append(packed, [Head(toPack) EXCEPT !.chars = CutChars(@)])
  /\ retrievalTokens' = retrievalTokens + Left

\* The budget is spent, or what is left of it is not worth a cut.
DropHit ==
  /\ NextHit
  /\ Left <= 0 \/ (Left <= 64 /\ TokensOf(Head(toPack).chars) > Left)
  /\ UNCHANGED <<packed, retrievalTokens>>

PackedAll ==
  /\ contextAt = "hits" /\ toPack = <<>>
  /\ contextAt' = "turns"
  /\ UNCHANGED <<budget, toPack, packed, retrievalTokens, toRecall, recalled, historyTokens>>

\* A turn that does not fit is skipped; an older one may still fit.
RecallTurn ==
  /\ contextAt = "turns" /\ toRecall # <<>>
  /\ LET sum == historyTokens + TokensOf(Head(toRecall))
     IN  IF sum > budget.history THEN UNCHANGED <<recalled, historyTokens>>
         ELSE recalled' = <<Head(toRecall)>> \o recalled /\ historyTokens' = sum
  /\ toRecall' = Tail(toRecall)
  /\ UNCHANGED <<budget, contextAt, toPack, packed, retrievalTokens>>

RecalledAll ==
  /\ contextAt = "turns" /\ toRecall = <<>>
  /\ contextAt' = "built"
  /\ UNCHANGED <<budget, toPack, packed, retrievalTokens, toRecall, recalled, historyTokens>>

\* joinAdjacent: neighbours of one document become one entry of the prompt, with
\* the tag and the score of the first.
Joined ==
  FoldLeft(LAMBDA out, h :
             IF out # <<>> /\ Last(out)[1].doc = h.doc
             THEN Front(out) \o <<Append(Last(out), h)>> ELSE Append(out, <<h>>),
           <<>>, packed)

ContextNext == PackHit \/ CutHit \/ DropHit \/ PackedAll \/ RecallTurn \/ RecalledAll

ContextSpec == ContextInit /\ [][ContextNext]_contextVars

-----------------------------------------------------------------------------
(* Properties.                                                             *)

Tokens(lengths) == FoldLeft(LAMBDA n, c : n + TokensOf(c), 0, lengths)

\* What is put into the prompt never costs more than its part of the budget,
\* cuts and their marks included, although a cut is booked by what was left and
\* not by what it costs; and entries that were joined are the hits that were
\* kept, in their order.
PromptFitsBudget ==
  /\ Tokens([i \in DOMAIN packed |-> packed[i].chars]) <= budget.retrieval
  /\ Tokens(recalled) <= budget.history
  /\ FlattenSeq(Joined) = packed
=============================================================================
