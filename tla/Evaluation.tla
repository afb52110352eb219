----------------------------- MODULE Evaluation ------------------------------
(* The evaluation package (eval/src): the harness that answers and scores one *)
(* sample after the other, the generator of synthetic samples, and the        *)
(* measures, each a pure function.  A measure is a fraction [num, den]; the   *)
(* texts of questions and answers are left out.                               *)
EXTENDS Integers, Sequences, SequencesExt, FiniteSets, FiniteSetsExt

CONSTANTS
  EvalChunks,      \* ids of chunks
  MaxEvalLines,    \* bound on the lines of a file of samples
  MaxPassages,     \* bounds on the passages and on the samples asked for
  MaxSynthetic

VARIABLES
  file,        \* the lines of a JSONL file: "sample", "broken" or "blank"
  harness,     \* runSamples(): [state, next, scored], scored the lines it scored
  passages,    \* the sources of synthetic samples: whether each has text
  synthetic,   \* generateSynthetic(): [turn, shown, out]
  measure,     \* what a measure is asked
  measured     \* and what it gave

harnessVars == <<file, harness>>
syntheticVars == <<passages, synthetic>>
measureVars == <<measure, measured>>
evalVars == <<harnessVars, syntheticVars, measureVars>>

-----------------------------------------------------------------------------
(* runSamples().                                                           *)

EvalLines == {"sample", "broken", "blank"}

\* loadJsonl(): lines that are blank or do not parse are skipped.
Samples == SelectSeq([i \in DOMAIN file |-> i], LAMBDA i : file[i] = "sample")

\* Retrieval, the answer and the measures of one sample.
ScoreSample ==
  /\ harness.state = "running" /\ harness.next <= Len(Samples)
  /\ harness' = [harness EXCEPT !.next = @ + 1, !.scored = Append(@, Samples[harness.next])]
  /\ UNCHANGED <<file, syntheticVars, measureVars>>

\* Mutant: a sample that fails is passed over.
OnFailure_Skip == [harness EXCEPT !.next = @ + 1]

\* There is no try: what one retrieval or one answer throws rejects the run, and
\* the scores so far are lost.
OnFailure == [harness EXCEPT !.state = "rejected", !.scored = <<>>]

FailSample ==
  /\ harness.state = "running" /\ harness.next <= Len(Samples)
  /\ harness' = OnFailure
  /\ UNCHANGED <<file, syntheticVars, measureVars>>

FinishRun ==
  /\ harness.state = "running" /\ harness.next > Len(Samples)
  /\ harness' = [harness EXCEPT !.state = "done"]
  /\ UNCHANGED <<file, syntheticVars, measureVars>>

HarnessNext == ScoreSample \/ FailSample \/ FinishRun

-----------------------------------------------------------------------------
(* generateSynthetic().                                                    *)

\* Mutant: the passage is counted by what came out, not by the turns.
SourceAt_Out == Len(synthetic.out) % Len(passages)

SourceAt == (synthetic.turn - 1) % Len(passages)

\* One turn: the model is shown a passage that has text; what it answers is kept
\* when it parses and has both fields.
SyntheticTurn ==
  /\ passages # <<>> /\ synthetic.turn <= MaxSynthetic
  /\ LET source == (synthetic.turn - 1) % Len(passages)
         next == [synthetic EXCEPT !.turn = @ + 1] IN
     IF ~passages[source + 1] THEN synthetic' = next
     ELSE \/ synthetic' = [next EXCEPT !.shown = Append(@, source)]
          \/ synthetic' = [next EXCEPT !.shown = Append(@, source),
                            !.out = Append(@, [gold |-> SourceAt,
                                               turn |-> Len(synthetic.shown) + 1])]
  /\ UNCHANGED <<passages, harnessVars, measureVars>>

-----------------------------------------------------------------------------
(* metrics.ts: hits and gold are sequences without repetition.             *)

Zero == [num |-> 0, den |-> 1]

HitCount(hits, gold) == Cardinality({i \in DOMAIN hits : hits[i] \in ToSet(gold)})

RecallAtK(hits, gold) == IF gold = <<>> THEN Zero ELSE [num |-> HitCount(hits, gold), den |-> Len(gold)]
PrecisionAtK(hits, gold) == IF hits = <<>> THEN Zero ELSE [num |-> HitCount(hits, gold), den |-> Len(hits)]

\* Mutant: positions count from 0.
Rank_Zero(i) == i - 1
HitRank(i) == i

Mrr(hits, gold) ==
  LET at == {i \in DOMAIN hits : hits[i] \in ToSet(gold)}
  IN  IF at = {} THEN Zero ELSE [num |-> 1, den |-> HitRank(Min(at))]

-----------------------------------------------------------------------------
(* parseCareOutput(): the lines [id, relevant] of the judge that have the form. *)

Verdicts == [id : EvalChunks \cup {"stranger"}, relevant : BOOLEAN]

\* Mutant: ids that were not shown are taken over.
Understood_All(line, shown) == TRUE

Understood(line, shown) == line.id \in ToSet(shown)

\* A chunk named twice is labelled twice; one that is not named is not relevant.
CareLabels(shown, lines) ==
  LET said == SelectSeq(lines, LAMBDA l : Understood(l, shown))
      silent == SelectSeq(shown, LAMBDA c : \A i \in DOMAIN said : said[i].id # c)
  IN  said \o [i \in DOMAIN silent |-> [id |-> silent[i], relevant |-> FALSE]]

\* careMetrics(): precision and recall are one number.
CareScore(labels) ==
  LET relevant == Cardinality({i \in DOMAIN labels : labels[i].relevant})
      part == IF labels = <<>> THEN Zero ELSE [num |-> relevant, den |-> Len(labels)]
  IN  [precision |-> part, recall |-> part]

-----------------------------------------------------------------------------
(* lostInMiddleProbe(): for every position the list with the gold chunk there. *)

\* Mutant: the position is taken for the one before.
IsGoldPlace_Late(i, at) == i = at + 1

IsGoldPlace(i, at) == i = at

\* The others are shifted off the pool in order; the gold one stays in the pool, so
\* it may come again.  An empty pool adds nothing.
Placed(candidates, gold, size, at) ==
  LET golds == {i \in DOMAIN candidates : candidates[i] \in gold}
      step(acc, i) ==
        IF IsGoldPlace(i, at) /\ golds # {} THEN [acc EXCEPT !.list = Append(@, candidates[Min(golds)])]
        ELSE IF acc.pool # <<>> THEN [pool |-> Tail(acc.pool), list |-> Append(acc.list, Head(acc.pool))]
        ELSE IF IsGoldPlace(i, at) THEN [acc EXCEPT !.list = Append(@, candidates[1])] ELSE acc
  IN  FoldLeft(step, [pool |-> candidates, list |-> <<>>], [i \in 1 .. size |-> i]).list

LostInMiddle(candidates, gold, size) ==
  IF candidates = <<>> THEN <<>> ELSE [at \in 1 .. size |-> Placed(candidates, gold, size, at)]

-----------------------------------------------------------------------------
(* evaluateGate(): a threshold of -1 is unset, a measure of -1 is no number, *)
(* which is below nothing.                                                   *)

GateFailures(values, thresholds) ==
  {k \in DOMAIN values : thresholds[k] # -1 /\ values[k] # -1 /\ values[k] < thresholds[k]}

-----------------------------------------------------------------------------

Rankings == {s \in BoundedSeq(EvalChunks, 3) : IsInjective(s)}

Measures(kind) ==
  CASE kind = "metrics" -> [kind : {kind}, hits : Rankings, gold : Rankings]
    [] kind = "care" -> [kind : {kind}, shown : Rankings, lines : BoundedSeq(Verdicts, 2)]
    [] kind = "middle" -> [kind : {kind}, candidates : Rankings, gold : SUBSET EvalChunks, size : 0 .. 4]
    [] kind = "gate" -> [kind : {kind}, values : [1 .. 2 -> -1 .. 2], thresholds : [1 .. 2 -> -1 .. 2]]
    [] OTHER -> [kind : {"none"}]

MeasureKinds == {"metrics", "care", "middle", "gate"}

TakeMeasure ==
  /\ measured = <<>> /\ measure.kind \in MeasureKinds
  /\ measured' =
       <<CASE measure.kind = "metrics" -> [recall |-> RecallAtK(measure.hits, measure.gold),
                                           precision |-> PrecisionAtK(measure.hits, measure.gold),
                                           mrr |-> Mrr(measure.hits, measure.gold)]
           [] measure.kind = "care" -> [labels |-> CareLabels(measure.shown, measure.lines),
                                        score |-> CareScore(CareLabels(measure.shown, measure.lines))]
           [] measure.kind = "middle" -> LostInMiddle(measure.candidates, measure.gold, measure.size)
           [] measure.kind = "gate" -> GateFailures(measure.values, measure.thresholds)>>
  /\ UNCHANGED <<measure, harnessVars, syntheticVars>>

EvalInit(kind) ==
  /\ file \in IF kind = "harness" THEN BoundedSeq(EvalLines, MaxEvalLines) ELSE {<<>>}
  /\ harness = [state |-> "running", next |-> 1, scored |-> <<>>]
  /\ passages \in IF kind = "synthetic" THEN BoundedSeq(BOOLEAN, MaxPassages) ELSE {<<>>}
  /\ synthetic = [turn |-> 1, shown |-> <<>>, out |-> <<>>]
  /\ measure \in Measures(kind) /\ measured = <<>>

EvalNext == HarnessNext \/ SyntheticTurn \/ TakeMeasure

EvalSpec ==
  /\ \E kind \in MeasureKinds \cup {"harness", "synthetic"} : EvalInit(kind)
  /\ [][EvalNext]_evalVars

-----------------------------------------------------------------------------

EvalTypeOK ==
  /\ harness.state \in {"running", "done", "rejected"} /\ harness.next \in 1 .. MaxEvalLines + 1
  /\ synthetic.turn \in 1 .. MaxSynthetic + 1 /\ Len(measured) <= 1

\* A run that is reported scored every sample of the file, once and in its order, so
\* that the averages are over what the file holds; one failure leaves no report.
ReportIsOfAll ==
  /\ harness.state = "done" => harness.scored = Samples
  /\ harness.state = "rejected" => harness.scored = <<>>

\* A synthetic sample names the passage the model was shown for it, and the model is
\* shown the passages in turn, so that none is shown twice more than another.
GoldIsShown ==
  /\ \A i \in DOMAIN synthetic.out : synthetic.out[i].gold = synthetic.shown[synthetic.out[i].turn]
  /\ LET times(p) == Cardinality({i \in DOMAIN synthetic.shown : synthetic.shown[i] = p - 1})
     IN  \A p, q \in DOMAIN passages : passages[p] /\ passages[q] => times(p) <= times(q) + 1

\* The measures are fractions up to 1 and agree: recall, precision and reciprocal rank
\* are 0 together, precision and recall count the same hits, and a reciprocal rank of
\* one over n leaves at most n - 1 positions without a hit before it.
MetricsAgree ==
  measured # <<>> /\ measure.kind = "metrics" =>
    LET r == measured[1].recall
        p == measured[1].precision
        m == measured[1].mrr
    IN  /\ \A x \in {r, p, m} : x.den > 0 /\ x.num \in 0 .. x.den
        /\ (r.num = 0) = (p.num = 0) /\ (r.num = 0) = (m.num = 0)
        /\ p.num * r.den * Len(measure.hits) = r.num * p.den * Len(measure.gold)
        /\ m.num > 0 => p.num + m.den - 1 <= Len(measure.hits)

\* Every chunk the judge was shown has a label, and no other chunk has one.
LabelsCoverShown ==
  measured # <<>> /\ measure.kind = "care" =>
    LET labels == measured[1].labels IN {labels[i].id : i \in DOMAIN labels} = ToSet(measure.shown)

\* The probe for a position has a gold chunk there whenever there is one, and enough
\* others to fill the places before.
GoldStandsThere ==
  measured # <<>> /\ measure.kind = "middle" /\ measure.gold \cap ToSet(measure.candidates) # {} =>
    \A at \in 1 .. measure.size :
      at <= Len(measure.candidates) + 1 =>
        at \in DOMAIN measured[1][at] /\ measured[1][at][at] \in measure.gold

\* An evaluation is honest: whole reports, gold that was shown, measures that agree.
EvaluationIsHonest ==
  ReportIsOfAll /\ GoldIsShown /\ MetricsAgree /\ LabelsCoverShown /\ GoldStandsThere
=============================================================================
