----------------------------- MODULE EvalMetrics -----------------------------
(***************************************************************************)
(* The numbers of the evaluation: gold-source matching, retrieval,         *)
(* citation and abstention rates (eval/metrics.py), their comparison       *)
(* between configurations (eval/matrix.py) and the agreement of the judge  *)
(* with a human (eval/agreement.py).  Pure operators.                      *)
(*                                                                         *)
(* questions is a sequence of records [id, gold, abstain, category]; runs  *)
(* and scores are functions of question ids, for one report has one line   *)
(* per question.  A rate is a pair <<numerator, denominator>>, or Nothing  *)
(* where the code returns None: floats are exact here.                     *)
(***************************************************************************)
EXTENDS Ordering

(* Reciprocal ranks and shares of a question are scaled by it. *)
CONSTANT Scale

ASSUME ScaleIsPositive == Scale \in Nat \ {0}

Nothing == <<>>

(* The mean of a function's values. *)
MeanOf(f) == IF DOMAIN f = {} THEN Nothing ELSE <<Total(f), Cardinality(DOMAIN f)>>

AsNumber(b) == IF b THEN 1 ELSE 0

Below(r, s) == r[1] * s[2] < s[1] * r[2]
Equal(r, s) == r[1] * s[2] = s[1] * r[2]

-----------------------------------------------------------------------------
(* What is measured.  <<>> and 0 stand for None. *)
GoldSource == [document : STRING, section : Seq(Nat), page : Nat]
Record == [document : STRING, section : Seq(Nat), first : Nat, last : Nat]
Question == [id : Nat, gold : SUBSET GoldSource, abstain : BOOLEAN, category : STRING]
QuestionRun ==
  [error : BOOLEAN, retrieved : Seq(Record), citations : Seq(Record), abstained : BOOLEAN,
   invented : Nat, ms : [retrieval : Nat, generation : Nat, total : Nat],
   cost : {Nothing} \cup [1..1 -> Nat]]
Score == [layer1 : BOOLEAN, judge : {"0", "1", "2", "error"}]
GoldOutcome == [id : Nat, category : STRING, gold_hit : {"hit", "miss", "none"}]

(* Sections overlap as strings do: one is a part of the other.             *)
PartOf(s, t) == \E i \in 1 .. Len(t) - Len(s) + 1 : SubSeq(t, i, i + Len(s) - 1) = s

MatchesGold(question, record) ==
  \E g \in question.gold :
    /\ g.document = record.document
    /\ \/ g.section = <<>> /\ g.page = 0
       \/ /\ g.section # <<>> /\ record.section # <<>>
          /\ PartOf(g.section, record.section) \/ PartOf(record.section, g.section)
       \/ g.page # 0 /\ g.page \in record.first - 1 .. record.last + 1

(* A plausible mistake, for a mutant. *)
GoldBearingAnyRun(questions, runs) == {q \in ToSet(questions) : q.id \in DOMAIN runs}

(* The questions with a gold source and a run that did not fail. *)
GoldBearing(questions, runs) ==
  {q \in ToSet(questions) :
     q.gold # {} /\ q.id \in DOMAIN runs /\ ~runs[q.id].error}

GoldRanks(q, runs) ==
  {i \in DOMAIN runs[q.id].retrieved : MatchesGold(q, runs[q.id].retrieved[i])}

RecallAtK(questions, runs) ==
  MeanOf([q \in GoldBearing(questions, runs) |-> AsNumber(GoldRanks(q, runs) # {})])

MeanReciprocalRank(questions, runs) ==
  MeanOf([q \in GoldBearing(questions, runs) |->
           IF GoldRanks(q, runs) = {} THEN 0 ELSE Scale \div Min(GoldRanks(q, runs))])

(* Of the chunks of one question, over those that retrieved any. *)
PrecisionAtK(questions, runs) ==
  MeanOf([q \in {q \in GoldBearing(questions, runs) : runs[q.id].retrieved # <<>>} |->
           (Scale * Cardinality(GoldRanks(q, runs))) \div Len(runs[q.id].retrieved)])

(* One ratio over all citations of the questions of the set that ran. *)
CitationPrecision(questions, runs) ==
  LET ran == {q \in ToSet(questions) : q.id \in DOMAIN runs /\ ~runs[q.id].error}
      cited == UNION {{q} \X DOMAIN runs[q.id].citations : q \in ran}
  IN MeanOf([c \in cited |-> AsNumber(MatchesGold(c[1], runs[c[1].id].citations[c[2]]))])

(* Of the questions that should (not) be abstained from and ran. *)
AbstentionRate(questions, runs, should) ==
  MeanOf([q \in {q \in ToSet(questions) :
                  q.abstain = should /\ q.id \in DOMAIN runs /\ ~runs[q.id].error} |->
           AsNumber(runs[q.id].abstained)])

(* A score is what Layer 1 found and the judge's 0, 1, 2 or "error". *)
IsCorrect(score) == score.layer1 \/ score.judge = "2"

AnswerAccuracy(scores) == MeanOf([id \in DOMAIN scores |-> AsNumber(IsCorrect(scores[id]))])

(* _percentile of integers, times 100: between the two nearest ranks, in   *)
(* proportion.                                                             *)
Percentile(values, p) ==
  LET ordered == Ascending(values)
      rank == (Len(values) - 1) * p
      lower == 1 + rank \div 100
      upper == IF rank % 100 = 0 THEN lower ELSE lower + 1
  IN 100 * ordered[lower] + (ordered[upper] - ordered[lower]) * (rank % 100)

(* Over every run of the report: invented markers an answer, cost of those *)
(* whose cost is known, and the latencies of each phase.                   *)
Answered(runs) == {id \in DOMAIN runs : ~runs[id].error}

HallucinatedCitationRate(runs) == MeanOf([id \in Answered(runs) |-> runs[id].invented])

CostPerQueryAvg(runs) ==
  MeanOf([id \in {id \in DOMAIN runs : runs[id].cost # Nothing} |-> runs[id].cost[1]])

LatencyPercentiles(runs) ==
  LET answered == SetToSeq(Answered(runs))
      of(phase) == [i \in DOMAIN answered |-> runs[answered[i]].ms[phase]]
  IN [p \in {50, 95} |-> [phase \in {"retrieval", "generation", "total"} |->
                           Percentile(of(phase), p)]]

(* One line per scored question of the set, in the set's order. *)
QuestionOutcomes(questions, runs, scores) ==
  LET scored == At(questions, {i \in DOMAIN questions : questions[i].id \in DOMAIN scores})
      hit(q) == IF q.gold = {} \/ q.id \notin DOMAIN runs THEN "none"
                ELSE IF runs[q.id].error THEN "none"
                ELSE IF GoldRanks(q, runs) # {} THEN "hit" ELSE "miss"
  IN [i \in DOMAIN scored |->
       [id |-> scored[i].id, category |-> scored[i].category,
        correct |-> IF IsCorrect(scores[scored[i].id]) THEN "hit" ELSE "miss",
        gold_hit |-> hit(scored[i])]]

(* compute_metrics; a report in which nothing ran raises, and stands for   *)
(* Nothing.                                                                *)
ComputeMetrics(questions, runs, scores) ==
  IF Answered(runs) = {} THEN Nothing
  ELSE [n_questions |-> Cardinality(DOMAIN runs),
        n_errors |-> Cardinality(DOMAIN runs \ Answered(runs)),
        n_judge_errors |-> Cardinality({id \in DOMAIN scores : scores[id].judge = "error"}),
        recall_at_k |-> RecallAtK(questions, runs),
        mrr |-> MeanReciprocalRank(questions, runs),
        precision_at_k |-> PrecisionAtK(questions, runs),
        citation_precision |-> CitationPrecision(questions, runs),
        hallucinated_citation_rate |-> HallucinatedCitationRate(runs),
        answer_accuracy |-> AnswerAccuracy(scores),
        correct_abstention_rate |-> AbstentionRate(questions, runs, TRUE),
        false_abstention_rate |-> AbstentionRate(questions, runs, FALSE),
        latency |-> LatencyPercentiles(runs),
        cost_per_query_avg |-> CostPerQueryAvg(runs),
        outcomes |-> QuestionOutcomes(questions, runs, scores)]

(* run_retrieval_eval.py: a line of a table without any answer, over the   *)
(* questions with a gold source.                                           *)
RetrievalRow(questions, retrieved) ==
  LET asked == At(questions, {i \in DOMAIN questions : questions[i].gold # {}})
      runs == [id \in {q.id : q \in ToSet(asked)} |->
                [error |-> FALSE, retrieved |-> retrieved[id]]]
      hit(q) == RecallAtK(<<q>>, runs) = <<1, 1>>
  IN [hits |-> [i \in DOMAIN asked |-> AsNumber(hit(asked[i]))],
      recall_at_k |-> RecallAtK(asked, runs),
      mrr |-> MeanReciprocalRank(asked, runs),
      precision_at_k |-> PrecisionAtK(asked, runs)]

-----------------------------------------------------------------------------
(* The comparison.  A measure of an outcome, "correct" or "gold_hit", is    *)
(* "hit", "miss" or "none".                                                *)
Known(outcomes, measure) == {o \in ToSet(outcomes) : o[measure] # "none"}

RateOf(outcomes, category, measure) ==
  MeanOf([o \in {o \in Known(outcomes, measure) : o.category = category} |->
           AsNumber(o[measure] = "hit")])

(* A column's best value, the highest or the lowest; Nothing never wins.   *)
Best(values, higher) ==
  LET present == {values[r] : r \in DOMAIN values} \ {Nothing}
      beats(v, w) == IF higher THEN Below(w, v) ELSE Below(v, w)
  IN IF present = {} THEN Nothing
     ELSE CHOOSE v \in present : \A w \in present : ~beats(w, v)

Wins(value, best) == value # Nothing /\ Equal(value, best)

(* _overall_table: rows are the metrics of the configurations. *)
HigherIsBetter == {"recall_at_k", "mrr", "precision_at_k", "citation_precision",
                   "answer_accuracy", "correct_abstention_rate"}
LowerIsBetter == {"hallucinated_citation_rate", "false_abstention_rate",
                  "latency_p50_total", "latency_p95_total", "cost_per_query_avg"}

Value(row, column) ==
  CASE column = "latency_p50_total" -> <<row.latency[50].total, 1>>
    [] column = "latency_p95_total" -> <<row.latency[95].total, 1>>
    [] OTHER -> row[column]

OverallTable(rows) ==
  LET best(c) == Best([r \in DOMAIN rows |-> Value(rows[r], c)], c \in HigherIsBetter)
  IN [r \in DOMAIN rows |-> [c \in HigherIsBetter \cup LowerIsBetter |->
       [value |-> Value(rows[r], c), winner |-> Wins(Value(rows[r], c), best(c))]]]

(* _by_category_table: the rows' rates of each category that any row has   *)
(* a rate of, the best of them marked.                                     *)
CategoryTable(rows, categories, measure) ==
  LET rate(r, c) == RateOf(rows[r], c, measure)
      best(c) == Best([r \in DOMAIN rows |-> rate(r, c)], TRUE)
      shown == {c \in categories : best(c) # Nothing}
  IN [r \in DOMAIN rows |-> [c \in shown |->
       [rate |-> rate(r, c), winner |-> Wins(rate(r, c), best(c))]]]

(* The chart's cells: hits of all questions and of each category's. *)
RecallCells(outcomes, categories) ==
  LET of(key) == {o \in Known(outcomes, "gold_hit") : key \in {"all", o.category}}
  IN [key \in {k \in {"all"} \cup categories : of(k) # {}} |->
       MeanOf([o \in of(key) |-> AsNumber(o.gold_hit = "hit")])]

(* a / b, rounded with halves to even. *)
RoundHalfEven(a, b) ==
  LET up == \/ 2 * (a % b) > b
            \/ 2 * (a % b) = b /\ (a \div b) % 2 = 1
  IN (a \div b) + (IF up THEN 1 ELSE 0)

(* The bootstrap: draws are the resamples the generator makes, each the    *)
(* drawn positions; the sums of a resample stand for its means.            *)
(* confidence is in thousandths.                                           *)
PercentileInterval(samples, confidence) ==
  LET ordered == Ascending(samples)
      last == Len(samples) - 1
      tail == 1000 - confidence
  IN <<ordered[1 + (tail * last) \div 2000],
       ordered[1 + RoundHalfEven((2000 - tail) * last, 2000)]>>

BootstrapCI(values, draws, confidence) ==
  IF values = <<>> THEN Nothing
  ELSE PercentileInterval([d \in DOMAIN draws |->
                            Total([k \in DOMAIN draws[d] |-> values[draws[d][k]]])], confidence)

(* The outcomes of the questions both have the measure of, as pairs of 0   *)
(* or 1, in the candidate's order.                                         *)
Pairs(baseline, candidate, measure) ==
  LET base(id) == {b \in Known(baseline, measure) : b.id = id}
      both == At(candidate, {i \in DOMAIN candidate : candidate[i][measure] # "none"
                                                        /\ base(candidate[i].id) # {}})
      number(o) == AsNumber(o[measure] = "hit")
  IN [i \in DOMAIN both |-> <<number(CHOOSE b \in base(both[i].id) : TRUE), number(both[i])>>]

(* _paired: the mean difference and its interval. *)
Paired(baseline, candidate, measure, draws, confidence) ==
  LET pairs == Pairs(baseline, candidate, measure)
      diffs == [i \in DOMAIN pairs |-> pairs[i][2] - pairs[i][1]]
  IN IF pairs = <<>> THEN Nothing
     ELSE [diff |-> <<Total(diffs), Len(diffs)>>,
           ci   |-> BootstrapCI(diffs, draws[Len(diffs)], confidence)]

Significant(paired) == paired # Nothing /\ (paired.ci[1] > 0 \/ paired.ci[2] < 0)

(* _paired_table: a line for every other row that has outcomes; none at    *)
(* all when the baseline has none.                                         *)
PairedTable(rows, baseline, measure, draws, confidence) ==
  [r \in {u \in DOMAIN rows \ {baseline} : rows[baseline] # <<>> /\ rows[u] # <<>>} |->
    LET paired == Paired(rows[baseline], rows[r], measure, draws, confidence)
    IN [paired |-> paired, marked |-> Significant(paired)]]

-----------------------------------------------------------------------------
(* Agreement of two raters' scores. *)
PercentAgreement(a, b) ==
  <<Cardinality({i \in DOMAIN a : a[i] = b[i]}), Len(a)>>

(* The first few questions of every category, category by category. *)
SelectHumanReviewSample(questions, categories, perCategory) ==
  FlattenSeq([c \in DOMAIN categories |->
    LET of == At(questions, {i \in DOMAIN questions : questions[i].category = categories[c]})
    IN SubSeq(of, 1, Min({perCategory, Len(of)}))])

CountOf(a, label) == Cardinality({i \in DOMAIN a : a[i] = label})

CohensKappa(a, b) ==
  LET n == Len(a)
      po == n * PercentAgreement(a, b)[1]
      pe == Total([l \in ToSet(a) \cup ToSet(b) |-> CountOf(a, l) * CountOf(b, l)])
  IN IF pe = n * n THEN <<1, 1>> ELSE <<po - pe, n * n - pe>>
=============================================================================
