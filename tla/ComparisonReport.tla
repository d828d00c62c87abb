-------------------------- MODULE ComparisonReport --------------------------
(* The numbers of the comparison report (eval/metrics.py and               *)
(* benchmark_report.build_comparison_report): pure functions of the frozen *)
(* outputs and the truths.                                                 *)
(*                                                                         *)
(* An output is [verdict, first_bad, cited, claims], a truth [verdict,     *)
(* first_bad, family, verified]; outputs and truths are functions on       *)
(* cases.  A float is the fraction [num, den] it stands for; rounding to   *)
(* nine digits and the standard deviation are left out.                    *)
EXTENDS Integers, FiniteSets, FiniteSetsExt

STATUSES == {"SUPPORTED", "CONTRADICTED", "UNVERIFIABLE"}
NoBadEvent == -1

Same(a, b) == a.num * b.den = b.num * a.den
AtMost(a, b) == a.num * b.den <= b.num * a.den
Minus(a, b) == [num |-> a.num * b.den - b.num * a.den, den |-> a.den * b.den]
One == [num |-> 1, den |-> 1]

(* a/b, and 0 for "if b else 0.0". *)
Rate(a, b) == IF b = 0 THEN [num |-> 0, den |-> 1] ELSE [num |-> a, den |-> b]

(* fmean of the fractions r[i], i in I. *)
fmean(r, I) ==
  LET den == MapThenFoldSet(LAMBDA a, b : a * b, 1, LAMBDA i : r[i].den,
                            LAMBDA S : CHOOSE x \in S : TRUE, I)
  IN  Rate(MapThenSumSet(LAMBDA i : r[i].num * (den \div r[i].den), I), Cardinality(I) * den)

Predicted(actual, predicted, label) == Quantify(DOMAIN actual, LAMBDA c : predicted[c] = label)
Support(actual, label) == Quantify(DOMAIN actual, LAMBDA c : actual[c] = label)
TruePositive(actual, predicted, label) ==
  Quantify(DOMAIN actual, LAMBDA c : actual[c] = label /\ predicted[c] = label)

(* 2pr/(p + r), and 0 when p + r is 0. *)
HarmonicMean(p, r) == Rate(2 * p.num * r.num, p.num * r.den + r.num * p.den)

(* Mutant: every class counts, also one nobody named. *)
macro_f1_AllClasses(actual, predicted) ==
  LET score == [label \in STATUSES |->
        HarmonicMean(Rate(TruePositive(actual, predicted, label), Predicted(actual, predicted, label)),
                     Rate(TruePositive(actual, predicted, label), Support(actual, label)))]
  IN  fmean(score, STATUSES)

macro_f1(actual, predicted) ==
  LET classes == {label \in STATUSES :
                    Support(actual, label) + Predicted(actual, predicted, label) # 0}
      score == [label \in classes |->
        HarmonicMean(Rate(TruePositive(actual, predicted, label), Predicted(actual, predicted, label)),
                     Rate(TruePositive(actual, predicted, label), Support(actual, label)))]
  IN  fmean(score, classes)

Right(outputs, truths, c) == outputs[c].verdict = truths[c].verdict

family_mean(outputs, truths, cases) ==
  LET families == {truths[c].family : c \in cases}
      members(f) == {c \in cases : truths[c].family = f}
      accuracy == [f \in families |->
        Rate(Quantify(members(f), LAMBDA c : Right(outputs, truths, c)), Cardinality(members(f)))]
  IN  fmean(accuracy, families)

(* Only human-verified cases count unless asked otherwise. *)
evaluate_outputs(outputs, truths, include_unverified) ==
  LET cases == {c \in DOMAIN outputs : include_unverified \/ truths[c].verified}
      bad == {c \in cases : truths[c].first_bad # NoBadEvent}
      hit(c) == outputs[c].first_bad = truths[c].first_bad
      actual == [c \in cases |-> truths[c].verdict]
      predicted == [c \in cases |-> outputs[c].verdict]
  IN  [case_count |-> Cardinality(cases),
       overall_accuracy |->
         Rate(Quantify(cases, LAMBDA c : Right(outputs, truths, c)), Cardinality(cases)),
       family_mean_accuracy |-> family_mean(outputs, truths, cases),
       macro_f1 |-> macro_f1(actual, predicted),
       first_bad_event_hit_rate |-> Rate(Quantify(bad, hit), Cardinality(bad)),
       evidence_coverage |-> Rate(MapThenSumSet(LAMBDA c : outputs[c].cited, cases),
                                  MapThenSumSet(LAMBDA c : outputs[c].claims, cases))]

METRIC_KEYS ==
  {"family_mean_accuracy", "overall_accuracy", "macro_f1", "first_bad_event_hit_rate",
   "evidence_coverage"}

_stats(r, I) ==
  [mean |-> fmean(r, I),
   min |-> r[CHOOSE i \in I : \A j \in I : AtMost(r[i], r[j])],
   max |-> r[CHOOSE i \in I : \A j \in I : AtMost(r[j], r[i])]]

WrongRuns(b1_runs, truths, c) == Quantify(DOMAIN b1_runs, LAMBDA r : ~Right(b1_runs[r], truths, c))

Unanimous(b1_runs, c) == Cardinality({b1_runs[r][c].verdict : r \in DOMAIN b1_runs}) = 1

(* build_comparison_report on inputs that passed its checks; b1_runs[r] is *)
(* the outputs of run r.                                                   *)
build_comparison_report(b1_runs, prooftrail, no_temporal, truths, label_mode) ==
  LET cases == DOMAIN truths
      include_unverified == label_mode = "provisional"
      b1_metrics == [r \in DOMAIN b1_runs |->
                       evaluate_outputs(b1_runs[r], truths, include_unverified)]
      full == evaluate_outputs(prooftrail, truths, include_unverified)
      b1_stats == [key \in METRIC_KEYS |->
                     _stats([r \in DOMAIN b1_runs |-> b1_metrics[r][key]], DOMAIN b1_runs)]
  IN  [label_mode |-> label_mode,
       headline_eligible |-> label_mode = "verified" /\ \A c \in cases : truths[c].verified,
       b1 |-> b1_stats,
       prooftrail |-> full,
       prooftrail_without_temporal_verifier |->
         evaluate_outputs(no_temporal, truths, include_unverified),
       prooftrail_minus_b1_mean |->
         [key \in METRIC_KEYS |-> Minus(full[key], b1_stats[key].mean)],
       unanimous |-> {c \in cases : Unanimous(b1_runs, c)},
       b1_always_wrong |-> {c \in cases : WrongRuns(b1_runs, truths, c) = Cardinality(DOMAIN b1_runs)},
       b1_sometimes_wrong |->
         {c \in cases : WrongRuns(b1_runs, truths, c) \notin {0, Cardinality(DOMAIN b1_runs)}},
       prooftrail_wrong |-> {c \in cases : ~Right(prooftrail, truths, c)},
       changed_without_temporal |->
         {c \in cases : \/ prooftrail[c].verdict # no_temporal[c].verdict
                        \/ prooftrail[c].first_bad # no_temporal[c].first_bad}]
-----------------------------------------------------------------------------
(* What the numbers of any report owe each other *)

(* macro_f1 is the mean, over the classes that occur, of the textbook F1   *)
(* 2TP / (support + predicted); and it, the overall accuracy and the       *)
(* family mean are 1 together, exactly when no verdict is wrong.           *)
MetricsAgree(outputs, truths) ==
  LET cases == DOMAIN truths
      actual == [c \in cases |-> truths[c].verdict]
      predicted == [c \in cases |-> outputs[c].verdict]
      named == {actual[c] : c \in cases} \cup {predicted[c] : c \in cases}
      f1 == [label \in named |->
               Rate(2 * TruePositive(actual, predicted, label),
                    Support(actual, label) + Predicted(actual, predicted, label))]
      metrics == evaluate_outputs(outputs, truths, TRUE)
  IN  /\ Same(metrics.macro_f1, fmean(f1, named))
      /\ \A key \in {"overall_accuracy", "family_mean_accuracy", "macro_f1"} :
           Same(metrics[key], One) = (actual = predicted)

(* Every case of `of` once more, under a name of its own. *)
Repeated(f, of) ==
  [c \in ((DOMAIN f) \X {0}) \cup (of \X {1}) |-> f[c[1]]]

(* "a 20x repeated easy family cannot inflate it"                          *)
(* (SCENARIO_FAMILIES.md:51): repeating all cases of one family leaves the *)
(* headline where it was.                                                  *)
RepeatsDoNotInflate(outputs, truths) ==
  \A family \in {truths[c].family : c \in DOMAIN truths} :
    LET of == {c \in DOMAIN truths : truths[c].family = family} IN
      Same(evaluate_outputs(outputs, truths, TRUE).family_mean_accuracy,
           evaluate_outputs(Repeated(outputs, of), Repeated(truths, of), TRUE).family_mean_accuracy)

(* The parts of one report tell one story: a case the runs disagree about  *)
(* is wrong in one of them, and one wrong in some runs only is a case they *)
(* disagree about; B1's mean is 1 exactly when no case is listed as wrong; *)
(* a ProofTrail that is wrong nowhere leads by exactly what B1 got wrong;  *)
(* and the mean lies between the worst and the best run.                   *)
TellsOneStory(report, cases) ==
  LET overall == report.b1["overall_accuracy"]
      wrong == report.b1_always_wrong \cup report.b1_sometimes_wrong
  IN  /\ report.b1_sometimes_wrong \cap report.unanimous = {}
      /\ cases \ report.unanimous \subseteq wrong
      /\ Same(overall.mean, One) = (wrong = {})
      /\ AtMost(overall.min, overall.mean) /\ AtMost(overall.mean, overall.max)
      /\ report.prooftrail_wrong = {} =>
           Same(report.prooftrail_minus_b1_mean["overall_accuracy"], Minus(One, overall.mean))
=============================================================================
