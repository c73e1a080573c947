------------------------------- MODULE Scoring -------------------------------
(***************************************************************************)
(* The lead score, services/scoring.py: five dimensions computed from the  *)
(* active signals of a company and the evidence behind them, their weighted*)
(* sum, and the factors that explain it.                                   *)
(*                                                                         *)
(* The code computes in floating point, with weights of one decimal and    *)
(* with confidences of any precision, which it rounds to four decimals     *)
(* where it detects a signal.  Here a weight is in tenths and a confidence *)
(* in units of 1 / (10000 Fine), for a Fine that makes those of a run      *)
(* whole numbers.  Every rounding of the code is made, with round() as in  *)
(* Python, to the even neighbour; only the representation error of a       *)
(* binary fraction is left out.  The signals come as a sequence, in the    *)
(* order in which the database returned the rows, and those left of it keep*)
(* their positions; the evidence of a signal is a set of at most one id.   *)
(***************************************************************************)
EXTENDS Integers, Sequences, FiniteSets, FiniteSetsExt

CONSTANT Fine    \* the precision of confidences: how many of their units a ten-thousandth has

ASSUME ScoringConstants == Fine \in Nat \ {0}

Certain == 10000 * Fine       \* the confidence 1.0
Percent(n) == 100 * Fine * n  \* a confidence given in hundredths

\* Contributions are tenths of a weight times a confidence: the whole scale, a point of a
\* score, a hundredth of a point, and the whole scale in such hundredths.
Full == 10 * Certain
Point == 1000 * Fine
Hundredth == 10 * Fine
FullImpact == 10000

SignalTypes == {"hiring", "expansion", "funding", "product_launch", "partnership",
                "leadership_change", "migration", "certification", "acquisition", "other"}

SignalBaseWeight ==
  [t \in SignalTypes |->
     CASE t = "acquisition" -> 8
       [] t \in {"funding", "product_launch"} -> 7
       [] t \in {"hiring", "expansion", "migration"} -> 6
       [] t = "partnership" -> 5
       [] t \in {"leadership_change", "certification"} -> 4
       [] OTHER -> 3]

IntentSignalTypes == {"hiring", "funding", "expansion", "product_launch", "migration", "acquisition"}
FitSignalTypes == {"hiring", "expansion", "funding", "acquisition"}

\* In hundredths of the score.
DimensionWeights ==
  [fit |-> 25, intent |-> 30, signal |-> 20, dataConfidence |-> 15, freshness |-> 10]

FreshnessThresholdsDays == <<<<30, 100>>, <<90, 70>>, <<180, 40>>, <<365, 20>>>>

NoEvidenceDataConfidence == <<40, 1>>

-----------------------------------------------------------------------------
(* Numbers.  Fractions are pairs in lowest terms. *)

Clamp(x, high) == IF x < 0 THEN 0 ELSE IF x > high THEN high ELSE x

\* round(n / d)
Round(n, d) ==
  LET q == n \div d  r == n % d
  IN IF 2 * r < d THEN q ELSE IF 2 * r > d THEN q + 1 ELSE q + (q % 2)

Fraction(n, d) ==
  LET e == CHOOSE e \in 1..d : (n * e) % d = 0 /\ \A k \in 1..e - 1 : (n * k) % d # 0
  IN <<(n * e) \div d, e>>

-----------------------------------------------------------------------------
(* The dimensions. *)

Active(signals) == Restrict(signals, {i \in DOMAIN signals : signals[i].status # "dismissed"})

FreshnessScore(days) ==
  LET met == {i \in DOMAIN FreshnessThresholdsDays : days <= FreshnessThresholdsDays[i][1]}
  IN IF met = {} THEN 10 ELSE FreshnessThresholdsDays[Min(met)][2]

Contribution(s) == SignalBaseWeight[s.type] * s.confidence

\* What all signals of the given types contribute.
SignalContributions(signals, types) ==
  SumFunction([i \in {j \in DOMAIN signals : signals[j].type \in types} |-> Contribution(signals[i])])

\* Mutant: the sum is not capped.
UncappedDimension(c) == Round(c, Point)

DimensionFromContributions(c) == Round(Clamp(c, Full), Point)

IntentScore(signals) ==
  IF \E i \in DOMAIN signals : signals[i].type \in IntentSignalTypes
  THEN DimensionFromContributions(SignalContributions(signals, IntentSignalTypes))
  ELSE 0

\* Mutant: the weight counts for what the confidence lacks.
InvertedFitScore(signals) ==
  LET fit == {i \in DOMAIN signals : signals[i].type \in FitSignalTypes}
  IN IF fit = {} THEN 50
     ELSE DimensionFromContributions(
            SumFunction([i \in fit |-> SignalBaseWeight[signals[i].type] * (Certain - signals[i].confidence)]))

\* Mutant: the first row of any type alone decides.
FirstFitScore(signals) ==
  LET fit == {i \in DOMAIN signals : signals[i].type \in FitSignalTypes}
  IN IF fit = {} THEN 50 ELSE DimensionFromContributions(Contribution(signals[Min(fit)]))

\* One entry per type, and of several signals of a type the last row gives it.
FitScore(signals) ==
  LET last == {i \in DOMAIN signals :
                 /\ signals[i].type \in FitSignalTypes
                 /\ \A j \in DOMAIN signals : signals[j].type = signals[i].type => j <= i}
  IN IF last = {} THEN 50
     ELSE DimensionFromContributions(SumFunction([i \in last |-> Contribution(signals[i])]))

\* The mean confidence of the signals' evidence, per signal and not per evidence.
DataConfidenceScore(signals, evidenceLookup) ==
  LET known == {i \in DOMAIN signals : signals[i].evidence \cap DOMAIN evidenceLookup # {}}
      total == SumFunction([i \in known |->
                 SumFunction([e \in signals[i].evidence |-> evidenceLookup[e]])])
  IN IF known = {} THEN NoEvidenceDataConfidence ELSE Fraction(total, Percent(Cardinality(known)))

\* Of the least detected_at, called the newest in the code: the greatest age.
Freshness(signals) == FreshnessScore(Max({signals[i].age : i \in DOMAIN signals}))

LeadScore(fit, intent, signal, dataConfidence, freshness) ==
  LET w == DimensionWeights
  IN Clamp(Round(dataConfidence[2] * (w.fit * fit + w.intent * intent + w.signal * signal
                                      + w.freshness * freshness)
                 + w.dataConfidence * dataConfidence[1],
                 100 * dataConfidence[2]),
           100)

-----------------------------------------------------------------------------
(* The explanation: per dimension one factor for each type that drove it, with its impact
   rounded to hundredths of a point and the evidence behind it. *)

SignalFactors(signals, dimension, types) ==
  {[name |-> <<dimension, t>>,
    impact |-> Round(Clamp(SignalContributions(signals, {t}), Full), Hundredth),
    evidence |-> UNION {signals[i].evidence : i \in {j \in DOMAIN signals : signals[j].type = t}}] :
   t \in types \cap {signals[i].type : i \in DOMAIN signals}}

NoEvidenceFactor == [name |-> <<"data_confidence", "no_evidence">>, impact |-> 4000, evidence |-> {}]

Factors(signals, evidenceLookup) ==
  SignalFactors(signals, "intent", IntentSignalTypes)
    \cup SignalFactors(signals, "fit", FitSignalTypes)
    \cup (IF DOMAIN evidenceLookup = {} THEN {NoEvidenceFactor} ELSE {})

NoSignalResult ==
  [score |-> 0, fit |-> 50, intent |-> 0, signal |-> 0,
   dataConfidence |-> NoEvidenceDataConfidence, freshness |-> 0, factors |-> {}]

ComputeScore(rows, evidenceLookup) ==
  LET s == Active(rows)
      fit == FitScore(s)
      intent == IntentScore(s)
      signal == DimensionFromContributions(SignalContributions(s, SignalTypes))
      confidence == DataConfidenceScore(s, evidenceLookup)
      freshness == Freshness(s)
  IN IF DOMAIN s = {} THEN NoSignalResult
     ELSE [score |-> LeadScore(fit, intent, signal, confidence, freshness),
           fit |-> fit, intent |-> intent, signal |-> signal,
           dataConfidence |-> confidence, freshness |-> freshness,
           factors |-> Factors(s, evidenceLookup)]
=============================================================================
