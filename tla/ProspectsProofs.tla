--------------------------- MODULE ProspectsProofs ---------------------------
(***************************************************************************)
(* Machine-checked proofs about Prospects, for any pages, evidence and     *)
(* signals entered by hand, rows of the tables, handlers and calls: what   *)
(* the rows and columns hold, then what a scoring computes.                *)
(***************************************************************************)
EXTENDS Prospects, Sums

Present == {e \in EvidenceIds : evidence[e] # None}

\* No more certain than the evidence, but for the rounding.
NoMoreCertain(s, row) == 2 * (s.confidence - row.confidence) <= Fine

\* What a detected signal must be by its evidence, whether it is stored or about to be.
Supported(s) ==
  s.auto =>
    \A e \in s.evidence :
      /\ s.company = evidence[e].company
      /\ NoMoreCertain(s, evidence[e])
      /\ \/ s.type = evidence[e].type
         \/ /\ s.type \in evidence[e].words
            /\ SuggestiveEvidenceToSignal(evidence[e].type) \in {{}, {s.type}}

\* The rows a query returned, or what is left of them: positions, and what is at each.
Listed(l) ==
  /\ DOMAIN l \in SUBSET Nat /\ IsFiniteSet(DOMAIN l)
  /\ \A i \in DOMAIN l : l[i] \in SignalRow /\ l[i].evidence \subseteq Present

EvidenceIsTyped ==
  /\ DOMAIN evidence = EvidenceIds
  /\ \A e \in Present : /\ evidence[e].company \in SUBSET Companies
                        /\ evidence[e].confidence \in 0..Certain
                        /\ evidence[e].age \in Nat
                        /\ evidence[e].source \in
                             {m.source : m \in Pages \cup ManualEvidence \cup ManualSignals}

SignalsAreTyped ==
  /\ signal \in [SignalIds -> SignalRow \cup {None}]
  /\ \A s \in Rows : signal[s].evidence \subseteq Present

\* What each handler has read where it is.
HandlersAreTyped ==
  /\ at \in [Handlers -> {"idle", "insert", "score", "assess", "qualify"}]
  /\ DOMAIN copy = Handlers /\ DOMAIN arg = Handlers /\ DOMAIN seen = Handlers
  /\ \A h \in Handlers :
       /\ IF at[h] \in {"score", "assess", "qualify"} THEN copy[h] \in LeadRow ELSE copy[h] = None
       /\ at[h] = "insert" => arg[h] \in SignalRow /\ arg[h].evidence \subseteq Present
       /\ at[h] = "qualify" => arg[h] \in Qualifications
       /\ at[h] = "assess" => Listed(seen[h])

LeadIsTyped ==
  /\ lead \in LeadRow
  /\ lead.qualification \in Qualifications
  /\ \A c \in ScoreColumns \ {"dataConfidence"} : lead[c] \in 0..100 \cup {None}
  /\ \A h \in Handlers : at[h] \in {"score", "assess", "qualify"} =>
       copy[h].qualification \in Qualifications

Shape == EvidenceIsTyped /\ SignalsAreTyped /\ HandlersAreTyped /\ LeadIsTyped

-----------------------------------------------------------------------------
(* The operators of the detection. *)

\* A set of numbers has a least one, and a finite one a greatest.
LEMMA LeastExists ==
  ASSUME NEW S \in SUBSET Nat, S # {}
  PROVE  Min(S) \in S /\ \A n \in S : Min(S) <= n
<1>. DEFINE Below == {n \in Nat : \A m \in S : n <= m}
<1>1. PICK n \in Below : n + 1 \notin Below
  <2>1. 0 \in Below
    OBVIOUS
  <2>2. Below # Nat
    <3>1. PICK m \in S : TRUE
      OBVIOUS
    <3>2. m + 1 \in Nat /\ m + 1 \notin Below
      OBVIOUS
    <3>. QED
      BY <3>2
  <2>3. Below \in SUBSET Nat
    OBVIOUS
  <2>. HIDE DEF Below
  <2>. QED
    BY <2>1, <2>2, <2>3, Counting
<1>2. n \in S /\ \A m \in S : n <= m
  BY <1>1
<1>. QED
  BY <1>2 DEF Min

LEMMA GreatestExists ==
  ASSUME NEW S \in SUBSET Nat, IsFiniteSet(S), S # {}
  PROVE  \E x \in S : \A n \in S : n <= x
<1>. DEFINE F == {T \in SUBSET S : T = {} \/ \E x \in T : \A n \in T : n <= x}
<1>1. ASSUME NEW T \in SUBSET S, NEW y \in S \ T, T \in F
      PROVE  T \cup {y} \in F
  <2>1. CASE T = {}
    BY <2>1
  <2>2. CASE T # {}
    <3>1. PICK x \in T : \A n \in T : n <= x
      BY <1>1, <2>2
    <3>2. CASE x <= y
      <4>1. \A n \in T \cup {y} : n <= y
        BY <3>1, <3>2
      <4>. QED
        BY <4>1
    <3>3. CASE ~(x <= y)
      <4>1. \A n \in T \cup {y} : n <= x
        BY <3>1, <3>3
      <4>. QED
        BY <4>1
    <3>. QED
      BY <3>2, <3>3
  <2>. QED
    BY <2>1, <2>2
<1>2. S \in F
  <2>1. {} \in F
    OBVIOUS
  <2>. HIDE DEF F
  <2>. QED
    BY <1>1, <2>1, AddingElements
<1>. QED
  BY <1>2

\* The lesser of two confidences is one of them.
LEMMA LesserOfTwo ==
  ASSUME NEW x \in Nat, NEW y \in Nat
  PROVE  Min({x, y}) \in {x, y} /\ Min({x, y}) <= x /\ Min({x, y}) <= y
<1>1. {x, y} \in SUBSET Nat /\ {x, y} # {}
  OBVIOUS
<1>. QED
  BY <1>1, LeastExists

\* A detection names a type the kind of page stands for, or one its words name.
LEMMA DetectionType ==
  ASSUME NEW words, NEW type, NEW d \in DetectSignalType(words, type)
  PROVE  /\ d[1] \in SignalTypes /\ d[2] \in 0..100
         /\ \/ d[1] = type
            \/ d[1] \in words /\ SuggestiveEvidenceToSignal(type) \in {{}, {d[1]}}
<1>. DEFINE scanned == {i \in DOMAIN BroadScanOrder : BroadScanOrder[i] \in words}
<1>1. CASE type \in DirectEvidence
  BY <1>1 DEF DetectSignalType, DirectEvidence, SignalTypes
<1>2. CASE type \notin DirectEvidence /\ SuggestiveEvidenceToSignal(type) # {}
  <2>1. PICK t \in SuggestiveEvidenceToSignal(type) \cap words : d = <<t, 75>>
    BY <1>2 DEF DetectSignalType
  <2>2. SuggestiveEvidenceToSignal(type) = {t} /\ t \in SignalTypes
    BY <2>1 DEF SuggestiveEvidenceToSignal, SignalTypes
  <2>. QED
    BY <2>1, <2>2
<1>3. CASE type \notin DirectEvidence /\ SuggestiveEvidenceToSignal(type) = {}
  <2>1. scanned # {} /\ d = <<BroadScanOrder[Min(scanned)], 60>>
    BY <1>3 DEF DetectSignalType
  <2>2. DOMAIN BroadScanOrder = 1..9
    BY DEF BroadScanOrder
  <2>3. Min(scanned) \in scanned
    BY <2>1, <2>2, LeastExists
  <2>4. \A i \in 1..9 : BroadScanOrder[i] \in SignalTypes
    BY DEF BroadScanOrder, SignalTypes
  <2>. QED
    BY <1>3, <2>1, <2>2, <2>3, <2>4
<1>. QED
  BY <1>1, <1>2, <1>3

-----------------------------------------------------------------------------
(* The numbers. *)

\* The units are whole numbers, and multiples of each other.
LEMMA Units ==
  /\ Fine \in Nat /\ Fine > 0 /\ Certain \in Nat /\ Certain = 10000 * Fine
  /\ Full \in Nat /\ Point \in Nat /\ Hundredth \in Nat /\ Hundredth > 0
  /\ Point = 100 * Hundredth /\ Full = 100 * Point
  /\ FullImpact \in Nat /\ Full = FullImpact * Hundredth
BY ScoringConstants DEF Certain, Full, Point, Hundredth, FullImpact

LEMMA RoundType ==
  ASSUME NEW n \in Int, NEW d \in Int, d > 0
  PROVE  Round(n, d) \in Int
BY DEF Round

\* Rounding to the even neighbour keeps the order.
LEMMA RoundMonotone ==
  ASSUME NEW n \in Int, NEW m \in Int, NEW d \in Int, d > 0, n <= m
  PROVE  Round(n, d) <= Round(m, d)
<1>. DEFINE q == n \div d  r == n % d  p == m \div d  s == m % d
<1>1. /\ q \in Int /\ p \in Int /\ r \in Int /\ s \in Int
      /\ 0 <= r /\ r < d /\ 0 <= s /\ s < d
      /\ n = d * q + r /\ m = d * p + s
  OBVIOUS
<1>2. q <= p
  OBVIOUS
<1>3. Round(n, d) \in {q, q + 1} /\ Round(m, d) \in {p, p + 1}
  BY DEF Round
<1>4. CASE q < p
  BY <1>1, <1>3, <1>4
<1>5. CASE q = p
  <2>1. r <= s
    BY <1>1, <1>5
  <2>. HIDE DEF q, r, p, s
  <2>2. /\ Round(n, d) = IF 2 * r < d THEN q ELSE IF 2 * r > d THEN q + 1 ELSE q + (q % 2)
        /\ Round(m, d) = IF 2 * s < d THEN p ELSE IF 2 * s > d THEN p + 1 ELSE p + (p % 2)
    BY DEF Round, q, r, p, s
  <2>. QED
    BY <1>1, <1>5, <2>1, <2>2
<1>. QED
  BY <1>1, <1>2, <1>4, <1>5

\* What is left of a multiple, and that a common factor may be divided out.
LEMMA RoundOfMultiple ==
  ASSUME NEW k \in Int, NEW d \in Int, d > 0
  PROVE  Round(k * d, d) = k
<1>1. (k * d) \div d = k /\ (k * d) % d = 0
  OBVIOUS
<1>. QED
  BY <1>1 DEF Round

LEMMA Cancel ==
  ASSUME NEW d \in Int, d > 0, NEW x \in Int, NEW y \in Int, d * x <= d * y
  PROVE  x <= y
OBVIOUS

\* Rounding errs by half a unit at most.
LEMMA RoundError ==
  ASSUME NEW n \in Int, NEW d \in Int, d > 0
  PROVE  2 * (d * Round(n, d) - n) \in -d..d
<1>. DEFINE q == n \div d  r == n % d
<1>1. q \in Int /\ r \in Int /\ 0 <= r /\ r < d /\ n = d * q + r /\ q % 2 \in {0, 1}
  OBVIOUS
<1>. HIDE DEF q, r
<1>2. Round(n, d) = IF 2 * r < d THEN q ELSE IF 2 * r > d THEN q + 1 ELSE q + (q % 2)
  BY DEF Round, q, r
<1>3. d * (q + 1) = d * q + d /\ d * q \in Int
  BY <1>1
<1>4. CASE Round(n, d) = q /\ 2 * r <= d
  BY <1>1, <1>3, <1>4
<1>5. CASE Round(n, d) = q + 1 /\ 2 * r >= d
  BY <1>1, <1>3, <1>5
<1>. QED
  BY <1>1, <1>2, <1>4, <1>5

\* A number between two multiples is rounded to one between them.
LEMMA RoundBounded ==
  ASSUME NEW k \in Nat, NEW d \in Int, d > 0, NEW n \in Int, 0 <= n, n <= k * d
  PROVE  Round(n, d) \in 0..k
<1>1. Round(0 * d, d) = 0 /\ Round(k * d, d) = k
  BY RoundOfMultiple
<1>2. 0 * d = 0 /\ k * d \in Int
  OBVIOUS
<1>3. Round(0, d) <= Round(n, d) /\ Round(n, d) <= Round(k * d, d) /\ Round(n, d) \in Int
  BY <1>2, RoundMonotone, RoundType
<1>. QED
  BY <1>1, <1>2, <1>3

\* So a confidence that is rounded to four decimals stays one, and off by half of the last.
LEMMA DetectedConfidenceType ==
  ASSUME NEW known \in 0..Certain, NEW base \in 0..100
  PROVE  /\ DetectedConfidence(known, base) \in 0..Certain
         /\ 2 * (DetectedConfidence(known, base) - known) <= Fine
<1>. DEFINE m == Min({known, Percent(base)})
            c == Round(m, Fine)
<1>1. known \in Nat /\ Percent(base) \in Nat /\ Fine \in Int /\ Fine > 0
  BY Units DEF Percent
<1>2. m \in Int /\ 0 <= m /\ m <= known
  BY <1>1, LesserOfTwo
<1>3. m <= 10000 * Fine
  BY <1>1, <1>2, Units
<1>. HIDE DEF m
<1>4. c \in 0..10000 /\ 2 * (Fine * c - m) \in -Fine..Fine
  <2>. DEFINE k == 10000
  <2>1. k \in Nat /\ m <= k * Fine
    BY <1>3
  <2>. HIDE DEF k
  <2>2. Round(m, Fine) \in 0..k
    BY <1>1, <1>2, <2>1, RoundBounded
  <2>3. 2 * (Fine * Round(m, Fine) - m) \in -Fine..Fine
    BY <1>1, <1>2, RoundError
  <2>. QED
    BY <2>2, <2>3 DEF k
<1>5. DetectedConfidence(known, base) = Fine * c
  BY DEF DetectedConfidence, m
<1>. HIDE DEF c
<1>6. Fine * c \in Int /\ 0 <= Fine * c /\ Fine * c <= 10000 * Fine
  BY <1>1, <1>4
<1>. QED
  BY <1>1, <1>2, <1>4, <1>5, <1>6, Units

\* A detected signal is a row, and supported.
LEMMA DetectedType ==
  ASSUME EvidenceIsTyped, NEW e \in Present, NEW s \in Detected(e)
  PROVE  s \in SignalRow /\ s.evidence \subseteq Present /\ Supported(s)
<1>1. PICK d \in DetectSignalType(evidence[e].words, evidence[e].type) :
        s = [type |-> d[1], company |-> evidence[e].company, source |-> evidence[e].source,
             confidence |-> DetectedConfidence(evidence[e].confidence, d[2]), status |-> "new", evidence |-> {e},
             age |-> evidence[e].age, auto |-> TRUE, deleted |-> FALSE]
  BY DEF Detected
<1>2. /\ d[1] \in SignalTypes /\ d[2] \in 0..100
      /\ \/ d[1] = evidence[e].type
         \/ /\ d[1] \in evidence[e].words
            /\ SuggestiveEvidenceToSignal(evidence[e].type) \in {{}, {d[1]}}
  BY DetectionType
<1>3. evidence[e].confidence \in 0..Certain /\ evidence[e].company \in SUBSET Companies
  BY DEF EvidenceIsTyped
<1>4. /\ DetectedConfidence(evidence[e].confidence, d[2]) \in 0..Certain
      /\ 2 * (DetectedConfidence(evidence[e].confidence, d[2]) - evidence[e].confidence) <= Fine
  BY <1>2, <1>3, DetectedConfidenceType
<1>5. {e} \in AtMostOne(EvidenceIds)
  BY DEF AtMostOne, Present
<1>6. /\ evidence[e].age \in Nat
      /\ evidence[e].source \in {m.source : m \in Pages \cup ManualEvidence \cup ManualSignals}
  BY DEF EvidenceIsTyped
<1>. QED
  BY <1>1, <1>2, <1>3, <1>4, <1>5, <1>6 DEF SignalRow, SignalStatuses, Supported, NoMoreCertain

-----------------------------------------------------------------------------
(* The numbers of a scoring. *)

LEMMA ClampType ==
  ASSUME NEW x \in Int, NEW high \in Nat
  PROVE  Clamp(x, high) \in 0..high
BY DEF Clamp

LEMMA ClampMonotone ==
  ASSUME NEW x \in Int, NEW y \in Int, x <= y, NEW high \in Nat
  PROVE  Clamp(x, high) <= Clamp(y, high)
BY DEF Clamp

LEMMA DimensionType ==
  ASSUME NEW c \in Int
  PROVE  DimensionFromContributions(c) \in 0..100
<1>1. Clamp(c, Full) \in Int /\ 0 <= Clamp(c, Full) /\ Clamp(c, Full) <= 100 * Point
  BY Units, ClampType
<1>2. Point \in Int /\ Point > 0
  BY Units
<1>. QED
  BY <1>1, <1>2, RoundBounded DEF DimensionFromContributions

LEMMA HundredthsOf ==
  ASSUME NEW x \in 0..Full
  PROVE  /\ Round(x, Hundredth) \in 0..FullImpact
         /\ 2 * (Hundredth * Round(x, Hundredth) - x) \in -Hundredth..Hundredth
<1>1. /\ x \in Int /\ 0 <= x /\ x <= FullImpact * Hundredth /\ FullImpact \in Nat
      /\ Hundredth \in Int /\ Hundredth > 0
  BY Units
<1>2. Round(x, Hundredth) \in 0..FullImpact
  BY <1>1, RoundBounded
<1>3. 2 * (Hundredth * Round(x, Hundredth) - x) \in -Hundredth..Hundredth
  BY <1>1, RoundError
<1>. QED
  BY <1>2, <1>3

LEMMA DimensionMonotone ==
  ASSUME NEW c \in Int, NEW d \in Int, c <= d
  PROVE  DimensionFromContributions(c) <= DimensionFromContributions(d)
<1>1. Clamp(c, Full) \in Int /\ Clamp(d, Full) \in Int /\ Clamp(c, Full) <= Clamp(d, Full)
  BY Units, ClampType, ClampMonotone
<1>2. Point \in Int /\ Point > 0
  BY Units
<1>. QED
  BY <1>1, <1>2, RoundMonotone DEF DimensionFromContributions

\* A fraction in lowest terms exists and has a positive denominator.
LEMMA FractionType ==
  ASSUME NEW n \in Int, NEW d \in Nat, d > 0
  PROVE  Fraction(n, d) \in Int \X Int /\ Fraction(n, d)[2] > 0
<1>. DEFINE Whole == {e \in 1..d : (n * e) % d = 0}
            e == CHOOSE e \in 1..d : (n * e) % d = 0 /\ \A k \in 1..e - 1 : (n * k) % d # 0
<1>1. Whole \in SUBSET Nat /\ d \in Whole
  <2>1. (n * d) % d = 0
    OBVIOUS
  <2>. QED
    BY <2>1
<1>2. Min(Whole) \in Whole /\ \A k \in Whole : Min(Whole) <= k
  <2>. HIDE DEF Whole
  <2>. QED
    BY <1>1, LeastExists
<1>3. \E x \in 1..d : (n * x) % d = 0 /\ \A k \in 1..x - 1 : (n * k) % d # 0
  <2>. DEFINE x == Min(Whole)
  <2>1. x \in 1..d /\ (n * x) % d = 0
    BY <1>2
  <2>. HIDE DEF x
  <2>2. ASSUME NEW k \in 1..x - 1, (n * k) % d = 0
        PROVE  FALSE
    <3>1. k \in 1..d /\ ~(x <= k)
      BY <2>1
    <3>2. k \in Whole
      BY <2>2, <3>1
    <3>. HIDE DEF Whole
    <3>. QED
      BY <1>2, <3>1, <3>2 DEF x
  <2>. QED
    BY <2>1, <2>2
<1>4. e \in 1..d
  BY <1>3
<1>5. Fraction(n, d) = <<(n * e) \div d, e>>
  BY DEF Fraction
<1>. HIDE DEF e
<1>6. (n * e) \div d \in Int
  BY <1>4
<1>. QED
  BY <1>4, <1>5, <1>6

LEMMA FreshnessType == ASSUME NEW days PROVE FreshnessScore(days) \in 0..100
<1>. DEFINE met == {i \in DOMAIN FreshnessThresholdsDays : days <= FreshnessThresholdsDays[i][1]}
<1>1. DOMAIN FreshnessThresholdsDays = 1..4
  BY DEF FreshnessThresholdsDays
<1>2. \A i \in 1..4 : FreshnessThresholdsDays[i][2] \in 0..100
  BY DEF FreshnessThresholdsDays
<1>3. met # {} => Min(met) \in 1..4
  BY <1>1, LeastExists
<1>. HIDE DEF met
<1>4. FreshnessScore(days) = IF met = {} THEN 10 ELSE FreshnessThresholdsDays[Min(met)][2]
  BY DEF FreshnessScore, met
<1>. QED
  BY <1>2, <1>3, <1>4

LEMMA LeadScoreType ==
  ASSUME NEW f \in Int, NEW i \in Int, NEW s \in Int, NEW dc \in Int \X Int, dc[2] > 0, NEW r \in Int
  PROVE  LeadScore(f, i, s, dc, r) \in 0..100
<1>1. Round(dc[2] * (25 * f + 30 * i + 20 * s + 10 * r) + 15 * dc[1], 100 * dc[2]) \in Int
  BY RoundType
<1>2. LeadScore(f, i, s, dc, r)
        = Clamp(Round(dc[2] * (25 * f + 30 * i + 20 * s + 10 * r) + 15 * dc[1], 100 * dc[2]), 100)
  BY DEF LeadScore, DimensionWeights
<1>. QED
  BY <1>1, <1>2, ClampType

\* The score grows with each of its dimensions.
LEMMA LeadScoreMonotone ==
  ASSUME NEW f \in Int, NEW i \in Int, NEW s \in Int, NEW dc \in Int \X Int, dc[2] > 0, NEW r \in Int,
         NEW g \in Int, NEW j \in Int, NEW t \in Int, f <= g, i <= j, s <= t
  PROVE  LeadScore(f, i, s, dc, r) <= LeadScore(g, j, t, dc, r)
<1>. DEFINE N(x, y, z) == dc[2] * (25 * x + 30 * y + 20 * z + 10 * r) + 15 * dc[1]
<1>1. N(f, i, s) \in Int /\ N(g, j, t) \in Int /\ 100 * dc[2] \in Int /\ 100 * dc[2] > 0
  OBVIOUS
<1>2. N(f, i, s) <= N(g, j, t)
  <2>1. 25 * f + 30 * i + 20 * s + 10 * r <= 25 * g + 30 * j + 20 * t + 10 * r
    OBVIOUS
  <2>2. \A k, x, y \in Int : k > 0 /\ x <= y => k * x <= k * y
    OBVIOUS
  <2>3. dc[2] * (25 * f + 30 * i + 20 * s + 10 * r) <= dc[2] * (25 * g + 30 * j + 20 * t + 10 * r)
    BY <2>1, <2>2
  <2>. QED
    BY <2>3
<1>3. /\ LeadScore(f, i, s, dc, r) = Clamp(Round(N(f, i, s), 100 * dc[2]), 100)
      /\ LeadScore(g, j, t, dc, r) = Clamp(Round(N(g, j, t), 100 * dc[2]), 100)
  BY DEF LeadScore, DimensionWeights
<1>. DEFINE d == 100 * dc[2]
<1>. HIDE DEF N, d
<1>4. /\ Round(N(f, i, s), d) \in Int /\ Round(N(g, j, t), d) \in Int
      /\ Round(N(f, i, s), d) <= Round(N(g, j, t), d)
  BY <1>1, <1>2, RoundType, RoundMonotone DEF d
<1>. QED
  BY <1>3, <1>4, ClampMonotone DEF d

-----------------------------------------------------------------------------
(* What a scoring gives. *)

\* What each signal of a listing contributes, and the positions FitScore counts.
Terms(l) == [i \in DOMAIN l |-> Contribution(l[i])]
OfTypes(l, types) == {i \in DOMAIN l : l[i].type \in types}
Last(l) == {i \in OfTypes(l, FitSignalTypes) : \A j \in DOMAIN l : l[j].type = l[i].type => j <= i}

LEMMA SumOfFunction == ASSUME NEW f PROVE SumFunction(f) = SumFunctionOnSet(f, DOMAIN f)
BY DEF SumFunction, SumFunctionOnSet, FoldFunction

LEMMA ContributionType ==
  ASSUME NEW s \in SignalRow
  PROVE  Contribution(s) \in Nat /\ SignalBaseWeight[s.type] \in Nat
<1>1. \A t \in SignalTypes : SignalBaseWeight[t] \in {3, 4, 5, 6, 7, 8}
  BY DEF SignalBaseWeight
<1>2. s.type \in SignalTypes /\ s.confidence \in 0..Certain
  BY DEF SignalRow
<1>3. SignalBaseWeight[s.type] \in Nat /\ s.confidence \in Nat
  BY <1>1, <1>2, Units
<1>. QED
  BY <1>3 DEF Contribution

LEMMA TermsType ==
  ASSUME NEW l, Listed(l)
  PROVE  /\ \A i \in DOMAIN l : Terms(l)[i] \in Nat /\ Terms(l)[i] = Contribution(l[i])
         /\ \A D \in SUBSET DOMAIN l :
              IsFiniteSet(D) /\ SumFunctionOnSet(Terms(l), D) \in Nat
<1>1. \A i \in DOMAIN l : Terms(l)[i] \in Nat /\ Terms(l)[i] = Contribution(l[i])
  BY ContributionType DEF Terms, Listed
<1>2. \A D \in SUBSET DOMAIN l : IsFiniteSet(D)
  BY FS_Subset DEF Listed
<1>3. \A D \in SUBSET DOMAIN l : SumFunctionOnSet(Terms(l), D) \in Nat
  BY <1>1, <1>2, SumNatural
<1>. QED
  BY <1>1, <1>2, <1>3

\* A sum over some positions, by whichever function it is written.
LEMMA SumOfTerms ==
  ASSUME NEW l, Listed(l), NEW D \in SUBSET DOMAIN l
  PROVE  SumFunction([i \in D |-> Contribution(l[i])]) = SumFunctionOnSet(Terms(l), D)
<1>. DEFINE f == [i \in D |-> Contribution(l[i])]
<1>1. IsFiniteSet(D) /\ \A i \in D : f[i] \in Int /\ f[i] = Terms(l)[i]
  BY TermsType
<1>2. DOMAIN f = D
  OBVIOUS
<1>. HIDE DEF f
<1>3. SumFunctionOnSet(f, D) = SumFunctionOnSet(Terms(l), D)
  BY <1>1, SumSame
<1>4. SumFunction(f) = SumFunctionOnSet(f, D)
  BY <1>2, SumOfFunction
<1>. QED
  BY <1>3, <1>4 DEF f

LEMMA ContributionsAreSums ==
  ASSUME NEW l, Listed(l), NEW types
  PROVE  /\ SignalContributions(l, types) = SumFunctionOnSet(Terms(l), OfTypes(l, types))
         /\ SignalContributions(l, types) \in Nat
<1>1. OfTypes(l, types) \in SUBSET DOMAIN l
  BY DEF OfTypes
<1>2. SignalContributions(l, types) = SumFunction([i \in OfTypes(l, types) |-> Contribution(l[i])])
  BY DEF SignalContributions, OfTypes
<1>. QED
  BY <1>1, <1>2, SumOfTerms, TermsType

LEMMA FitScoreIsSum ==
  ASSUME NEW l, Listed(l)
  PROVE  FitScore(l) = IF Last(l) = {} THEN 50
                       ELSE DimensionFromContributions(SumFunctionOnSet(Terms(l), Last(l)))
<1>1. Last(l) \in SUBSET DOMAIN l
  BY DEF Last, OfTypes
<1>2. Last(l) = {i \in DOMAIN l :
                   /\ l[i].type \in FitSignalTypes
                   /\ \A j \in DOMAIN l : l[j].type = l[i].type => j <= i}
  BY DEF Last, OfTypes
<1>3. SumFunction([i \in Last(l) |-> Contribution(l[i])]) = SumFunctionOnSet(Terms(l), Last(l))
  BY <1>1, SumOfTerms
<1>. QED
  BY <1>2, <1>3 DEF FitScore

LEMMA FitScoreType == ASSUME NEW l, Listed(l) PROVE FitScore(l) \in 0..100
<1>1. SumFunctionOnSet(Terms(l), Last(l)) \in Int
  BY TermsType DEF Last, OfTypes
<1>. QED
  BY <1>1, FitScoreIsSum, DimensionType

LEMMA IntentScoreType == ASSUME NEW l, Listed(l) PROVE IntentScore(l) \in 0..100
<1>1. SignalContributions(l, IntentSignalTypes) \in Int
  BY ContributionsAreSums
<1>. QED
  BY <1>1, DimensionType DEF IntentScore

LEMMA ActiveListed ==
  ASSUME NEW l, Listed(l)
  PROVE  /\ Listed(Active(l)) /\ DOMAIN Active(l) \subseteq DOMAIN l
         /\ \A i \in DOMAIN Active(l) : Active(l)[i] = l[i]
<1>1. Active(l) = [i \in {j \in DOMAIN l : l[j].status # "dismissed"} |-> l[i]]
  BY DEF Active, Restrict
<1>. QED
  BY <1>1, FS_Subset DEF Listed

\* The lookup knows the evidence of all the rows.
LEMMA LookupType ==
  ASSUME EvidenceIsTyped, NEW l, Listed(l)
  PROVE  \A i \in DOMAIN l : \A e \in l[i].evidence :
           e \in DOMAIN EvidenceLookup(l) /\ EvidenceLookup(l)[e] \in 0..Certain
BY DEF EvidenceLookup, EvidenceIsTyped, Listed

LEMMA DataConfidenceType ==
  ASSUME IsFiniteSet(EvidenceIds), NEW l, Listed(l), NEW lookup,
         \A i \in DOMAIN l : \A e \in l[i].evidence : lookup[e] \in Int
  PROVE  /\ DataConfidenceScore(l, lookup) \in Int \X Int
         /\ DataConfidenceScore(l, lookup)[2] > 0
<1>. DEFINE known == {i \in DOMAIN l : l[i].evidence \cap DOMAIN lookup # {}}
            parts == [i \in known |-> SumFunction([e \in l[i].evidence |-> lookup[e]])]
<1>1. known \in SUBSET DOMAIN l
  OBVIOUS
<1>2. ASSUME NEW i \in DOMAIN l
      PROVE  SumFunction([e \in l[i].evidence |-> lookup[e]]) \in Int
  <2>. DEFINE E == l[i].evidence
              f == [e \in E |-> lookup[e]]
  <2>1. IsFiniteSet(E)
    BY FS_Subset DEF Listed, Present
  <2>2. DOMAIN f = E /\ \A e \in E : f[e] \in Int
    OBVIOUS
  <2>. HIDE DEF f, E
  <2>3. SumFunctionOnSet(f, E) \in Int
    BY <2>1, <2>2, SumType
  <2>4. SumFunction(f) \in Int
    BY <2>2, <2>3, SumOfFunction
  <2>. QED
    BY <2>4 DEF f, E
<1>3. IsFiniteSet(known)
  BY <1>1, FS_Subset DEF Listed
<1>4. DOMAIN parts = known /\ \A i \in known : parts[i] \in Int
  BY <1>2
<1>5. DataConfidenceScore(l, lookup)
        = IF known = {} THEN <<40, 1>> ELSE Fraction(SumFunction(parts), Percent(Cardinality(known)))
  BY DEF DataConfidenceScore, NoEvidenceDataConfidence
<1>. HIDE DEF known, parts
<1>6. SumFunction(parts) \in Int
  BY <1>3, <1>4, SumType, SumOfFunction
<1>7. Cardinality(known) \in Nat /\ (known # {} => Cardinality(known) > 0)
  BY <1>3, FS_CardinalityType, FS_EmptySet
<1>8. CASE known = {}
  BY <1>5, <1>8
<1>9. CASE known # {}
  <2>1. Percent(Cardinality(known)) \in Nat /\ Percent(Cardinality(known)) > 0
    <3>. DEFINE n == Cardinality(known)
    <3>1. n \in Nat /\ n > 0 /\ Fine \in Nat /\ Fine > 0
      BY <1>7, <1>9, Units
    <3>. HIDE DEF n
    <3>2. Fine * n \in Nat /\ Fine * n > 0
      BY <3>1
    <3>3. Percent(n) = 100 * (Fine * n)
      BY <3>1 DEF Percent
    <3>. QED
      BY <3>2, <3>3 DEF n
  <2>. QED
    BY <1>5, <1>6, <1>9, <2>1, FractionType
<1>. QED
  BY <1>8, <1>9

\* The factor of one type of one dimension.
FactorOf(l, d, t) ==
  [name |-> <<d, t>>, impact |-> Round(Clamp(SignalContributions(l, {t}), Full), Hundredth),
   evidence |-> UNION {l[i].evidence : i \in {j \in DOMAIN l : l[j].type = t}}]

LEMMA FactorsByType ==
  \A l, d, types :
    SignalFactors(l, d, types) = {FactorOf(l, d, t) : t \in types \cap {l[i].type : i \in DOMAIN l}}
BY Zenon DEF SignalFactors, FactorOf

LEMMA FactorsType ==
  ASSUME NEW l, Listed(l), NEW lookup
  PROVE  /\ Factors(l, lookup) \subseteq Factor
         /\ \A f \in Factors(l, lookup) : f.evidence \subseteq Present
<1>1. ASSUME NEW d \in {"intent", "fit"}, NEW types \in SUBSET SignalTypes,
             NEW f \in SignalFactors(l, d, types)
      PROVE  f \in Factor /\ f.evidence \subseteq Present
  <2>1. PICK t \in types : f = FactorOf(l, d, t)
    BY FactorsByType
  <2>2. SignalContributions(l, {t}) \in Nat
    BY ContributionsAreSums
  <2>3. Round(Clamp(SignalContributions(l, {t}), Full), Hundredth) \in 0..FullImpact
    <3>. DEFINE c == SignalContributions(l, {t})
    <3>1. c \in Int /\ Full \in Nat
      BY <2>2, Units
    <3>. HIDE DEF c
    <3>2. Clamp(c, Full) \in 0..Full
      BY <3>1, ClampType
    <3>3. Round(Clamp(c, Full), Hundredth) \in 0..FullImpact
      BY <3>2, HundredthsOf
    <3>. QED
      BY <3>3 DEF c
  <2>4. UNION {l[i].evidence : i \in {j \in DOMAIN l : l[j].type = t}} \subseteq Present
    BY DEF Listed
  <2>. QED
    BY <2>1, <2>3, <2>4 DEF FactorOf, Factor, Present
<1>2. IntentSignalTypes \in SUBSET SignalTypes /\ FitSignalTypes \in SUBSET SignalTypes
  BY DEF IntentSignalTypes, FitSignalTypes, SignalTypes
<1>3. NoEvidenceFactor \in Factor /\ NoEvidenceFactor.evidence \subseteq Present
  BY DEF NoEvidenceFactor, Factor, FullImpact
<1>. QED
  BY <1>1, <1>2, <1>3 DEF Factors

\* A scoring of rows with their evidence is a result.
LEMMA ResultType ==
  ASSUME ProspectsConstants, EvidenceIsTyped, NEW l, Listed(l)
  PROVE  /\ Result(l) \in ScoreResult
         /\ \A f \in Result(l).factors : f.evidence \subseteq Present
<1>. DEFINE s == Active(l)
            lookup == EvidenceLookup(l)
            fit == FitScore(s)
            intent == IntentScore(s)
            strength == DimensionFromContributions(SignalContributions(s, SignalTypes))
            confidence == DataConfidenceScore(s, lookup)
            freshness == Freshness(s)
<1>1. Listed(s) /\ \A i \in DOMAIN s : \A e \in s[i].evidence : lookup[e] \in Int
  BY ActiveListed, LookupType
<1>2. Result(l) = IF DOMAIN s = {} THEN NoSignalResult
                  ELSE [score |-> LeadScore(fit, intent, strength, confidence, freshness),
                        fit |-> fit, intent |-> intent, signal |-> strength,
                        dataConfidence |-> confidence, freshness |-> freshness,
                        factors |-> Factors(s, lookup)]
  BY DEF Result, ComputeScore
<1>3. NoSignalResult \in ScoreResult /\ NoSignalResult.factors = {}
  BY DEF NoSignalResult, NoEvidenceDataConfidence, ScoreResult
<1>4. SignalContributions(s, SignalTypes) \in Int
  BY <1>1, ContributionsAreSums
<1>5. fit \in 0..100 /\ intent \in 0..100 /\ strength \in 0..100 /\ freshness \in 0..100
  BY <1>1, <1>4, FitScoreType, IntentScoreType, DimensionType, FreshnessType DEF Freshness
<1>6. confidence \in Int \X Int /\ confidence[2] > 0
  BY <1>1, DataConfidenceType DEF ProspectsConstants
<1>7. Factors(s, lookup) \subseteq Factor /\ \A f \in Factors(s, lookup) : f.evidence \subseteq Present
  BY <1>1, FactorsType
<1>. HIDE DEF s, lookup, fit, intent, strength, confidence, freshness
<1>8. LeadScore(fit, intent, strength, confidence, freshness) \in 0..100
  <2>1. fit \in Int /\ intent \in Int /\ strength \in Int /\ freshness \in Int
    BY <1>5
  <2>. QED
    BY <1>6, <2>1, LeadScoreType
<1>. QED
  BY <1>2, <1>3, <1>5, <1>6, <1>7, <1>8 DEF ScoreResult

-----------------------------------------------------------------------------
(* What an explanation adds up to. *)

\* The factors of one dimension, what they sum up to, and what rounding may change.
Of(factors, d) == {f \in factors : f.name[1] = d}
Impact(factors, d) == Min({FullImpact, SumFunction([f \in Of(factors, d) |-> f.impact])})
Rounding(factors, d) == 100 + Cardinality(Of(factors, d))

AddsUp(r) ==
  /\ 2 * (100 * r.intent - Impact(r.factors, "intent"))
       \in -Rounding(r.factors, "intent")..Rounding(r.factors, "intent")
  /\ \/ 2 * (100 * r.fit - Impact(r.factors, "fit")) <= Rounding(r.factors, "fit")
     \/ r.fit = 50 /\ Of(r.factors, "fit") = {}

\* Fewer terms that are not negative.
LEMMA SumOfFewer ==
  ASSUME NEW S, IsFiniteSet(S), NEW T \in SUBSET S, NEW g, \A x \in S : g[x] \in Nat
  PROVE  SumFunctionOnSet(g, T) <= SumFunctionOnSet(g, S)
<1>. DEFINE F == {D \in SUBSET (S \ T) : SumFunctionOnSet(g, T) <= SumFunctionOnSet(g, T \cup D)}
<1>1. \A D \in SUBSET S : IsFiniteSet(D) /\ SumFunctionOnSet(g, D) \in Nat
  <2>1. \A D \in SUBSET S : IsFiniteSet(D) /\ \A x \in D : g[x] \in Nat
    BY FS_Subset
  <2>. QED
    BY <2>1, SumNatural
<1>2. {} \in F
  BY <1>1
<1>3. ASSUME NEW D \in SUBSET (S \ T), NEW x \in (S \ T) \ D, D \in F
      PROVE  D \cup {x} \in F
  <2>. DEFINE U == T \cup D
  <2>1. IsFiniteSet(U) /\ x \notin U /\ \A y \in U \cup {x} : g[y] \in Int
    BY <1>1
  <2>2. T \cup (D \cup {x}) = U \cup {x} /\ U \in SUBSET S
    OBVIOUS
  <2>. HIDE DEF U
  <2>3. SumFunctionOnSet(g, U \cup {x}) = g[x] + SumFunctionOnSet(g, U)
    BY <2>1, SumAdds
  <2>4. SumFunctionOnSet(g, T) <= SumFunctionOnSet(g, U)
    BY <1>3 DEF U
  <2>5. SumFunctionOnSet(g, T) <= SumFunctionOnSet(g, U \cup {x})
    BY <1>1, <2>2, <2>3, <2>4, g[x] \in Nat
  <2>. QED
    BY <2>2, <2>5
<1>4. S \ T \in F
  <2>1. IsFiniteSet(S \ T)
    BY <1>1
  <2>. HIDE DEF F
  <2>. QED
    BY <1>2, <1>3, <2>1, AddingElements
<1>. QED
  BY <1>4, T \cup (S \ T) = S

LEMMA FiveAreFinite == \A a, b, c, d, e : IsFiniteSet({a, b, c, d, e})
<1>. SUFFICES ASSUME NEW a, NEW b, NEW c, NEW d, NEW e PROVE IsFiniteSet({a, b, c, d, e})
  OBVIOUS
<1>1. IsFiniteSet({a})
  BY FS_Singleton
<1>2. IsFiniteSet({a} \cup {b})
  BY <1>1, FS_AddElement
<1>3. IsFiniteSet({a, b} \cup {c})
  BY <1>2, FS_AddElement, {a} \cup {b} = {a, b}
<1>4. IsFiniteSet({a, b, c} \cup {d})
  BY <1>3, FS_AddElement, {a, b} \cup {c} = {a, b, c}
<1>5. IsFiniteSet({a, b, c, d} \cup {e})
  BY <1>4, FS_AddElement, {a, b, c} \cup {d} = {a, b, c, d}
<1>. QED
  BY <1>5, {a, b, c, d} \cup {e} = {a, b, c, d, e}

\* What all signals of some types contribute is what each type's signals do.
LEMMA ContributionsByType ==
  ASSUME NEW l, Listed(l), NEW types \in SUBSET SignalTypes
  PROVE  LET present == types \cap {l[i].type : i \in DOMAIN l}
         IN  /\ IsFiniteSet(present)
             /\ SignalContributions(l, types)
                  = SumFunctionOnSet([t \in present |-> SignalContributions(l, {t})], present)
<1>. DEFINE C == types \cap {l[i].type : i \in DOMAIN l}
            S == OfTypes(l, types)
            class == [i \in S |-> l[i].type]
            g == Terms(l)
            totals == [t \in C |-> SumFunctionOnSet(g, {i \in S : class[i] = t})]
            each == [t \in C |-> SignalContributions(l, {t})]
<1>1. IsFiniteSet(SignalTypes)
  <2>. DEFINE A == {"hiring", "expansion", "funding", "product_launch", "partnership"}
              B == {"leadership_change", "migration", "certification", "acquisition", "other"}
  <2>1. SignalTypes = A \cup B
    BY DEF SignalTypes
  <2>2. IsFiniteSet(A) /\ IsFiniteSet(B)
    BY FiveAreFinite
  <2>. HIDE DEF A, B
  <2>. QED
    BY <2>1, <2>2, FS_Union
<1>2. IsFiniteSet(C)
  BY <1>1, FS_Subset, C \in SUBSET SignalTypes
<1>3. S \in SUBSET DOMAIN l /\ \A i \in S : class[i] \in C
  BY DEF OfTypes
<1>4. IsFiniteSet(S) /\ \A i \in S : g[i] \in Int
  BY <1>3, TermsType
<1>5. \A t \in C : {i \in S : class[i] = t} = OfTypes(l, {t})
  BY DEF OfTypes
<1>6. \A t \in C : each[t] \in Int /\ each[t] = totals[t]
  <2>. SUFFICES ASSUME NEW t \in C PROVE each[t] \in Int /\ each[t] = totals[t]
    OBVIOUS
  <2>1. totals[t] = SumFunctionOnSet(g, {i \in S : class[i] = t}) /\ each[t] = SignalContributions(l, {t})
    OBVIOUS
  <2>2. /\ SignalContributions(l, {t}) = SumFunctionOnSet(g, OfTypes(l, {t}))
        /\ SignalContributions(l, {t}) \in Nat
    BY ContributionsAreSums
  <2>3. {i \in S : class[i] = t} = OfTypes(l, {t})
    BY <1>5
  <2>4. totals[t] = SumFunctionOnSet(g, OfTypes(l, {t}))
    BY <2>1, <2>3
  <2>. HIDE DEF C, S, class, g, each, totals
  <2>. QED
    BY <2>1, <2>2, <2>4
<1>7. SignalContributions(l, types) = SumFunctionOnSet(g, S)
  BY ContributionsAreSums
<1>. HIDE DEF C, S, class, g, each
<1>8. SumFunctionOnSet(g, S) = SumFunctionOnSet(totals, C)
  BY <1>2, <1>3, <1>4, SumByClass
<1>. HIDE DEF totals
<1>9. SumFunctionOnSet(each, C) = SumFunctionOnSet(totals, C)
  BY <1>2, <1>6, SumSame
<1>. QED
  BY <1>2, <1>7, <1>8, <1>9 DEF C, each

\* Two numbers are no farther apart when they are capped.
LEMMA CappedCloser ==
  ASSUME NEW x \in Int, NEW y \in Int, NEW k \in Nat, 2 * (x - y) \in -k..k, NEW limit \in Nat
  PROVE  2 * (Capped(x, limit) - Capped(y, limit)) \in -k..k
BY DEF Capped

\* What the factors of a dimension sum up to, capped, is what its signals contribute, capped,
\* but for what each factor is rounded by.
LEMMA ImpactRounds ==
  ASSUME NEW l, Listed(l), NEW types \in SUBSET SignalTypes, NEW d, NEW factors,
         Of(factors, d) = SignalFactors(l, d, types)
  PROVE  /\ Impact(factors, d) \in Nat /\ Cardinality(Of(factors, d)) \in Nat
         /\ 2 * (Hundredth * Impact(factors, d) - Clamp(SignalContributions(l, types), Full))
              \in -(Hundredth * Cardinality(Of(factors, d)))..Hundredth * Cardinality(Of(factors, d))
<1>. DEFINE C == types \cap {l[i].type : i \in DOMAIN l}
            SF == SignalFactors(l, d, types)
            b == [t \in C |-> FactorOf(l, d, t)]
            each == [t \in C |-> SignalContributions(l, {t})]
            clamped == [t \in C |-> Clamp(SignalContributions(l, {t}), Full)]
            exact == [f \in SF |-> Clamp(SignalContributions(l, {f.name[2]}), Full)]
            impacts == [f \in SF |-> f.impact]
            n == Cardinality(SF)
            I == SumFunctionOnSet(impacts, SF)
            E == SumFunctionOnSet(exact, SF)
<1>1. IsFiniteSet(C) /\ SignalContributions(l, types) = SumFunctionOnSet(each, C)
  BY ContributionsByType
<1>2. \A t \in C : each[t] \in Nat /\ clamped[t] = Capped(each[t], Full) /\ clamped[t] \in Nat
  <2>. SUFFICES ASSUME NEW t \in C
                PROVE  each[t] \in Nat /\ clamped[t] = Capped(each[t], Full) /\ clamped[t] \in Nat
    OBVIOUS
  <2>1. SignalContributions(l, {t}) \in Nat /\ Full \in Nat
    BY ContributionsAreSums, Units
  <2>. QED
    BY <2>1 DEF Capped, Clamp
<1>3. {b[t] : t \in C} = SF
  <2>1. SignalFactors(l, d, types) = {FactorOf(l, d, t) : t \in C}
    BY FactorsByType
  <2>2. \A t \in C : b[t] = FactorOf(l, d, t)
    OBVIOUS
  <2>. HIDE DEF C, b
  <2>. QED
    BY <2>1, <2>2
<1>4. \A t \in C : b[t].name = <<d, t>> /\ b[t].impact = Round(clamped[t], Hundredth)
  BY DEF FactorOf
<1>5. \A t, u \in C : b[t] = b[u] => t = u
  <2>. HIDE DEF C, b, clamped
  <2>. SUFFICES ASSUME NEW t \in C, NEW u \in C, b[t] = b[u] PROVE t = u
    OBVIOUS
  <2>1. <<d, t>> = <<d, u>>
    BY <1>4
  <2>. QED
    BY <2>1
<1>6. \A t \in C : exact[b[t]] = clamped[t]
  <2>1. \A f \in SF : exact[f] = Clamp(SignalContributions(l, {f.name[2]}), Full)
    OBVIOUS
  <2>2. \A t \in C : clamped[t] = Clamp(SignalContributions(l, {t}), Full)
    OBVIOUS
  <2>. HIDE DEF C, b, exact, clamped, SF
  <2>3. ASSUME NEW t \in C
        PROVE  exact[b[t]] = clamped[t]
    <3>1. b[t] \in SF /\ b[t].name[2] = t
      BY <1>3, <1>4
    <3>. QED
      BY <2>1, <2>2, <3>1
  <2>. QED
    BY <2>3
<1>7. \A f \in SF : impacts[f] = f.impact
  OBVIOUS
<1>8. Impact(factors, d) = Min({FullImpact, SumFunction(impacts)}) /\ DOMAIN impacts = SF
  BY DEF Impact
<1>. HIDE DEF C, SF, b, each, clamped, exact, impacts
<1>9. IsFiniteSet(SF) /\ SumFunctionOnSet(clamped, C) = E
  BY <1>1, <1>2, <1>3, <1>5, <1>6, SumRenamed
<1>10. \A f \in SF : /\ exact[f] \in Nat /\ impacts[f] \in Nat
                     /\ 2 * (Hundredth * impacts[f] - exact[f]) \in -Hundredth..Hundredth
  <2>. SUFFICES ASSUME NEW f \in SF
                PROVE  /\ exact[f] \in Nat /\ impacts[f] \in Nat
                       /\ 2 * (Hundredth * impacts[f] - exact[f]) \in -Hundredth..Hundredth
    OBVIOUS
  <2>1. PICK t \in C : f = b[t]
    BY <1>3
  <2>2. exact[f] = clamped[t] /\ impacts[f] = Round(clamped[t], Hundredth) /\ clamped[t] \in Nat
    BY <1>2, <1>4, <1>6, <1>7, <2>1
  <2>3. clamped[t] \in 0..Full
    BY <1>2, Units DEF Capped
  <2>4. /\ Round(clamped[t], Hundredth) \in 0..FullImpact
        /\ 2 * (Hundredth * Round(clamped[t], Hundredth) - clamped[t]) \in -Hundredth..Hundredth
    BY <2>3, HundredthsOf
  <2>. QED
    BY <2>2, <2>4
<1>11. n \in Nat
  BY <1>9, FS_CardinalityType
<1>12. I \in Nat /\ E \in Nat
  BY <1>9, <1>10, SumNatural
<1>13. 2 * (Hundredth * I - E) \in -(Hundredth * n)..Hundredth * n
  <2>1. \A f \in SF : /\ impacts[f] \in Int /\ exact[f] \in Int
                     /\ 2 * (Hundredth * impacts[f] - exact[f]) \in -Hundredth..Hundredth
    BY <1>10
  <2>2. Hundredth \in Nat
    BY Units
  <2>. QED
    BY <1>9, <2>1, <2>2, SumRounded
<1>14. Impact(factors, d) = Capped(I, FullImpact)
  <2>1. SumFunction(impacts) = I
    BY <1>8, SumOfFunction
  <2>. HIDE DEF I
  <2>. QED
    BY <1>8, <1>12, <2>1, Units, LesserOfTwo DEF Capped
<1>15. Clamp(SignalContributions(l, types), Full) = Capped(E, Full)
  <2>1. Capped(SumFunctionOnSet(clamped, C), Full) = Capped(SumFunctionOnSet(each, C), Full)
    BY <1>1, <1>2, Units, SumCapped
  <2>2. SignalContributions(l, types) \in Nat
    BY ContributionsAreSums
  <2>3. Clamp(SignalContributions(l, types), Full) = Capped(SignalContributions(l, types), Full)
    BY <2>2, Units DEF Clamp, Capped
  <2>. QED
    BY <1>1, <1>9, <2>1, <2>3
<1>. HIDE DEF I, E, n
<1>16. /\ Hundredth * Capped(I, FullImpact) = Capped(Hundredth * I, Full)
       /\ Hundredth * n \in Nat /\ Hundredth * I \in Int
  <2>1. Hundredth \in Nat /\ Hundredth > 0 /\ Full = FullImpact * Hundredth
    BY Units
  <2>2. I > FullImpact <=> Hundredth * I > FullImpact * Hundredth
    BY <1>12, <2>1, Units
  <2>3. Hundredth * n \in Nat /\ Hundredth * I \in Int
    BY <1>11, <1>12, <2>1
  <2>4. CASE I > FullImpact
    BY <2>1, <2>2, <2>3, <2>4, Units DEF Capped
  <2>5. CASE ~(I > FullImpact)
    BY <2>1, <2>2, <2>3, <2>5 DEF Capped
  <2>. QED
    BY <2>3, <2>4, <2>5
<1>17. 2 * (Capped(Hundredth * I, Full) - Capped(E, Full)) \in -(Hundredth * n)..Hundredth * n
  <2>. DEFINE x == Hundredth * I  k == Hundredth * n
  <2>1. x \in Int /\ E \in Int /\ k \in Nat /\ 2 * (x - E) \in -k..k /\ Full \in Nat
    BY <1>12, <1>13, <1>16, Units
  <2>. HIDE DEF x, k
  <2>2. 2 * (Capped(x, Full) - Capped(E, Full)) \in -k..k
    BY <2>1, CappedCloser
  <2>. QED
    BY <2>2 DEF x, k
<1>18. Impact(factors, d) \in Nat
  BY <1>12, <1>14, Units DEF Capped
<1>. QED
  BY <1>11, <1>14, <1>15, <1>16, <1>17, <1>18 DEF n, SF

\* A factor's name tells its dimension.
LEMMA FactorsOfDimension ==
  ASSUME NEW l, NEW lookup
  PROVE  /\ Of(Factors(l, lookup), "intent") = SignalFactors(l, "intent", IntentSignalTypes)
         /\ Of(Factors(l, lookup), "fit") = SignalFactors(l, "fit", FitSignalTypes)
<1>1. ASSUME NEW d, NEW types, NEW f \in SignalFactors(l, d, types)
      PROVE  f.name[1] = d
  <2>1. PICK t \in types : f = FactorOf(l, d, t)
    BY FactorsByType
  <2>. QED
    BY <2>1 DEF FactorOf
<1>2. NoEvidenceFactor.name[1] = "data_confidence"
  BY DEF NoEvidenceFactor
<1>. QED
  BY <1>1, <1>2 DEF Factors, Of

\* Of every type that counts for the fit some signal is the last.
LEMMA LastOfType ==
  ASSUME NEW l, Listed(l), NEW k \in OfTypes(l, FitSignalTypes)
  PROVE  \E x \in Last(l) : l[x].type = l[k].type
<1>. DEFINE D == {i \in DOMAIN l : l[i].type = l[k].type}
<1>1. D \in SUBSET Nat /\ IsFiniteSet(D) /\ D # {}
  BY FS_Subset, D \in SUBSET DOMAIN l DEF Listed, OfTypes
<1>2. PICK x \in D : \A n \in D : n <= x
  BY <1>1, GreatestExists
<1>3. x \in Last(l)
  BY <1>2 DEF Last, OfTypes
<1>. QED
  BY <1>2, <1>3

\* A dimension and its factors, each within its rounding of what the signals contribute.
LEMMA DimensionAddsUp ==
  ASSUME NEW c \in Nat, NEW i \in Nat, NEW n \in Nat,
         2 * (Hundredth * i - Clamp(c, Full)) \in -(Hundredth * n)..Hundredth * n
  PROVE  2 * (100 * DimensionFromContributions(c) - i) \in -(100 + n)..100 + n
<1>. DEFINE x == Clamp(c, Full)
            r == DimensionFromContributions(c)
            h == Hundredth
<1>1. /\ x \in Int /\ r \in Int /\ h \in Int /\ h > 0
      /\ Point \in Int /\ Point > 0 /\ Point = 100 * h
  <2>1. c \in Int /\ Full \in Nat
    BY Units
  <2>2. Clamp(c, Full) \in 0..Full
    BY <2>1, ClampType
  <2>3. DimensionFromContributions(c) \in 0..100
    BY <2>1, DimensionType
  <2>. QED
    BY <2>1, <2>2, <2>3, Units
<1>2. 2 * (Point * r - x) \in -Point..Point
  BY <1>1, RoundError DEF DimensionFromContributions
<1>. HIDE DEF x, r, h
<1>3. 2 * (h * i - x) \in -(h * n)..h * n
  BY DEF x, h
<1>4. Point * r = 100 * (h * r) /\ h * r \in Int /\ h * i \in Int /\ h * n \in Int
  BY <1>1
<1>5. h * (200 * r) = 200 * (h * r) /\ h * (2 * i + 100 + n) = 2 * (h * i) + 100 * h + h * n
  BY <1>1
<1>6. h * (2 * i) = 2 * (h * i) /\ h * (200 * r + 100 + n) = 200 * (h * r) + 100 * h + h * n
  BY <1>1
<1>7. h * (200 * r) <= h * (2 * i + 100 + n) /\ h * (2 * i) <= h * (200 * r + 100 + n)
  BY <1>1, <1>2, <1>3, <1>4, <1>5, <1>6
<1>8. 200 * r <= 2 * i + 100 + n /\ 2 * i <= 200 * r + 100 + n
  BY <1>1, <1>7, Cancel
<1>9. 2 * (100 * r - i) \in -(100 + n)..100 + n
  BY <1>1, <1>8
<1>. QED
  BY <1>9 DEF r

LEMMA ResultAddsUp ==
  ASSUME NEW l, Listed(l)
  PROVE  AddsUp(Result(l))
<1>. DEFINE s == Active(l)
            r == Result(l)
            factors == Factors(s, EvidenceLookup(l))
<1>1. Listed(s) /\ IntentSignalTypes \in SUBSET SignalTypes /\ FitSignalTypes \in SUBSET SignalTypes
  BY ActiveListed DEF IntentSignalTypes, FitSignalTypes, SignalTypes
<1>2. CASE DOMAIN s = {}
  <2>1. r = NoSignalResult
    BY <1>2 DEF Result, ComputeScore
  <2>2. \A d : Of({}, d) = {}
    BY DEF Of
  <2>3. \A d : Impact({}, d) = 0
    <3>. SUFFICES ASSUME NEW d PROVE Impact({}, d) = 0
      OBVIOUS
    <3>. DEFINE g == [f \in Of({}, d) |-> f.impact]
    <3>1. DOMAIN g = {}
      BY <2>2
    <3>2. Min({FullImpact, 0}) = 0
      BY Units, LesserOfTwo
    <3>3. Impact({}, d) = Min({FullImpact, SumFunction(g)})
      BY DEF Impact
    <3>. HIDE DEF g
    <3>4. SumFunction(g) = 0
      BY <3>1, SumOfFunction, SumEmpty
    <3>. QED
      BY <3>2, <3>3, <3>4
  <2>4. \A d : Rounding({}, d) = 100
    BY <2>2, FS_EmptySet DEF Rounding
  <2>. QED
    BY <2>1, <2>2, <2>3, <2>4 DEF AddsUp, NoSignalResult
<1>3. CASE DOMAIN s # {}
  <2>1. r.intent = IntentScore(s) /\ r.fit = FitScore(s) /\ r.factors = factors
    BY <1>3 DEF Result, ComputeScore
  <2>2. /\ Of(factors, "intent") = SignalFactors(s, "intent", IntentSignalTypes)
        /\ Of(factors, "fit") = SignalFactors(s, "fit", FitSignalTypes)
    BY FactorsOfDimension
  <2>. HIDE DEF s, factors
  <2>. DEFINE Near(d, types) ==
         2 * (100 * DimensionFromContributions(SignalContributions(s, types)) - Impact(factors, d))
           \in -Rounding(factors, d)..Rounding(factors, d)
  <2>3. ASSUME NEW d, NEW types \in SUBSET SignalTypes, Of(factors, d) = SignalFactors(s, d, types)
        PROVE  Near(d, types) /\ Impact(factors, d) \in Nat /\ Rounding(factors, d) \in Nat
    <3>1. SignalContributions(s, types) \in Nat
      BY <1>1, ContributionsAreSums
    <3>2. /\ Impact(factors, d) \in Nat /\ Cardinality(Of(factors, d)) \in Nat
          /\ 2 * (Hundredth * Impact(factors, d) - Clamp(SignalContributions(s, types), Full))
               \in -(Hundredth * Cardinality(Of(factors, d)))..Hundredth * Cardinality(Of(factors, d))
      BY <1>1, <2>3, ImpactRounds
    <3>. QED
      BY <3>1, <3>2, DimensionAddsUp DEF Rounding
  <2>4. /\ Near("intent", IntentSignalTypes) /\ Near("fit", FitSignalTypes)
        /\ \A d \in {"intent", "fit"} : Impact(factors, d) \in Nat /\ Rounding(factors, d) \in Nat
    BY <1>1, <2>2, <2>3
  <2>5. 2 * (100 * r.intent - Impact(factors, "intent"))
          \in -Rounding(factors, "intent")..Rounding(factors, "intent")
    <3>1. CASE \E i \in DOMAIN s : s[i].type \in IntentSignalTypes
      BY <2>1, <2>4, <3>1 DEF IntentScore
    <3>2. CASE ~ \E i \in DOMAIN s : s[i].type \in IntentSignalTypes
      <4>1. OfTypes(s, IntentSignalTypes) = {}
        BY <3>2 DEF OfTypes
      <4>2. SignalContributions(s, IntentSignalTypes) = 0
        BY <1>1, <4>1, ContributionsAreSums, SumEmpty
      <4>3. DimensionFromContributions(0) = 0
        <5>1. Clamp(0, Full) = 0 * Point /\ Point \in Int /\ Point > 0
          BY Units DEF Clamp
        <5>. QED
          BY <5>1, RoundOfMultiple DEF DimensionFromContributions
      <4>. QED
        BY <2>1, <2>4, <3>2, <4>2, <4>3 DEF IntentScore
    <3>. QED
      BY <3>1, <3>2
  <2>6. \/ 2 * (100 * r.fit - Impact(factors, "fit")) <= Rounding(factors, "fit")
        \/ r.fit = 50 /\ Of(factors, "fit") = {}
    <3>. DEFINE all == OfTypes(s, FitSignalTypes)
    <3>1. CASE all = {}
      <4>1. Last(s) = {}
        BY <3>1 DEF Last
      <4>2. SignalFactors(s, "fit", FitSignalTypes) = {}
        <5>1. FitSignalTypes \cap {s[i].type : i \in DOMAIN s} = {}
          BY <3>1 DEF OfTypes
        <5>. QED
          BY <5>1 DEF SignalFactors
      <4>. QED
        BY <1>1, <2>1, <2>2, <4>1, <4>2, FitScoreIsSum
    <3>2. CASE all # {}
      <4>1. Last(s) # {} /\ Last(s) \in SUBSET all /\ all \in SUBSET DOMAIN s
        BY <1>1, <3>2, LastOfType DEF Last, OfTypes
      <4>2. /\ IsFiniteSet(all) /\ (\A i \in all : Terms(s)[i] \in Nat)
            /\ SumFunctionOnSet(Terms(s), all) \in Int /\ SumFunctionOnSet(Terms(s), Last(s)) \in Int
        BY <1>1, <4>1, TermsType
      <4>3. SumFunctionOnSet(Terms(s), all) = SignalContributions(s, FitSignalTypes)
        BY <1>1, ContributionsAreSums
      <4>. HIDE DEF all
      <4>4. SumFunctionOnSet(Terms(s), Last(s)) <= SumFunctionOnSet(Terms(s), all)
        BY <4>1, <4>2, SumOfFewer
      <4>5. DimensionFromContributions(SumFunctionOnSet(Terms(s), Last(s)))
              <= DimensionFromContributions(SignalContributions(s, FitSignalTypes))
        BY <4>2, <4>3, <4>4, DimensionMonotone
      <4>6. r.fit <= DimensionFromContributions(SignalContributions(s, FitSignalTypes)) /\ r.fit \in Int
        BY <1>1, <2>1, <4>1, <4>5, FitScoreIsSum, FitScoreType
      <4>7. DimensionFromContributions(SignalContributions(s, FitSignalTypes)) \in Int
        BY <4>2, <4>3, DimensionType
      <4>. QED
        BY <2>4, <4>6, <4>7
    <3>. QED
      BY <3>1, <3>2
  <2>. QED
    BY <2>1, <2>5, <2>6 DEF AddsUp
<1>. QED
  BY <1>2, <1>3

-----------------------------------------------------------------------------
(* The invariant. *)

Support ==
  /\ \A s \in Rows : Supported(signal[s])
  /\ \A h \in Handlers : at[h] = "insert" => Supported(arg[h])

\* A handler no call of its kind has overtaken has seen what it may change.
CopiesAgree ==
  \A h \in Handlers \ stale :
    /\ at[h] \in {"score", "assess"} => \A c \in ScoreColumns : copy[h][c] = lead[c]
    /\ at[h] = "qualify" => copy[h].qualification = lead.qualification

ScoredAddsUp ==
  scored # None => AddsUp(scored) /\ \A f \in scored.factors : f.evidence \subseteq Present

Inv == Shape /\ Support /\ CopiesAgree /\ LeadTellsItsScoring /\ TrailTellsQualification /\ ScoredAddsUp

LEMMA NoRowIsNone == ASSUME ProspectsConstants PROVE None \notin SignalRow /\ None \notin LeadRow
BY DEF ProspectsConstants

\* What is there of the evidence stays as it is.
LEMMA EvidenceStays ==
  ASSUME Next
  PROVE  \A e \in Present : e \in Present' /\ evidence'[e] = evidence[e]
<1>1. ASSUME NEW row, NewEvidence(row)
      PROVE  \A e \in Present : e \in Present' /\ evidence'[e] = evidence[e]
  BY <1>1 DEF NewEvidence, Present
<1>2. CASE UNCHANGED evidence
  BY <1>2 DEF Present
<1>3. UNCHANGED evidence \/ \E row : NewEvidence(row)
  BY DEF Next, ExtractPage, CreateEvidence, DeleteSignal, DetectRead, CreateRead, InsertSignal,
         InsertFails, ScoreRead, LoadLead, QuerySignals, ScoreWrite, QualifyRead, QualifyWrite, rows
<1>. QED
  BY <1>1, <1>2, <1>3

\* So is what was supported or listed still.
LEMMA SupportStays ==
  ASSUME Next, NEW s, s.evidence \subseteq Present
  PROVE  /\ s.evidence \subseteq Present'
         /\ Supported(s) => (s.auto =>
              \A e \in s.evidence :
                /\ s.company = evidence'[e].company
                /\ NoMoreCertain(s, evidence'[e])
                /\ \/ s.type = evidence'[e].type
                   \/ /\ s.type \in evidence'[e].words
                      /\ SuggestiveEvidenceToSignal(evidence'[e].type) \in {{}, {s.type}})
BY EvidenceStays DEF Supported

LEMMA ListedStays ==
  ASSUME Next, NEW l, Listed(l)
  PROVE  /\ DOMAIN l \in SUBSET Nat /\ IsFiniteSet(DOMAIN l)
         /\ \A i \in DOMAIN l : l[i] \in SignalRow /\ l[i].evidence \subseteq Present'
BY EvidenceStays DEF Listed

-----------------------------------------------------------------------------
(* The evidence. *)

LEMMA NewRowType ==
  ASSUME EvidenceIsTyped, NEW row, NewEvidence(row),
         row.company \in SUBSET Companies, row.confidence \in 0..Certain, row.age \in Nat,
         row.source \in {m.source : m \in Pages \cup ManualEvidence \cup ManualSignals}
  PROVE  EvidenceIsTyped'
BY DEF EvidenceIsTyped, NewEvidence, Present

LEMMA EvidenceTypeStep ==
  ASSUME ProspectsConstants, EvidenceIsTyped, Next
  PROVE  EvidenceIsTyped'
<1>1. ASSUME NEW p \in Pages, ExtractPage(p)
      PROVE  EvidenceIsTyped'
  <2>. DEFINE row == [source |-> p.source, company |-> p.company, words |-> p.words,
                      type |-> EvidenceTypeOf(ClassifyPage(p.hints)),
                      confidence |-> Percent(PageConfidence(p.siteName)), age |-> p.age]
  <2>1. NewEvidence(row)
    BY <1>1 DEF ExtractPage
  <2>2. row.company \in SUBSET Companies /\ row.age \in Nat
    BY DEF ProspectsConstants
  <2>3. row.confidence \in 0..Certain
    BY Units DEF PageConfidence, Percent
  <2>4. row.source \in {m.source : m \in Pages \cup ManualEvidence \cup ManualSignals}
    OBVIOUS
  <2>. HIDE DEF row
  <2>. QED
    BY <2>1, <2>2, <2>3, <2>4, NewRowType
<1>2. ASSUME NEW m \in ManualEvidence, CreateEvidence(m)
      PROVE  EvidenceIsTyped'
  <2>. DEFINE row == [source |-> m.source, company |-> m.company, words |-> m.words, type |-> m.type,
                      confidence |-> m.confidence, age |-> m.age]
  <2>1. NewEvidence(row)
    BY <1>2 DEF CreateEvidence
  <2>2. row.company \in SUBSET Companies /\ row.age \in Nat /\ row.confidence \in 0..Certain
    BY DEF ProspectsConstants, AtMostOne
  <2>3. row.source \in {x.source : x \in Pages \cup ManualEvidence \cup ManualSignals}
    OBVIOUS
  <2>. HIDE DEF row
  <2>. QED
    BY <2>1, <2>2, <2>3, NewRowType
<1>3. CASE UNCHANGED evidence
  BY <1>3 DEF EvidenceIsTyped, Present
<1>. QED
  BY <1>1, <1>2, <1>3
     DEF Next, DeleteSignal, DetectRead, CreateRead, InsertSignal,
         InsertFails, ScoreRead, LoadLead, QuerySignals, ScoreWrite, QualifyRead, QualifyWrite, rows

-----------------------------------------------------------------------------
(* The signals. *)

\* A signal entered by hand is a row.
LEMMA ManualRowType ==
  ASSUME ProspectsConstants, NEW m \in ManualSignals, NEW ev \in AtMostOne(Present)
  PROVE  LET s == [type |-> m.type, company |-> m.company, source |-> m.source,
                   confidence |-> m.confidence, status |-> m.status, evidence |-> ev,
                   age |-> m.age, auto |-> FALSE, deleted |-> FALSE]
         IN  s \in SignalRow /\ s.evidence \subseteq Present /\ Supported(s)
<1>1. /\ m.type \in SignalTypes /\ m.company \in SUBSET Companies /\ m.confidence \in 0..Certain
      /\ m.status \in SignalStatuses /\ m.age \in Nat
      /\ m.source \in {x.source : x \in Pages \cup ManualEvidence \cup ManualSignals}
  BY DEF ProspectsConstants
<1>2. ev \subseteq Present /\ ev \in AtMostOne(EvidenceIds)
  BY DEF AtMostOne, Present
<1>. QED
  BY <1>1, <1>2 DEF SignalRow, Supported

\* What a call is about to insert.
LEMMA NewSignal ==
  ASSUME ProspectsConstants, EvidenceIsTyped, HandlersAreTyped, NEW h \in Handlers,
         DetectRead(h) \/ CreateRead(h)
  PROVE  /\ arg'[h] \in SignalRow /\ arg'[h].evidence \subseteq Present /\ Supported(arg'[h])
         /\ at[h] = "idle" /\ at' = [at EXCEPT ![h] = "insert"]
         /\ \E s : arg' = [arg EXCEPT ![h] = s]
         /\ UNCHANGED <<rows, copy, seen, history>>
<1>1. CASE DetectRead(h)
  <2>1. PICK e \in Present : /\ \E s \in Detected(e) : Begin(h, "insert", s)
                             /\ UNCHANGED <<rows, copy, seen, history>>
    BY <1>1 DEF DetectRead, Present
  <2>3. PICK s \in Detected(e) : Begin(h, "insert", s)
    BY <2>1
  <2>2. s \in SignalRow /\ s.evidence \subseteq Present /\ Supported(s)
    BY DetectedType
  <2>. QED
    BY <2>1, <2>2, <2>3 DEF Begin, Become, HandlersAreTyped
<1>2. CASE CreateRead(h)
  <2>. DEFINE S(m, ev) == [type |-> m.type, company |-> m.company, source |-> m.source,
                           confidence |-> m.confidence, status |-> m.status, evidence |-> ev,
                           age |-> m.age, auto |-> FALSE, deleted |-> FALSE]
  <2>1. PICK m \in ManualSignals, ev \in AtMostOne(Present) :
          Begin(h, "insert", S(m, ev)) /\ UNCHANGED <<rows, copy, seen, history>>
    BY <1>2 DEF CreateRead, Present
  <2>2. S(m, ev) \in SignalRow /\ S(m, ev).evidence \subseteq Present /\ Supported(S(m, ev))
    BY ManualRowType
  <2>. HIDE DEF S
  <2>. QED
    BY <2>1, <2>2 DEF Begin, Become, HandlersAreTyped
<1>. QED
  BY <1>1, <1>2

\* What each step does to the signals: nothing, or one more row, or one row deleted.
LEMMA SignalSteps ==
  ASSUME Next
  PROVE  \/ UNCHANGED signal
         \/ \E h \in Handlers : \E s \in SignalIds \ Rows :
              /\ at[h] = "insert" /\ Unique(Fingerprint(arg[h]))
              /\ signal' = [signal EXCEPT ![s] = arg[h]]
         \/ \E s \in Live : signal' = [signal EXCEPT ![s].deleted = TRUE]
BY DEF Next, NewEvidence, ExtractPage, CreateEvidence, DeleteSignal, DetectRead, CreateRead, InsertSignal,
       InsertFails, ScoreRead, LoadLead, QuerySignals, ScoreWrite, QualifyRead, QualifyWrite, rows

LEMMA DeletedRowType ==
  ASSUME NEW r \in SignalRow
  PROVE  LET d == [r EXCEPT !.deleted = TRUE]
         IN  /\ d \in SignalRow /\ d.deleted
             /\ d.type = r.type /\ d.company = r.company /\ d.source = r.source
             /\ d.confidence = r.confidence /\ d.evidence = r.evidence /\ d.auto = r.auto
BY DEF SignalRow

LEMMA SignalTypeStep ==
  ASSUME ProspectsConstants, SignalsAreTyped, HandlersAreTyped, Support, Next
  PROVE  SignalsAreTyped' /\ \A s \in Rows' : Supported(signal[s])'
<1>0. \A s \in Rows : signal[s] \in SignalRow /\ signal[s].evidence \subseteq Present /\ Supported(signal[s])
  BY DEF SignalsAreTyped, Support, Rows
<1>. SUFFICES /\ signal' \in [SignalIds -> SignalRow \cup {None}]
              /\ \A s \in SignalIds : signal'[s] # None =>
                   /\ signal'[s].evidence \subseteq Present'
                   /\ Supported(signal[s])'
  BY DEF SignalsAreTyped, Rows
<1>1. CASE UNCHANGED signal
  <2>1. ASSUME NEW s \in Rows
        PROVE  signal[s].evidence \subseteq Present' /\ Supported(signal[s])'
    <3>1. signal[s].evidence \subseteq Present /\ Supported(signal[s])
      BY <1>0
    <3>. QED
      BY <1>1, <3>1, SupportStays DEF Supported
  <2>. QED
    BY <1>1, <2>1 DEF SignalsAreTyped, Rows
<1>2. ASSUME NEW h \in Handlers, NEW s \in SignalIds \ Rows,
             at[h] = "insert", signal' = [signal EXCEPT ![s] = arg[h]]
      PROVE  /\ signal' \in [SignalIds -> SignalRow \cup {None}]
             /\ \A t \in SignalIds : signal'[t] # None =>
                  /\ signal'[t].evidence \subseteq Present'
                  /\ Supported(signal[t])'
  <2>1. arg[h] \in SignalRow /\ arg[h].evidence \subseteq Present /\ Supported(arg[h])
    BY <1>2 DEF HandlersAreTyped, Support
  <2>2. signal' \in [SignalIds -> SignalRow \cup {None}]
    BY <1>2, <2>1 DEF SignalsAreTyped
  <2>3. ASSUME NEW t \in SignalIds, signal'[t] # None
        PROVE  signal'[t].evidence \subseteq Present' /\ Supported(signal[t])'
    <3>1. /\ signal'[t].evidence \subseteq Present /\ Supported(signal'[t])
      BY <1>0, <1>2, <2>1, <2>3 DEF SignalsAreTyped, Rows
    <3>. QED
      BY <3>1, SupportStays DEF Supported
  <2>. QED
    BY <2>2, <2>3
<1>3. ASSUME NEW s \in Live, signal' = [signal EXCEPT ![s].deleted = TRUE]
      PROVE  /\ signal' \in [SignalIds -> SignalRow \cup {None}]
             /\ \A t \in SignalIds : signal'[t] # None =>
                  /\ signal'[t].evidence \subseteq Present'
                  /\ Supported(signal[t])'
  <2>. DEFINE d == [signal[s] EXCEPT !.deleted = TRUE]
  <2>1. s \in Rows /\ signal[s] \in SignalRow
    BY <1>0 DEF Live
  <2>2. signal' = [signal EXCEPT ![s] = d]
    BY <1>3
  <2>3. d \in SignalRow /\ d.evidence \subseteq Present /\ Supported(d)
    <3>1. d.confidence = signal[s].confidence
      BY <2>1, DeletedRowType
    <3>. QED
      BY <1>0, <2>1, <3>1, DeletedRowType DEF Supported, NoMoreCertain
  <2>. HIDE DEF d
  <2>4. signal' \in [SignalIds -> SignalRow \cup {None}]
    BY <2>2, <2>3 DEF SignalsAreTyped
  <2>5. ASSUME NEW t \in SignalIds, signal'[t] # None
        PROVE  signal'[t].evidence \subseteq Present' /\ Supported(signal[t])'
    <3>1. /\ signal'[t].evidence \subseteq Present /\ Supported(signal'[t])
      BY <1>0, <2>1, <2>2, <2>3, <2>5 DEF SignalsAreTyped, Rows
    <3>. QED
      BY <3>1, SupportStays DEF Supported
  <2>. QED
    BY <2>4, <2>5
<1>. QED
  BY <1>1, <1>2, <1>3, SignalSteps

\* A fingerprint that has only deleted rows has only deleted rows after any step.
LEMMA GoneStays ==
  ASSUME ProspectsConstants, SignalsAreTyped, HandlersAreTyped, Next,
         NEW s \in Rows, Gone(Fingerprint(signal[s]))
  PROVE  Gone(Fingerprint(signal[s]))'
<1>0. /\ \A t \in Rows : signal[t] \in SignalRow /\ t \in SignalIds
      /\ \A t \in Rows : Fingerprint(signal[t]) = Fingerprint(signal[s]) => signal[t].deleted
  BY DEF SignalsAreTyped, Rows, Gone, Known, Live
<1>. SUFFICES /\ s \in Rows' /\ Fingerprint(signal'[s]) = Fingerprint(signal[s])
              /\ \A t \in Rows' : Fingerprint(signal'[t]) = Fingerprint(signal[s]) => signal'[t].deleted
  BY DEF Gone, Known, Live, Rows, Fingerprint
<1>1. CASE UNCHANGED signal
  BY <1>0, <1>1 DEF Rows
<1>2. ASSUME NEW h \in Handlers, NEW t \in SignalIds \ Rows,
             at[h] = "insert", Unique(Fingerprint(arg[h])), signal' = [signal EXCEPT ![t] = arg[h]]
      PROVE  /\ s \in Rows' /\ Fingerprint(signal'[s]) = Fingerprint(signal[s])
             /\ \A u \in Rows' : Fingerprint(signal'[u]) = Fingerprint(signal[s]) => signal'[u].deleted
  <2>1. Fingerprint(arg[h]) # Fingerprint(signal[s])
    BY <1>2 DEF Unique
  <2>2. \A u \in SignalIds : signal'[u] = IF u = t THEN arg[h] ELSE signal[u]
    BY <1>2 DEF SignalsAreTyped
  <2>3. \A u \in Rows' : u = t \/ (u \in Rows /\ signal'[u] = signal[u])
    BY <2>2 DEF Rows
  <2>4. s \in Rows' /\ signal'[s] = signal[s] /\ signal'[t] = arg[h]
    BY <1>0, <2>2 DEF Rows
  <2>. QED
    BY <1>0, <2>1, <2>3, <2>4
<1>3. ASSUME NEW t \in Live, signal' = [signal EXCEPT ![t].deleted = TRUE]
      PROVE  /\ s \in Rows' /\ Fingerprint(signal'[s]) = Fingerprint(signal[s])
             /\ \A u \in Rows' : Fingerprint(signal'[u]) = Fingerprint(signal[s]) => signal'[u].deleted
  <2>. DEFINE d == [signal[t] EXCEPT !.deleted = TRUE]
  <2>1. t \in Rows
    BY DEF Live
  <2>2. d \in SignalRow /\ d.deleted /\ Fingerprint(d) = Fingerprint(signal[t])
    BY <1>0, <2>1, DeletedRowType DEF Fingerprint
  <2>3. signal' = [signal EXCEPT ![t] = d]
    BY <1>3
  <2>4. d # None
    BY <2>2, NoRowIsNone
  <2>. HIDE DEF d
  <2>5. \A u \in SignalIds : signal'[u] = IF u = t THEN d ELSE signal[u]
    BY <2>3 DEF SignalsAreTyped
  <2>6. \A u \in Rows : u \in Rows' /\ Fingerprint(signal'[u]) = Fingerprint(signal[u])
    BY <1>0, <2>2, <2>4, <2>5 DEF Rows
  <2>7. \A u \in Rows' : u \in Rows /\ signal'[u] = IF u = t THEN d ELSE signal[u]
    BY <2>1, <2>5 DEF Rows
  <2>. QED
    BY <1>0, <2>2, <2>6, <2>7
<1>. QED
  BY <1>1, <1>2, <1>3, SignalSteps

-----------------------------------------------------------------------------
(* The handlers and the lead. *)

LEMMA ScoredIsFinite == ASSUME ProspectsConstants PROVE IsFiniteSet(Scored) /\ Scored \subseteq Rows
BY FS_Subset, Scored \in SUBSET SignalIds DEF ProspectsConstants, Scored, Live, Rows

\* The rows of a query, in any order.
LEMMA ListingListed ==
  ASSUME ProspectsConstants, SignalsAreTyped, NEW o \in Orders(Scored)
  PROVE  Listed(Listing(o)) /\ DOMAIN Listing(o) = 1..Cardinality(Scored)
<1>1. Cardinality(Scored) \in Nat
  BY ScoredIsFinite, FS_CardinalityType
<1>2. o \in [1..Cardinality(Scored) -> Scored]
  BY DEF Orders
<1>3. IsFiniteSet(1..Cardinality(Scored)) /\ 1..Cardinality(Scored) \in SUBSET Nat
  BY <1>1, FS_Interval
<1>4. \A s \in Scored : signal[s] \in SignalRow /\ signal[s].evidence \subseteq Present
  BY ScoredIsFinite DEF SignalsAreTyped, Rows
<1>. QED
  BY <1>2, <1>3, <1>4 DEF Listing, Listed

\* What a handler that has begun, or ended, has left of its call.
LEMMA EndType ==
  ASSUME HandlersAreTyped, NEW h \in Handlers, End(h), Next, UNCHANGED calls
  PROVE  HandlersAreTyped'
<1>1. \A k \in Handlers : at'[k] = IF k = h THEN "idle" ELSE at[k]
  BY DEF End, Become, HandlersAreTyped
<1>2. /\ DOMAIN copy' = Handlers /\ DOMAIN arg' = Handlers /\ DOMAIN seen' = Handlers
      /\ at' \in [Handlers -> {"idle", "insert", "score", "assess", "qualify"}]
      /\ copy'[h] = None
      /\ \A k \in Handlers \ {h} : copy'[k] = copy[k] /\ arg'[k] = arg[k] /\ seen'[k] = seen[k]
  BY DEF End, Become, HandlersAreTyped
<1>3. ASSUME NEW k \in Handlers \ {h}
      PROVE  /\ IF at'[k] \in {"score", "assess", "qualify"} THEN copy'[k] \in LeadRow ELSE copy'[k] = None
             /\ at'[k] = "insert" => arg'[k] \in SignalRow /\ arg'[k].evidence \subseteq Present'
             /\ at'[k] = "qualify" => arg'[k] \in Qualifications
             /\ at'[k] = "assess" => Listed(seen[k])'
  <2>1. at'[k] = at[k] /\ copy'[k] = copy[k] /\ arg'[k] = arg[k] /\ seen'[k] = seen[k]
    BY <1>1, <1>2
  <2>2. at[k] = "assess" => Listed(seen[k])'
    <3>1. at[k] = "assess" => Listed(seen[k])
      BY DEF HandlersAreTyped
    <3>. QED
      BY <2>1, <3>1, ListedStays DEF Listed
  <2>3. at[k] = "insert" => arg[k] \in SignalRow /\ arg[k].evidence \subseteq Present'
    BY EvidenceStays DEF HandlersAreTyped
  <2>. QED
    BY <2>1, <2>2, <2>3 DEF HandlersAreTyped
<1>. QED
  BY <1>1, <1>2, <1>3 DEF HandlersAreTyped

LEMMA HandlersStay ==
  ASSUME HandlersAreTyped, UNCHANGED sessions, Next
  PROVE  HandlersAreTyped'
<1>1. at' = at /\ copy' = copy /\ arg' = arg /\ seen' = seen
  BY DEF sessions
<1>2. ASSUME NEW k \in Handlers, at[k] = "assess"
      PROVE  Listed(seen[k])'
  <2>1. Listed(seen[k])
    BY <1>2 DEF HandlersAreTyped
  <2>. QED
    BY <1>1, <2>1, ListedStays DEF Listed
<1>3. \A k \in Handlers : at[k] = "insert" => arg[k] \in SignalRow /\ arg[k].evidence \subseteq Present'
  BY EvidenceStays DEF HandlersAreTyped
<1>. QED
  BY <1>1, <1>2, <1>3 DEF HandlersAreTyped

LEMMA HandlersTypeStep ==
  ASSUME ProspectsConstants, Shape, Next
  PROVE  HandlersAreTyped'
<1>. USE DEF Shape
<1>1. CASE UNCHANGED sessions
  BY <1>1, HandlersStay
<1>2. ASSUME NEW h \in Handlers, DetectRead(h) \/ CreateRead(h)
      PROVE  HandlersAreTyped'
  <2>1. /\ arg'[h] \in SignalRow /\ arg'[h].evidence \subseteq Present
        /\ at[h] = "idle" /\ at' = [at EXCEPT ![h] = "insert"]
        /\ \E s : arg' = [arg EXCEPT ![h] = s]
        /\ UNCHANGED <<rows, copy, seen, history>>
    BY <1>2, NewSignal
  <2>. QED
    BY <2>1 DEF HandlersAreTyped, rows, Listed, Present
<1>3. ASSUME NEW h \in Handlers, End(h)
      PROVE  HandlersAreTyped'
  BY <1>3, EndType DEF End
<1>4. ASSUME NEW h \in Handlers, NEW q \in Qualifications \cup {None}, NEW place \in {"score", "qualify"},
             LoadLead(h, place, q), place = "qualify" => q \in Qualifications
      PROVE  HandlersAreTyped'
  BY <1>4 DEF HandlersAreTyped, LeadIsTyped, LoadLead, Begin, Become, rows, Listed, Present
<1>5. ASSUME NEW h \in Handlers, QuerySignals(h)
      PROVE  HandlersAreTyped'
  <2>1. PICK o \in Orders(Scored) : seen' = [seen EXCEPT ![h] = Listing(o)]
    BY <1>5 DEF QuerySignals
  <2>2. Listed(Listing(o))
    BY ListingListed
  <2>. DEFINE l == Listing(o)
  <2>. HIDE DEF l
  <2>3. seen' = [seen EXCEPT ![h] = l] /\ Listed(l)
    BY <2>1, <2>2 DEF l
  <2>4. at[h] = "score" /\ at' = [at EXCEPT ![h] = "assess"] /\ UNCHANGED <<rows, copy, arg>>
    BY <1>5 DEF QuerySignals, Become
  <2>. QED
    BY <2>3, <2>4 DEF HandlersAreTyped, rows, Listed, Present
<1>. QED
  BY <1>1, <1>2, <1>3, <1>4, <1>5
     DEF Next, NewEvidence, ExtractPage, CreateEvidence, DeleteSignal, InsertSignal, InsertFails,
         ScoreRead, ScoreWrite, QualifyRead, QualifyWrite, ProspectsConstants

\* What a scoring writes, column by column.
LEMMA ScoreWritten ==
  ASSUME ProspectsConstants, Shape, NEW h \in Handlers, ScoreWrite(h)
  PROVE  /\ scored' = Result(seen[h]) /\ scored' \in ScoreResult
         /\ lead' \in LeadRow /\ lead'.explanation = scored'
         /\ lead'.qualification = lead.qualification
         /\ \A c \in ScoreColumns :
              lead'[c] = IF scored'[c] # copy[h][c] THEN scored'[c] ELSE lead[c]
<1>. DEFINE result == Result(seen[h])
            new == [c \in LeadColumns |-> IF c \in ScoreColumns THEN result[c] ELSE copy[h][c]]
<1>1. Listed(seen[h]) /\ copy[h] \in LeadRow /\ lead \in LeadRow
  BY DEF ScoreWrite, Shape, HandlersAreTyped, LeadIsTyped
<1>2. result \in ScoreResult
  BY <1>1, ResultType DEF Shape
<1>3. scored' = result /\ lead' = [Flush(h, new) EXCEPT !.explanation = result]
  BY DEF ScoreWrite
<1>. HIDE DEF result
<1>4. \A c \in ScoreColumns : result[c] \in 0..100 \cup (Int \X Int)
  BY <1>2 DEF ScoreColumns, ScoreResult
<1>5. /\ ScoreColumns \subseteq LeadColumns /\ "qualification" \notin ScoreColumns
      /\ "explanation" \notin ScoreColumns /\ {"explanation", "qualification"} \subseteq LeadColumns
  BY DEF ScoreColumns, LeadColumns
<1>6. \A c \in LeadColumns : lead'[c] = IF c = "explanation" THEN result
                                       ELSE IF new[c] # copy[h][c] THEN new[c] ELSE lead[c]
  BY <1>3 DEF Flush
<1>7. DOMAIN lead' = LeadColumns /\ lead' = [c \in LeadColumns |-> lead'[c]]
  BY <1>3 DEF Flush
<1>8. lead' \in LeadRow
  BY <1>1, <1>2, <1>4, <1>6, <1>7 DEF LeadRow
<1>. QED
  BY <1>2, <1>3, <1>5, <1>6, <1>8 DEF result

\* What a qualification writes.
LEMMA QualifyWritten ==
  ASSUME Shape, NEW h \in Handlers, QualifyWrite(h)
  PROVE  /\ lead' \in LeadRow
         /\ lead'.qualification
              = IF arg[h] # copy[h].qualification THEN arg[h] ELSE lead.qualification
         /\ \A c \in LeadColumns \ {"qualification"} : lead'[c] = lead[c]
<1>. DEFINE new == [copy[h] EXCEPT !.qualification = arg[h]]
<1>1. copy[h] \in LeadRow /\ lead \in LeadRow /\ arg[h] \in Qualifications
  BY DEF QualifyWrite, Shape, HandlersAreTyped, LeadIsTyped
<1>2. lead' = Flush(h, new)
  BY DEF QualifyWrite
<1>3. "qualification" \in LeadColumns
  BY DEF LeadColumns
<1>4. \A c \in LeadColumns : new[c] = IF c = "qualification" THEN arg[h] ELSE copy[h][c]
  BY <1>1 DEF LeadRow
<1>5. \A c \in LeadColumns : lead'[c] = IF new[c] # copy[h][c] THEN new[c] ELSE lead[c]
  BY <1>2 DEF Flush
<1>6. lead' = [c \in LeadColumns |-> lead'[c]]
  BY <1>2 DEF Flush
<1>7. lead' \in LeadRow
  BY <1>1, <1>4, <1>5, <1>6 DEF LeadRow
<1>. QED
  BY <1>3, <1>4, <1>5, <1>7

\* Which steps leave the lead, what was scored and what was audited alone.
LEMMA LeadSteps ==
  ASSUME Next
  PROVE  \/ UNCHANGED <<lead, history>>
         \/ \E h \in Handlers : ScoreWrite(h) \/ QualifyWrite(h)
BY DEF Next, NewEvidence, ExtractPage, CreateEvidence, DeleteSignal, DetectRead, CreateRead, InsertSignal,
       InsertFails, ScoreRead, LoadLead, QuerySignals, QualifyRead, rows

\* Who is where, and with which copy, after a step that leaves the lead alone.
LEMMA Loads ==
  ASSUME HandlersAreTyped, Next, UNCHANGED <<lead, history>>, NEW h \in Handlers,
         at'[h] \in {"score", "assess", "qualify"}
  PROVE  \/ copy'[h] = lead
         \/ /\ copy'[h] = copy[h] /\ at[h] \in {"score", "assess", "qualify"}
            /\ at'[h] = "qualify" <=> at[h] = "qualify"
<1>1. ASSUME NEW k \in Handlers, End(k)
      PROVE  \/ copy'[h] = lead
             \/ /\ copy'[h] = copy[h] /\ at[h] \in {"score", "assess", "qualify"}
                /\ at'[h] = "qualify" <=> at[h] = "qualify"
  BY <1>1 DEF End, Become, HandlersAreTyped
<1>2. ASSUME NEW k \in Handlers, NEW place, NEW what, LoadLead(k, place, what)
      PROVE  \/ copy'[h] = lead
             \/ /\ copy'[h] = copy[h] /\ at[h] \in {"score", "assess", "qualify"}
                /\ at'[h] = "qualify" <=> at[h] = "qualify"
  BY <1>2 DEF LoadLead, Begin, Become, HandlersAreTyped
<1>3. ASSUME NEW k \in Handlers, DetectRead(k) \/ CreateRead(k) \/ QuerySignals(k)
      PROVE  \/ copy'[h] = lead
             \/ /\ copy'[h] = copy[h] /\ at[h] \in {"score", "assess", "qualify"}
                /\ at'[h] = "qualify" <=> at[h] = "qualify"
  BY <1>3 DEF DetectRead, CreateRead, QuerySignals, Begin, Become, HandlersAreTyped
<1>. QED
  BY <1>1, <1>2, <1>3
     DEF Next, NewEvidence, ExtractPage, CreateEvidence, DeleteSignal, InsertSignal,
         InsertFails, ScoreRead, ScoreWrite, QualifyRead, QualifyWrite, sessions

\* The same after a step that writes the lead: only the writer is done.
LEMMA Writers ==
  ASSUME HandlersAreTyped, NEW h \in Handlers, End(h)
  PROVE  /\ at'[h] = "idle"
         /\ \A k \in Handlers \ {h} : at'[k] = at[k] /\ copy'[k] = copy[k]
BY DEF End, Become, HandlersAreTyped

LEMMA LeadTypeStep ==
  ASSUME ProspectsConstants, Shape, Next
  PROVE  LeadIsTyped'
<1>1. CASE UNCHANGED <<lead, history>>
  <2>1. HandlersAreTyped /\ LeadIsTyped
    BY DEF Shape
  <2>2. ASSUME NEW h \in Handlers, at'[h] \in {"score", "assess", "qualify"}
        PROVE  copy'[h].qualification \in Qualifications
    BY <1>1, <2>1, <2>2, Loads DEF LeadIsTyped
  <2>. QED
    BY <1>1, <2>1, <2>2 DEF LeadIsTyped
<1>2. ASSUME NEW h \in Handlers, ScoreWrite(h)
      PROVE  LeadIsTyped'
  <2>1. /\ scored' \in ScoreResult /\ lead' \in LeadRow /\ lead'.qualification = lead.qualification
        /\ \A c \in ScoreColumns :
              lead'[c] = IF scored'[c] # copy[h][c] THEN scored'[c] ELSE lead[c]
    BY <1>2, ScoreWritten
  <2>2. \A c \in ScoreColumns \ {"dataConfidence"} : scored'[c] \in 0..100
    BY <2>1 DEF ScoreResult, ScoreColumns
  <2>3. End(h)
    BY <1>2 DEF ScoreWrite
  <2>. QED
    BY <2>1, <2>2, <2>3, Writers DEF Shape, LeadIsTyped
<1>3. ASSUME NEW h \in Handlers, QualifyWrite(h)
      PROVE  LeadIsTyped'
  <2>1. /\ lead' \in LeadRow
        /\ lead'.qualification
              = IF arg[h] # copy[h].qualification THEN arg[h] ELSE lead.qualification
        /\ \A c \in LeadColumns \ {"qualification"} : lead'[c] = lead[c]
    BY <1>3, QualifyWritten
  <2>2. End(h) /\ arg[h] \in Qualifications
    BY <1>3 DEF QualifyWrite, Shape, HandlersAreTyped
  <2>3. \A c \in ScoreColumns : c \in LeadColumns \ {"qualification"}
    BY DEF ScoreColumns, LeadColumns
  <2>. QED
    BY <2>1, <2>2, <2>3, Writers DEF Shape, LeadIsTyped
<1>. QED
  BY <1>1, <1>2, <1>3, LeadSteps

LEMMA ShapeStep ==
  ASSUME ProspectsConstants, Shape, Support, Next
  PROVE  Shape'
BY EvidenceTypeStep, SignalTypeStep, HandlersTypeStep, LeadTypeStep DEF Shape

LEMMA SupportStep ==
  ASSUME ProspectsConstants, Shape, Support, Next
  PROVE  Support'
<1>1. \A s \in Rows' : Supported(signal[s])'
  BY SignalTypeStep DEF Shape
<1>2. ASSUME NEW h \in Handlers, at'[h] = "insert"
      PROVE  Supported(arg[h])'
  <2>1. \/ at[h] = "insert" /\ arg'[h] = arg[h]
        \/ DetectRead(h) \/ CreateRead(h)
    <3>. USE DEF Shape, HandlersAreTyped
    <3>1. ASSUME NEW k \in Handlers, End(k)
          PROVE  at[h] = "insert" /\ arg'[h] = arg[h]
      BY <1>2, <3>1 DEF End, Become
    <3>2. ASSUME NEW k \in Handlers, NEW place \in {"score", "qualify"}, NEW what, LoadLead(k, place, what)
          PROVE  at[h] = "insert" /\ arg'[h] = arg[h]
      BY <1>2, <3>2 DEF LoadLead, Begin, Become
    <3>3. ASSUME NEW k \in Handlers, QuerySignals(k)
          PROVE  at[h] = "insert" /\ arg'[h] = arg[h]
      BY <1>2, <3>3 DEF QuerySignals, Become
    <3>4. ASSUME NEW k \in Handlers \ {h}, DetectRead(k) \/ CreateRead(k)
          PROVE  at[h] = "insert" /\ arg'[h] = arg[h]
      BY <1>2, <3>4 DEF DetectRead, CreateRead, Begin, Become
    <3>5. CASE UNCHANGED sessions
      BY <1>2, <3>5 DEF sessions
    <3>. QED
      BY <3>1, <3>2, <3>3, <3>4, <3>5
         DEF Next, NewEvidence, ExtractPage, CreateEvidence, DeleteSignal, InsertSignal,
             InsertFails, ScoreRead, ScoreWrite, QualifyRead, QualifyWrite
  <2>2. arg'[h].evidence \subseteq Present /\ Supported(arg'[h])
    <3>1. CASE at[h] = "insert" /\ arg'[h] = arg[h]
      BY <3>1 DEF Support, Shape, HandlersAreTyped
    <3>2. CASE DetectRead(h) \/ CreateRead(h)
      BY <3>2, NewSignal DEF Shape
    <3>. QED
      BY <2>1, <3>1, <3>2
  <2>. QED
    BY <2>2, SupportStays DEF Supported
<1>. QED
  BY <1>1, <1>2 DEF Support

LEMMA CopiesStep ==
  ASSUME ProspectsConstants, Shape, CopiesAgree, Next
  PROVE  CopiesAgree'
<1>0. HandlersAreTyped
  BY DEF Shape
<1>1. CASE UNCHANGED <<lead, history>>
  BY <1>0, <1>1, Loads DEF CopiesAgree, history
<1>2. ASSUME NEW h \in Handlers, ScoreWrite(h)
      PROVE  CopiesAgree'
  <2>1. lead'.qualification = lead.qualification
    BY <1>2, ScoreWritten
  <2>2. End(h) /\ stale' = (stale \cup Scoring) \ {h}
    BY <1>2 DEF ScoreWrite, Overtake
  <2>. QED
    BY <1>0, <2>1, <2>2, Writers DEF CopiesAgree, Scoring
<1>3. ASSUME NEW h \in Handlers, QualifyWrite(h)
      PROVE  CopiesAgree'
  <2>1. \A c \in LeadColumns \ {"qualification"} : lead'[c] = lead[c]
    BY <1>3, QualifyWritten
  <2>2. End(h) /\ stale' = (stale \cup Qualifying) \ {h}
    BY <1>3 DEF QualifyWrite, Overtake
  <2>3. \A c \in ScoreColumns : c \in LeadColumns \ {"qualification"}
    BY DEF ScoreColumns, LeadColumns
  <2>. QED
    BY <1>0, <2>1, <2>2, <2>3, Writers DEF CopiesAgree, Qualifying
<1>. QED
  BY <1>1, <1>2, <1>3, LeadSteps

LEMMA LeadTellsStep ==
  ASSUME ProspectsConstants, Shape, CopiesAgree, LeadTellsItsScoring, TrailTellsQualification, Next
  PROVE  LeadTellsItsScoring' /\ TrailTellsQualification'
<1>1. CASE UNCHANGED <<lead, history>>
  BY <1>1 DEF LeadTellsItsScoring, TrailTellsQualification, history
<1>2. ASSUME NEW h \in Handlers, ScoreWrite(h)
      PROVE  LeadTellsItsScoring' /\ TrailTellsQualification'
  <2>1. /\ lead'.explanation = scored' /\ lead'.qualification = lead.qualification
        /\ \A c \in ScoreColumns :
              lead'[c] = IF scored'[c] # copy[h][c] THEN scored'[c] ELSE lead[c]
    BY <1>2, ScoreWritten
  <2>2. /\ mixed' = (IF h \in stale THEN mixed \cup {"score"} ELSE mixed)
        /\ trail' = trail /\ at[h] = "assess"
    BY <1>2 DEF ScoreWrite, Overtake
  <2>3. h \notin stale => \A c \in ScoreColumns : copy[h][c] = lead[c]
    BY <2>2 DEF CopiesAgree
  <2>. QED
    BY <2>1, <2>2, <2>3 DEF LeadTellsItsScoring, TrailTellsQualification
<1>3. ASSUME NEW h \in Handlers, QualifyWrite(h)
      PROVE  LeadTellsItsScoring' /\ TrailTellsQualification'
  <2>1. /\ lead'.qualification
              = IF arg[h] # copy[h].qualification THEN arg[h] ELSE lead.qualification
        /\ \A c \in LeadColumns \ {"qualification"} : lead'[c] = lead[c]
    BY <1>3, QualifyWritten
  <2>2. /\ mixed' = (IF h \in stale THEN mixed \cup {"qualify"} ELSE mixed)
        /\ trail' = arg[h] /\ scored' = scored /\ at[h] = "qualify"
    BY <1>3 DEF QualifyWrite, Overtake
  <2>3. h \notin stale => copy[h].qualification = lead.qualification
    BY <2>2 DEF CopiesAgree
  <2>4. \A c \in ScoreColumns \cup {"explanation"} : c \in LeadColumns \ {"qualification"}
    BY DEF ScoreColumns, LeadColumns
  <2>. QED
    BY <2>1, <2>2, <2>3, <2>4 DEF LeadTellsItsScoring, TrailTellsQualification
<1>. QED
  BY <1>1, <1>2, <1>3, LeadSteps

LEMMA AddsUpStep ==
  ASSUME ProspectsConstants, Shape, ScoredAddsUp, Next
  PROVE  ScoredAddsUp'
<1>1. ASSUME NEW h \in Handlers, ScoreWrite(h)
      PROVE  ScoredAddsUp'
  <2>1. Listed(seen[h]) /\ EvidenceIsTyped /\ scored' = Result(seen[h])
    BY <1>1, ScoreWritten DEF ScoreWrite, Shape, HandlersAreTyped
  <2>2. AddsUp(scored') /\ \A f \in scored'.factors : f.evidence \subseteq Present
    BY <2>1, ResultAddsUp, ResultType
  <2>3. AddsUp(scored)'
    BY <2>2 DEF AddsUp, Impact
  <2>. QED
    BY <2>2, <2>3, EvidenceStays DEF ScoredAddsUp
<1>2. CASE UNCHANGED scored
  BY <1>2, EvidenceStays DEF ScoredAddsUp, AddsUp, Impact
<1>. QED
  BY <1>1, <1>2, LeadSteps DEF history, QualifyWrite

LEMMA InvStep ==
  ASSUME ProspectsConstants, Inv, [Next]_vars
  PROVE  Inv'
<1>1. CASE Next
  BY <1>1, ShapeStep, SupportStep, CopiesStep, LeadTellsStep, AddsUpStep DEF Inv
<1>2. CASE UNCHANGED vars
  <2>. USE <1>2 DEF vars, rows, sessions, history
  <2>1. Shape'
    BY DEF Inv, Shape, EvidenceIsTyped, SignalsAreTyped, HandlersAreTyped, LeadIsTyped, Listed, Present, Rows
  <2>2. Support'
    <3>1. evidence' = evidence /\ signal' = signal /\ at' = at /\ arg' = arg
      OBVIOUS
    <3>2. \A s \in Rows' : Supported(signal[s])'
      BY <3>1 DEF Inv, Support, Supported, Rows
    <3>3. \A h \in Handlers : at'[h] = "insert" => Supported(arg[h])'
      BY <3>1 DEF Inv, Support, Supported
    <3>. QED
      BY <3>2, <3>3 DEF Support
  <2>3. CopiesAgree' /\ LeadTellsItsScoring' /\ TrailTellsQualification'
    BY DEF Inv, CopiesAgree, LeadTellsItsScoring, TrailTellsQualification
  <2>4. ScoredAddsUp'
    BY DEF Inv, ScoredAddsUp, AddsUp, Impact, Present
  <2>. QED
    BY <2>1, <2>2, <2>3, <2>4 DEF Inv
<1>. QED
  BY <1>1, <1>2

LEMMA InvInit == ASSUME ProspectsConstants, Init PROVE Inv
<1>. USE DEF Init
<1>1. Rows = {} /\ Present = {}
  BY DEF Rows, Present
<1>2. EvidenceIsTyped /\ SignalsAreTyped /\ HandlersAreTyped
  BY <1>1 DEF EvidenceIsTyped, SignalsAreTyped, HandlersAreTyped
<1>3. NewLead \in LeadRow
  BY DEF NewLead, LeadRow, Qualifications
<1>4. /\ NewLead.qualification = "unqualified" /\ NewLead.explanation = None
      /\ \A c \in ScoreColumns : NewLead[c] = None
  BY DEF NewLead, LeadColumns, ScoreColumns
<1>5. LeadIsTyped
  BY <1>3, <1>4 DEF LeadIsTyped, Qualifications
<1>. QED
  BY <1>1, <1>2, <1>4, <1>5
     DEF Inv, Shape, Support, CopiesAgree, LeadTellsItsScoring, TrailTellsQualification, ScoredAddsUp

-----------------------------------------------------------------------------
(* Less certain signals. *)

\* The same rows, none of them more certain.
Weaker(m, l) ==
  /\ DOMAIN m = DOMAIN l
  /\ \A i \in DOMAIN l :
       /\ m[i].type = l[i].type /\ m[i].status = l[i].status
       /\ m[i].evidence = l[i].evidence /\ m[i].age = l[i].age
       /\ m[i].confidence <= l[i].confidence

LEMMA WeakerContribution ==
  ASSUME NEW r \in SignalRow, NEW s \in SignalRow, r.type = s.type, r.confidence <= s.confidence
  PROVE  Contribution(r) <= Contribution(s)
<1>1. SignalBaseWeight[s.type] \in Nat /\ r.confidence \in Nat /\ s.confidence \in Nat
  BY ContributionType DEF SignalRow
<1>2. \A w, x, y \in Nat : x <= y => w * x <= w * y
  OBVIOUS
<1>. QED
  BY <1>1, <1>2 DEF Contribution

LEMMA WeakerSums ==
  ASSUME NEW l, NEW m, Listed(l), Listed(m), Weaker(m, l), NEW D \in SUBSET DOMAIN l
  PROVE  /\ SumFunctionOnSet(Terms(m), D) <= SumFunctionOnSet(Terms(l), D)
         /\ SumFunctionOnSet(Terms(m), D) \in Int /\ SumFunctionOnSet(Terms(l), D) \in Int
<1>1. \A i \in D : Terms(m)[i] \in Int /\ Terms(l)[i] \in Int /\ Terms(m)[i] <= Terms(l)[i]
  <2>. SUFFICES ASSUME NEW i \in D
                PROVE  Terms(m)[i] \in Int /\ Terms(l)[i] \in Int /\ Terms(m)[i] <= Terms(l)[i]
    OBVIOUS
  <2>1. /\ Terms(m)[i] = Contribution(m[i]) /\ Terms(l)[i] = Contribution(l[i])
        /\ Terms(m)[i] \in Nat /\ Terms(l)[i] \in Nat
    BY TermsType DEF Weaker
  <2>2. /\ m[i] \in SignalRow /\ l[i] \in SignalRow /\ m[i].type = l[i].type
        /\ m[i].confidence <= l[i].confidence
    BY DEF Weaker, Listed
  <2>3. Contribution(m[i]) <= Contribution(l[i])
    BY <2>2, WeakerContribution
  <2>. QED
    BY <2>1, <2>3
<1>2. IsFiniteSet(D)
  BY TermsType
<1>. QED
  BY <1>1, <1>2, SumMonotone, SumType

LEMMA WeakerActive ==
  ASSUME NEW l, NEW m, Listed(l), Listed(m), Weaker(m, l)
  PROVE  Weaker(Active(m), Active(l))
<1>1. /\ Active(l) = [i \in {j \in DOMAIN l : l[j].status # "dismissed"} |-> l[i]]
      /\ Active(m) = [i \in {j \in DOMAIN m : m[j].status # "dismissed"} |-> m[i]]
  BY DEF Active, Restrict
<1>. QED
  BY <1>1 DEF Weaker

LEMMA WeakerDimensions ==
  ASSUME NEW l, NEW m, Listed(l), Listed(m), Weaker(m, l)
  PROVE  /\ \A types : DimensionFromContributions(SignalContributions(m, types))
                         <= DimensionFromContributions(SignalContributions(l, types))
         /\ IntentScore(m) <= IntentScore(l) /\ FitScore(m) <= FitScore(l)
<1>1. ASSUME NEW types
      PROVE  DimensionFromContributions(SignalContributions(m, types))
               <= DimensionFromContributions(SignalContributions(l, types))
  <2>1. OfTypes(m, types) = OfTypes(l, types) /\ OfTypes(l, types) \in SUBSET DOMAIN l
    BY DEF Weaker, OfTypes
  <2>2. /\ SignalContributions(m, types) <= SignalContributions(l, types)
        /\ SignalContributions(m, types) \in Int /\ SignalContributions(l, types) \in Int
    BY <2>1, ContributionsAreSums, WeakerSums
  <2>. QED
    BY <2>2, DimensionMonotone
<1>2. IntentScore(m) <= IntentScore(l)
  BY <1>1 DEF IntentScore, Weaker
<1>3. FitScore(m) <= FitScore(l)
  <2>1. Last(m) = Last(l) /\ Last(l) \in SUBSET DOMAIN l
    BY DEF Weaker, Last, OfTypes
  <2>2. /\ SumFunctionOnSet(Terms(m), Last(l)) <= SumFunctionOnSet(Terms(l), Last(l))
        /\ SumFunctionOnSet(Terms(m), Last(l)) \in Int /\ SumFunctionOnSet(Terms(l), Last(l)) \in Int
    BY <2>1, WeakerSums
  <2>. QED
    BY <2>1, <2>2, DimensionMonotone, FitScoreIsSum
<1>. QED
  BY <1>1, <1>2, <1>3

LEMMA WeakerSameEvidence ==
  ASSUME NEW l, NEW m, Weaker(m, l)
  PROVE  /\ EvidenceLookup(m) = EvidenceLookup(l) /\ Freshness(m) = Freshness(l)
         /\ \A lookup : DataConfidenceScore(m, lookup) = DataConfidenceScore(l, lookup)
<1>1. UNION {m[i].evidence : i \in DOMAIN m} = UNION {l[i].evidence : i \in DOMAIN l}
  BY DEF Weaker
<1>2. {m[i].age : i \in DOMAIN m} = {l[i].age : i \in DOMAIN l}
  BY DEF Weaker
<1>3. ASSUME NEW lookup
      PROVE  DataConfidenceScore(m, lookup) = DataConfidenceScore(l, lookup)
  <2>. DEFINE known(x) == {i \in DOMAIN x : x[i].evidence \cap DOMAIN lookup # {}}
              parts(x) == [i \in known(x) |-> SumFunction([e \in x[i].evidence |-> lookup[e]])]
  <2>1. known(m) = known(l)
    BY DEF Weaker
  <2>2. \A i \in known(l) : m[i].evidence = l[i].evidence
    BY DEF Weaker
  <2>3. parts(m) = parts(l)
    BY <2>1, <2>2
  <2>4. \A x : DataConfidenceScore(x, lookup)
               = IF known(x) = {} THEN NoEvidenceDataConfidence
                 ELSE Fraction(SumFunction(parts(x)), Percent(Cardinality(known(x))))
    BY DEF DataConfidenceScore
  <2>. HIDE DEF known, parts
  <2>. QED
    BY <2>1, <2>3, <2>4
<1>. QED
  BY <1>1, <1>2, <1>3 DEF EvidenceLookup, Freshness

\* Less certain signals give no better result.
LEMMA WeakerResult ==
  ASSUME ProspectsConstants, EvidenceIsTyped, NEW l, NEW m, Listed(l), Listed(m), Weaker(m, l),
         NEW c \in {"score", "fit", "intent", "signal"}
  PROVE  Result(m)[c] <= Result(l)[c]
<1>. DEFINE s == Active(l)
            t == Active(m)
            lookup == EvidenceLookup(l)
            strength(x) == DimensionFromContributions(SignalContributions(x, SignalTypes))
            confidence == DataConfidenceScore(s, lookup)
            freshness == Freshness(s)
            score(x) == LeadScore(FitScore(x), IntentScore(x), strength(x), confidence, freshness)
<1>1. Listed(s) /\ Listed(t) /\ Weaker(t, s) /\ EvidenceLookup(m) = lookup
  BY ActiveListed, WeakerActive, WeakerSameEvidence
<1>2. confidence \in Int \X Int /\ confidence[2] > 0
  <2>1. \A i \in DOMAIN s : \A e \in s[i].evidence : lookup[e] \in Int
    BY ActiveListed, LookupType
  <2>. QED
    BY <1>1, <2>1, DataConfidenceType DEF ProspectsConstants
<1>3. freshness \in Int
  BY FreshnessType DEF Freshness
<1>4. DataConfidenceScore(t, lookup) = confidence /\ Freshness(t) = freshness
  BY <1>1, WeakerSameEvidence
<1>5. /\ FitScore(s) \in Int /\ IntentScore(s) \in Int /\ strength(s) \in Int
      /\ FitScore(t) \in Int /\ IntentScore(t) \in Int /\ strength(t) \in Int
  <2>1. \A x : Listed(x) => SignalContributions(x, SignalTypes) \in Int
    BY ContributionsAreSums
  <2>2. \A n \in 0..100 : n \in Int
    OBVIOUS
  <2>. QED
    BY <1>1, <2>1, <2>2, FitScoreType, IntentScoreType, DimensionType
<1>6. FitScore(t) <= FitScore(s) /\ IntentScore(t) <= IntentScore(s) /\ strength(t) <= strength(s)
  BY <1>1, WeakerDimensions
<1>7. DOMAIN s = DOMAIN t
  BY <1>1 DEF Weaker
<1>8. CASE DOMAIN s = {}
  <2>1. Result(l) = NoSignalResult /\ Result(m) = NoSignalResult
    BY <1>7, <1>8 DEF Result, ComputeScore
  <2>. QED
    BY <2>1 DEF NoSignalResult
<1>9. CASE DOMAIN s # {}
  <2>1. /\ Result(l).score = score(s) /\ Result(l).fit = FitScore(s)
        /\ Result(l).intent = IntentScore(s) /\ Result(l).signal = strength(s)
    BY <1>9 DEF Result, ComputeScore
  <2>2. Result(m) = [score |-> LeadScore(FitScore(t), IntentScore(t), strength(t),
                                         DataConfidenceScore(t, lookup), Freshness(t)),
                     fit |-> FitScore(t), intent |-> IntentScore(t), signal |-> strength(t),
                     dataConfidence |-> DataConfidenceScore(t, lookup), freshness |-> Freshness(t),
                     factors |-> Factors(t, lookup)]
    BY <1>1, <1>7, <1>9 DEF Result, ComputeScore
  <2>3. /\ Result(m).score = score(t) /\ Result(m).fit = FitScore(t)
        /\ Result(m).intent = IntentScore(t) /\ Result(m).signal = strength(t)
    BY <1>4, <2>2
  <2>. HIDE DEF s, t, lookup, strength, confidence, freshness
  <2>4. score(t) <= score(s)
    BY <1>2, <1>3, <1>5, <1>6, LeadScoreMonotone
  <2>. QED
    BY <1>6, <2>1, <2>3, <2>4
<1>. QED
  BY <1>8, <1>9

\* In the terms of the property: of the listed rows one is half as certain.
LEMMA WeakerListing ==
  ASSUME ProspectsConstants, SignalsAreTyped, NEW o \in Orders(Scored), NEW i \in DOMAIN o
  PROVE  LET weaker == [j \in DOMAIN o |-> IF j = i THEN [signal[o[j]] EXCEPT !.confidence = @ \div 2]
                                                     ELSE signal[o[j]]]
         IN  Listed(weaker) /\ Weaker(weaker, Listing(o))
<1>. DEFINE half(r) == [r EXCEPT !.confidence = @ \div 2]
            weaker == [j \in DOMAIN o |-> IF j = i THEN half(signal[o[j]]) ELSE signal[o[j]]]
<1>1. Listed(Listing(o)) /\ DOMAIN Listing(o) = DOMAIN o
  BY ListingListed DEF Listing
<1>2. ASSUME NEW r \in SignalRow
      PROVE  /\ half(r) \in SignalRow /\ half(r).confidence <= r.confidence
             /\ half(r).type = r.type /\ half(r).status = r.status
             /\ half(r).evidence = r.evidence /\ half(r).age = r.age
  <2>1. half(r) = [r EXCEPT !.confidence = r.confidence \div 2]
    OBVIOUS
  <2>2. r.confidence \div 2 \in 0..Certain /\ r.confidence \div 2 <= r.confidence
    BY Units DEF SignalRow
  <2>. HIDE DEF half
  <2>. QED
    BY <2>1, <2>2 DEF SignalRow
<1>3. \A j \in DOMAIN o : Listing(o)[j] = signal[o[j]]
  BY DEF Listing
<1>. HIDE DEF half
<1>4. \A j \in DOMAIN o : signal[o[j]] \in SignalRow /\ signal[o[j]].evidence \subseteq Present
  BY <1>1, <1>3 DEF Listed
<1>5. \A r \in SignalRow : r.confidence <= r.confidence
  BY DEF SignalRow
<1>6. Listed(weaker)
  BY <1>1, <1>2, <1>4 DEF Listed
<1>7. Weaker(weaker, Listing(o))
  BY <1>1, <1>2, <1>3, <1>4, <1>5 DEF Weaker
<1>. QED
  BY <1>6, <1>7 DEF half

-----------------------------------------------------------------------------
(* Rows in any order: what a scoring reads of a listing are sums over and sets of the rows,
   whatever their positions. *)

RowsOfTypes(types) == {s \in Scored : signal[s].type \in types}
RowTerms == [s \in Scored |-> Contribution(signal[s])]

\* Every row is listed, and once.
LEMMA OrderIsBijection ==
  ASSUME ProspectsConstants, NEW o \in Orders(Scored)
  PROVE  /\ DOMAIN o = 1..Cardinality(Scored) /\ IsFiniteSet(DOMAIN o)
         /\ {o[i] : i \in DOMAIN o} = Scored
         /\ \A i, j \in DOMAIN o : o[i] = o[j] => i = j
         /\ \A i \in DOMAIN o : o[i] \in Scored
<1>. DEFINE n == Cardinality(Scored)
<1>1. n \in Nat /\ IsFiniteSet(Scored)
  BY ScoredIsFinite, FS_CardinalityType
<1>2. o \in [1..n -> Scored] /\ \A i, j \in DOMAIN o : o[i] = o[j] => i = j
  BY DEF Orders
<1>3. o \in Injection(1..n, Scored)
  BY <1>2 DEF Injection, IsInjective
<1>4. IsFiniteSet(1..n) /\ Cardinality(1..n) = n
  BY <1>1, FS_Interval
<1>. HIDE DEF n
<1>5. o \in Surjection(1..n, Scored)
  BY <1>1, <1>3, <1>4, FS_Injection DEF n
<1>6. \A s \in Scored : \E i \in 1..n : o[i] = s
  BY <1>5 DEF Surjection
<1>. QED
  BY <1>2, <1>4, <1>6 DEF n

LEMMA OrderExists == ASSUME ProspectsConstants PROVE Orders(Scored) # {}
<1>. DEFINE n == Cardinality(Scored)
<1>1. PICK o : o \in Bijection(1..n, Scored)
  BY ScoredIsFinite, FS_CardinalityType DEF ExistsBijection
<1>2. o \in Orders(Scored)
  BY <1>1 DEF Bijection, Injection, IsInjective, Orders
<1>. QED
  BY <1>2

LEMMA ListingContributions ==
  ASSUME ProspectsConstants, SignalsAreTyped, NEW o \in Orders(Scored), NEW types
  PROVE  SignalContributions(Listing(o), types) = SumFunctionOnSet(RowTerms, RowsOfTypes(types))
<1>. DEFINE l == Listing(o)
            D == OfTypes(l, types)
<1>1. Listed(l) /\ DOMAIN l = DOMAIN o /\ \A i \in DOMAIN o : l[i] = signal[o[i]]
  BY ListingListed DEF Listing
<1>2. D \in SUBSET DOMAIN o
  BY <1>1 DEF OfTypes
<1>3. IsFiniteSet(D) /\ \A i \in D : Terms(l)[i] \in Int /\ Terms(l)[i] = Contribution(l[i])
  BY <1>1, <1>2, TermsType
<1>4. \A i \in D : o[i] \in Scored /\ RowTerms[o[i]] = Terms(l)[i]
  BY <1>1, <1>2, <1>3, OrderIsBijection DEF RowTerms
<1>5. {o[i] : i \in D} = RowsOfTypes(types)
  BY <1>1, OrderIsBijection DEF OfTypes, RowsOfTypes
<1>6. \A i, j \in D : o[i] = o[j] => i = j
  BY <1>2, OrderIsBijection
<1>7. SignalContributions(l, types) = SumFunctionOnSet(Terms(l), D)
  BY <1>1, ContributionsAreSums
<1>. HIDE DEF l, D
<1>8. SumFunctionOnSet(Terms(l), D) = SumFunctionOnSet(RowTerms, {o[i] : i \in D})
  BY <1>3, <1>4, <1>6, SumRenamed
<1>. QED
  BY <1>5, <1>7, <1>8 DEF l

\* Without twins, what the fit counts is one amount per type.
FitTypes == FitSignalTypes \cap {signal[s].type : s \in Scored}
TypeTerms == [t \in FitTypes |-> Contribution(signal[CHOOSE s \in Scored : signal[s].type = t])]

LEMMA ListingFit ==
  ASSUME ProspectsConstants, SignalsAreTyped, ~Twins, NEW o \in Orders(Scored)
  PROVE  FitScore(Listing(o)) = IF FitTypes = {} THEN 50
                                ELSE DimensionFromContributions(SumFunctionOnSet(TypeTerms, FitTypes))
<1>. DEFINE l == Listing(o)
            D == Last(l)
            b == [i \in D |-> l[i].type]
<1>1. Listed(l) /\ DOMAIN l = DOMAIN o /\ \A i \in DOMAIN o : l[i] = signal[o[i]] /\ o[i] \in Scored
  BY ListingListed, OrderIsBijection DEF Listing
<1>2. D \in SUBSET DOMAIN l /\ \A i \in D : l[i].type \in FitTypes
  BY <1>1 DEF Last, OfTypes, FitTypes
<1>3. IsFiniteSet(D) /\ \A i \in D : Terms(l)[i] \in Int /\ Terms(l)[i] = Contribution(l[i])
  BY <1>1, <1>2, TermsType
<1>4. ASSUME NEW i \in D
      PROVE  TypeTerms[b[i]] = Terms(l)[i]
  <2>. DEFINE r == CHOOSE s \in Scored : signal[s].type = l[i].type
  <2>1. o[i] \in Scored /\ signal[o[i]].type = l[i].type /\ l[i] = signal[o[i]]
    BY <1>1, <1>2
  <2>2. r \in Scored /\ signal[r].type = l[i].type
    BY <2>1
  <2>3. TypeTerms[b[i]] = Contribution(signal[r])
    BY <1>2 DEF TypeTerms
  <2>. HIDE DEF r
  <2>4. signal[r].confidence = l[i].confidence
    BY <1>2, <2>1, <2>2 DEF Twins, FitTypes
  <2>5. Contribution(signal[r]) = Contribution(l[i])
    BY <2>2, <2>4 DEF Contribution
  <2>. QED
    BY <1>3, <2>3, <2>5
<1>5. \A i, j \in D : b[i] = b[j] => i = j
  <2>. SUFFICES ASSUME NEW i \in D, NEW j \in D, l[i].type = l[j].type PROVE i = j
    OBVIOUS
  <2>1. i <= j /\ j <= i
    BY DEF Last, OfTypes
  <2>2. i \in Nat /\ j \in Nat
    BY <1>1, <1>2 DEF Listed
  <2>. QED
    BY <2>1, <2>2
<1>6. {b[i] : i \in D} = FitTypes
  <2>1. ASSUME NEW t \in FitTypes
        PROVE  \E x \in D : b[x] = t
    <3>1. PICK s \in Scored : signal[s].type = t
      BY DEF FitTypes
    <3>2. PICK k \in DOMAIN o : o[k] = s
      BY OrderIsBijection
    <3>3. k \in OfTypes(l, FitSignalTypes) /\ l[k].type = t
      BY <1>1, <3>1, <3>2 DEF OfTypes, FitTypes
    <3>. QED
      BY <1>1, <3>3, LastOfType
  <2>2. \A i \in D : b[i] \in FitTypes
    BY <1>2
  <2>. HIDE DEF b, D
  <2>. QED
    BY <2>1, <2>2
<1>7. FitScore(l) = IF D = {} THEN 50
                    ELSE DimensionFromContributions(SumFunctionOnSet(Terms(l), D))
  BY <1>1, FitScoreIsSum
<1>. HIDE DEF l, D, b
<1>8. SumFunctionOnSet(Terms(l), D) = SumFunctionOnSet(TypeTerms, {b[i] : i \in D})
  BY <1>3, <1>4, <1>5, SumRenamed
<1>9. D = {} <=> FitTypes = {}
  BY <1>6
<1>. QED
  BY <1>6, <1>7, <1>8, <1>9 DEF l

\* The evidence behind the rows.
RowEvidence == UNION {signal[s].evidence : s \in Scored}
RowLookup == [e \in RowEvidence |-> evidence[e].confidence]
RowsWithEvidence == {s \in Scored : signal[s].evidence \cap RowEvidence # {}}
RowConfidence == [s \in RowsWithEvidence |-> SumFunction([e \in signal[s].evidence |-> RowLookup[e]])]

LEMMA ListingLookup ==
  ASSUME ProspectsConstants, NEW o \in Orders(Scored)
  PROVE  EvidenceLookup(Listing(o)) = RowLookup
<1>1. UNION {Listing(o)[i].evidence : i \in DOMAIN Listing(o)} = RowEvidence
  BY OrderIsBijection DEF Listing, RowEvidence
<1>. QED
  BY <1>1 DEF EvidenceLookup, RowLookup

LEMMA ListingConfidence ==
  ASSUME ProspectsConstants, EvidenceIsTyped, SignalsAreTyped, NEW o \in Orders(Scored)
  PROVE  DataConfidenceScore(Listing(o), RowLookup)
           = IF RowsWithEvidence = {} THEN NoEvidenceDataConfidence
             ELSE Fraction(SumFunction(RowConfidence), Percent(Cardinality(RowsWithEvidence)))
<1>. DEFINE l == Listing(o)
            known == {i \in DOMAIN l : l[i].evidence \cap DOMAIN RowLookup # {}}
            parts == [i \in known |-> SumFunction([e \in l[i].evidence |-> RowLookup[e]])]
            b == [i \in known |-> o[i]]
<1>1. Listed(l) /\ DOMAIN l = DOMAIN o /\ \A i \in DOMAIN o : l[i] = signal[o[i]] /\ o[i] \in Scored
  BY ListingListed, OrderIsBijection DEF Listing
<1>2. DOMAIN RowLookup = RowEvidence
  BY DEF RowLookup
<1>3. known \in SUBSET DOMAIN o /\ IsFiniteSet(known)
  BY <1>1, FS_Subset, known \in SUBSET DOMAIN l DEF Listed
<1>4. {o[i] : i \in known} = RowsWithEvidence
  BY <1>1, <1>2, OrderIsBijection DEF RowsWithEvidence
<1>5. ASSUME NEW i \in known
      PROVE  parts[i] \in Int /\ RowConfidence[o[i]] = parts[i]
  <2>. DEFINE E == l[i].evidence
              f == [e \in E |-> RowLookup[e]]
  <2>1. l[i].evidence \subseteq Present /\ l[i] = signal[o[i]] /\ i \in DOMAIN l
    BY <1>1, <1>3 DEF Listed
  <2>2. IsFiniteSet(E)
    BY <2>1, FS_Subset DEF ProspectsConstants, Present
  <2>3. EvidenceLookup(l) = RowLookup
    BY ListingLookup
  <2>4. \A e \in E : RowLookup[e] \in Int
    BY <1>1, <2>1, <2>3, LookupType
  <2>5. DOMAIN f = E /\ \A e \in E : f[e] \in Int
    BY <2>4
  <2>6. parts[i] = SumFunction(f)
    OBVIOUS
  <2>7. o[i] \in RowsWithEvidence
    BY <1>4
  <2>8. RowConfidence[o[i]] = SumFunction(f)
    BY <2>1, <2>7 DEF RowConfidence
  <2>. HIDE DEF f, E, parts
  <2>9. SumFunction(f) \in Int
    BY <2>2, <2>5, SumType, SumOfFunction
  <2>. QED
    BY <2>6, <2>8, <2>9
<1>6. \A i, j \in known : o[i] = o[j] => i = j
  BY <1>3, OrderIsBijection
<1>7. DataConfidenceScore(l, RowLookup)
        = IF known = {} THEN NoEvidenceDataConfidence
          ELSE Fraction(SumFunction(parts), Percent(Cardinality(known)))
  BY DEF DataConfidenceScore
<1>8. DOMAIN parts = known /\ DOMAIN RowConfidence = RowsWithEvidence
  BY DEF RowConfidence
<1>9. b \in Surjection(known, RowsWithEvidence) /\ b \in Injection(known, RowsWithEvidence)
  BY <1>4, <1>6 DEF Surjection, Injection, IsInjective
<1>. HIDE DEF l, known, parts, b
<1>10. SumFunctionOnSet(parts, known) = SumFunctionOnSet(RowConfidence, {o[i] : i \in known})
  BY <1>3, <1>5, <1>6, SumRenamed
<1>11. SumFunction(parts) = SumFunction(RowConfidence)
  BY <1>4, <1>8, <1>10, SumOfFunction
<1>12. Cardinality(known) = Cardinality(RowsWithEvidence)
  BY <1>3, <1>9, FS_Surjection
<1>13. known = {} <=> RowsWithEvidence = {}
  BY <1>4
<1>. QED
  BY <1>7, <1>11, <1>12, <1>13 DEF l

LEMMA ListingFactors ==
  ASSUME ProspectsConstants, SignalsAreTyped, NEW o \in Orders(Scored), NEW p \in Orders(Scored)
  PROVE  Factors(Listing(o), RowLookup) = Factors(Listing(p), RowLookup)
<1>. DEFINE Types(q) == {Listing(q)[i].type : i \in DOMAIN Listing(q)}
            Behind(q, t) == UNION {Listing(q)[i].evidence :
                                   i \in {j \in DOMAIN Listing(q) : Listing(q)[j].type = t}}
<1>1. ASSUME NEW q \in Orders(Scored)
      PROVE  /\ Types(q) = {signal[s].type : s \in Scored}
             /\ \A t : Behind(q, t) = UNION {signal[s].evidence : s \in RowsOfTypes({t})}
  <2>1. DOMAIN Listing(q) = DOMAIN q /\ \A i \in DOMAIN q : Listing(q)[i] = signal[q[i]]
    BY DEF Listing
  <2>2. {q[i] : i \in DOMAIN q} = Scored
    BY OrderIsBijection
  <2>3. Types(q) = {signal[s].type : s \in Scored}
    BY <2>1, <2>2
  <2>4. ASSUME NEW t
        PROVE  Behind(q, t) = UNION {signal[s].evidence : s \in RowsOfTypes({t})}
    BY <2>1, <2>2 DEF RowsOfTypes
  <2>. QED
    BY <2>3, <2>4
<1>2. \A q, t : FactorOf(Listing(q), "intent", t)
                 = [name |-> <<"intent", t>>, impact |-> Round(Clamp(SignalContributions(Listing(q), {t}), Full), Hundredth),
                    evidence |-> Behind(q, t)]
  BY Zenon DEF FactorOf
<1>3. \A q, t : FactorOf(Listing(q), "fit", t)
                 = [name |-> <<"fit", t>>, impact |-> Round(Clamp(SignalContributions(Listing(q), {t}), Full), Hundredth),
                    evidence |-> Behind(q, t)]
  BY Zenon DEF FactorOf
<1>4. ASSUME NEW types, NEW d \in {"intent", "fit"}
      PROVE  SignalFactors(Listing(o), d, types) = SignalFactors(Listing(p), d, types)
  <2>1. \A q : SignalFactors(Listing(q), d, types)
                 = {FactorOf(Listing(q), d, t) : t \in types \cap Types(q)}
    BY FactorsByType
  <2>. HIDE DEF Types, Behind
  <2>2. Types(o) = Types(p) /\ \A t : Behind(o, t) = Behind(p, t)
    BY <1>1
  <2>3. \A t : SignalContributions(Listing(o), {t}) = SignalContributions(Listing(p), {t})
    BY ListingContributions
  <2>4. ASSUME NEW t PROVE FactorOf(Listing(o), d, t) = FactorOf(Listing(p), d, t)
    <3>1. /\ SignalContributions(Listing(o), {t}) = SignalContributions(Listing(p), {t})
          /\ Behind(o, t) = Behind(p, t)
      BY <2>2, <2>3
    <3>2. CASE d = "intent"
      BY <1>2, <3>1, <3>2
    <3>3. CASE d = "fit"
      BY <1>3, <3>1, <3>3
    <3>. QED
      BY <3>2, <3>3
  <2>. QED
    BY <2>1, <2>2, <2>4
<1>. QED
  BY <1>4 DEF Factors

LEMMA ListingActive ==
  ASSUME NEW o \in Orders(Scored)
  PROVE  Active(Listing(o)) = Listing(o)
<1>1. DOMAIN Listing(o) = DOMAIN o /\ Listing(o) = [i \in DOMAIN o |-> Listing(o)[i]]
  BY DEF Listing
<1>2. \A i \in DOMAIN o : Listing(o)[i].status # "dismissed"
  BY DEF Listing, Orders, Scored
<1>. QED
  BY <1>1, <1>2 DEF Active, Restrict

\* All orders give one result.
LEMMA OneResult ==
  ASSUME ProspectsConstants, EvidenceIsTyped, SignalsAreTyped, ~Twins,
         NEW o \in Orders(Scored), NEW p \in Orders(Scored)
  PROVE  Result(Listing(o)) = Result(Listing(p))
<1>. DEFINE l == Listing(o)
            m == Listing(p)
<1>1. DOMAIN l = DOMAIN m /\ (DOMAIN l = {} <=> DOMAIN m = {})
  BY ListingListed
<1>2. Active(l) = l /\ Active(m) = m /\ EvidenceLookup(l) = RowLookup /\ EvidenceLookup(m) = RowLookup
  BY ListingActive, ListingLookup
<1>3. \A types : SignalContributions(l, types) = SignalContributions(m, types)
  BY ListingContributions
<1>4. FitScore(l) = FitScore(m)
  BY ListingFit
<1>5. IntentScore(l) = IntentScore(m)
  <2>1. (\E i \in DOMAIN l : l[i].type \in IntentSignalTypes)
          <=> (\E i \in DOMAIN m : m[i].type \in IntentSignalTypes)
    <3>1. ASSUME NEW q \in Orders(Scored)
          PROVE  (\E i \in DOMAIN Listing(q) : Listing(q)[i].type \in IntentSignalTypes)
                   <=> (\E s \in Scored : signal[s].type \in IntentSignalTypes)
      <4>1. DOMAIN Listing(q) = DOMAIN q /\ \A i \in DOMAIN q : Listing(q)[i] = signal[q[i]]
        BY DEF Listing
      <4>2. {q[i] : i \in DOMAIN q} = Scored
        BY OrderIsBijection
      <4>. QED
        BY <4>1, <4>2
    <3>. QED
      BY <3>1
  <2>. QED
    BY <1>3, <2>1 DEF IntentScore
<1>6. DataConfidenceScore(l, RowLookup) = DataConfidenceScore(m, RowLookup)
  BY ListingConfidence
<1>7. Freshness(l) = Freshness(m)
  <2>1. ASSUME NEW q \in Orders(Scored)
        PROVE  {Listing(q)[i].age : i \in DOMAIN Listing(q)} = {signal[s].age : s \in Scored}
    <3>1. DOMAIN Listing(q) = DOMAIN q /\ \A i \in DOMAIN q : Listing(q)[i] = signal[q[i]]
      BY DEF Listing
    <3>2. {q[i] : i \in DOMAIN q} = Scored
      BY OrderIsBijection
    <3>. QED
      BY <3>1, <3>2
  <2>. QED
    BY <2>1 DEF Freshness
<1>8. Factors(l, RowLookup) = Factors(m, RowLookup)
  BY ListingFactors
<1>. HIDE DEF l, m
<1>9. ComputeScore(l, RowLookup) = ComputeScore(m, RowLookup)
  BY <1>1, <1>2, <1>3, <1>4, <1>5, <1>6, <1>7, <1>8 DEF ComputeScore
<1>. QED
  BY <1>2, <1>9 DEF Result, l, m

-----------------------------------------------------------------------------
(* The theorems. *)

LEMMA Invariance == Spec => []Inv
<1>1. Init => Inv
  BY InvInit, ProspectsConstants
<1>2. Inv /\ [Next]_vars => Inv'
  BY InvStep, ProspectsConstants
<1>. QED
  BY <1>1, <1>2, PTL DEF Spec

\* The shape of the rows, and what each handler has read where it is.
THEOREM TypeCorrectness == Spec => []TypeOK
<1>1. Inv => TypeOK
  BY NoRowIsNone, ProspectsConstants
     DEF Inv, Shape, SignalsAreTyped, HandlersAreTyped, LeadIsTyped, TypeOK
<1>. QED
  BY <1>1, Invariance, PTL

\* The explanation is the last scoring's, and so are the score columns unless two scorings
\* have overlapped (compute_lead_score).
THEOREM LeadTells == Spec => []LeadTellsItsScoring
<1>1. Inv => LeadTellsItsScoring
  BY DEF Inv
<1>. QED
  BY <1>1, Invariance, PTL

\* The audit trail tells the qualification unless two have overlapped (qualify_lead).
THEOREM TrailTells == Spec => []TrailTellsQualification
<1>1. Inv => TrailTellsQualification
  BY DEF Inv
<1>. QED
  BY <1>1, Invariance, PTL

\* A detected signal is supported by its evidence (detect_signal_type, ingest_evidence).
THEOREM DetectionSupported == Spec => []DetectionIsSupported
<1>1. Inv => DetectionIsSupported
  BY DEF Inv, Support, Supported, NoMoreCertain, DetectionIsSupported
<1>. QED
  BY <1>1, Invariance, PTL

\* The factors of every scoring add up to the score they explain, and rest on evidence
\* (_signal_factors, _dimension_from_contributions).
THEOREM Explained == Spec => []ExplanationAddsUp
<1>1. Inv => ExplanationAddsUp
  BY DEF Inv, ScoredAddsUp, AddsUp, Impact, Rounding, Of, ExplanationAddsUp, Present
<1>. QED
  BY <1>1, Invariance, PTL

\* What was deleted stays gone (uq_signals_tenant_fingerprint covers deleted rows).
THEOREM DeletedStaysGone == Spec => DeletedIsFinal
<1>1. ASSUME Inv, [Next]_vars
      PROVE  [\A s \in Rows : Gone(Fingerprint(signal[s])) => Gone(Fingerprint(signal[s]))']_vars
  <2>1. CASE Next
    BY <1>1, <2>1, GoneStays, ProspectsConstants DEF Inv, Shape
  <2>2. CASE UNCHANGED vars
    BY <2>2
  <2>. QED
    BY <1>1, <2>1, <2>2
<1>. QED
  BY <1>1, Invariance, PTL DEF Spec, DeletedIsFinal

\* Lowering the confidence of a signal raises no dimension and not the lead's score
\* (compute_score).
THEOREM WeakerNeverBetter == Spec => []WeakerIsNeverBetter
<1>1. ASSUME Inv PROVE WeakerIsNeverBetter
  <2>. SUFFICES ASSUME NEW o \in Orders(Scored), NEW i \in DOMAIN o,
                       NEW c \in {"score", "fit", "intent", "signal"}
                PROVE  LET weaker == [j \in DOMAIN o |->
                                        IF j = i THEN [signal[o[j]] EXCEPT !.confidence = @ \div 2]
                                                 ELSE signal[o[j]]]
                       IN  Result(weaker)[c] <= Result(Listing(o))[c]
    BY DEF WeakerIsNeverBetter
  <2>. DEFINE weaker == [j \in DOMAIN o |-> IF j = i THEN [signal[o[j]] EXCEPT !.confidence = @ \div 2]
                                                      ELSE signal[o[j]]]
  <2>1. EvidenceIsTyped /\ SignalsAreTyped
    BY <1>1 DEF Inv, Shape
  <2>2. Listed(weaker) /\ Weaker(weaker, Listing(o)) /\ Listed(Listing(o))
    BY <2>1, ProspectsConstants, WeakerListing, ListingListed
  <2>. HIDE DEF weaker
  <2>3. Result(weaker)[c] <= Result(Listing(o))[c]
    BY <2>1, <2>2, ProspectsConstants, WeakerResult
  <2>. QED
    BY <2>3 DEF weaker
<1>. QED
  BY <1>1, Invariance, PTL

\* The order of the rows makes no difference, unless two of them are of one type that counts
\* for the fit (assess_lead has no ORDER BY, _fit_score keeps the last).
THEOREM OrderNoMatter == Spec => []OrderIsNoMatter
<1>1. ASSUME Inv, ~Twins
      PROVE  Cardinality({Result(Listing(o)) : o \in Orders(Scored)}) = 1
  <2>1. PICK p \in Orders(Scored) : TRUE
    BY OrderExists, ProspectsConstants
  <2>2. \A o \in Orders(Scored) : Result(Listing(o)) = Result(Listing(p))
    BY <1>1, OneResult, ProspectsConstants DEF Inv, Shape
  <2>3. {Result(Listing(o)) : o \in Orders(Scored)} = {Result(Listing(p))}
    BY <2>2
  <2>. QED
    BY <2>3, FS_Singleton
<1>2. Inv => OrderIsNoMatter
  BY <1>1 DEF OrderIsNoMatter
<1>. QED
  BY <1>2, Invariance, PTL
=============================================================================
