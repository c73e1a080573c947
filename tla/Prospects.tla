------------------------------ MODULE Prospects ------------------------------
(***************************************************************************)
(* What a lead is worth, and why: evidence is collected                    *)
(* (services/extraction.py, api/v1/evidence.py), signals are detected in it*)
(* or entered by hand (services/signal_detection.py, api/v1/signals.py),   *)
(* and a lead is scored by the signals and qualified by people             *)
(* (api/v1/leads.py), all of it by concurrent handlers of the API and by   *)
(* the discovery worker, which runs the same functions.                    *)
(*                                                                         *)
(* Each call is a transaction that reads with one query after another and  *)
(* writes at its end.  A lead stays as it was loaded, and only the columns *)
(* that differ from that copy are written (see OrmFlush in module Outbox). *)
(* Evidence rows are never changed nor deleted.  An age is in days and     *)
(* does not grow while the model runs.                                     *)
(***************************************************************************)
EXTENDS Scoring, Detection

CONSTANTS
  Companies,
  Pages,         \* pages that may be extracted: source, company, hints, siteName, words, age
  ManualEvidence,\* evidence somebody may enter: source, company or none, type, confidence, words, age
  ManualSignals, \* signals somebody may enter: source, company, type, confidence, status, age
  EvidenceIds, SignalIds,   \* bounds: rows of each table
  LeadCompany,   \* the company of the lead, a set of at most one
  Verdicts,      \* qualifications somebody gives
  Handlers,      \* calls that may run at the same time
  MaxCalls,      \* bound: calls that use a handler
  None           \* model value: no row, a column that is NULL

Qualifications == {"unqualified", "candidate", "qualified", "disqualified"}
SignalStatuses == {"new", "reviewed", "qualified", "dismissed"}
ScoreColumns == {"score", "fit", "intent", "signal", "dataConfidence", "freshness"}
LeadColumns == ScoreColumns \cup {"explanation", "qualification"}

AtMostOne(S) == {{}} \cup {{x} : x \in S}

SignalRow ==
  [type : SignalTypes, company : SUBSET Companies, confidence : 0..Certain, status : SignalStatuses,
   source : {m.source : m \in Pages \cup ManualEvidence \cup ManualSignals},
   evidence : AtMostOne(EvidenceIds), age : Nat, auto : BOOLEAN, deleted : BOOLEAN]

\* What a scoring gives, and what the columns of a lead may hold.
Factor == [name : {"intent", "fit", "data_confidence"} \X (SignalTypes \cup {"no_evidence"}),
           impact : 0..FullImpact, evidence : SUBSET EvidenceIds]
ScoreResult == [score : 0..100, fit : 0..100, intent : 0..100, signal : 0..100,
                dataConfidence : Int \X Int, freshness : 0..100, factors : SUBSET Factor]
LeadRow == [LeadColumns -> 0..100 \cup (Int \X Int) \cup ScoreResult \cup Qualifications \cup {None}]

ASSUME ProspectsConstants ==
  /\ \A p \in Pages : p.company \subseteq Companies /\ Cardinality(p.company) = 1
  /\ \A m \in ManualEvidence : m.company \in AtMostOne(Companies) /\ m.confidence \in 0..Certain
  /\ \A m \in ManualSignals :
       /\ m.company \subseteq Companies /\ Cardinality(m.company) = 1
       /\ m.type \in SignalTypes /\ m.confidence \in 0..Certain /\ m.status \in SignalStatuses
  /\ LeadCompany \in AtMostOne(Companies)
  /\ Verdicts \subseteq Qualifications
  /\ \A m \in Pages \cup ManualEvidence \cup ManualSignals : m.age \in Nat
  /\ MaxCalls \in Nat
  /\ IsFiniteSet(EvidenceIds) /\ IsFiniteSet(SignalIds) /\ None \notin SignalRow \cup LeadRow

VARIABLES
  evidence,  \* the row of each id, or None
  signal,    \* likewise; a row knows whether it was detected and whether it is deleted
  lead,      \* the lead's columns
  at,        \* where each handler is: idle, or the query it has made
  copy,      \* the lead as it loaded it
  arg,       \* what it was called with
  seen,      \* the rows its query returned, in their order
  calls,
  scored,    \* history: the result of the last scoring that was written
  trail,     \* the qualification that was audited last
  stale,     \* history: the handlers overtaken by a call of their own kind
  mixed      \* history: the kinds of which a call has written from such a copy

rows == <<evidence, signal, lead>>
sessions == <<at, copy, arg, seen, calls>>
history == <<scored, trail, stale, mixed>>
vars == <<rows, sessions, history>>

-----------------------------------------------------------------------------
(* Evidence. *)

NewEvidence(row) ==
  \E e \in EvidenceIds :
    /\ evidence[e] = None
    /\ evidence' = [evidence EXCEPT ![e] = row]
    /\ UNCHANGED <<signal, lead, sessions, history>>

\* ingest_raw_document, its last part: the page's evidence, once more at every extraction.
ExtractPage(p) ==
  NewEvidence([source |-> p.source, company |-> p.company, words |-> p.words,
               type |-> EvidenceTypeOf(ClassifyPage(p.hints)),
               confidence |-> Percent(PageConfidence(p.siteName)), age |-> p.age])

CreateEvidence(m) ==
  NewEvidence([source |-> m.source, company |-> m.company, words |-> m.words, type |-> m.type,
               confidence |-> m.confidence, age |-> m.age])

-----------------------------------------------------------------------------
(* Signals.  The fingerprint is made of the company, the type and the source. *)

Fingerprint(s) == <<s.company, s.type, s.source>>
Rows == {s \in SignalIds : signal[s] # None}
Live == {s \in Rows : ~signal[s].deleted}
Known(f) == \E s \in Live : Fingerprint(signal[s]) = f

\* Mutant: the index covers live rows only.
PartialIndex(f) == ~Known(f)

\* The unique index covers deleted rows too.
Unique(f) == \A s \in Rows : Fingerprint(signal[s]) # f

Become(h, place) == at' = [at EXCEPT ![h] = place]

Begin(h, place, what) ==
  /\ at[h] = "idle" /\ calls < MaxCalls
  /\ calls' = calls + 1
  /\ Become(h, place)
  /\ arg' = [arg EXCEPT ![h] = what]

\* Back to idle, with nothing left of the call.
End(h) ==
  /\ Become(h, "idle")
  /\ arg' = [arg EXCEPT ![h] = None]
  /\ copy' = [copy EXCEPT ![h] = None]
  /\ seen' = [seen EXCEPT ![h] = <<>>]
  /\ UNCHANGED calls

\* round(min(...), 4) of ingest_evidence.
DetectedConfidence(known, base) == Fine * Round(Min({known, Percent(base)}), Fine)

\* The signal an evidence row supports, none or one.
Detected(e) ==
  {[type |-> d[1], company |-> evidence[e].company, source |-> evidence[e].source,
    confidence |-> DetectedConfidence(evidence[e].confidence, d[2]), status |-> "new", evidence |-> {e},
    age |-> evidence[e].age, auto |-> TRUE, deleted |-> FALSE] :
   d \in DetectSignalType(evidence[e].words, evidence[e].type)}

\* ingest_evidence up to its lookup; a signal that is there already is returned as it is.
DetectRead(h) ==
  \E e \in {e \in EvidenceIds : evidence[e] # None} :
    /\ evidence[e].company # {}
    /\ \E s \in Detected(e) : ~Known(Fingerprint(s)) /\ Begin(h, "insert", s)
    /\ UNCHANGED <<rows, copy, seen, history>>

\* POST /signals up to its lookup, with evidence of the tenant or none.
CreateRead(h) ==
  \E m \in ManualSignals, ev \in AtMostOne({e \in EvidenceIds : evidence[e] # None}) :
    LET s == [type |-> m.type, company |-> m.company, source |-> m.source,
              confidence |-> m.confidence, status |-> m.status, evidence |-> ev,
              age |-> m.age, auto |-> FALSE, deleted |-> FALSE]
    IN /\ ~Known(Fingerprint(s))
       /\ Begin(h, "insert", s)
       /\ UNCHANGED <<rows, copy, seen, history>>

InsertSignal(h) ==
  /\ at[h] = "insert"
  /\ Unique(Fingerprint(arg[h]))
  /\ \E s \in SignalIds \ Rows : signal' = [signal EXCEPT ![s] = arg[h]]
  /\ End(h)
  /\ UNCHANGED <<evidence, lead, history>>

\* The index refuses the row: IntegrityError, and the transaction is rolled back.
InsertFails(h) ==
  /\ at[h] = "insert"
  /\ ~Unique(Fingerprint(arg[h]))
  /\ End(h)
  /\ UNCHANGED <<rows, history>>

DeleteSignal ==
  \E s \in Live :
    /\ signal' = [signal EXCEPT ![s].deleted = TRUE]
    /\ UNCHANGED <<evidence, lead, sessions, history>>

-----------------------------------------------------------------------------
(* The lead. *)

\* Mutant: the whole row is written.
FlushAll(h, new) == new

\* The columns in which the handler's row differs from what it loaded.
Flush(h, new) == [c \in LeadColumns |-> IF new[c] # copy[h][c] THEN new[c] ELSE lead[c]]

Scoring == {h \in Handlers : at[h] \in {"score", "assess"}}
Qualifying == {h \in Handlers : at[h] = "qualify"}

Overtake(h, peers, kind) ==
  /\ stale' = (stale \cup peers) \ {h}
  /\ mixed' = IF h \in stale THEN mixed \cup {kind} ELSE mixed

LoadLead(h, place, what) ==
  /\ Begin(h, place, what)
  /\ copy' = [copy EXCEPT ![h] = lead]
  /\ UNCHANGED <<rows, seen, history>>

ScoreRead(h) == LoadLead(h, "score", None)

\* assess_lead: without a company, every signal of the tenant.
Scored == {s \in Live : /\ signal[s].status # "dismissed"
                        /\ LeadCompany # {} => signal[s].company = LeadCompany}

Orders(S) == {o \in [1..Cardinality(S) -> S] : \A i, j \in DOMAIN o : o[i] = o[j] => i = j}
Listing(o) == [i \in DOMAIN o |-> signal[o[i]]]

\* There is no ORDER BY: the rows come in any order.
QuerySignals(h) ==
  /\ at[h] = "score"
  /\ \E o \in Orders(Scored) : seen' = [seen EXCEPT ![h] = Listing(o)]
  /\ Become(h, "assess")
  /\ UNCHANGED <<rows, copy, arg, calls, history>>

\* The second query: the confidence of the evidence the signals name.
EvidenceLookup(signals) ==
  [e \in UNION {signals[i].evidence : i \in DOMAIN signals} |-> evidence[e].confidence]

Result(signals) == ComputeScore(signals, EvidenceLookup(signals))

\* The explanation is always written: it holds the time it was computed at.
ScoreWrite(h) ==
  LET result == Result(seen[h])
      new == [c \in LeadColumns |-> IF c \in ScoreColumns THEN result[c] ELSE copy[h][c]]
  IN /\ at[h] = "assess"
     /\ lead' = [Flush(h, new) EXCEPT !.explanation = result]
     /\ scored' = result
     /\ Overtake(h, Scoring, "score")
     /\ End(h)
     /\ UNCHANGED <<evidence, signal, trail>>

\* At least one evidence of the tenant is required, whichever it is about.
QualifyRead(h) ==
  \E q \in Verdicts :
    /\ \E e \in EvidenceIds : evidence[e] # None
    /\ LoadLead(h, "qualify", q)

QualifyWrite(h) ==
  /\ at[h] = "qualify"
  /\ lead' = Flush(h, [copy[h] EXCEPT !.qualification = arg[h]])
  /\ trail' = arg[h]
  /\ Overtake(h, Qualifying, "qualify")
  /\ End(h)
  /\ UNCHANGED <<evidence, signal, scored>>

-----------------------------------------------------------------------------

NewLead == [c \in LeadColumns |-> IF c = "qualification" THEN "unqualified" ELSE None]

Init ==
  /\ evidence = [e \in EvidenceIds |-> None]
  /\ signal = [s \in SignalIds |-> None]
  /\ lead = NewLead
  /\ at = [h \in Handlers |-> "idle"]
  /\ copy = [h \in Handlers |-> None]
  /\ arg = [h \in Handlers |-> None]
  /\ seen = [h \in Handlers |-> <<>>]
  /\ calls = 0
  /\ scored = None
  /\ trail = "unqualified"
  /\ stale = {}
  /\ mixed = {}

Next ==
  \/ \E p \in Pages : ExtractPage(p)
  \/ \E m \in ManualEvidence : CreateEvidence(m)
  \/ DeleteSignal
  \/ \E h \in Handlers :
       \/ DetectRead(h) \/ CreateRead(h) \/ InsertSignal(h) \/ InsertFails(h)
       \/ ScoreRead(h) \/ QuerySignals(h) \/ ScoreWrite(h)
       \/ QualifyRead(h) \/ QualifyWrite(h)

Spec == Init /\ [][Next]_vars

-----------------------------------------------------------------------------
(* Properties. *)

\* The shape of the state: rows, and what each handler has read at the place it is at.
TypeOK ==
  /\ signal \in [SignalIds -> SignalRow \cup {None}]
  /\ lead.qualification \in Qualifications
  /\ \A c \in ScoreColumns \ {"dataConfidence"} : lead[c] \in 0..100 \cup {None}
  /\ \A h \in Handlers :
       /\ at[h] \in {"idle", "insert", "score", "assess", "qualify"}
       /\ (copy[h] # None) <=> (at[h] \in {"score", "assess", "qualify"})

\* The lead tells its last scoring: the explanation is that scoring's, and unless two
\* scorings have overlapped, so is every score column, whatever is qualified meanwhile
\* (compute_lead_score writes through a session that may hold an old copy of the lead).
LeadTellsItsScoring ==
  /\ lead.explanation = scored
  /\ scored # None /\ "score" \notin mixed => \A c \in ScoreColumns : lead[c] = scored[c]

\* The audit trail tells the lead's qualification, whatever is scored meanwhile, unless
\* two qualifications have overlapped (qualify_lead audits what it was asked for, and
\* writes it only if its copy says something else).
TrailTellsQualification == "qualify" \notin mixed => lead.qualification = trail

\* What an explanation adds up to is the score it explains, up to the roundings of both: the
\* intent neither more nor less, and the fit at most, as one signal of each type counts for
\* it; and a factor rests on evidence there is (_signal_factors rounds each factor to two
\* decimals, _dimension_from_contributions their sum to a whole number).
ExplanationAddsUp ==
  scored # None =>
    LET factors(d) == {f \in scored.factors : f.name[1] = d}
        impact(d) == Min({FullImpact, SumFunction([f \in factors(d) |-> f.impact])})
        rounding(d) == 100 + Cardinality(factors(d))
    IN /\ 2 * (100 * scored.intent - impact("intent")) \in -rounding("intent")..rounding("intent")
       /\ \/ 2 * (100 * scored.fit - impact("fit")) <= rounding("fit")
          \/ scored.fit = 50 /\ factors("fit") = {}
       /\ \A f \in scored.factors : f.evidence \subseteq {e \in EvidenceIds : evidence[e] # None}

\* A signal somebody deleted stays gone, however often its page is extracted again, its
\* evidence detected again or the signal entered again: the lookups miss it, the unique
\* index does not (uq_signals_tenant_fingerprint).
Gone(f) == ~Known(f) /\ \E s \in Rows : Fingerprint(signal[s]) = f
DeletedIsFinal == [][\A s \in Rows : Gone(Fingerprint(signal[s])) => Gone(Fingerprint(signal[s]))']_vars

\* A detected signal is supported by its evidence: it is about the same company, no more
\* certain but for half a ten-thousandth, and of the type that the kind of page stands for
\* or, on a page that stands for none, of a type its words name; a page that only suggests a
\* type needs the word for that very type (detect_signal_type: nothing is ever fabricated).
DetectionIsSupported ==
  \A s \in Rows : signal[s].auto =>
    \A e \in signal[s].evidence :
      /\ signal[s].company = evidence[e].company
      /\ 2 * (signal[s].confidence - evidence[e].confidence) <= Fine
      /\ \/ signal[s].type = evidence[e].type
         \/ /\ signal[s].type \in evidence[e].words
            /\ SuggestiveEvidenceToSignal(evidence[e].type) \in {{}, {signal[s].type}}

\* The same signals give the same score whatever order the database lists them in, unless
\* two of them are of one type that counts for the fit (_fit_score keeps the last).
Twins == \E s, t \in Scored : /\ signal[s].type = signal[t].type
                              /\ signal[s].type \in FitSignalTypes
                              /\ signal[s].confidence # signal[t].confidence
OrderIsNoMatter == ~Twins => Cardinality({Result(Listing(o)) : o \in Orders(Scored)}) = 1

\* Less certain signals never give a better score: lowering the confidence of one raises
\* neither a dimension nor the lead's score (compute_score).
WeakerIsNeverBetter ==
  \A o \in Orders(Scored) : \A i \in DOMAIN o :
    LET weaker == [j \in DOMAIN o |-> IF j = i THEN [signal[o[j]] EXCEPT !.confidence = @ \div 2]
                                                ELSE signal[o[j]]]
    IN \A c \in {"score", "fit", "intent", "signal"} : Result(weaker)[c] <= Result(Listing(o))[c]
=============================================================================
