---------------------------- MODULE IntakeProofs ----------------------------
(***************************************************************************)
(* Machine-checked proofs about Policy and Intake, for any intents, rules, *)
(* opt-outs, sessions and bounds.                                          *)
(***************************************************************************)
EXTENDS Intake, TLAPS

-----------------------------------------------------------------------------
(* The engine. *)

\* A denial decides, whatever other reasons there are: no gap in the context masks it, and
\* no rule outweighs it (services/policy.py:255-261).
THEOREM DenialDecides ==
  ASSUME NEW i, NEW r \in Reasons(i), r.severity = "deny"
  PROVE  Evaluate(i) = "DENY"
BY DEF Evaluate, Verdict, Denials

LEMMA VerdictRange == \A R : Verdict(R) \in {"ALLOW", "REVIEW", "DENY"}
BY DEF Verdict

\* What each verdict says of the reasons it was given.
LEMMA StatusMeans ==
  ASSUME NEW R
  PROVE  /\ InitialStatus(Verdict(R)) \in {"approved", "pending", "denied"}
         /\ InitialStatus(Verdict(R)) = "approved" => R = {}
         /\ InitialStatus(Verdict(R)) = "pending" => Denials(R) = {} /\ R # {}
         /\ InitialStatus(Verdict(R)) = "denied" => Denials(R) # {}
<1>1. Denials({}) = {}
  BY DEF Denials
<1>2. CASE Denials(R) # {}
  BY <1>2 DEF Verdict, InitialStatus
<1>3. CASE Denials(R) = {} /\ R # {}
  BY <1>3 DEF Verdict, InitialStatus
<1>4. CASE R = {}
  BY <1>1, <1>4 DEF Verdict, InitialStatus
<1>. QED
  BY <1>2, <1>3, <1>4

\* A reason names the rule it comes from: two rules never give the same one.
LEMMA RulesApart ==
  ASSUME NEW i, NEW j, NEW r \in Reasons(j)
  PROVE  /\ r \in GlobalOutreachRule(i) => r \in GlobalOutreachRule(j)
         /\ r \in DncRule(i) => r \in DncRule(j)
         /\ r \in CampaignRule(i) => r \in CampaignRule(j)
         /\ r \in ChannelRule(i) => r \in ChannelRule(j)
         /\ r \in ConsentRule(i) => r \in ConsentRule(j)
         /\ r \in QualificationRule(i) => r \in QualificationRule(j)
         /\ r \in ScoreRule(i) => r \in ScoreRule(j)
         /\ r \in FreshnessRule(i) => r \in FreshnessRule(j)
         /\ r \in FrequencyRule(i) => r \in FrequencyRule(j)
<1> DEFINE Codes(x) ==
      /\ r \in GlobalOutreachRule(x) => r.code = "OUTREACH_DISABLED"
      /\ r \in DncRule(x) => r.code = "DO_NOT_CONTACT"
      /\ r \in CampaignRule(x) => r.code = "CAMPAIGN_NOT_RUNNING"
      /\ r \in ChannelRule(x) => r.code \in {"CHANNEL_UNSPECIFIED", "CHANNEL_NOT_ALLOWED"}
      /\ r \in ConsentRule(x) => r.code \in {"CONSENT_UNKNOWN", "CONSENT_BLOCKED"}
      /\ r \in QualificationRule(x) => r.code = "QUALIFICATION_REQUIRED"
      /\ r \in ScoreRule(x) => r.code \in {"SCORE_UNKNOWN", "SCORE_TOO_LOW"}
      /\ r \in FreshnessRule(x) => r.code \in {"EVIDENCE_REQUIRED", "EVIDENCE_STALE"}
      /\ r \in FrequencyRule(x) => r.code = "FREQUENCY_LIMIT"
<1>1. \A x : Codes(x)
  BY DEF GlobalOutreachRule, DncRule, CampaignRule, ChannelRule, ConsentRule,
         QualificationRule, ScoreRule, FreshnessRule, FrequencyRule, When, Deny, Review
<1>2. Codes(i) /\ Codes(j)
  BY <1>1
<1>. QED
  BY <1>2 DEF Reasons

\* Let m be the context so far, c the context of a later moment, and n one that takes each
\* piece either from m or from c.  Then what m and c both object to, n objects to; and n
\* objects to nothing that neither of them does.
LEMMA Mixture ==
  ASSUME NEW m, NEW n, NEW c,
         n.enabled = m.enabled, n.policy = m.policy, n.channel = m.channel,
         c.policy = m.policy,
         n.dnc = m.dnc \/ n.dnc = c.dnc,
         n.running = m.running \/ n.running = c.running,
         n.basis = m.basis \/ n.basis = c.basis,
         n.qualification = m.qualification \/ n.qualification = c.qualification,
         n.score = m.score \/ n.score = c.score,
         (n.evidence = m.evidence /\ n.age = m.age) \/ (n.evidence = c.evidence /\ n.age = c.age),
         n.capped = m.capped \/ n.capped = c.capped
  PROVE  /\ Reasons(m) \cap Reasons(c) \subseteq Reasons(n)
         /\ Reasons(n) \subseteq Reasons(m) \cup Reasons(c)
<1>1. GlobalOutreachRule(n) = GlobalOutreachRule(m)
  BY DEF GlobalOutreachRule
<1>2. DncRule(n) = DncRule(m) \/ DncRule(n) = DncRule(c)
  BY DEF DncRule
<1>3. CampaignRule(n) = CampaignRule(m) \/ CampaignRule(n) = CampaignRule(c)
  BY DEF CampaignRule
<1>4. ChannelRule(n) = ChannelRule(m)
  BY DEF ChannelRule
<1>5. ConsentRule(n) = ConsentRule(m) \/ ConsentRule(n) = ConsentRule(c)
  BY DEF ConsentRule
<1>6. QualificationRule(n) = QualificationRule(m) \/ QualificationRule(n) = QualificationRule(c)
  BY DEF QualificationRule
<1>7. ScoreRule(n) = ScoreRule(m) \/ ScoreRule(n) = ScoreRule(c)
  BY DEF ScoreRule
<1>8. FreshnessRule(n) = FreshnessRule(m) \/ FreshnessRule(n) = FreshnessRule(c)
  BY DEF FreshnessRule
<1>9. FrequencyRule(n) = FrequencyRule(m) \/ FrequencyRule(n) = FrequencyRule(c)
  BY DEF FrequencyRule
<1>10. ASSUME NEW r \in Reasons(m), r \in Reasons(c)
       PROVE  r \in Reasons(n)
  <2>1. \/ r \in GlobalOutreachRule(m) \/ r \in DncRule(m) \/ r \in CampaignRule(m)
        \/ r \in ChannelRule(m) \/ r \in ConsentRule(m) \/ r \in QualificationRule(m)
        \/ r \in ScoreRule(m) \/ r \in FreshnessRule(m) \/ r \in FrequencyRule(m)
    BY DEF Reasons
  <2>. QED
    BY <1>1, <1>2, <1>3, <1>4, <1>5, <1>6, <1>7, <1>8, <1>9, <1>10, <2>1, RulesApart DEF Reasons
<1>11. Reasons(n) \subseteq Reasons(m) \cup Reasons(c)
  BY <1>1, <1>2, <1>3, <1>4, <1>5, <1>6, <1>7, <1>8, <1>9 DEF Reasons
<1>. QED
  BY <1>10, <1>11
-----------------------------------------------------------------------------
(* Type correctness. *)

Rules(k) == IF k.campaign THEN campaign.policy ELSE NoPolicy({"email"})

\* The fields each query fills, and those it leaves alone.
LEMMA Queries ==
  ASSUME NEW i \in ContextType, NEW k \in Intents, TypeOK
  PROVE  /\ WithLead(i) \in ContextType
         /\ WithLead(i) = [i EXCEPT !.score = lead.score, !.qualification = lead.qualification]
         /\ WithCampaign(i, k) \in ContextType
         /\ WithSignals(i) \in ContextType
         /\ WithDnc(i, k) \in ContextType
         /\ WithConsent(i, k) \in ContextType
         /\ WithFrequency(i, k) \in ContextType
<1>1. lead.score \in SUBSET (0..100) /\ lead.qualification \in Qualifications
  <2>1. lead \in [score : Optional(0..100), qualification : Qualifications]
    BY IntakeConstants DEF TypeOK
  <2>2. \A S : Optional(S) \subseteq SUBSET S
    BY DEF Optional
  <2>. QED
    BY <2>1, <2>2
<1>2. WithLead(i) \in ContextType
  BY <1>1 DEF WithLead, ContextType
<1>3. campaign.policy \in Policies
  BY DEF TypeOK
<1>4. WithCampaign(i, k) \in ContextType
  <2>1. (k.campaign => campaign.status = "running") \in BOOLEAN
    OBVIOUS
  <2>2. Rules(k) \in Policies \cup {NoPolicy({}), NoPolicy({"email"})}
    BY <1>3 DEF Rules
  <2>3. WithCampaign(i, k) = [i EXCEPT !.running = k.campaign => campaign.status = "running",
                                       !.policy = Rules(k)]
    BY DEF WithCampaign, Rules
  <2>. QED
    BY <2>1, <2>2, <2>3 DEF ContextType
<1>5. WithSignals(i) \in ContextType
  <2>1. {s.age : s \in signals} \in SUBSET Nat
    BY IntakeConstants DEF TypeOK
  <2>. QED
    BY <2>1, ZenonT(60) DEF WithSignals, ContextType
<1>6. WithDnc(i, k) \in ContextType
  BY ZenonT(60) DEF WithDnc, ContextType
<1>7. WithConsent(i, k) \in ContextType
  <2>1. k.contact # {} => (CHOOSE c \in Contacts : c \in k.contact) \in Contacts
    BY IntakeConstants DEF Optional
  <2>2. (IF k.contact = {} THEN "none" ELSE consent[CHOOSE c \in Contacts : c \in k.contact])
        \in Bases
    BY <2>1 DEF TypeOK, Bases
  <2>. QED
    BY <2>2 DEF WithConsent, ContextType
<1>8. WithFrequency(i, k) \in ContextType
  BY ZenonT(60) DEF WithFrequency, ContextType
<1>. QED
  BY <1>2, <1>4, <1>5, <1>6, <1>7, <1>8 DEF WithLead

\* The signals fill two fields and leave the others alone.
LEMMA SignalFields ==
  \E newest, some : \A i \in ContextType :
     WithSignals(i) = [i EXCEPT !.age = newest, !.evidence = some]
<1> DEFINE ages == {x.age : x \in signals}
           newest == {x \in ages : \A y \in ages : x <= y}
           some == \E x \in signals : x.evidence
<1>1. \A i : WithSignals(i) = [i EXCEPT !.age = newest, !.evidence = some]
  BY DEF WithSignals
<1> HIDE DEF newest, some
<1>. QED
  BY <1>1

LEMMA SignalsLeave ==
  ASSUME NEW i \in ContextType
  PROVE  LET j == WithSignals(i)
         IN /\ j.enabled = i.enabled /\ j.channel = i.channel /\ j.policy = i.policy
            /\ j.score = i.score /\ j.qualification = i.qualification
            /\ j.running = i.running /\ j.dnc = i.dnc /\ j.basis = i.basis
            /\ j.capped = i.capped
            /\ \A h \in ContextType : j.age = WithSignals(h).age /\ j.evidence = WithSignals(h).evidence
<1>1. PICK newest, some : \A h \in ContextType :
                            WithSignals(h) = [h EXCEPT !.age = newest, !.evidence = some]
  BY SignalFields
<1>. QED
  BY <1>1 DEF ContextType

LEMMA BlankType ==
  ASSUME NEW k \in Intents
  PROVE  Blank(k) \in ContextType
BY IntakeConstants DEF Blank, ContextType, NoPolicy, Bases, Qualifications

LEMMA InitType == Init => TypeOK
BY IntakeConstants DEF Init, TypeOK, RequestStates

\* A handler takes a step of its own.
LEMMA QueryType ==
  ASSUME TypeOK, NEW p \in Sessions, NEW k \in Intents, NEW i \in ContextType,
         NEW step \in {"campaign", "lookup", "signals", "dnc", "consent", "frequency"},
         NEW next \in {"lookup", "signals", "dnc", "consent", "frequency", "decide"},
         Query(p, k, step, next, i)
  PROVE  TypeOK'
BY IntakeConstants DEF Query, At, Goto, Gather, TypeOK, world

LEMMA EndCallType ==
  ASSUME TypeOK, NEW p \in Sessions, EndCall(p), UNCHANGED <<world, draft, edits, calls>>,
         request' \in [Intents -> RequestStates], decisions' \in [Intents -> Nat]
  PROVE  TypeOK'
BY IntakeConstants DEF EndCall, Goto, Gather, TypeOK, world

LEMMA HandleType ==
  ASSUME TypeOK, NEW p \in Sessions, NEW k \in Intents, Handle(p, k)
  PROVE  TypeOK'
<1>1. CASE ReadLead(p, k)
  <2>1. WithLead(Blank(k)) \in ContextType
    BY BlankType, Queries
  <2>2. calls' \in 0..MaxCalls
    BY <1>1, IntakeConstants DEF ReadLead, TypeOK
  <2>. QED
    BY <1>1, <2>1, <2>2, IntakeConstants DEF ReadLead, At, Goto, Gather, TypeOK, world
<1>2. At(p, pc[p], k) => inp[p] \in ContextType
  BY IntakeConstants DEF At, TypeOK
<1>3. CASE ReadCampaign(p, k)
  BY <1>2, <1>3, Queries, QueryType DEF ReadCampaign, Query, At
<1>4. CASE LookUp(p, k)
  BY <1>2, <1>4, QueryType DEF LookUp, Query, At
<1>5. CASE ReadSignals(p, k)
  BY <1>2, <1>5, Queries, QueryType DEF ReadSignals, Query, At
<1>6. CASE ReadDnc(p, k)
  BY <1>2, <1>6, Queries, QueryType DEF ReadDnc, Query, At
<1>7. CASE ReadConsent(p, k)
  BY <1>2, <1>7, Queries, QueryType DEF ReadConsent, Query, At
<1>8. CASE ReadFrequency(p, k)
  BY <1>2, <1>8, Queries, QueryType DEF ReadFrequency, Query, At
<1>9. CASE Replay(p, k)
  BY <1>9, EndCallType DEF Replay, TypeOK
<1>10. CASE Decide(p, k)
  <2>1. request' \in [Intents -> RequestStates]
    BY <1>10, StatusMeans DEF Decide, Evaluate, TypeOK, RequestStates
  <2>2. decisions' \in [Intents -> Nat]
    BY <1>10 DEF Decide, TypeOK
  <2>. QED
    BY <1>10, <2>1, <2>2, EndCallType DEF Decide
<1>11. CASE LoseRace(p, k)
  BY <1>11, EndCallType DEF LoseRace, TypeOK
<1>. QED
  BY <1>1, <1>3, <1>4, <1>5, <1>6, <1>7, <1>8, <1>9, <1>10, <1>11 DEF Handle

LEMMA EditType ==
  ASSUME TypeOK, Edit
  PROVE  edits' \in 0..MaxEdits
BY IntakeConstants DEF Edit, TypeOK

LEMMA WorldType ==
  ASSUME TypeOK, WorldStep
  PROVE  TypeOK'
<1>1. ASSUME NEW e \in Editors, OpenCampaign(e)
      PROVE  TypeOK'
  BY <1>1, EditType DEF OpenCampaign, Edit, TypeOK, world, handlers
<1>2. ASSUME NEW e \in Editors, NEW s \in CampaignStatuses, NEW c \in Policies,
             PatchCampaign(e, s, c)
      PROVE  TypeOK'
  BY <1>2 DEF PatchCampaign, TypeOK, handlers
<1>3. CASE DeleteCampaign
  BY <1>3, EditType DEF DeleteCampaign, Edit, TypeOK, handlers
<1>4. ASSUME NEW r \in Rows, CreateDnc(r) \/ EndDnc(r)
      PROVE  TypeOK'
  BY <1>4, EditType DEF CreateDnc, EndDnc, Edit, TypeOK, handlers
<1>5. ASSUME NEW c \in Contacts, NEW b \in Bases, RecordConsent(c, b)
      PROVE  TypeOK'
  BY <1>5, EditType DEF RecordConsent, Edit, TypeOK, handlers
<1>6. ASSUME NEW l \in Leads, UpdateLead(l)
      PROVE  TypeOK'
  BY <1>6, EditType DEF UpdateLead, Edit, TypeOK, handlers
<1>7. ASSUME NEW S \in SUBSET Signals, ChangeSignals(S)
      PROVE  TypeOK'
  BY <1>7, EditType DEF ChangeSignals, Edit, TypeOK, handlers
<1>8. ASSUME NEW k \in Intents, TakeUp(k)
      PROVE  TypeOK'
  BY <1>8 DEF TakeUp, TypeOK, RequestStates, world, handlers
<1>9. ASSUME NEW k \in Intents, NEW s \in {"approved", "past"}, DropOut(k, s)
      PROVE  TypeOK'
  BY <1>9 DEF DropOut, TypeOK, RequestStates, world, handlers
<1>. QED
  BY <1>1, <1>2, <1>3, <1>4, <1>5, <1>6, <1>7, <1>8, <1>9 DEF WorldStep

LEMMA StepType == TypeOK /\ [Next]_vars => TypeOK'
<1>. SUFFICES ASSUME TypeOK, [Next]_vars PROVE TypeOK'
  OBVIOUS
<1>1. CASE Next
  BY <1>1, HandleType, WorldType DEF Next
<1>2. CASE UNCHANGED vars
  BY <1>2 DEF vars, world, handlers, history, TypeOK
<1>. QED
  BY <1>1, <1>2

\* Every variable keeps its shape, for any constants.
THEOREM TypeCorrectness == Spec => []TypeOK
<1>. QED
  BY InitType, StepType, PTL DEF Spec

-----------------------------------------------------------------------------
(* One request per intent. *)

\* One intent has at most one request and one committed decision, whatever calls race for
\* it or repeat it, for any number of handlers.
THEOREM OneRequest == Spec => []OneRequestPerIntent
<1>1. Init => OneRequestPerIntent
  BY DEF Init, OneRequestPerIntent
<1>2. TypeOK /\ OneRequestPerIntent /\ [Next]_vars => OneRequestPerIntent'
  <2>. SUFFICES ASSUME TypeOK, OneRequestPerIntent, [Next]_vars
                PROVE  OneRequestPerIntent'
    OBVIOUS
  <2>1. CASE UNCHANGED <<request, decisions>>
    BY <2>1 DEF OneRequestPerIntent
  <2>2. ASSUME NEW p \in Sessions, NEW k \in Intents, Decide(p, k)
        PROVE  OneRequestPerIntent'
    <3>1. request[k] = "absent" /\ decisions[k] = 0
      BY <2>2 DEF Decide, KeyIsFree, OneRequestPerIntent
    <3>2. PICK s \in {"approved", "pending", "denied"} : request' = [request EXCEPT ![k] = s]
      BY <2>2, StatusMeans DEF Decide, Evaluate
    <3>. QED
      BY <2>2, <3>1, <3>2 DEF Decide, OneRequestPerIntent, TypeOK
  <2>3. ASSUME NEW k \in Intents, TakeUp(k) \/ \E s \in {"approved", "past"} : DropOut(k, s)
        PROVE  OneRequestPerIntent'
    BY <2>3 DEF TakeUp, DropOut, OneRequestPerIntent, TypeOK
  <2>4. ASSUME NEW p \in Sessions, NEW k \in Intents, Handle(p, k), ~Decide(p, k)
        PROVE  UNCHANGED <<request, decisions>>
    BY <2>4 DEF Handle, ReadLead, ReadCampaign, Replay, LookUp, ReadSignals, ReadDnc,
                ReadConsent, ReadFrequency, LoseRace, Query
  <2>5. CASE WorldStep
    BY <2>1, <2>3, <2>5 DEF WorldStep, OpenCampaign, PatchCampaign, DeleteCampaign, CreateDnc,
       EndDnc, RecordConsent, UpdateLead, ChangeSignals
  <2>. QED
    BY <2>1, <2>2, <2>4, <2>5 DEF Next, vars
<1>. QED
  BY <1>1, <1>2, TypeCorrectness, PTL DEF Spec
-----------------------------------------------------------------------------
(* The decision has grounds. *)

CampaignRead(p) == pc[p] \in {"lookup", "signals", "dnc", "consent", "frequency", "decide"}
SignalsRead(p) == pc[p] \in {"dnc", "consent", "frequency", "decide"}
DncRead(p) == pc[p] \in {"consent", "frequency", "decide"}
ConsentRead(p) == pc[p] \in {"frequency", "decide"}
FrequencyRead(p) == pc[p] = "decide"

\* The context a call would decide by if it read all that it has not read yet now.
Merged(p) ==
  LET i == inp[p]
      c == Context(call[p])
  IN [enabled |-> OutreachEnabled, channel |-> c.channel, policy |-> c.policy,
      score |-> i.score, qualification |-> i.qualification,
      running |-> IF CampaignRead(p) THEN i.running ELSE c.running,
      evidence |-> IF SignalsRead(p) THEN i.evidence ELSE c.evidence,
      age |-> IF SignalsRead(p) THEN i.age ELSE c.age,
      dnc |-> IF DncRead(p) THEN i.dnc ELSE c.dnc,
      basis |-> IF ConsentRead(p) THEN i.basis ELSE c.basis,
      capped |-> IF FrequencyRead(p) THEN i.capped ELSE c.capped]

\* What stood throughout is still an objection to that context, and every objection to it
\* was in force at some moment.
Founded(p) ==
  call[p] # None /\ ~moved[p] =>
    /\ inp[p].enabled = OutreachEnabled /\ inp[p].channel = {call[p].channel}
    /\ CampaignRead(p) => inp[p].policy = Rules(call[p])
    /\ stood[p] \subseteq Reasons(Merged(p)) /\ Reasons(Merged(p)) \subseteq rose[p]

\* Opt-outs posted all along are in the list, and once it is read they have been seen.
Heeded(p) ==
  call[p] # None =>
    /\ posted[p] \subseteq dnc
    /\ DncRead(p) /\ (\E r \in posted[p] : OptsOut(r, call[p])) => inp[p].dnc

AllFounded == \A p \in Sessions : Founded(p)
AllHeeded == \A p \in Sessions : Heeded(p)

\* The context of one moment, field by field.
LEMMA ContextFields ==
  ASSUME TypeOK, NEW k \in Intents
  PROVE  /\ Context(k).enabled = OutreachEnabled
         /\ Context(k).channel = {k.channel}
         /\ Context(k).policy = Rules(k)
         /\ Context(k).score = WithLead(Blank(k)).score
         /\ Context(k).qualification = WithLead(Blank(k)).qualification
         /\ \A i \in ContextType :
              /\ Context(k).running = WithCampaign(i, k).running
              /\ Context(k).evidence = WithSignals(i).evidence
              /\ Context(k).age = WithSignals(i).age
              /\ Context(k).dnc = WithDnc(i, k).dnc
              /\ Context(k).basis = WithConsent(i, k).basis
              /\ i.policy = Rules(k) => Context(k).capped = WithFrequency(i, k).capped
<1> DEFINE b == Blank(k)
           l == WithLead(b)
           g == WithCampaign(l, k)
           s == WithSignals(g)
           d == WithDnc(s, k)
           t == WithConsent(d, k)
<1>1. b \in ContextType /\ b.enabled = OutreachEnabled /\ b.channel = {k.channel}
  BY BlankType DEF Blank
<1>2. /\ l \in ContextType /\ g \in ContextType /\ s \in ContextType
      /\ d \in ContextType /\ t \in ContextType
  BY <1>1, Queries
<1>3. Context(k) = WithFrequency(t, k)
  BY DEF Context
<1> HIDE DEF b
<1>4. l.enabled = OutreachEnabled /\ l.channel = {k.channel}
  BY <1>1 DEF WithLead, ContextType
<1> HIDE DEF l
<1>5. /\ g.enabled = OutreachEnabled /\ g.channel = {k.channel} /\ g.policy = Rules(k)
      /\ g.score = l.score /\ g.qualification = l.qualification
      /\ \A i \in ContextType : g.running = WithCampaign(i, k).running
  BY <1>2, <1>4 DEF WithCampaign, Rules, ContextType
<1> HIDE DEF g
<1>6. /\ s.enabled = OutreachEnabled /\ s.channel = {k.channel} /\ s.policy = Rules(k)
      /\ s.score = l.score /\ s.qualification = l.qualification /\ s.running = g.running
      /\ \A i \in ContextType : s.evidence = WithSignals(i).evidence /\ s.age = WithSignals(i).age
  BY <1>2, <1>5, SignalsLeave
<1> HIDE DEF s
<1>7. /\ d.enabled = OutreachEnabled /\ d.channel = {k.channel} /\ d.policy = Rules(k)
      /\ d.score = l.score /\ d.qualification = l.qualification /\ d.running = g.running
      /\ d.evidence = s.evidence /\ d.age = s.age
      /\ \A i \in ContextType : d.dnc = WithDnc(i, k).dnc
  BY <1>2, <1>6 DEF WithDnc, ContextType
<1> HIDE DEF d
<1>8. /\ t.enabled = OutreachEnabled /\ t.channel = {k.channel} /\ t.policy = Rules(k)
      /\ t.score = l.score /\ t.qualification = l.qualification /\ t.running = g.running
      /\ t.evidence = s.evidence /\ t.age = s.age /\ t.dnc = d.dnc
      /\ \A i \in ContextType : t.basis = WithConsent(i, k).basis
  BY <1>2, <1>7 DEF WithConsent, ContextType
<1> HIDE DEF t
<1>9. /\ Context(k).enabled = OutreachEnabled /\ Context(k).channel = {k.channel}
      /\ Context(k).policy = Rules(k)
      /\ Context(k).score = l.score /\ Context(k).qualification = l.qualification
      /\ Context(k).running = g.running /\ Context(k).evidence = s.evidence
      /\ Context(k).age = s.age /\ Context(k).dnc = d.dnc /\ Context(k).basis = t.basis
      /\ \A i \in ContextType : i.policy = Rules(k)
            => Context(k).capped = WithFrequency(i, k).capped
  BY <1>2, <1>3, <1>8 DEF WithFrequency, ContextType
<1>. QED
  BY <1>5, <1>6, <1>7, <1>8, <1>9 DEF l, b

\* The same of the next state.
ContextsHave ==
  \A k \in Intents : /\ Context(k).enabled = OutreachEnabled
                     /\ Context(k).channel = {k.channel}
                     /\ Context(k).policy = Rules(k)

LEMMA ContextLater == TypeOK' => ContextsHave'
<1>1. TypeOK => ContextsHave
  BY ContextFields DEF ContextsHave
<1>. QED
  BY <1>1, PTL

\* What Watch records of a call that goes on.
LEMMA WatchGoesOn ==
  ASSUME TypeOK, Watch, NEW q \in Sessions, NEW k \in Intents, call[q] = k, call'[q] = k
  PROVE  /\ stood'[q] = stood[q] \cap Reasons(Context(k))'
         /\ rose'[q] = rose[q] \cup Reasons(Context(k))'
         /\ posted'[q] = posted[q] \cap dnc'
         /\ ~moved'[q] => ~moved[q] /\ campaign'.policy = campaign.policy
<1>1. k # None
  BY IntakeConstants
<1>2. ~Begins(q)
  BY <1>1 DEF Begins
<1>3. InForce(q)' = Reasons(Context(k))'
  BY <1>1 DEF InForce
<1>. QED
  BY <1>1, <1>2, <1>3 DEF Watch

LEMMA WatchBegins ==
  ASSUME TypeOK, Watch, NEW q \in Sessions, NEW k \in Intents, call[q] = None, call'[q] = k
  PROVE  /\ stood'[q] = Reasons(Context(k))'
         /\ Reasons(Context(k))' \subseteq rose'[q]
         /\ posted'[q] = dnc'
<1>1. k # None
  BY IntakeConstants
<1>2. Begins(q)
  BY <1>1 DEF Begins
<1>3. InForce(q)' = Reasons(Context(k))'
  BY <1>1 DEF InForce
<1>. QED
  BY <1>1, <1>2, <1>3 DEF Watch

\* One step of the mixture, as a statement about Merged: a call that goes on, under rules
\* that stay the same, keeps its grounds if each piece of the context it would decide by
\* stays as it was or becomes what it is now.
LEMMA KeepsGrounds ==
  ASSUME TypeOK, TypeOK', Watch, NEW q \in Sessions, NEW k \in Intents,
         call[q] = k, call'[q] = k, ~moved'[q], Founded(q),
         LET m == Merged(q)
             n == Merged(q)'
             c == Context(k)'
         IN /\ n.score = m.score /\ n.qualification = m.qualification
            /\ n.running = m.running \/ n.running = c.running
            /\ (n.evidence = m.evidence /\ n.age = m.age) \/ (n.evidence = c.evidence /\ n.age = c.age)
            /\ n.dnc = m.dnc \/ n.dnc = c.dnc
            /\ n.basis = m.basis \/ n.basis = c.basis
            /\ n.capped = m.capped \/ n.capped = c.capped
  PROVE  stood'[q] \subseteq Reasons(Merged(q)') /\ Reasons(Merged(q)') \subseteq rose'[q]
<1> DEFINE m == Merged(q)
           n == Merged(q)'
           c == Context(k)'
<1>1. k # None
  BY IntakeConstants
<1>2. /\ stood'[q] = stood[q] \cap Reasons(c) /\ rose'[q] = rose[q] \cup Reasons(c)
      /\ ~moved[q] /\ campaign'.policy = campaign.policy
  BY WatchGoesOn
<1>3. stood[q] \subseteq Reasons(m) /\ Reasons(m) \subseteq rose[q]
  BY <1>1, <1>2 DEF Founded
<1>4. /\ Context(k).channel = {k.channel} /\ Context(k).policy = Rules(k)
      /\ Context(k)'.channel = {k.channel} /\ Context(k)'.policy = Rules(k)'
  BY ContextLater, ContextFields DEF ContextsHave
<1>5. Rules(k)' = Rules(k)
  BY <1>2 DEF Rules
<1>6. /\ m.enabled = OutreachEnabled /\ m.channel = {k.channel} /\ m.policy = Rules(k)
      /\ n.enabled = OutreachEnabled /\ n.channel = {k.channel} /\ n.policy = Rules(k)'
  BY <1>4 DEF Merged
<1> HIDE DEF m, n, c
<1>7. /\ Reasons(m) \cap Reasons(c) \subseteq Reasons(n)
      /\ Reasons(n) \subseteq Reasons(m) \cup Reasons(c)
  BY <1>4, <1>5, <1>6, Mixture DEF m, n, c
<1>8. stood'[q] \subseteq Reasons(n) /\ Reasons(n) \subseteq rose'[q]
  BY <1>2, <1>3, <1>7
<1>. QED
  BY <1>8 DEF n

\* A step somebody else takes.
LEMMA OthersStep ==
  ASSUME TypeOK, TypeOK', Watch, NEW q \in Sessions, NEW k \in Intents,
         call[q] = k, call'[q] = k, pc'[q] = pc[q], inp'[q] = inp[q], Founded(q)
  PROVE  Founded(q)'
<1>. SUFFICES ASSUME ~moved'[q] PROVE Founded(q)'
  BY DEF Founded
<1>1. k # None
  BY IntakeConstants
<1>2. ~moved[q] /\ campaign'.policy = campaign.policy
  BY WatchGoesOn
<1>3. Rules(k)' = Rules(k)
  BY <1>2 DEF Rules
<1>4. stood'[q] \subseteq Reasons(Merged(q)') /\ Reasons(Merged(q)') \subseteq rose'[q]
  <2>1. /\ CampaignRead(q)' = CampaignRead(q) /\ SignalsRead(q)' = SignalsRead(q)
        /\ DncRead(q)' = DncRead(q) /\ ConsentRead(q)' = ConsentRead(q)
        /\ FrequencyRead(q)' = FrequencyRead(q)
    BY DEF CampaignRead, SignalsRead, DncRead, ConsentRead, FrequencyRead
  <2>. QED
    BY <2>1, KeepsGrounds DEF Merged
<1>. QED
  BY <1>1, <1>2, <1>3, <1>4 DEF Founded, CampaignRead

\* A query changes nothing that a context is made of.
LEMMA ContextStays ==
  ASSUME UNCHANGED <<world, request>>, NEW k \in Intents
  PROVE  Context(k)' = Context(k) /\ Rules(k)' = Rules(k)
BY DEF world, Rules, Context, Blank, WithLead, WithCampaign, WithSignals, WithDnc, WithConsent,
       WithFrequency, Peers, Matches

\* A query of the call itself: what it puts in its place is what is there now.
LEMMA QueryStep ==
  ASSUME TypeOK, TypeOK', Watch, NEW q \in Sessions, NEW k \in Intents,
         \/ ReadCampaign(q, k) \/ LookUp(q, k) \/ ReadSignals(q, k) \/ ReadDnc(q, k)
         \/ ReadConsent(q, k) \/ ReadFrequency(q, k),
         Founded(q)
  PROVE  Founded(q)'
<1>. SUFFICES ASSUME ~moved'[q] PROVE Founded(q)'
  BY DEF Founded
<1> DEFINE i == inp[q]
           j == inp'[q]
           c == Context(k)
           Step(from, to) == pc[q] = from /\ pc'[q] = to
<1>1. /\ k # None /\ call[q] = k /\ call'[q] = k /\ i \in ContextType
      /\ Context(k)' = c /\ Rules(k)' = Rules(k)
  BY IntakeConstants, ContextStays DEF ReadCampaign, LookUp, ReadSignals, ReadDnc, ReadConsent,
     ReadFrequency, Query, At, TypeOK
<1>2. ~moved[q]
  BY <1>1, WatchGoesOn
<1>3. /\ i.enabled = OutreachEnabled /\ i.channel = {k.channel}
      /\ CampaignRead(q) => i.policy = Rules(k)
  BY <1>1, <1>2 DEF Founded
<1>4. \/ j = WithCampaign(i, k) /\ Step("campaign", "lookup")
      \/ j = i /\ Step("lookup", "signals")
      \/ j = WithSignals(i) /\ Step("signals", "dnc")
      \/ j = WithDnc(i, k) /\ Step("dnc", "consent")
      \/ j = WithConsent(i, k) /\ Step("consent", "frequency")
      \/ j = WithFrequency(i, k) /\ Step("frequency", "decide")
  BY DEF ReadCampaign, LookUp, ReadSignals, ReadDnc, ReadConsent, ReadFrequency, Query, At,
         Gather, Goto, TypeOK
<1>5. c.channel = {k.channel} /\ c.policy = Rules(k)
  BY ContextFields
<1> DEFINE m == Merged(q)
           n == Merged(q)'
           Kept == /\ j.enabled = i.enabled /\ j.channel = i.channel
                   /\ CampaignRead(q)' => j.policy = Rules(k)
                   /\ n.score = m.score /\ n.qualification = m.qualification
                   /\ n.running = m.running /\ n.evidence = m.evidence /\ n.age = m.age
                   /\ n.dnc = m.dnc /\ n.basis = m.basis /\ n.capped = m.capped
<1>6. ASSUME j = WithCampaign(i, k), Step("campaign", "lookup")
      PROVE  Kept
  <2>1. /\ j.running = c.running /\ j.policy = Rules(k)
        /\ j.enabled = i.enabled /\ j.channel = i.channel
        /\ j.score = i.score /\ j.qualification = i.qualification
    BY <1>1, <1>6, ContextFields DEF WithCampaign, ContextType, Rules
  <2>. QED
    BY <1>1, <1>6, <2>1 DEF Merged, CampaignRead, SignalsRead, DncRead, ConsentRead,
       FrequencyRead
<1>7. ASSUME j = i, Step("lookup", "signals")
      PROVE  Kept
  BY <1>1, <1>3, <1>7 DEF Merged, CampaignRead, SignalsRead, DncRead, ConsentRead, FrequencyRead
<1>8. ASSUME j = WithSignals(i), Step("signals", "dnc")
      PROVE  Kept
  <2>1. /\ j.evidence = c.evidence /\ j.age = c.age
        /\ j.enabled = i.enabled /\ j.channel = i.channel /\ j.policy = i.policy
        /\ j.score = i.score /\ j.qualification = i.qualification /\ j.running = i.running /\ j.dnc = i.dnc
        /\ j.basis = i.basis /\ j.capped = i.capped
    BY <1>1, <1>3, <1>8, ContextFields, SignalsLeave DEF CampaignRead
  <2>. QED
    BY <1>1, <1>3, <1>8, <2>1 DEF Merged, CampaignRead, SignalsRead, DncRead, ConsentRead,
       FrequencyRead
<1>9. ASSUME j = WithDnc(i, k), Step("dnc", "consent")
      PROVE  Kept
  <2>1. /\ j.dnc = c.dnc
        /\ j.enabled = i.enabled /\ j.channel = i.channel /\ j.policy = i.policy
        /\ j.score = i.score /\ j.qualification = i.qualification /\ j.running = i.running /\ j.evidence = i.evidence
        /\ j.age = i.age /\ j.basis = i.basis /\ j.capped = i.capped
    BY <1>1, <1>3, <1>9, ContextFields, ZenonT(60) DEF WithDnc, ContextType, CampaignRead
  <2>. QED
    BY <1>1, <1>3, <1>9, <2>1 DEF Merged, CampaignRead, SignalsRead, DncRead, ConsentRead,
       FrequencyRead
<1>10. ASSUME j = WithConsent(i, k), Step("consent", "frequency")
      PROVE  Kept
  <2>1. /\ j.basis = c.basis
        /\ j.enabled = i.enabled /\ j.channel = i.channel /\ j.policy = i.policy
        /\ j.score = i.score /\ j.qualification = i.qualification /\ j.running = i.running /\ j.evidence = i.evidence
        /\ j.age = i.age /\ j.dnc = i.dnc /\ j.capped = i.capped
    BY <1>1, <1>3, <1>10, ContextFields DEF WithConsent, ContextType, CampaignRead
  <2>. QED
    BY <1>1, <1>3, <1>10, <2>1 DEF Merged, CampaignRead, SignalsRead, DncRead, ConsentRead,
       FrequencyRead
<1>11. ASSUME j = WithFrequency(i, k), Step("frequency", "decide")
      PROVE  Kept
  <2>1. /\ j.capped = c.capped
        /\ j.enabled = i.enabled /\ j.channel = i.channel /\ j.policy = i.policy
        /\ j.score = i.score /\ j.qualification = i.qualification /\ j.running = i.running /\ j.evidence = i.evidence
        /\ j.age = i.age /\ j.dnc = i.dnc /\ j.basis = i.basis
    BY <1>1, <1>3, <1>11, ContextFields DEF WithFrequency, ContextType, CampaignRead
  <2>. QED
    BY <1>1, <1>3, <1>11, <2>1 DEF Merged, CampaignRead, SignalsRead, DncRead, ConsentRead,
       FrequencyRead
<1>12. Kept
  BY <1>4, <1>6, <1>7, <1>8, <1>9, <1>10, <1>11
<1>13. stood'[q] \subseteq Reasons(Merged(q)') /\ Reasons(Merged(q)') \subseteq rose'[q]
  BY <1>1, <1>12, KeepsGrounds
<1>. QED
  BY <1>1, <1>3, <1>12, <1>13 DEF Founded, CampaignRead

\* The first query of a call.
LEMMA BeginStep ==
  ASSUME TypeOK, TypeOK', Watch, NEW q \in Sessions, NEW k \in Intents, ReadLead(q, k)
  PROVE  Founded(q)'
<1> DEFINE n == Merged(q)'
           c == Context(k)
           b == WithLead(Blank(k))
<1>1. /\ call[q] = None /\ call'[q] = k /\ pc'[q] = "campaign" /\ inp'[q] = b
      /\ Context(k)' = c /\ Rules(k)' = Rules(k)
  BY ContextStays DEF ReadLead, At, Goto, Gather, TypeOK
<1>2. stood'[q] = Reasons(c) /\ Reasons(c) \subseteq rose'[q]
  BY <1>1, WatchBegins
<1>3. /\ c.enabled = OutreachEnabled /\ c.channel = {k.channel} /\ c.policy = Rules(k)
      /\ c.score = b.score /\ c.qualification = b.qualification
  BY ContextFields
<1>4. b.enabled = OutreachEnabled /\ b.channel = {k.channel}
  BY BlankType DEF WithLead, Blank, ContextType
<1>5. /\ n.enabled = c.enabled /\ n.policy = c.policy /\ n.channel = c.channel
      /\ n.score = c.score /\ n.qualification = c.qualification /\ n.running = c.running
      /\ n.evidence = c.evidence /\ n.age = c.age /\ n.dnc = c.dnc /\ n.basis = c.basis
      /\ n.capped = c.capped
  BY <1>1, <1>3 DEF Merged, CampaignRead, SignalsRead, DncRead, ConsentRead, FrequencyRead
<1> HIDE DEF n, c, b
<1>6. Reasons(n) = Reasons(c)
  BY <1>5, Mixture
<1>7. stood'[q] \subseteq Reasons(n) /\ Reasons(n) \subseteq rose'[q]
  BY <1>2, <1>6
<1>. QED
  BY <1>1, <1>4, <1>7 DEF Founded, CampaignRead, n

\* A step is one query, the first or a later one, or the end of one call, or nobody's.
Ends(p) == call'[p] = None
Elsewhere(q) == UNCHANGED <<call[q], pc[q], inp[q]>>

LEMMA StepCases ==
  ASSUME TypeOK, Next, NEW q \in Sessions
  PROVE  \/ Elsewhere(q) \/ Ends(q)
         \/ \E k \in Intents :
              \/ ReadLead(q, k) \/ ReadCampaign(q, k) \/ LookUp(q, k) \/ ReadSignals(q, k)
              \/ ReadDnc(q, k) \/ ReadConsent(q, k) \/ ReadFrequency(q, k)
<1>1. CASE WorldStep
  BY <1>1 DEF WorldStep, Elsewhere, OpenCampaign, PatchCampaign, DeleteCampaign, CreateDnc, EndDnc,
     RecordConsent, UpdateLead, ChangeSignals, TakeUp, DropOut, Edit, handlers
<1>2. ASSUME NEW p \in Sessions, NEW k \in Intents, Handle(p, k), p # q
      PROVE  Elsewhere(q)
  <2>1. CASE EndCall(p)
    BY <1>2, <2>1 DEF EndCall, Goto, Gather, Elsewhere, TypeOK
  <2>2. CASE ReadLead(p, k)
    BY <1>2, <2>2 DEF ReadLead, Goto, Gather, Elsewhere, TypeOK
  <2>3. ASSUME NEW step, NEW next, NEW i, Query(p, k, step, next, i)
        PROVE  Elsewhere(q)
    BY <1>2, <2>3 DEF Query, Goto, Gather, Elsewhere, TypeOK
  <2>. QED
    BY <1>2, <2>1, <2>2, <2>3 DEF Handle, ReadCampaign, Replay, LookUp, ReadSignals, ReadDnc,
       ReadConsent, ReadFrequency, Decide, LoseRace
<1>3. ASSUME NEW k \in Intents, Replay(q, k) \/ Decide(q, k) \/ LoseRace(q, k)
      PROVE  Ends(q)
  BY <1>3 DEF Replay, Decide, LoseRace, EndCall, Ends, TypeOK
<1>. QED
  BY <1>1, <1>2, <1>3 DEF Next, Handle

\* Nothing happens.
LEMMA StutterKeeps ==
  ASSUME UNCHANGED vars, NEW q \in Sessions, NEW k \in Intents, call[q] = k, Founded(q)
  PROVE  Founded(q)'
<1>1. Context(k)' = Context(k) /\ Rules(k)' = Rules(k)
  <2>1. UNCHANGED <<world, request>>
    BY DEF vars
  <2>. QED
    BY <2>1, ContextStays
<1>2. /\ CampaignRead(q)' = CampaignRead(q) /\ SignalsRead(q)' = SignalsRead(q)
      /\ DncRead(q)' = DncRead(q) /\ ConsentRead(q)' = ConsentRead(q)
      /\ FrequencyRead(q)' = FrequencyRead(q)
  BY DEF vars, handlers, CampaignRead, SignalsRead, DncRead, ConsentRead, FrequencyRead
<1>3. call' = call /\ inp' = inp /\ stood' = stood /\ rose' = rose /\ moved' = moved
  BY DEF vars, handlers, history
<1>4. call'[q] = k
  BY <1>3
<1>5. Merged(q)' = Merged(q)
  BY <1>1, <1>2, <1>3, <1>4 DEF Merged
<1>. QED
  BY <1>1, <1>2, <1>3, <1>4, <1>5 DEF Founded

LEMMA FoundedStep == TypeOK /\ AllFounded /\ [Next]_vars => AllFounded'
<1>. SUFFICES ASSUME TypeOK, AllFounded, [Next]_vars, NEW q \in Sessions
              PROVE  Founded(q)'
  BY DEF AllFounded
<1>1. TypeOK' /\ Founded(q)
  BY StepType DEF AllFounded
<1>2. CASE UNCHANGED vars
  <2>1. CASE call[q] = None
    BY <1>2, <2>1 DEF vars, handlers, Founded
  <2>2. CASE call[q] # None
    <3>1. call[q] \in Intents
      BY <2>2 DEF TypeOK
    <3>. QED
      BY <1>1, <1>2, <3>1, StutterKeeps
  <2>. QED
    BY <2>1, <2>2
<1>3. CASE Next
  <2>1. Watch
    BY <1>3 DEF Next
  <2>2. CASE Elsewhere(q)
    <3>1. CASE call[q] = None
      BY <2>2, <3>1 DEF Elsewhere, Founded
    <3>2. CASE call[q] # None
      <4>1. call[q] \in Intents
        BY <3>2 DEF TypeOK
      <4>. QED
        BY <1>1, <2>1, <2>2, <4>1, OthersStep DEF Elsewhere
    <3>. QED
      BY <3>1, <3>2
  <2>3. CASE Ends(q)
    BY <2>3 DEF Ends, Founded
  <2>. QED
    BY <1>1, <1>3, <2>1, <2>2, <2>3, StepCases, BeginStep, QueryStep
<1>. QED
  BY <1>2, <1>3

LEMMA FoundedInit == Init => AllFounded
BY DEF Init, AllFounded, Founded

\* A creation is the only step in which a call ends and its request changes.
LEMMA DecisionStep ==
  ASSUME TypeOK, Next, NEW p \in Sessions, NEW k \in Intents,
         call[p] = k, call'[p] = None, request[k] # request'[k]
  PROVE  /\ Decide(p, k) /\ pc[p] = "decide"
         /\ request'[k] = InitialStatus(Verdict(Reasons(inp[p])))
<1>1. k # None
  BY IntakeConstants
<1>2. ~WorldStep
  BY <1>1 DEF WorldStep, OpenCampaign, PatchCampaign, DeleteCampaign, CreateDnc, EndDnc,
     RecordConsent, UpdateLead, ChangeSignals, TakeUp, DropOut, Edit, handlers
<1>3. PICK q \in Sessions, h \in Intents : Handle(q, h)
  BY <1>2 DEF Next
<1>4. Decide(q, h)
  BY <1>3 DEF Handle, ReadLead, ReadCampaign, Replay, LookUp, ReadSignals, ReadDnc,
            ReadConsent, ReadFrequency, LoseRace, Query
<1>5. q = p
  BY <1>1, <1>4 DEF Decide, EndCall, TypeOK
<1>6. Decide(p, k)
  BY <1>4, <1>5 DEF Decide, At
<1>. QED
  BY <1>6 DEF Decide, Evaluate, At, TypeOK

\* Every decision has grounds, for any rules, opt-outs, sessions and bounds.
THEOREM DecisionsAreGrounded == Spec => DecisionIsGrounded
<1>1. ASSUME TypeOK, AllFounded, Next,
             NEW p \in Sessions, NEW k \in Intents,
             call[p] = k, call'[p] = None, request[k] # request'[k], ~moved[p]
      PROVE  Grounded(p, request'[k])
  <2>1. k # None
    BY IntakeConstants
  <2>2. /\ request'[k] = InitialStatus(Verdict(Reasons(inp[p])))
        /\ pc[p] = "decide"
    BY <1>1, DecisionStep
  <2>3. /\ inp[p].enabled = OutreachEnabled /\ inp[p].channel = {k.channel}
        /\ inp[p].policy = Rules(k)
        /\ stood[p] \subseteq Reasons(Merged(p)) /\ Reasons(Merged(p)) \subseteq rose[p]
    BY <1>1, <2>1, <2>2 DEF AllFounded, Founded, CampaignRead
  <2>4. Reasons(Merged(p)) = Reasons(inp[p])
    <3>1. Context(k).channel = {k.channel} /\ Context(k).policy = Rules(k)
      BY <1>1, ContextFields
    <3> DEFINE n == Merged(p)
               i == inp[p]
    <3>2. /\ n.enabled = i.enabled /\ n.policy = i.policy /\ n.channel = i.channel
          /\ n.score = i.score /\ n.qualification = i.qualification /\ n.running = i.running
          /\ n.evidence = i.evidence /\ n.age = i.age /\ n.dnc = i.dnc /\ n.basis = i.basis
          /\ n.capped = i.capped
      BY <1>1, <2>2, <2>3, <3>1 DEF Merged, CampaignRead, SignalsRead, DncRead, ConsentRead,
         FrequencyRead
    <3> HIDE DEF n, i
    <3>3. Reasons(n) = Reasons(i)
      BY <3>2, Mixture
    <3>. QED
      BY <3>3 DEF n, i
  <2>5. Denials(stood[p]) \subseteq Denials(Reasons(inp[p]))
        /\ Denials(Reasons(inp[p])) \subseteq Denials(rose[p])
    BY <2>3, <2>4 DEF Denials
  <2>6. Reasons(inp[p]) # Denials(Reasons(inp[p])) => rose[p] # Denials(rose[p])
    BY <2>3, <2>4 DEF Denials
  <2>. QED
    BY <2>2, <2>3, <2>4, <2>5, <2>6, StatusMeans DEF Grounded
<1>2. TypeOK /\ AllFounded /\ [Next]_vars =>
        [\A p \in Sessions, k \in Intents :
           call[p] = k /\ call'[p] = None /\ request[k] # request'[k] /\ ~moved[p]
           => Grounded(p, request'[k])]_vars
  BY <1>1
<1>. QED
  BY <1>2, FoundedInit, FoundedStep, TypeCorrectness, PTL DEF Spec, DecisionIsGrounded

-----------------------------------------------------------------------------
(* Opt-outs hold. *)

LEMMA OptOutMatches ==
  ASSUME NEW r \in Rows, NEW k \in Intents, OptsOut(r, k)
  PROVE  Matches(r, k)
<1>1. r.channel \in Optional(Channels)
  BY IntakeConstants
<1>. QED
  BY <1>1 DEF OptsOut, Matches, Optional

LEMMA HeededStays ==
  ASSUME TypeOK, Watch, NEW q \in Sessions, NEW k \in Intents, call[q] = k, call'[q] = k,
         pc'[q] = pc[q], inp'[q] = inp[q], Heeded(q)
  PROVE  Heeded(q)'
<1>1. k # None
  BY IntakeConstants
<1>2. posted'[q] = posted[q] \cap dnc'
  BY WatchGoesOn
<1>3. DncRead(q)' = DncRead(q)
  BY DEF DncRead
<1>4. \A r : OptsOut(r, call[q])' <=> OptsOut(r, call[q])
  BY DEF OptsOut
<1>. QED
  BY <1>1, <1>2, <1>3, <1>4 DEF Heeded

LEMMA HeededQuery ==
  ASSUME TypeOK, Watch, NEW q \in Sessions, NEW k \in Intents, Heeded(q),
         \/ ReadCampaign(q, k) \/ LookUp(q, k) \/ ReadSignals(q, k) \/ ReadDnc(q, k)
         \/ ReadConsent(q, k) \/ ReadFrequency(q, k)
  PROVE  Heeded(q)'
<1>1. k # None
  BY IntakeConstants
<1>2. call[q] = k /\ call'[q] = k /\ dnc' = dnc /\ inp[q] \in ContextType
  BY <1>1 DEF ReadCampaign, LookUp, ReadSignals, ReadDnc, ReadConsent, ReadFrequency, Query, At,
     world, TypeOK
<1>3. posted'[q] = posted[q] \cap dnc
  BY <1>2, WatchGoesOn
<1>4. posted[q] \subseteq dnc /\ dnc \subseteq Rows
  BY <1>1, <1>2 DEF Heeded, TypeOK
<1>5. DncRead(q)' /\ (\E r \in posted[q] : OptsOut(r, k)) => inp'[q].dnc
  <2>1. CASE ReadCampaign(q, k) \/ LookUp(q, k) \/ ReadSignals(q, k)
    BY <2>1 DEF ReadCampaign, LookUp, ReadSignals, Query, Goto, DncRead, TypeOK
  <2>2. CASE ReadDnc(q, k)
    <3>1. inp'[q] = WithDnc(inp[q], k)
      BY <2>2 DEF ReadDnc, Query, Gather, TypeOK
    <3>. QED
      BY <1>2, <1>4, <3>1, OptOutMatches DEF WithDnc, ContextType
  <2>3. CASE ReadConsent(q, k) \/ ReadFrequency(q, k)
    <3>1. DncRead(q)
      BY <2>3 DEF ReadConsent, ReadFrequency, Query, At, DncRead
    <3>2. inp'[q] \in {WithConsent(inp[q], k), WithFrequency(inp[q], k)}
      BY <2>3 DEF ReadConsent, ReadFrequency, Query, Gather, TypeOK
    <3>3. inp'[q].dnc = inp[q].dnc
      BY <1>2, <3>2 DEF WithConsent, WithFrequency, ContextType
    <3>. QED
      BY <1>1, <1>2, <3>1, <3>3 DEF Heeded
  <2>. QED
    BY <2>1, <2>2, <2>3
<1>6. \A r : OptsOut(r, call[q])' <=> OptsOut(r, k)
  BY <1>2 DEF OptsOut
<1>. QED
  BY <1>2, <1>3, <1>4, <1>5, <1>6 DEF Heeded

LEMMA HeededBegin ==
  ASSUME TypeOK, Watch, NEW q \in Sessions, NEW k \in Intents, ReadLead(q, k)
  PROVE  Heeded(q)'
<1>1. call[q] = None /\ call'[q] = k /\ pc'[q] = "campaign"
  BY DEF ReadLead, At, Goto, TypeOK
<1>2. posted'[q] = dnc'
  BY <1>1, WatchBegins
<1>. QED
  BY <1>1, <1>2 DEF Heeded, DncRead

LEMMA HeededStep == TypeOK /\ AllHeeded /\ [Next]_vars => AllHeeded'
<1>. SUFFICES ASSUME TypeOK, AllHeeded, [Next]_vars, NEW q \in Sessions
              PROVE  Heeded(q)'
  BY DEF AllHeeded
<1>1. Heeded(q)
  BY DEF AllHeeded
<1>2. CASE UNCHANGED vars
  BY <1>1, <1>2 DEF vars, world, handlers, history, Heeded, DncRead, OptsOut
<1>3. CASE Next
  <2>1. Watch
    BY <1>3 DEF Next
  <2>2. CASE Elsewhere(q)
    <3>1. CASE call[q] = None
      BY <2>2, <3>1 DEF Elsewhere, Heeded
    <3>2. CASE call[q] # None
      <4>1. call[q] \in Intents
        BY <3>2 DEF TypeOK
      <4>. QED
        BY <1>1, <2>1, <2>2, <4>1, HeededStays DEF Elsewhere
    <3>. QED
      BY <3>1, <3>2
  <2>3. CASE Ends(q)
    BY <2>3 DEF Ends, Heeded
  <2>. QED
    BY <1>1, <1>3, <2>1, <2>2, <2>3, StepCases, HeededBegin, HeededQuery
<1>. QED
  BY <1>2, <1>3

\* An opt-out in the list throughout a creation denies it, for any rules, opt-outs, sessions
\* and bounds.
THEOREM OptOutsHold == Spec => OptOutHolds
<1>1. Init => AllHeeded
  BY DEF Init, AllHeeded, Heeded
<1>2. ASSUME TypeOK, AllHeeded, Next, NEW p \in Sessions, NEW k \in Intents,
             call[p] = k, call'[p] = None, request[k] # request'[k], request'[k] # "denied",
             NEW r \in posted[p], OptsOut(r, k)
      PROVE  FALSE
  <2>1. k # None
    BY IntakeConstants
  <2>2. pc[p] = "decide" /\ request'[k] = InitialStatus(Verdict(Reasons(inp[p])))
    BY <1>2, DecisionStep
  <2>3. inp[p].dnc
    BY <1>2, <2>1, <2>2 DEF AllHeeded, Heeded, DncRead
  <2>4. Deny("DO_NOT_CONTACT") \in Denials(Reasons(inp[p]))
    BY <2>3 DEF Reasons, DncRule, When, Denials, Deny
  <2>5. Verdict(Reasons(inp[p])) = "DENY"
    BY <2>4 DEF Verdict
  <2>. QED
    BY <1>2, <2>2, <2>5 DEF InitialStatus
<1>3. TypeOK /\ AllHeeded /\ [Next]_vars =>
        [\A p \in Sessions, k \in Intents :
           call[p] = k /\ call'[p] = None /\ request[k] # request'[k] /\ request'[k] # "denied"
           => \A r \in posted[p] : ~OptsOut(r, k)]_vars
  BY <1>2
<1>. QED
  BY <1>1, <1>3, HeededStep, TypeCorrectness, PTL DEF Spec, OptOutHolds

=============================================================================
