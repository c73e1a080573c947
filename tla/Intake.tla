------------------------------- MODULE Intake -------------------------------
(***************************************************************************)
(* Where an outreach request comes from: POST /outreach (api/v1/outreach.py*)
(* and api/v1/policies.py) collects the context the policy engine decides  *)
(* by in one query after another, while other requests edit the campaign,  *)
(* the opt-out list, the consents, the lead and the signals (their own     *)
(* handlers), and while the outbox sends (module Outbox).                  *)
(*                                                                         *)
(* The database runs READ COMMITTED: each query sees what is committed     *)
(* when it runs, so a decision mixes several moments.  A row a session has *)
(* loaded keeps the values it was loaded with.  There is one lead, with a  *)
(* company, and one campaign; an intent names them or leaves the contact   *)
(* or the campaign out.  An optional value is a set of at most one element.*)
(***************************************************************************)
EXTENDS Policy, FiniteSets

CONSTANTS
  Contacts,
  Intents,      \* what a request may be for; the idempotency key is this and nothing else
  Rows,         \* do_not_contacts rows somebody may record
  Leads,        \* values of the lead's columns
  Signals,      \* active signals of the lead's company: age in days, with evidence or not
  Policies,     \* rules a campaign may carry
  Sessions,     \* handlers of POST /outreach that may run at the same time
  Editors,      \* handlers of PATCH /campaigns that may run at the same time
  OutreachEnabled,   \* settings.outreach_enabled
  MaxCalls,     \* bound: calls of POST /outreach
  MaxEdits,     \* bound: changes of the world around them
  None          \* model value: no call, no context, no PATCH under way

Channels == {"email", "whatsapp", "telegram", "messenger", "instagram"}
CampaignStatuses == {"draft", "scheduled", "running", "paused", "completed", "cancelled"}
ValidTransitions ==
  [s \in CampaignStatuses |->
     CASE s = "draft"     -> {"scheduled", "cancelled", "running"}
       [] s = "scheduled" -> {"running", "cancelled", "paused"}
       [] s = "running"   -> {"paused", "completed", "cancelled"}
       [] s = "paused"    -> {"running", "cancelled", "completed", "draft"}
       [] OTHER           -> {}]

Qualifications == {"unqualified", "candidate", "qualified", "disqualified"}

\* No request; one as it was created; one of the last day that is queued, dispatching or
\* sent; one that is not, any more.
RequestStates == {"absent", "approved", "pending", "denied", "active", "past"}

Optional(S) == {{}} \cup {{x} : x \in S}

PolicyType ==
  [minScore : Optional(0..100), maxAge : Optional(Nat), maxPerDay : Optional(Nat \ {0}),
   allowed : SUBSET Channels, requireQualification : BOOLEAN, requireEvidence : BOOLEAN]

ASSUME IntakeConstants ==
  /\ Intents \subseteq [contact : Optional(Contacts), campaign : BOOLEAN, channel : Channels]
  /\ Rows \subseteq [contact : Optional(Contacts), company : BOOLEAN, channel : Optional(Channels)]
  /\ Leads \subseteq [score : Optional(0..100), qualification : Qualifications]
  /\ Signals \subseteq [age : Nat, evidence : BOOLEAN]
  /\ \A c \in Policies : /\ DOMAIN c = DOMAIN NoPolicy({})
                         /\ c.minScore \in Optional(0..100) /\ c.allowed \subseteq Channels
  /\ OutreachEnabled \in BOOLEAN
  /\ MaxCalls \in Nat /\ MaxEdits \in Nat
  /\ None \notin Intents /\ None \notin CampaignStatuses

VARIABLES
  lead, signals, campaign, dnc, consent,   \* committed rows the decision is made from
  request,    \* each intent's request, see RequestStates
  decisions,  \* policy_decisions rows committed with a creation, per intent
  pc, call,   \* where each handler is and the intent it was called with
  inp,        \* the PolicyInput it has gathered so far
  draft,      \* the campaign status an unfinished PATCH has read
  calls, edits,        \* how much of each bound is used up
  stood, rose, posted, moved   \* history of each call, see Watch

world == <<lead, signals, campaign, dnc, consent>>
handlers == <<pc, call, inp, calls>>
history == <<stood, rose, posted, moved>>
vars == <<world, request, decisions, handlers, draft, edits, history>>

-----------------------------------------------------------------------------
(* What each query of _build_policy_input returns. *)

Blank(k) ==
  [enabled |-> OutreachEnabled, dnc |-> FALSE, running |-> TRUE, policy |-> NoPolicy({}),
   channel |-> {k.channel}, basis |-> "none", qualification |-> "unqualified", score |-> {},
   evidence |-> FALSE, age |-> {}, capped |-> FALSE]

WithLead(i) == [i EXCEPT !.score = lead.score, !.qualification = lead.qualification]

\* Without a campaign only e-mail is allowed, and nothing else is required.
WithCampaign(i, k) ==
  [i EXCEPT !.running = k.campaign => campaign.status = "running",
            !.policy = IF k.campaign THEN campaign.policy ELSE NoPolicy({"email"})]

WithSignals(i) ==
  LET ages == {s.age : s \in signals}
  IN [i EXCEPT !.age = {a \in ages : \A b \in ages : a <= b},
               !.evidence = \E s \in signals : s.evidence]

\* Mutant: an opt-out without a channel is compared like one with a channel.
MatchesOneChannel(r, k) ==
  /\ k.contact = {} => r.contact = {}
  /\ (r.contact # {} /\ r.contact = k.contact) \/ r.company
  /\ r.channel = {k.channel}

\* A row that names a contact never matches a request without one, not even by the company.
Matches(r, k) ==
  /\ k.contact = {} => r.contact = {}
  /\ (r.contact # {} /\ r.contact = k.contact) \/ r.company
  /\ r.channel \in {{}, {k.channel}}

WithDnc(i, k) == [i EXCEPT !.dnc = \E r \in dnc : Matches(r, k)]

\* The latest consent of the contact, whatever channel it was given for.
WithConsent(i, k) ==
  [i EXCEPT !.basis = IF k.contact = {} THEN "none"
                      ELSE consent[CHOOSE c \in Contacts : c \in k.contact]]

\* The requests the cap is about: the contact's, else the campaign's.
Peers(k) == {j \in Intents : /\ request[j] = "active" /\ j.channel = k.channel
                             /\ IF k.contact # {} THEN j.contact = k.contact
                                ELSE k.campaign => j.campaign}
WithFrequency(i, k) ==
  [i EXCEPT !.capped = \E m \in i.policy.maxPerDay : Cardinality(Peers(k)) >= m]

\* The context of one moment.
Context(k) ==
  WithFrequency(WithConsent(WithDnc(WithSignals(WithCampaign(WithLead(Blank(k)), k)), k), k), k)

ContextType ==
  [enabled : BOOLEAN, dnc : BOOLEAN, running : BOOLEAN, capped : BOOLEAN, evidence : BOOLEAN,
   policy : Policies \cup {NoPolicy({}), NoPolicy({"email"})}, channel : SUBSET Channels,
   basis : Bases, qualification : Qualifications, score : SUBSET (0..100), age : SUBSET Nat]

-----------------------------------------------------------------------------
(* POST /outreach: one step per query. *)

\* Mutant: the verdict itself is stored as the status.
StatusIsVerdict(verdict) == verdict

InitialStatus(verdict) == CASE verdict = "ALLOW"  -> "approved"
                            [] verdict = "REVIEW" -> "pending"
                            [] verdict = "DENY"   -> "denied"

At(p, step, k) == pc[p] = step /\ call[p] = k
Goto(p, step) == pc' = [pc EXCEPT ![p] = step]
Gather(p, i) == inp' = [inp EXCEPT ![p] = i]

EndCall(p) ==
  /\ Goto(p, "idle")
  /\ call' = [call EXCEPT ![p] = None]
  /\ Gather(p, None)

ReadLead(p, k) ==
  /\ At(p, "idle", None) /\ calls < MaxCalls
  /\ calls' = calls + 1
  /\ call' = [call EXCEPT ![p] = k]
  /\ Gather(p, WithLead(Blank(k)))
  /\ Goto(p, "campaign")
  /\ UNCHANGED <<world, request, decisions, draft, edits>>

\* The next query of the call, which adds i to the context.
Query(p, k, step, next, i) ==
  /\ At(p, step, k)
  /\ Gather(p, i)
  /\ Goto(p, next)
  /\ UNCHANGED <<world, request, decisions, draft, edits, call, calls>>

\* A campaign that was deleted is accepted like any other.
ReadCampaign(p, k) == Query(p, k, "campaign", "lookup", WithCampaign(inp[p], k))

\* A replayed intention gets the request it already has, and nothing is evaluated.
Replay(p, k) ==
  /\ At(p, "lookup", k) /\ request[k] # "absent"
  /\ EndCall(p)
  /\ UNCHANGED <<world, request, decisions, draft, edits, calls>>

LookUp(p, k) == request[k] = "absent" /\ Query(p, k, "lookup", "signals", inp[p])
ReadSignals(p, k) == Query(p, k, "signals", "dnc", WithSignals(inp[p]))
ReadDnc(p, k) == Query(p, k, "dnc", "consent", WithDnc(inp[p], k))
ReadConsent(p, k) == Query(p, k, "consent", "frequency", WithConsent(inp[p], k))
ReadFrequency(p, k) == Query(p, k, "frequency", "decide", WithFrequency(inp[p], k))

\* Mutant: no unique index on (tenant_id, idempotency_key).
KeyIsFreeWithoutIndex(k) == TRUE

\* The unique index: the insert of a second row with the same key fails.
KeyIsFree(k) == request[k] = "absent"

\* The decision, its audit entries and the request are one transaction.
Decide(p, k) ==
  /\ At(p, "decide", k) /\ KeyIsFree(k)
  /\ request' = [request EXCEPT ![k] = InitialStatus(Evaluate(inp[p]))]
  /\ decisions' = [decisions EXCEPT ![k] = @ + 1]
  /\ EndCall(p)
  /\ UNCHANGED <<world, draft, edits, calls>>

\* The loser of a race is rolled back with its decision; its caller gets an error.
LoseRace(p, k) ==
  /\ At(p, "decide", k) /\ ~KeyIsFree(k)
  /\ EndCall(p)
  /\ UNCHANGED <<world, request, decisions, draft, edits, calls>>

Handle(p, k) ==
  \/ ReadLead(p, k) \/ ReadCampaign(p, k) \/ Replay(p, k) \/ LookUp(p, k)
  \/ ReadSignals(p, k) \/ ReadDnc(p, k) \/ ReadConsent(p, k) \/ ReadFrequency(p, k)
  \/ Decide(p, k) \/ LoseRace(p, k)

-----------------------------------------------------------------------------
(* The world around the calls. *)

Edit == edits < MaxEdits /\ edits' = edits + 1 /\ UNCHANGED handlers

\* PATCH /campaigns reads the campaign, unless it is deleted, ...
OpenCampaign(e) ==
  /\ Edit
  /\ draft[e] = None /\ ~campaign.deleted
  /\ draft' = [draft EXCEPT ![e] = campaign.status]
  /\ UNCHANGED <<world, request, decisions>>

\* ... checks the transition on what it read, and writes the columns that changed.  One
\* that is refused, or changes nothing, ends with the rules and the status as they are.
PatchCampaign(e, s, c) ==
  /\ draft[e] # None
  /\ s \in ValidTransitions[draft[e]] \cup {draft[e]}
  /\ campaign' = [campaign EXCEPT !.status = IF s = draft[e] THEN @ ELSE s, !.policy = c]
  /\ draft' = [draft EXCEPT ![e] = None]
  /\ UNCHANGED <<lead, signals, dnc, consent, request, decisions, handlers, edits>>

DeleteCampaign ==
  /\ Edit
  /\ ~campaign.deleted /\ campaign' = [campaign EXCEPT !.deleted = TRUE]
  /\ UNCHANGED <<lead, signals, dnc, consent, request, decisions, draft>>

CreateDnc(r) ==
  /\ Edit
  /\ r \notin dnc /\ dnc' = dnc \cup {r}
  /\ UNCHANGED <<lead, signals, campaign, consent, request, decisions, draft>>

\* Deleted, or past its expires_at.
EndDnc(r) ==
  /\ Edit
  /\ r \in dnc /\ dnc' = dnc \ {r}
  /\ UNCHANGED <<lead, signals, campaign, consent, request, decisions, draft>>

RecordConsent(c, b) ==
  /\ Edit
  /\ consent' = [consent EXCEPT ![c] = b]
  /\ UNCHANGED <<lead, signals, campaign, dnc, request, decisions, draft>>

\* Scored or qualified, each of which writes its own column.
UpdateLead(l) ==
  /\ Edit
  /\ l.score = lead.score \/ (l.qualification = lead.qualification /\ l.score # {})
  /\ lead' = l
  /\ UNCHANGED <<signals, campaign, dnc, consent, request, decisions, draft>>

\* Signals are detected, dismissed, deleted, or grow older.
ChangeSignals(S) ==
  /\ Edit
  /\ signals' = S
  /\ UNCHANGED <<lead, campaign, dnc, consent, request, decisions, draft>>

\* The outbox takes a request up (one that is pending is approved first) ...
TakeUp(k) ==
  /\ request[k] \in {"approved", "pending"}
  /\ request' = [request EXCEPT ![k] = "active"]
  /\ UNCHANGED <<world, decisions, handlers, draft, edits>>

\* ... and gives it up, or a day has passed since it was created; an approval of a request
\* that is queued takes it back.
DropOut(k, s) ==
  /\ request[k] = "active"
  /\ request' = [request EXCEPT ![k] = s]
  /\ UNCHANGED <<world, decisions, handlers, draft, edits>>

WorldStep ==
  \/ \E e \in Editors : \/ OpenCampaign(e)
                        \/ \E s \in CampaignStatuses, c \in Policies : PatchCampaign(e, s, c)
  \/ DeleteCampaign
  \/ \E r \in Rows : CreateDnc(r) \/ EndDnc(r)
  \/ \E c \in Contacts, b \in Bases \ {"none"} : c \in UNION {k.contact : k \in Intents} /\ RecordConsent(c, b)
  \/ \E l \in Leads : UpdateLead(l)
  \/ \E S \in SUBSET Signals : ChangeSignals(S)
  \/ \E k \in Intents : TakeUp(k) \/ \E s \in {"approved", "past"} : DropOut(k, s)

-----------------------------------------------------------------------------
(* History: what was in force during each call. *)

InForce(p) == UNION {Reasons(i) : i \in {Context(k) : k \in {call[p]} \ {None}}}
Begins(p) == call[p] = None /\ call'[p] # None

\* stood: reasons in force at every moment of the call; rose: at some moment; posted:
\* opt-outs in the list at every moment; moved: the campaign's rules were edited.
Watch ==
  LET now == [p \in Sessions |-> InForce(p)]'
      edited == campaign'.policy # campaign.policy
  IN /\ stood' = [p \in Sessions |-> IF Begins(p) THEN now[p] ELSE stood[p] \cap now[p]]
     /\ rose' = [p \in Sessions |-> IF call'[p] = None THEN {} ELSE rose[p] \cup now[p]]
     /\ posted' = [p \in Sessions |-> CASE call'[p] = None -> {}
                                        [] Begins(p) -> dnc'
                                        [] OTHER -> posted[p] \cap dnc']
     /\ moved' = [p \in Sessions |-> call'[p] # None /\ ~Begins(p) /\ (moved[p] \/ edited)]

Init ==
  /\ lead \in Leads /\ signals \in SUBSET Signals
  /\ campaign \in [status : CampaignStatuses, deleted : BOOLEAN, policy : Policies]
  /\ dnc \in SUBSET Rows /\ consent \in [Contacts -> Bases]
  /\ request = [k \in Intents |-> "absent"]
  /\ decisions = [k \in Intents |-> 0]
  /\ pc = [p \in Sessions |-> "idle"]
  /\ call = [p \in Sessions |-> None]
  /\ inp = [p \in Sessions |-> None]
  /\ draft = [e \in Editors |-> None]
  /\ calls = 0 /\ edits = 0
  /\ stood = [p \in Sessions |-> {}] /\ rose = [p \in Sessions |-> {}]
  /\ posted = [p \in Sessions |-> {}] /\ moved = [p \in Sessions |-> FALSE]

Next ==
  /\ (\E p \in Sessions, k \in Intents : Handle(p, k)) \/ WorldStep
  /\ Watch

Spec == Init /\ [][Next]_vars

-----------------------------------------------------------------------------
(* Properties. *)

\* Every variable keeps its shape, and a handler has a context exactly while it has a call.
TypeOK ==
  /\ lead \in Leads /\ signals \subseteq Signals
  /\ campaign \in [status : CampaignStatuses, deleted : BOOLEAN, policy : Policies]
  /\ dnc \subseteq Rows /\ consent \in [Contacts -> Bases]
  /\ request \in [Intents -> RequestStates]
  /\ decisions \in [Intents -> Nat]
  /\ pc \in [Sessions -> {"idle", "campaign", "lookup", "signals", "dnc", "consent",
                          "frequency", "decide"}]
  /\ call \in [Sessions -> Intents \cup {None}]
  /\ inp \in [Sessions -> ContextType \cup {None}]
  /\ \A p \in Sessions : /\ pc[p] = "idle" <=> call[p] = None
                       /\ IF call[p] = None THEN inp[p] = None ELSE inp[p] \in ContextType
  /\ draft \in [Editors -> CampaignStatuses \cup {None}]
  /\ calls \in 0..MaxCalls /\ edits \in 0..MaxEdits

\* However the queries of a creation interleave with other requests, its outcome has
\* grounds in what was in force while it ran (policies.py:111-153 reads the context piece
\* by piece): an approval means that no reason against it stood the whole time, a review
\* that no denial did and some gap was there, a denial that some denial was.  A campaign
\* whose rules are edited during the call is set aside: limits and what they limit are
\* then read at different moments.
Grounded(p, status) ==
  CASE status = "approved" -> stood[p] = {}
    [] status = "pending"  -> Denials(stood[p]) = {} /\ rose[p] # Denials(rose[p])
    [] status = "denied"   -> Denials(rose[p]) # {}
DecisionIsGrounded ==
  [][\A p \in Sessions, k \in Intents :
       call[p] = k /\ call'[p] = None /\ request[k] # request'[k] /\ ~moved[p]
       => Grounded(p, request'[k])]_vars

\* An opt-out that is in the list before a creation starts and until it ends blocks it
\* (models/do_not_contact.py: an opt-out has absolute priority), if it names the contact
\* and no company, or the company and no contact, for this channel or for all.
OptsOut(r, k) ==
  /\ IF r.company THEN r.contact = {} ELSE r.contact # {} /\ r.contact = k.contact
  /\ r.channel = {} \/ k.channel \in r.channel
OptOutHolds ==
  [][\A p \in Sessions, k \in Intents :
       call[p] = k /\ call'[p] = None /\ request[k] # request'[k] /\ request'[k] # "denied"
       => \A r \in posted[p] : ~OptsOut(r, k)]_vars

\* One intent has at most one request and one committed decision, and neither without the
\* other, whatever calls race or repeat it (outreach_requests' unique index).
OneRequestPerIntent ==
  \A k \in Intents : decisions[k] = IF request[k] = "absent" THEN 0 ELSE 1
=============================================================================
