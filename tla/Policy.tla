------------------------------- MODULE Policy -------------------------------
(***************************************************************************)
(* The policy engine (services/policy.py): nine pure rules over a bag of   *)
(* context, and the verdict their reasons add up to.  An optional number,  *)
(* or channel, is a set with at most one element.                          *)
(*                                                                         *)
(* The context i has the fields                                            *)
(*   enabled        settings.outreach_enabled                              *)
(*   dnc            an opt-out matches the target                          *)
(*   running        the campaign's status is "running"                     *)
(*   policy         the campaign's rules (CampaignPolicy)                  *)
(*   channel, basis the channel asked for, the latest consent basis        *)
(*   qualification, score        the lead's columns                        *)
(*   evidence, age  is there evidence, and how old the newest signal is    *)
(*   capped         the frequency cap is reached                           *)
(***************************************************************************)
EXTENDS Naturals

\* What a campaign without rules of its own imposes, on these channels.
NoPolicy(channels) ==
  [minScore |-> {}, maxAge |-> {}, maxPerDay |-> {}, allowed |-> channels,
   requireQualification |-> FALSE, requireEvidence |-> FALSE]

\* "none": no consent is recorded; "consent" stands for every other basis but the two named.
Bases == {"none", "unknown", "consent", "legitimate_interest"}
ConsentBlockingPolicy == {"legitimate_interest"}

Deny(code) == [code |-> code, severity |-> "deny"]
Review(code) == [code |-> code, severity |-> "review"]
When(condition, reason) == IF condition THEN {reason} ELSE {}

GlobalOutreachRule(i) == When(~i.enabled, Deny("OUTREACH_DISABLED"))

DncRule(i) == When(i.dnc, Deny("DO_NOT_CONTACT"))

CampaignRule(i) == When(~i.running, Deny("CAMPAIGN_NOT_RUNNING"))

ChannelRule(i) ==
  When(i.channel = {}, Review("CHANNEL_UNSPECIFIED"))
  \cup When(i.policy.allowed # {} /\ ~(i.channel \subseteq i.policy.allowed),
            Deny("CHANNEL_NOT_ALLOWED"))

ConsentRule(i) ==
  When(i.basis \in {"none", "unknown"}, Review("CONSENT_UNKNOWN"))
  \cup When(i.basis \in ConsentBlockingPolicy, Deny("CONSENT_BLOCKED"))

QualificationRule(i) ==
  When(i.policy.requireQualification /\ i.qualification # "qualified",
       Deny("QUALIFICATION_REQUIRED"))

ScoreRule(i) ==
  When(i.policy.minScore # {} /\ i.score = {}, Review("SCORE_UNKNOWN"))
  \cup When(\E m \in i.policy.minScore, s \in i.score : s < m, Deny("SCORE_TOO_LOW"))

FreshnessRule(i) ==
  When(i.policy.requireEvidence /\ ~i.evidence, Deny("EVIDENCE_REQUIRED"))
  \cup When(i.policy.maxAge # {} /\ i.age = {}, Review("EVIDENCE_STALE"))
  \cup When(\E m \in i.policy.maxAge, a \in i.age : a > m, Deny("EVIDENCE_STALE"))

FrequencyRule(i) == When(i.capped, Deny("FREQUENCY_LIMIT"))

\* Every rule runs, in a fixed order; no rule looks at what another one added.
Reasons(i) ==
  GlobalOutreachRule(i) \cup DncRule(i) \cup CampaignRule(i) \cup ChannelRule(i)
  \cup ConsentRule(i) \cup QualificationRule(i) \cup ScoreRule(i) \cup FreshnessRule(i)
  \cup FrequencyRule(i)

Denials(R) == {r \in R : r.severity = "deny"}

\* Mutant: a missing piece of context masks a denial.
VerdictReviewFirst(R) ==
  IF R \ Denials(R) # {} THEN "REVIEW" ELSE IF Denials(R) # {} THEN "DENY" ELSE "ALLOW"

Verdict(R) ==
  IF Denials(R) # {} THEN "DENY" ELSE IF R # {} THEN "REVIEW" ELSE "ALLOW"

Evaluate(i) == Verdict(Reasons(i))
=============================================================================
