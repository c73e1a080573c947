------------------------------ MODULE MCIntake ------------------------------
(* A small instance of Intake: three intents that share a contact or a campaign, three
   opt-outs, and a world in which a first creation is allowed. *)
EXTENDS Intake, TLC

CONSTANTS ada, bob, s1, s2, e1

MCIntents == {[contact |-> {ada}, campaign |-> TRUE, channel |-> "email"],
              [contact |-> {}, campaign |-> TRUE, channel |-> "email"],
              [contact |-> {ada}, campaign |-> FALSE, channel |-> "whatsapp"]}

\* Somebody else at the company, the contact on every channel, the company on one.
MCRows == {[contact |-> {bob}, company |-> TRUE, channel |-> {"whatsapp"}],
           [contact |-> {ada}, company |-> FALSE, channel |-> {}],
           [contact |-> {}, company |-> TRUE, channel |-> {"email"}]}

MCLeads == {[score |-> {}, qualification |-> "qualified"],
            [score |-> {40}, qualification |-> "qualified"],
            [score |-> {80}, qualification |-> "qualified"],
            [score |-> {80}, qualification |-> "candidate"]}

MCSignals == {[age |-> 10, evidence |-> FALSE], [age |-> 60, evidence |-> TRUE]}

Strict == [minScore |-> {50}, maxAge |-> {30}, maxPerDay |-> {1}, allowed |-> {},
           requireQualification |-> TRUE, requireEvidence |-> TRUE]
MCPolicies == {Strict, NoPolicy({})}

\* A campaign under way, with a qualified lead that has evidence and a fresh signal.
MCInit ==
  /\ lead = [score |-> {80}, qualification |-> "qualified"]
  /\ signals = MCSignals
  /\ campaign = [status |-> "running", deleted |-> FALSE, policy |-> Strict]
  /\ dnc = {}
  /\ consent = [c \in Contacts |-> "consent"]
  /\ Init

MCSymmetry == Permutations(Sessions)

MCSpec == MCInit /\ [][Next]_vars
=============================================================================
