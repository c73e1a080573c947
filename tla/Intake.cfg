SPECIFICATION MCSpec
CONSTANTS
  ada = ada bob = bob
  Contacts = {ada, bob}
  s1 = s1 s2 = s2
  e1 = e1
  Intents <- MCIntents
  Rows <- MCRows
  Leads <- MCLeads
  Signals <- MCSignals
  Policies <- MCPolicies
  Sessions = {s1, s2}
  Editors = {e1}
  OutreachEnabled = TRUE
  MaxCalls = 2
  MaxEdits = 2
  None = None
SYMMETRY MCSymmetry
CHECK_DEADLOCK FALSE
INVARIANTS OneRequestPerIntent TypeOK
PROPERTIES DecisionIsGrounded OptOutHolds
