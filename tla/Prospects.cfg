SPECIFICATION Spec
CONSTANTS
  Fine = 2
  acme = acme other = other
  e1 = e1
  s1 = s1 s2 = s2 s3 = s3
  h1 = h1 h2 = h2
  Companies = {acme, other}
  Pages <- MCPages
  ManualEvidence <- MCManualEvidence
  ManualSignals <- MCManualSignals
  EvidenceIds = {e1}
  SignalIds = {s1, s2, s3}
  LeadCompany <- MCLeadCompany
  Verdicts = {"unqualified", "qualified"}
  Handlers = {h1, h2}
  MaxCalls = 4
  None = None
SYMMETRY MCSymmetry
CHECK_DEADLOCK FALSE
INVARIANTS TypeOK LeadTellsItsScoring TrailTellsQualification ExplanationAddsUp DetectionIsSupported OrderIsNoMatter WeakerIsNeverBetter
PROPERTY DeletedIsFinal
