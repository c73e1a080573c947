SPECIFICATION Spec
CONSTANTS
  r1 = r1 r2 = r2 r3 = r3
  w1 = w1 w2 = w2
  api1 = api1 api2 = api2
  Requests = {r1, r2, r3}
  Workers = {w1, w2}
  Sessions = {}
  Live = {w1, w2}
  Backlog = {r1, r2, r3}
  BatchSize = 2
  MaxAttempts = 2
  MaxCrashes = 0
  MaxOverruns = 0
  MaxOps = 0
  Lossy = FALSE
  NoRow = NoRow
  NoRequest = NoRequest
  NoAnswer = NoAnswer
CHECK_DEADLOCK FALSE
INVARIANTS OutcomeIsTrue SingleOwner
PROPERTIES ImplementsDelivery
