SPECIFICATION Spec
CONSTANTS
  j1 = j1 j2 = j2
  s1 = s1 s2 = s2 s3 = s3 s4 = s4
  text = text binary = binary
  w1 = w1 w2 = w2 api1 = api1
  Jobs = {j1}
  Sources = {s1, s2}
  Contents = {text, binary}
  JobOf <- MCJobOf
  Body <- MCBody
  Extractable = {text}
  Telling = {text}
  Workers = {w1}
  Sessions = {api1}
  Backlog = {j1}
  Targets = {"queued"}
  BatchSize = 2
  MaxAttempts = 2
  MaxCrashes = 0
  MaxUpsets = 1
  MaxOverruns = 0
  MaxOps = 0
  NoJob = NoJob
  NoSource = NoSource
  NoCopy = NoCopy
CHECK_DEADLOCK FALSE
INVARIANT ChainIsComplete
