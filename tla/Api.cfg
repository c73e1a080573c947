SPECIFICATION ApiSpec
CONSTANTS
  home = home moved = moved bad = bad
  inside = inside safe = safe alsoSafe = alsoSafe
  b1 = b1 b2 = b2 f1 = f1 f2 = f2 s1 = s1
  host = host acme = acme globex = globex ann = ann bob = bob
  c1 = c1 c2 = c2 c3 = c3
  won = won lost = lost opp = opp task = task note = note e1 = e1 e2 = e2
  site = site info = info
  k1 = k1 k2 = k2 k3 = k3 k4 = k4 m1 = m1 m2 = m2 m3 = m3 m4 = m4 x1 = x1 x2 = x2
  Sources = {s1}
  Urls = {home, moved, bad}
  UrlOf <- MCUrlOf
  Malformed = {bad}
  Addresses = {inside, safe, alsoSafe}
  Unsafe = {inside}
  Answers <- MCAnswers
  Bodies = {b1, b2}
  MaxRedirects = 1
  TotalTimeout = 1
  HopTime = 1
  Fetchers = {f1, f2}
  MaxFetches = 3
  Nothing = Nothing
  Clients = {host}
  Limit = 2
  Slugs = {acme, globex}
  Names = {acme}
  Emails = {ann, bob}
  Registrations <- MCRegistrations
  Joins <- MCJoins
  Callers = {c1, c2, c3}
  MaxCalls = 4
  MaxOutages = 1
  Nobody = Nobody
  Opportunities = {opp}
  Tasks = {task}
  Notes = {note}
  Stages = {won, lost}
  Editors = {e1, e2}
  MaxEdits = 5
  Null = Null
  Pages <- MCPages
  Professional <- MCProfessional
  Inputs <- MCInputs
  CompanyIds = {k1, k2, k3, k4}
  ContactIds = {m1, m2, m3, m4}
  Extractors = {x1, x2}
  WorkerSessions = {x1}
  MaxIngests = 4
  None = None
SYMMETRY MCSymmetry
CHECK_DEADLOCK FALSE
INVARIANTS ApiTypeOK ConnectsToVetted WithinBudget FetchedHasDocument WindowLimit CountersExpire TenantsAreWhole DoneIsCompleted OneOfEach
PROPERTIES TrailIsStage DeletedStaysDeleted TitleStands
