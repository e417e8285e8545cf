CONSTANTS
  p1 = p1
  p2 = p2
  v1 = v1
  v2 = v2
  t1 = t1
  t2 = t2
  o1 = o1
  o2 = o2
  power = power
  mind = mind
  g1 = g1
  r1 = r1
  s1 = s1
  s2 = s2
  s3 = s3
  None = None
  Tasks = {t1, t2}
  FirstTask = t1
  Obligations = {o1, o2}
  LoadBearing = {o1}
  Modules = {power, mind}
  Claims <- MCClaims
  Required <- MCRequired
  Starters = {g1}
  Adders = {p1, p2}
  Writers = {v1, v2}
  Releasers = {r1}
  Nobody = Nobody
  MaxClock = 1
  MaxBusy = 2
  Seats = {s1, s2, s3}
  Submissions = {v1, v2}
  Callers = {p1, p2}
  MaxOverlaps = 1
  MaxReceipts = 2
SYMMETRY MCSymmetry
SPECIFICATION MCSpec
INVARIANTS
  ReleaseIsJustified
  ReceiptsAreOrdered
  OnlyReleaseLosesObligations
  PointerIsCurrent
  ClearedIsEarned
  RevealsAreBound
PROPERTIES
  CommitsAreBlind
  ClosedIsFinal
CHECK_DEADLOCK FALSE
