CONSTANTS
  None = None
  c1 = c1
  mine = mine
  spare = spare
  v1 = v1
  Weight <- MCWeight
  Least = 160
  Horizon = 2
  Strong <- MCStrong
  Weak <- MCWeak
  Domains = {algebra}
  Facets = {depth}
  Kept = 4
  Kinds = {"near", "far"}
  HistoryCap = 2
  Names = {mine, spare}
  Default = mine
  Clients = {c1, c2}
  Attempts <- MCAttempts
  Reports <- MCReports
  Seeds = {"seed"}
  Initial <- MCInitial
  MaxClock = 3
  MaxCommands = 5
  Scribes = {s1, s2}
  Gaps = {gap}
  Garbled = garbled
  Remedies = {remedy}
  Findings <- MCFindings
  MaxEntries = 3
  Starts <- MCStarts
  Signals <- MCSignals
  Ceiling <- MCCeiling
  Parties = {a1, a2, a3}
  Versions = {v1, v2}
  MaxProposals = 2
  Sessions = {c1, c2}
  Tasks = {t1, t2}
  Obligations = {foil, other}
  FoilOwned = {foil}
  MaxRecords = 2
  MaxPrompts = 2
SPECIFICATION MCSpec
SYMMETRY MCSymmetry
INVARIANTS
  DomainClaimsAreEarned
  PlanIsRecordable
  ClaimRestsOnOwnWork
  GarbledNeedsOverlap
  ProfileOnlyComplements
  CommittableIsCurrent
  ClearedByTheLastPrompt
PROPERTIES
  NothingLostAlone
CHECK_DEADLOCK FALSE
