CONSTANTS
  None = None
  p1 = p1
  p2 = p2
  v1 = v1
  v2 = v2
  g1 = g1
  g2 = g2
  h1 = h1
  h2 = h2
  Writers = {p1, p2}
  Hooks = {p1, p2}
  Agents = {p1, p2}
  Watchable <- MCWatchable
  Marks = {v1, v2}
  MaxWrites <- MCMaxWrites
  Prints = {v1, v2}
  Tails <- MCTails
  ReadOnly = {"read"}
  Refractory = 1
  Ledger = 2
  MaxTurns = 4
  Governing = {g1, g2}
  Contents = {v1, v2}
  Commits = {h1, h2}
  MaxChanges = 2
  MaxHooks = 3
  Rosters <- MCRosters
  Runners = {p1, p2}
  MaxCalls <- MCMaxCalls
  MaxFinals <- MCMaxFinals
  MaxRaces = 1
SYMMETRY MCSymmetry
SPECIFICATION MCSpec
INVARIANTS
  ClearedAuditMatchesReceipts
  AuditJudgesItself
  BlocksAreSpaced
  SilenceIsEarned
  TrustIsEarned
  VerdictFollowsRun
  ReceiptIsCurrent
PROPERTIES
  IssueNeedsRemedy
CHECK_DEADLOCK FALSE
