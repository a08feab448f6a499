\* Who may start a child, what a drift under it does, and the progress of two handlers.
SPECIFICATION FairSpec
CONSTANTS
  w1 = w1 s1 = s1 s2 = s2 k1 = k1 k2 = k2 k3 = k3 h1 = h1 h2 = h2 h3 = h3
  c1 = c1 c2 = c2 p1 = p1 p2 = p2 p4 = p4 r1 = r1 r2 = r2 r3 = r3 r4 = r4 r5 = r5
  None = None Gone = Gone
  Plans = {p1, p2, p4} Worktrees = {w1} Requests = {r1, r2, r3} Servers = {s1, s2}
  Keys = {k1} Holders = {h1, h2} Contexts = {c1, c2}
  Target <- MCTarget PlanContext <- MCPlanContext Timeout <- MCTimeout Deadline <- MCDeadline
  PlanOf <- MCPlan HolderOf <- MCHolder KeyOf <- MCOneKey ServerOf <- MCServerOf
  Gated = {p4} HighImpact = {p4} Scoped = {p4} Syncing = {} Delegated = {p2} Barred = {}
  AdmitOnly = {} Cancellable = {} Faulty = {} Crashing = {} Moving = {w1}
  Lease = 2 ApprovalLife = 1 MaxTime = 3 MaxDecisions = 2
INVARIANTS TypeOK
PROPERTIES RevocationStopsLaunch ExpiryStopsLaunch DriftNeverSucceeds EveryRequestReturns LockIsGivenBack
CONSTRAINT Apart
CHECK_DEADLOCK FALSE
