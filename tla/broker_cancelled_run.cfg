\* A cancelled execution leaves no run.
SPECIFICATION Spec
CONSTANTS
  w1 = w1 s1 = s1 s2 = s2 k1 = k1 k2 = k2 k3 = k3 h1 = h1 h2 = h2 h3 = h3
  c1 = c1 c2 = c2 p1 = p1 p2 = p2 p4 = p4 r1 = r1 r2 = r2 r3 = r3 r4 = r4 r5 = r5
  None = None Gone = Gone
  Plans = {p1} Worktrees = {w1} Requests = {r1} Servers = {s1}
  Keys = {k1} Holders = {h1} Contexts = {c1}
  Target <- MCTarget PlanContext <- MCPlanContext Timeout <- MCTimeout Deadline <- MCDeadline
  PlanOf <- MCPlanOf HolderOf <- MCOneHolder KeyOf <- MCOneKey ServerOf <- MCServerOf
  Gated = {} HighImpact = {} Scoped = {} Syncing = {} Delegated = {} Barred = {}
  AdmitOnly = {} Cancellable = {r1} Faulty = {} Crashing = {} Moving = {}
  Lease = 2 ApprovalLife = 1 MaxTime = 3 MaxDecisions = 0
INVARIANTS CancelledIsRecorded
CHECK_DEADLOCK FALSE
