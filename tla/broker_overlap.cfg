\* The command may run as long as the lease: repository.sync.
SPECIFICATION Spec
CONSTANTS
  w1 = w1 s1 = s1 s2 = s2 k1 = k1 k2 = k2 k3 = k3 h1 = h1 h2 = h2 h3 = h3
  c1 = c1 c2 = c2 p1 = p1 p2 = p2 p4 = p4 r1 = r1 r2 = r2 r3 = r3 r4 = r4 r5 = r5
  None = None Gone = Gone
  Plans = {p1} Worktrees = {w1} Requests = {r1, r2} Servers = {s1, s2}
  Keys = {k1, k2} Holders = {h1, h2} Contexts = {c1}
  Target <- MCTarget PlanContext <- MCPlanContext Timeout <- MCLeaseTimeout Deadline <- MCDeadline
  PlanOf <- MCSamePlan HolderOf <- MCHolderOf KeyOf <- MCKeyOf ServerOf <- MCServerOf
  Gated = {} HighImpact = {} Scoped = {} Syncing = {p1} Delegated = {} Barred = {}
  AdmitOnly = {} Cancellable = {} Faulty = {} Crashing = {} Moving = {}
  Lease = 2 ApprovalLife = 1 MaxTime = 3 MaxDecisions = 0
INVARIANTS LockedExecution
CHECK_DEADLOCK FALSE
