\* Leases: an admit-only, a Jenkins and an executed request for one worktree, one process killed.
\* Or idempotency and evidence: three requests with one key (a retry, another plan),
\* failing or unanswered storage calls, cancellation, and a crash.
SPECIFICATION Spec
CONSTANTS
  w1 = w1 s1 = s1 s2 = s2 k1 = k1 k2 = k2 k3 = k3 h1 = h1 h2 = h2 h3 = h3
  c1 = c1 c2 = c2 p1 = p1 p2 = p2 p4 = p4 r1 = r1 r2 = r2 r3 = r3 r4 = r4 r5 = r5
  Plans = {p1, p2, p4} Worktrees = {w1} Requests = {r1, r2, r3, r4, r5} Servers = {s1, s2}
  Keys = {k1, k2, k3} Holders = {h1, h2, h3} Contexts = {c1}
  Target <- MCTarget PlanContext <- MCPlanContext Timeout <- MCTimeout Deadline <- MCDeadline
  PlanOf <- MCPlan HolderOf <- MCHolder KeyOf <- MCKey ServerOf <- MCServer
  Gated = {} HighImpact = {} Scoped = {} Syncing = {p1} Delegated = {p2} Barred = {}
  AdmitOnly = {r1} Cancellable = {r5} Faulty = {r4, r5} Crashing = {s1} Moving = {}
  Lease = 1 ApprovalLife = 2 MaxTime = 2 MaxDecisions = 0
  None = None Gone = Gone
INVARIANTS MemoryMatchesRow LeaseExclusive NoOrphanLock OneStartPerKey EvidenceFirst
CONSTRAINT Apart
CHECK_DEADLOCK FALSE
