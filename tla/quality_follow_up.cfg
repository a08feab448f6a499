\* Two coverage runs of one worktree, whose commit may change between them.
INIT ObjectiveInit
NEXT ObjectiveNext
CONSTANTS
  u1 = u1 h1 = h1 h2 = h2 g1 = g1 g2 = g2 None = None
  Users = {u1} Heads = {h1, h2} Runners = {g1, g2} Percents = {1}
  MaxRevalidations = 1 MaxRevision = 4 MaxRuns = 2 MaxChanges = 1
INVARIANTS FollowUpIsCompared
CHECK_DEADLOCK FALSE
