\* A first attempt, its retry and a retry of that, over two restarts of one
\* process; or a retry that two processes side by side are asked for.
SPECIFICATION MCSpec
CONSTANTS
  p1 = p1 p2 = p2 p3 = p3 a = a r = r s = s t = t e = e i1 = i1 i2 = i2 i3 = i3 None = None
  Processes = {p1, p2, p3} Calls = {a, r, s, t} Invocations = {i1, i2, i3}
  ProcessOf <- MCProcessOf TargetOf <- MCTargetOf ParentOf <- MCParentOf PromptOf <- MCPromptOf
  Results = {"succeeded", "failed"} Faulty = {r, p2} Sweeping = {p2}
  Attempts = 2 Alone = TRUE
INVARIANTS TypeOK EvidenceKept InterruptedIsPending RetryAfterEnd RunningHasRunner LaunchedOnce
PROPERTIES TerminalIsFinal EveryCallReturns
CHECK_DEADLOCK FALSE
