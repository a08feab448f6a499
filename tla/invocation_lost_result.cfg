\* Two first attempts in one session and one process.
SPECIFICATION Spec
CONSTANTS
  p1 = p1 a = a b = b i1 = i1 i4 = i4 None = None
  Processes = {p1} Calls = {a, b} Invocations = {i1, i4}
  ProcessOf <- MCProcessOf TargetOf <- MCTargetOf ParentOf <- MCParentOf PromptOf <- MCPromptOf
  Results = {"succeeded", "failed"} Faulty = {} Sweeping = {}
  Attempts = 2 Alone = TRUE
PROPERTIES ResultsStay
CHECK_DEADLOCK FALSE
