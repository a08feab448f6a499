\* Two builds open and use one database side by side; one process may be killed.
SPECIFICATION FairSpec
CONSTANTS
  s1 = s1 s2 = s2 o1 = o1 o2 = o2 e1 = e1 t1 = t1 q1 = q1
  m1 = m1 m1old = m1old m2 = m2 m3 = m3 mx = mx None = None
  Servers = {s1, s2} Migrations = {m1, m1old, m2, m3, mx}
  Home <- MCHome Kind <- MCKind Builds <- MCBuilds Released <- MCReleased
  Patience <- MCPatience
  Calls = {o1, o2, e1, t1, q1} Histories <- MCHistories
  Polls = 0 Attempts = 2 Cancellable = {t1} Crashing = {s2} Foreign = {"absent", "writing"}
INVARIANTS TypeOK OneInside NothingLeaked LockBusyNeverRan TablesMatchHistory OpenDatabaseIsMigrated
PROPERTIES AnswersAreTrue EveryCallReturns
CHECK_DEADLOCK FALSE
