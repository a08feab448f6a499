\* Two users remove the two repositories of one project at the same time.
INIT CatalogInit
NEXT CatalogNext
CONSTANTS
  p1 = p1 f1 = f1 f2 = f2 u1 = u1 u2 = u2 None = None
  ProjectIds = {p1} Folders <- MCFolders Name <- MCName
  Users = {u1, u2} MaxEdits = 3 MaxFaults = 0
INVARIANTS ProjectsRetainARepository
CHECK_DEADLOCK FALSE
