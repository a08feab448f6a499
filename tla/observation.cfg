\* Scans of worktrees and findings: overlapping processes, faults, crashes, requests.
SPECIFICATION Spec
CONSTANTS
  None = None a = a b = b p = p q = q root = root s1 = s1 s2 = s2
  unsafe = unsafe home1 = home1 home2 = home2
INVARIANTS TypeOK IdNamesOneCheckout ScanReportsAreTrue
PROPERTIES StoredIsTheEnumeration ScansConverge RequestIsServed FindingsSettle
