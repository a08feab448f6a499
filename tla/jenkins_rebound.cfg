\* The integration is edited between the check of the digest and the post.
INIT WorkInit
NEXT WorkNext
CONSTANTS
  t1 = t1 g1 = g1 k1 = k1 k2 = k2 None = None
  Targets = {t1} Groups = {g1} Keys = {k1, k2} Expected = {None}
  Slots = 1 MaxChanges = 1 MaxRuns = 1
INVARIANTS BoundConfigurationIsUsed
CHECK_DEADLOCK FALSE
