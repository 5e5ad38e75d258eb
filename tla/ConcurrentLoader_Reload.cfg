CONSTANTS
  m1 = m1  m2 = m2  t1 = t1  t2 = t2  None = None
  Ids = {m1, m2}
  Tasks = {t1, t2}
  Permits = 1
  Rejected = {3}
  MaxTime = 3
  MaxCalls = 3
SPECIFICATION Spec
INVARIANT ReloadServesCurrentSource
