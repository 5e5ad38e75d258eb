CONSTANTS
  m1 = m1  m2 = m2  t1 = t1  t2 = t2  None = None
  Ids = {m1, m2}
  Tasks = {t1, t2}
  Permits = 2
  Rejected = {3}
  MaxTime = 3
  MaxCalls = 2
SPECIFICATION Spec
PROPERTY LoadsDeduplicated
