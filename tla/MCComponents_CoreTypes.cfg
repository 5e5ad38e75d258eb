CONSTANTS
  cm = cm
  cs = cs
  cv = cv
  cq = cq
  Closed = Closed
  Unm = Unm
  d0 = d0  d1 = d1  d2 = d2  d3 = d3  d4 = d4  out = out  missing = missing
  n1 = n1  n2 = n2  n3 = n3  n4 = n4  ext = ext  p = p  q = q  w1 = w1
  sy = sy  ty = ty  k1 = k1  k2 = k2  v1 = v1  v2 = v2  NoData = NoData
  pa = pa  pb = pb  pcc = pcc  th1 = th1  vx = vx  vy = vy
  s0 = s0  s1 = s1  s2 = s2  q1 = q1  q2 = q2  q3 = q3
  ba1 = ba1  ba2 = ba2  ev1 = ev1  ev2 = ev2  tp1 = tp1  tcNone = tcNone
  bk1 = bk1  bk2 = bk2  bk3 = bk3
  RegionBuild = "debug"
  WsMaxPatterns = 1
SPECIFICATION Spec
CONSTRAINT CheckerCalls










INVARIANT TypeSound
