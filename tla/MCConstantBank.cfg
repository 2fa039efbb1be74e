CONSTANTS
  p1 = p1
  p2 = p2
  t1 = t1
  t2 = t2
  s1 = s1
  s2 = s2
  Null = null
  NoPlan = none
  Plan = {p1, p2}
  Thread = {t1}
  Stream = {s1, s2, null}
  ThreadOf <- OneThread
  StreamOf <- OneStream
  Blocking = {s1}
  Calls = 4
SPECIFICATION Spec
INVARIANT OwnFilter
