CONSTANTS
  t1 = t1
  t2 = t2
  s1 = s1
  s2 = s2
  Thread = {t1, t2}
  Stream = {s1, s2}
  Key = {k1, k2}
  StreamsOf <- OwnStream
  Calls = 2
SPECIFICATION Spec
INVARIANT PlanOutlivesCall
