CONSTANTS
  t1 = t1
  t2 = t2
  s1 = s1
  s2 = s2
  Thread = {t1}
  Stream = {s1}
  Key = {k1, k2}
  StreamsOf <- AllStreams
  Calls = 3
SPECIFICATION Spec
INVARIANTS Consistent FailureExplained OutputExact
