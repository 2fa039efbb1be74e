CONSTANTS
  t1 = t1
  t2 = t2
  s1 = s1
  s2 = s2
  Thread = {t1, t2}
  Stream = {s1, s2}
  k1 = k1
  k2 = k2
  k3 = k3
  Key = {k1, k2, k3}
  Cache = {"spmv_cusparse", "fft_cufft"}
  CacheOf <- FunctionOf
  Device = {d1}
  Floor = 80
  Mixed = FALSE
  StreamsOf <- OwnStream
  Calls = 2
SPECIFICATION Spec
INVARIANTS Consistent OnOwnStream PlanOutlivesWork
PROPERTY EveryCallReturns
