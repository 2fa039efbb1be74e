CONSTANTS
  Monitor = {m1, m2}
  Impl = {i1, i2}
  None = None
  Windows = 2
  Samples = 1
  Reassign = FALSE
SPECIFICATION Spec
INVARIANTS MonitorConsistent JoinedBeforeFreed Settled
PROPERTY StopReturns
