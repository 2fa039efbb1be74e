CONSTANTS
  Streams = {s1, s2}
  NonBlocking = {}
  Sizes = {1, 2}
  Solves = 2
SPECIFICATION Spec
INVARIANTS SolverConsistent Synchronous Truthful
