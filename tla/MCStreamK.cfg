CONSTANTS
  Shapes <- OneAndSeven
  Iters = 4
  Occ = 3
  Residency = 2
  Warps = 2
  Calls = 2
SPECIFICATION Spec
INVARIANTS Consistent PublishedPlane OwnerIsContiguous
PROPERTIES ImplementsGemm EveryCallEnds
