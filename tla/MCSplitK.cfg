CONSTANTS
  K = 10
  BK = 2
  Requests <- FewAndMany
  Fragment = {f1, f2}
  Calls = 2
SPECIFICATION Spec
INVARIANT ScratchBalanced
PROPERTY ImplementsGemm
