CONSTANTS
  Warps = 3
  Stages = 3
  Work <- LongEmptyShort
  Depths <- OneAndThree
SPECIFICATION Spec
INVARIANTS SumExact NoCopyUnderRead
