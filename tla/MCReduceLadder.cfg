CONSTANTS
  Tiles = 4
  Persistent = 3
  DetBlocks = 2
  Calls = 3
SPECIFICATION Spec
INVARIANT SlotsDisjoint
PROPERTY ImplementsReduce
