CONSTANTS
  Tiles = 4
  Window = 2
  Residency = 2
  Calls = 2
SPECIFICATION Spec
INVARIANT PublishedPayloads
PROPERTIES PublishedIsFinal ImplementsScan EveryCallCompletes
