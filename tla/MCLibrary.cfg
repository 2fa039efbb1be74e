CONSTANTS
  NaN = NaN
  Warp = 4
  Items = 3
  MergeBlock = 2
  SliceHeight = 2
  SigmaRegular = 2
  SigmaPowerLaw = 4
  MaxPadded = 24
  LogWarp = 2
  LogBlock = 3
  WideItems = 2
  LevelAlign = 2
  Prime = 31
  Omega <- MCOmega
  MaxLength = 32
  SharedMax = 8
  MaxGridZ = 1
  ConvTile = 4
  ConvChunk = 3
  MaxConstantTaps = 4
  MinConvLength = 16
  DramRoof = 6
  Fp32Roof = 1
  RegTile = 4
  RegStep = 2
  WmmaTile = 2
  WmmaStep = 4
  OptStep = 8
  TiledTile = 3
  VecWidth = 2
  SmallLimit = 4
  LargeLimit = 8
  MinStepsPerSplit = 2
  Roster <- MCRoster
  RefTile <- MCRefTile
  Logarithm <- MCLogarithm
  Lanes = 4
  FloatVec = 2
  TrsmBlock = 2
  Inputs <- MCInputs
  Requests <- MCRequests
SPECIFICATION Spec
INVARIANTS SpmvExact ScanExact FftExact ConvExact GemmExact NeverRerouted AutoServed WorkspaceSuffices SweepHeeded DenseExact
