SPECIFICATION UnitsSpec
CONSTANTS
  Capacity = 2
  Word = 8
  MaxBlock = 3
  MaxOffered = 9
  MaxPushed = 5
  MaxPopped = 6
  Instance = {i1, i2}
  MaxKills = 2
  Surveys <- EqualSurveys
  Calls <- SomeCalls
  OnAirBlocks <- SomeBlocks
  MaxBlocks = 2
  Powers = {0, 1}
  Threshold = 1
  MaxSlice = 3
  MaxSamples = 9
  Frames <- SomeFrames
  NumTrain = 1
  NumGuard = 0
  Alpha = 2
  MinSnr = 4
  MergeGap = 4
  Scale = 20
  Bins = 5
  BinWidth = 6
  Tiles <- SomeTiles
  MaxTiles = 2
  Spectra <- SomeSpectra
  BinCount = 2
  MaxFrames = 4
  ZThreshold = 1
  PeakLists <- SomePeaks
  TolerancePct = 1
INVARIANTS
  RoomForThePush
  LossIsVisible
  PopsInOrder
  LagFits
  LaunchOutcome
  TilesCoverBands
  EveryFrequencyIsSwept
  MetadataFollowsCall
  TsbksArriveInOrder
  PulsesSurviveSlicing
  GroupsAreExact
  MergingIsSound
  ShowsWhatWasMeasured
  KindFollowsBaseline
  HarmonicsAreGroupedOnce
PROPERTIES
  ImplementsFifo
  SchemaGetsDone
CHECK_DEADLOCK FALSE
