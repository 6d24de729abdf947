CONSTANTS
  NTypes = 2
  Capacity = 2
  MaxPerType = 2
  Sizes = {1, 4}
  BinaryLens = {3, 9}
  JsonLens = {12}
  PbBufMax = 9
  Header = 1
  ElementMax = 4
  Margin = 3
  MaxSamples = 3
SPECIFICATION FairSpec
INVARIANTS TypeOK EachSampleOnce BatchFits NothingMeansNoneFits
PROPERTIES NoTypeBlocksAnother
CHECK_DEADLOCK FALSE
