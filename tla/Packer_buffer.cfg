\* The numbers of the code; a reading takes some 30 bytes in binary and some 80 as JSON.
CONSTANTS
  NTypes = 4
  Capacity = 16
  MaxPerType = 4
  Sizes = {30, 80}
  BinaryLens = {50, 51}
  JsonLens = {6144}
  PbBufMax = 51
  Header = 17
  ElementMax = 256
  Margin = 16
  MaxSamples = 2
SPECIFICATION Spec
INVARIANT BatchFitsBuffer
CHECK_DEADLOCK FALSE
