SPECIFICATION Spec
CONSTANTS
  Bits = {b0}
  Contents <- PatternContents
  Payloads <- PatternPayloads
  ParallelNums = {1}
  ChipSize = 8
  BlockSize = 4
  BufferProgramSize = 2
  MaxCalls = 1
INVARIANT
  ReadsBack
