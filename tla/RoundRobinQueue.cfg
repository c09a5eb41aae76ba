\* Ring buffer against the plain FIFO: 6 cells usable, binary bytes.
CONSTANTS
  TotalBufferSize = 6
  Base = 2
  MaxLength = 7
  Chunks <- MCChunks

SPECIFICATION Spec

INVARIANTS
  TypeOK
  SizesAgree

PROPERTY
  ImplementsFifo
