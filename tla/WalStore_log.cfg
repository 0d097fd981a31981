CONSTANTS
  b1 = b1
  b2 = b2
  b3 = b3
  b4 = b4
  NoBatch = NoBatch
  Batch = {b1, b2, b3}
  PayloadLen <- MixedLen
  MaxBytes = 128
  SegmentBytes = 80
  FsyncFrames = 2
  MaxFramePayload = 100
  MaxCrashes = 1
  MaxErrors = 1
SPECIFICATION FairSpec

INVARIANTS TypeOK StoreInv TotalBytesExact CapBound DurableAtRest
PROPERTIES NoSilentLoss FifoLog BacklogEmpties
CHECK_DEADLOCK FALSE
