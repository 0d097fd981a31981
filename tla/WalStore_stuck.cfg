CONSTANTS
  b1 = b1
  b2 = b2
  b3 = b3
  b4 = b4
  NoBatch = NoBatch
  Batch = {b1, b2, b3}
  PayloadLen <- EqualLen
  MaxBytes = 100
  SegmentBytes = 48
  FsyncFrames = 2
  MaxFramePayload = 100
  MaxCrashes = 0
  MaxErrors = 1
SPECIFICATION FairSpec
PROPERTY BacklogDrains
CHECK_DEADLOCK FALSE
