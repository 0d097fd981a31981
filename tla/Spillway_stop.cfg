SPECIFICATION SpillSpec
CONSTANTS
  b1 = b1 b2 = b2 b3 = b3 b4 = b4
  NoBatch = NoBatch
  Batch = {b1, b2, b3}
  PayloadLen <- EqualLen
  MaxBytes = 200
  SegmentBytes = 48
  FsyncFrames = 2
  MaxFramePayload = 100
  MaxCrashes = 1
  MaxErrors = 0
  RetryCap = 1
  AppendCap = 1
  OpenThreshold = 2
  FailureWrap = 4
  MaxOutages = 1
SYMMETRY BatchSymmetry
INVARIANTS OrderlyStopLosesNothing
CHECK_DEADLOCK FALSE
