SPECIFICATION OrderedSpec
CONSTANTS
  b1 = b1 b2 = b2 b3 = b3 b4 = b4
  NoBatch = NoBatch
  Batch = {b1, b2, b3}
  PayloadLen <- EqualLen
  MaxBytes = 100
  SegmentBytes = 48
  FsyncFrames = 2
  MaxFramePayload = 100
  MaxCrashes = 1
  MaxErrors = 1
  RetryCap = 1
  AppendCap = 1
  OpenThreshold = 2
  FailureWrap = 4
  MaxOutages = 1
INVARIANTS SpillTypeOK Accounted OnePlace ClosedMeansFew DurableUntilReplayed
PROPERTIES EventuallyDelivered
CHECK_DEADLOCK FALSE
