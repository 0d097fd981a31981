SPECIFICATION FairSpec
CONSTANTS
  p1 = p1 p2 = p2 p3 = p3 p4 = p4
  r1 = r1 r2 = r2 r3 = r3 r4 = r4
  Batch = {p1, p2, p3, p4}
  Rows <- MixedRows
  Rejected = {p4}
  ChannelCap = 2
  BatchMax = 2
  MaxInsertRetries = 2
  MayReject = TRUE
  SampleDepth = FALSE
  PromptDrain = FALSE
  MaxOutages = 1
  MaxLost = 1
INVARIANTS TypeOK ChannelBounded AllOrNothing 
PROPERTIES AckedSettles
CHECK_DEADLOCK FALSE
