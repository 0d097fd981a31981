SPECIFICATION FairSpec
CONSTANTS
  p1 = p1 p2 = p2 p3 = p3 p4 = p4
  r1 = r1 r2 = r2 r3 = r3 r4 = r4
  Batch = {p1, p2}
  Rows <- OneRow
  Rejected = {}
  ChannelCap = 3
  BatchMax = 2
  MaxInsertRetries = 2
  MayReject = FALSE
  SampleDepth = TRUE
  PromptDrain = FALSE
  MaxOutages = 1
  MaxLost = 0
PROPERTIES RefusedGetsThrough
CHECK_DEADLOCK FALSE
