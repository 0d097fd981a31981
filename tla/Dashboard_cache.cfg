SPECIFICATION Spec
CONSTANTS
  h1 = h1
  h2 = h2
  None = None
  Handler = {h1, h2}
  Params <- Asked
  Short <- Shorten
  TooLong <- LongNames
  Token = {"web", "n1", "long", "Web", " "}
  MaxLimit = 500
  Ttl = 2
  MaxEntries = 2
  Window = 2
  MaxPerWindow = 1
  MaxTime = 6
SYMMETRY Handlers
INVARIANTS TypeOK FilteredBounded AnswersTheQuestion RateBounded
PROPERTIES PinnedStays
CHECK_DEADLOCK FALSE
