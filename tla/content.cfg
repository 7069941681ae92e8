SPECIFICATION RequestSpec
CONSTANTS
  Chars = {"a", "b", "&", "="}
  Keys = {"host", "content_type", "x_one", "x_two"}
  Values = {"1", "2"}
  MaxBody = 6
  MaxWord = 1
  MaxForm = 3
  MaxFields = 4
INVARIANTS FormReference FormRoundTrip
PROPERTY LatestCounts
CHECK_DEADLOCK FALSE
