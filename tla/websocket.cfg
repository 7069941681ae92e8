SPECIFICATION FairSpec
CONSTANTS
  MaxMessages = 3
  MaxUnread = 1
CHECK_DEADLOCK FALSE
INVARIANTS
  TypeOK
  RepliesMatch
PROPERTIES
  EndsForCause
  Answered
  Released
