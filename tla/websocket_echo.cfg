SPECIFICATION Spec
CONSTANTS
  MaxMessages = 3
  MaxUnread = 1
CHECK_DEADLOCK FALSE
INVARIANTS
  EchoesBackAll
