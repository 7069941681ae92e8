SPECIFICATION FairSpec
CONSTANTS
  Clients = {c1, c2}
  Requests = {"keep", "last"}
  MaxRequests = 2
  MaxUnread = 1
  Workers = 1
CHECK_DEADLOCK FALSE
INVARIANTS
  TypeOK
PROPERTIES
  ImplementsRequestReply
  Served
  Released
