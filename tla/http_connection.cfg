SPECIFICATION FairSpec
CONSTANTS
  Clients = {c1}
  Requests = {"keep", "last", "websocket", "other", "bad"}
  MaxRequests = 3
  MaxUnread = 1
  MaxDescriptors = 1
CHECK_DEADLOCK FALSE
INVARIANTS
  TypeOK
PROPERTIES
  ImplementsRequestReply
  Served
  Released
