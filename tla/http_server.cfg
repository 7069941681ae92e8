SPECIFICATION FairSpec
CONSTANTS
  Clients = {c1, c2}
  Requests = {"keep", "last", "websocket", "other", "bad"}
  MaxRequests = 1
  MaxUnread = 1
  MaxDescriptors = 2
CHECK_DEADLOCK FALSE
PROPERTIES
  Served
  Accepted
