SPECIFICATION FairSpec
CONSTANTS
  Sessions = {s1, s2}
  Clients = {c1, c2}
  Threads = 3
  MaxCloses = 1
INVARIANTS OneCallPerConnection PostedOnce TurnsGoOn
PROPERTIES PlainAnswered Accepted HelloAnswered
