SPECIFICATION FairSpec
CONSTANTS
  Sessions = {s1, s2}
  NoSession = NoSession
  Starters = {p1}
  Callers = {c1, c2}
  MaxSessions = 1
  MaxCloses = 2
PROPERTIES
  QueryAnswered
  SlotFreed
  PoolRevives
