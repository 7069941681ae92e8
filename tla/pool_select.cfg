SPECIFICATION Spec
CONSTANTS
  Sessions = {s1, s2, s3}
  NoSession = NoSession
  Starters = {p1}
  Callers = {c1}
  MaxSessions = 2
  MaxCloses = 1
PROPERTIES
  SelectEmptyMeansAllDead
