SPECIFICATION FairSpec
CONSTANTS
  Queries = {q1, q2}
  MaxCloses = 2
INVARIANTS
  TypeOK
  AnswerTellsEffect
PROPERTIES
  TransactionKeepsConnection
  ImplementsLife
  QueryAnswered
  CloseEnds
