\* Production: one turn, shared by two content calls and a simulated one; a
\* line of one, so that the third can find it full on either check.
CONSTANTS
  c1 = c1  c2 = c2  s1 = s1  None = None
  Requests <- Mixed
  ContentRequests <- TwoContents
  MaxConcurrent = 1
  MaxQueueSize = 1
SPECIFICATION FairSpec
INVARIANTS
  TypeOK
  TurnMatchesStage
  UsageIsOwn
  DoneIsPersisted
PROPERTIES
  OutcomeClosesStream
  EveryCallEnds
  UsesQueue
