\* One analysis, the three posts of production: jobs share nothing.
CONSTANTS
  Jobs = {j1}
  j1 = j1
  MaxRetries = 3
SPECIFICATION FairSpec
INVARIANTS
  TypeOK
  ApprovalIsEarned
  AnswerIsLastDelivered
  OnlyFallbackContradictsRow
  PostsBounded
PROPERTIES
  EveryAnalysisEnds
