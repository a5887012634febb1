\* Two turns, two places in line, five callers: hand-over, refusal and
\* abandoned grants all meet.
CONSTANTS
  r1 = r1  r2 = r2  r3 = r3  r4 = r4  r5 = r5
  Requests <- FiveRequests
  MaxConcurrent = 2
  MaxQueueSize = 2
SPECIFICATION FairSpec
INVARIANTS
  TypeOK
  TurnsAccounted
  NoIdleTurn
  LineSound
  ChannelsTruthful
PROPERTIES
  PositionsOnlyShrink
  WaitersAreServed
  ImplementsTurnstile
