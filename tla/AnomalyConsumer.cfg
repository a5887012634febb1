\* A clean, a suspicious and a malformed message; any two faults.
CONSTANTS
  m1 = m1  m2 = m2  m3 = m3
  Messages <- AllMessages
  Malformed <- BadMessages
  Text <- TextOfAll
  MaxRetries = 1
  MaxFaults = 2
SPECIFICATION FairSpec
INVARIANTS
  TypeOK
  MessagesConserved
  AckedIsNotified
  RedeliveryNeedsFault
PROPERTIES
  EveryMessageSettles
  StopEndsThread
