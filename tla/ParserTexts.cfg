\* Every document, in every fragmentation, whole or cut short. The parser
\* stops when the result is asked for.
CONSTANTS
  Documents <- AllDocuments
  Preambles <- AroundIt
  Trailers <- BehindIt
  MaxFragment = 3
SPECIFICATION Spec
CHECK_DEADLOCK FALSE
INVARIANTS
  TypeOK
  ShownIsTrue
  AllIsShown
  ResultIsFaithful
  TitleAgrees
