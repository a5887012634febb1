\* Two hosts, two contents of the model, up to three versions.
CONSTANTS
  h1 = h1
  h2 = h2
  c1 = c1
  c2 = c2
  Hosts <- TwoHosts
  Contents <- TwoContents
  Truncated = Truncated
  Unknown = Unknown
  MaxVersions = 3
  None = None
SPECIFICATION Spec
SYMMETRY Symmetry
INVARIANTS
  TypeOK
  PromotesNoLeftover
PROPERTIES
  AlwaysOneProduction
  BackedUp
  TraceIsExact
