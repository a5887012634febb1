\* Every draft with up to three amenities. A generation ends.
CONSTANTS
  Edges <- GraphEdges
  Blocks <- GraphBlocks
  Themes <- GraphThemes
  Audiences <- GraphAudiences
  Types <- GraphTypes
  Alias <- GraphAlias
  Homes <- GraphHomes
  TypeNames <- GraphTypeNames
  Names <- GraphNames
  MaxAmenities = 3
  None = None
SPECIFICATION Spec
CHECK_DEADLOCK FALSE
INVARIANTS
  BlockedNeverWins
  DecisionIsBest
  AmenitiesTold
