CONSTANTS
  n1 = n1
  n2 = n2
  n3 = n3
  s1 = s1
  s2 = s2
  Names <- MCNames
  Sorted <- MCSorted
  Sources <- MCSources
  Definitions <- MCDefinitions
  RouteLists <- MCRouteLists
  TargetId <- MCTargetId
SPECIFICATION RoutingSpec
INVARIANTS
  ResolvesAsDefined
  TargetsInOrder
