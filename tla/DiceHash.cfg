SPECIFICATION ContainerSpec
CONSTANTS
  Policies <- MCPolicies
  Types <- MCTypes
  Depth <- MCDepth
  Items <- MCItems
  PolicyOf <- MCPolicyOf
  ValueOf <- MCValueOf
  HashOf <- MCHashOf
  Bits <- MCBits
INVARIANTS
  HashIsThatOfContents
  HashesAreParities
  HashIsDenotation
  ValuesToldApart
  FaultyMeansNoValue
PROPERTIES
  ImplementsUnorderedContainer
CHECK_DEADLOCK FALSE
