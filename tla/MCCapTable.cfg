CONSTANTS
  Capacity = 4
  MaxDepth = 2
  GenModulus = 2
  Rights <- MCRights
  Objects = {obj}
  None = None
  RightsChoices <- MCRightsChoices
  MaxGeneration = 0
SPECIFICATION Spec
INVARIANTS FreeListExact ForestExact StaleHandlesDead RevokeWalkAgrees
PROPERTY RevokeExact
