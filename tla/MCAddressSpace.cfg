CONSTANTS
  PageSize = 2
  BitmapBits = 16
  MaxReserved = 1
  None = None
  Capacity = 3
  MaxDepth = 1
  GenModulus = 1
  ArenaCapacity = 3
  ArenaGenModulus = 1
  NumFrames = 8
  Rights = {"DERIVE"}
  Objects <- MCObjects
  Vas <- MCVas
  FlagChoices <- MCFlags
  RightsChoices <- MCRightsChoices
SPECIFICATION Spec
INVARIANTS FramesAccounted TranslationExact NoStaleTlb MapFailsForCause DoublesAgree
