CONSTANTS
  PageSize = 2
  BitmapBits = 32
  MaxReserved = 2
  None = None
  Capacity = 4
  MaxDepth = 1
  GenModulus = 8
  ArenaCapacity = 3
  ArenaGenModulus = 4
  NumFrames = 20
  Rights = {"DERIVE"}
  Objects <- MCObjects
  UsizeMax = 255
  ExtentFrames = {10, 11, 12, 14, 17, 20}
  Requests <- MCRequests
  MmuFaults = {TRUE, FALSE}
SPECIFICATION Spec
INVARIANTS PreflightExact LoadedExact FramesAccounted RollbackExact
CHECK_DEADLOCK FALSE
