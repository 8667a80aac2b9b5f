CONSTANTS
  PageSize = 2
  BitmapBits = 16
  MaxReserved = 2
  None = None
  Capacity = 3
  MaxDepth = 1
  GenModulus = 2
  ArenaCapacity = 3
  ArenaGenModulus = 2
  Rights = {"SEND", "RECV", "TRANSFER", "CONSOLE_WRITE"}
  Objects <- MCObjects
  Message = {m}
  Bits = {}
  UsizeMax = 63
  IndexModulus = 4
  WordModulus = 16
  DebugBuild = TRUE
  ConsoleChunk = 3
  u1 = u1
  u2 = u2
  u3 = u3
  k = k
  UserTask = {u1, u2, u3}
  KernelTask = {k}
  Span <- MCSpan
  TaskAs <- MCTaskAs
  InitTables <- MCTables
  InitAsArena <- MCAsArena
  PageFlags <- AnyPageFlags
  InitMemories <- MCMemories
  BootRoot = 0
  FreshRoot = 1
  Numbers = {3, 5}
  Words = {0, 9}
  Ptrs = {0, 1, 2, 3, 4, 5, 34, 63}
  Lens = {0, 1, 2, 3, 4, 6, 61}
  Revocable = {u1}
  MaxCopies = 1
SPECIFICATION Spec
PROPERTIES ConsoleExact CopyToUserExact
