CONSTANTS
  PageSize = 2
  BitmapBits = 16
  MaxReserved = 2
  None = None
  Capacity = 2
  MaxDepth = 1
  GenModulus = 2
  ArenaCapacity = 3
  ArenaGenModulus = 2
  Rights = {"SEND", "RECV", "TRANSFER", "CONSOLE_WRITE"}
  Objects <- MCObjects
  Message = {m}
  Bits = {}
  UsizeMax = 63
  IndexModulus = 4
  WordModulus = 16
  DebugBuild = FALSE
  ConsoleChunk = 3
  u1 = u1
  u2 = u2
  u3 = u3
  k = k
  UserTask = {u1, u2, u3}
  KernelTask = {k}
  Span <- MCSpan
  TaskAs <- MCTaskAs
  InitTables <- MCTables
  InitAsArena <- MCAsArena
  PageFlags <- LoadedPageFlags
  InitMemories <- MCMemories
  BootRoot = 0
  FreshRoot = 1
  Numbers = {1, 2, 3, 4, 5, 6}
  Words = {0, 1, 4, 5, 9, 11, 15}
  Ptrs = {2}
  Lens = {1}
  Revocable = {u1}
  MaxCopies = 0
SPECIFICATION Spec
PROPERTIES FailClosed TransferWordsExact
