CONSTANTS
  Capacity = 2
  MaxDepth = 0
  GenModulus = 1
  ArenaCapacity = 1
  ArenaGenModulus = 1
  TaskCapacity = 4
  Rights <- MCRights
  Objects <- MCObjects
  WaitObject <- SlotId
  None = None
  Message = {"AAAA", "BBBB", "BE0C"}
  Bits = {}
  AddressSpace = {"boot", "user"}
  IdleTask = 2
  IdleOptional = FALSE
  UserTask = {3}
  TaskAs <- UserAs
  BootstrapAs = "boot"
  InitTables <- DemoTables
  Counts = {1, 2}
  Warmups = {0, 2}
  Delays = {1, 3}
SPECIFICATION ProgSpec
INVARIANT RunAsDocumented
PROPERTY ProgramsComplete
