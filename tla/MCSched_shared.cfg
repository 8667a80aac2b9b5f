CONSTANTS
  Capacity = 1
  MaxDepth = 0
  GenModulus = 1
  ArenaCapacity = 1
  ArenaGenModulus = 1
  TaskCapacity = 4
  Rights <- MCRights
  Objects <- MCObjects
  WaitObject <- SlotId
  None = None
  Message = {m}
  Bits = {}
  AddressSpace = {"boot", "user"}
  IdleTask = 3
  IdleOptional = FALSE
  UserTask = {}
  TaskAs <- SharedAs
  BootstrapAs = "boot"
  InitTables <- SharedReceiverTables
SPECIFICATION Spec
INVARIANT ResumeFindsMessage
