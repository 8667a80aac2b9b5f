CONSTANTS
  Capacity = 3
  MaxDepth = 0
  GenModulus = 1
  ArenaCapacity = 4
  ArenaGenModulus = 1
  TaskCapacity = 5
  Rights <- MCRights
  Objects <- MCObjects
  WaitObject <- SlotId
  None = None
  Message = {m}
  Bits = {}
  AddressSpace = {"boot", "user"}
  IdleTask = 4
  IdleOptional = TRUE
  UserTask = {3}
  TaskAs <- UserAs
  BootstrapAs = "boot"
  InitTables <- ServiceTables
SPECIFICATION FairSpec
INVARIANTS ReadyQueueExact NeverPanics OwnAddressSpace WaiterMatches ResumeFindsMessage
PROPERTIES DeadlockLeavesNoTrace ReadyRuns DeliveredCollected
