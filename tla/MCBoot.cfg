CONSTANTS
  None = None
  BankSize = 2
  ItLines = 1
  MaxIrq = 4
  NanosPerSecond = 3
  U64Max = 7
  KernelCtx = {k}
  UserCtx = {u}
  TimerIrq = 1
  Frequency = 2
  Deadlines = {2, 4}
  MaxTick = 3
  MaxGuards = 2
  DeviceLines = {2}
SPECIFICATION FairSpec
INVARIANTS BootSafe DeadlineKept IrqsContained FakeHalAgrees
PROPERTY DeadlineHandled
