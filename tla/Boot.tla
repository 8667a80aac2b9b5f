-------------------------------- MODULE Boot --------------------------------
(***************************************************************************)
(* The whole board: the boot of bsp-qemu-virt (boot.s, kernel_entry,       *)
(* mmu_bootstrap, the migration to the high half, kernel_main_high and     *)
(* perf_bench::run), followed by the interrupt-level behaviour of module   *)
(* Interrupts.                                                             *)
(*                                                                         *)
(* An address is reduced to its half (low or high) and its window: ram     *)
(* (image, stack, vectors, statics) or dev (UART, GIC).  A StaticCell is   *)
(* initialised or not.                                                     *)
(***************************************************************************)
EXTENDS Interrupts

VARIABLES
  build,  \* "production", or "perf-bench"
  mach,   \* the core's system registers and the two boot translation tables
  cells,  \* the StaticCells written so far
  stage   \* the boot step to run next, an index into Script

vars == <<irq_vars, build, mach, cells, stage>>

Window == {"ram", "dev"}

Machine == [el : 1 .. 3, mmu : BOOLEAN,
            low : SUBSET Window, high : SUBSET Window,  \* what the two trees of tables map
            ttbr0 : BOOLEAN, walk0 : BOOLEAN,           \* the root is installed; ~EPD0
            ttbr1 : BOOLEAN, walk1 : BOOLEAN,           \* the root is installed; ~EPD1
            vbar : {"low", "high", None}, sp : {"low", "high", None}, pc : {"low", "high"}]

\* Whether an access to a window through a half translates.
Reaches(m, half, window) ==
  IF ~m.mmu THEN half = "low"
  ELSE IF half = "low" THEN m.walk0 /\ m.ttbr0 /\ window \in m.low
  ELSE m.walk1 /\ m.ttbr1 /\ window \in m.high

\* phys_to_kernel_va and high_half_alias: the same window in the high half.
high_half_alias(half) == "high"

-----------------------------------------------------------------------------
(* Steps of the script: what a step reads and writes of the StaticCells,   *)
(* whether it touches a device, and its effect on the core.                *)

Step(name, reads, writes) == [name |-> name, reads |-> reads, writes |-> writes]

\* _start.
ResetSteps ==
  << Step("mask_daif", {}, {}), Step("drop_el", {}, {}), Step("stack", {}, {}),
     Step("zero_bss", {}, {}) >>

\* kernel_entry, up to the page tables.
EntrySteps == << Step("low_console", {}, {}), Step("low_vectors", {}, {}) >>

\* mmu_bootstrap and high_half_activate: tables, registers, then the enable bit.
LowMmuSteps ==
  << Step("low_tables", {}, {}), Step("ttbr0", {}, {}), Step("mmu_on", {}, {}),
     Step("low_console", {}, {}) >>
HighMmuSteps == << Step("high_tables", {}, {}), Step("ttbr1", {}, {}), Step("walk1", {}, {}) >>

\* Mutant: the branch comes before the stack is rebased.
BranchFirst ==
  << Step("high_vectors", {}, {}), Step("branch_high", {}, {}), Step("null_ttbr0", {}, {}),
     Step("walk0_off", {}, {}), Step("high_stack", {}, {}) >>

\* The migration, and kernel_main_high's first act: TTBR0 is given up.
MigrationSteps ==
  << Step("high_vectors", {}, {}), Step("high_stack", {}, {}), Step("branch_high", {}, {}),
     Step("null_ttbr0", {}, {}), Step("walk0_off", {}, {}) >>

CpuSteps ==
  << Step("cpu", {}, {"CONSOLE", "CPU"}), Step("console", {"CONSOLE"}, {}),
     Step("boot_time", {"CPU"}, {"BOOT_NS"}) >>

PmmSteps == << Step("pmm", {}, {"PMM"}), Step("console", {"PMM", "CONSOLE"}, {}) >>

AddressSpaceSteps ==
  << Step("mmu", {}, {"MMU"}), Step("as_arena", {}, {"AS_ARENA"}),
     Step("bootstrap_as", {"AS_ARENA"}, {"BOOTSTRAP_AS"}),
     Step("as_table", {}, {"BOOTSTRAP_AS_TABLE"}),
     Step("as_cap", {"BOOTSTRAP_AS_TABLE"}, {"BOOTSTRAP_AS_CAP"}),
     Step("console", {"CONSOLE"}, {}) >>

\* load_image of the EL0 program.
LoadSteps ==
  << Step("load_image", {"BOOTSTRAP_AS_TABLE", "BOOTSTRAP_AS_CAP", "AS_ARENA", "PMM", "MMU"}, {}) >>

GicSteps ==
  << Step("gic_cell", {}, {"GIC"}), Step("gic_init", {"GIC"}, {}), Step("unmask", {}, {}),
     Step("console", {"CONSOLE", "CPU"}, {}) >>

TaskArenaSteps == << Step("task_arena", {}, {"TASK_ARENA"}) >>
TaskSteps == << Step("create_tasks", {"TASK_ARENA", "BOOTSTRAP_AS_TABLE"}, {}) >>

IpcSteps ==
  << Step("publish_ipc", {}, {"EP_ARENA", "IPC_QUEUES", "FAILCLOSED_TABLE", "TABLE_A", "TABLE_B",
                              "EP_CAP_A", "EP_CAP_B", "USER_TASK_TABLE"}) >>

SchedSteps == << Step("scheduler", {"CPU"}, {"SCHED"}), Step("console", {"CONSOLE"}, {}) >>

\* perf_bench::run: its own publication, without a fail-closed table.
BenchIpcSteps ==
  << Step("publish_ipc", {}, {"EP_ARENA", "IPC_QUEUES", "TABLE_A", "TABLE_B", "USER_TASK_TABLE"}) >>

\* The two builds part after the bootstrap address space; the measurement build
\* sets up no interrupt controller and never unmasks.
Script ==
  ResetSteps \o EntrySteps \o LowMmuSteps \o HighMmuSteps \o MigrationSteps
    \o CpuSteps \o PmmSteps \o AddressSpaceSteps
    \o IF build = "production"
       THEN LoadSteps \o GicSteps \o TaskArenaSteps \o TaskSteps \o IpcSteps \o SchedSteps
       ELSE TaskArenaSteps \o LoadSteps \o TaskSteps \o BenchIpcSteps \o SchedSteps

\* The effect of a step on the core.
Effect(name, m) ==
  CASE name = "drop_el"       -> [m EXCEPT !.el = 1]
    [] name = "stack"         -> [m EXCEPT !.sp = "low"]
    [] name = "low_vectors"   -> [m EXCEPT !.vbar = "low"]
    [] name = "low_tables"    -> [m EXCEPT !.low = Window]
    [] name = "ttbr0"         -> [m EXCEPT !.ttbr0 = TRUE, !.walk0 = TRUE, !.walk1 = FALSE]
    [] name = "mmu_on"        -> [m EXCEPT !.mmu = TRUE]
    [] name = "high_tables"   -> [m EXCEPT !.high = m.low]   \* the L2 tables are shared
    [] name = "ttbr1"         -> [m EXCEPT !.ttbr1 = TRUE]
    [] name = "walk1"         -> [m EXCEPT !.walk1 = TRUE]
    [] name = "high_vectors"  -> [m EXCEPT !.vbar = high_half_alias(@)]
    [] name = "high_stack"    -> [m EXCEPT !.sp = high_half_alias(@)]
    [] name = "branch_high"   -> [m EXCEPT !.pc = "high"]
    [] name = "null_ttbr0"    -> [m EXCEPT !.ttbr0 = FALSE]
    [] name = "walk0_off"     -> [m EXCEPT !.walk0 = FALSE]
    [] OTHER                  -> m

\* What tasks, syscall_entry and the activation hook read once the scheduler runs.
\* The fail-closed arm of syscall_entry is out of reach in the measurement
\* build: its EL0 task is registered with a table, a window and an address space.
TaskReads ==
  {"CONSOLE", "CPU", "SCHED", "EP_ARENA", "IPC_QUEUES", "TABLE_A", "TABLE_B", "USER_TASK_TABLE",
   "AS_ARENA", "MMU", "BOOTSTRAP_AS"}
    \union IF build = "production" THEN {"EP_CAP_A", "EP_CAP_B", "FAILCLOSED_TABLE", "BOOT_NS"} ELSE {}

-----------------------------------------------------------------------------
Init ==
  /\ build \in {"production", "perf-bench"}
  /\ mach \in {[el |-> e, mmu |-> FALSE, low |-> {}, high |-> {}, ttbr0 |-> FALSE, walk0 |-> FALSE,
                ttbr1 |-> FALSE, walk1 |-> FALSE, vbar |-> None, sp |-> None, pc |-> "low"] :
               e \in 1 .. 3}
  /\ cells = {}
  /\ stage = 1
  /\ daif \in {AllMasked, NoMask}
  /\ timer = ResetTimer
  /\ gic \in {ResetGic(s) : s \in SUBSET DeviceLines}
  /\ lines = {}
  /\ late = FALSE
  /\ running = Boot
  /\ pc = [c \in Context |-> IF c = Boot THEN "run" ELSE "fresh"]
  /\ guards = [c \in Context |-> <<>>]
  /\ trap = None
  /\ armed = None /\ asked = None /\ fired = 0
  /\ fake = FakeHal /\ tokens = <<>>

Halted == 0
Booted == stage > Len(Script)

\* One step of the script.  The EL drop halts on EL3.
BootStep ==
  /\ At(Boot, "run") /\ guards[Boot] = <<>>
  /\ stage # Halted /\ ~Booted
  /\ LET step == Script[stage]
     IN /\ mach' = IF step.name = "drop_el" /\ mach.el = 3 THEN mach ELSE Effect(step.name, mach)
        /\ stage' = IF step.name = "drop_el" /\ mach.el = 3 THEN Halted ELSE stage + 1
        /\ cells' = cells \union step.writes
        /\ daif' = IF step.name \in {"mask_daif", "drop_el"} THEN AllMasked
                   ELSE IF step.name = "unmask" THEN daif \ {"I"} ELSE daif
        /\ gic' = IF step.name = "gic_init" THEN init(gic) ELSE gic
  /\ late' = Requesting
  /\ UNCHANGED <<build, timer, lines, running, pc, guards, trap, armed, asked, fired, fake, tokens>>

\* Boot code uses guards and deadlines once interrupts are set up; start is the
\* last thing it does.  The measurement build's tasks only switch and wait.
HalReady == gic.forwarding /\ (running = Boot => "I" \notin daif \/ guards[Boot] # <<>>)

Hal(c) ==
  \/ GuardNew(c) \/ GuardDrop(c) \/ EnableIrqs(c)
  \/ \E d \in Deadlines : ArmCval(c, d)
  \/ ArmCtl(c) \/ ArmGic(c) \/ CancelCtl(c) \/ CancelGic(c)

Switching(c) ==
  \/ SwitchGuard(c) \/ SwitchReturn(c)
  \/ \E n \in Task : ContextSwitch(c, n)
  \/ Booted /\ \E n \in Task : Abandon(c, n)

\* A step outside the boot script.
After(A) ==
  /\ A
  /\ late' = Requesting
  /\ UNCHANGED <<build, mach, cells, stage>>

Next ==
  \/ BootStep
  \/ After(Tick)
  \/ After(\E l \in DeviceLines : DeviceToggles(l))
  \/ After(TakeIrq)
  \/ After(Handler)
  \/ After(HalReady /\ \E c \in Context : Hal(c))
  \/ After(\E c \in Context : Switching(c))
  \/ After(\E c \in Context : Wfi(c) \/ Wake(c))

Spec == Init /\ [][Next]_vars

\* The calls that have begun.
MidCall == \E c \in Context : ArmCtl(c) \/ ArmGic(c) \/ CancelGic(c)

\* The counter counts, begun calls and handlers go on, and the processor takes a
\* request it keeps finding with interrupts unmasked.  Nothing else is promised.
FairSpec ==
  /\ Spec
  /\ WF_vars(After(Tick))
  /\ WF_vars(After(Handler))
  /\ WF_vars(After(HalReady /\ MidCall))
  /\ SF_vars(After(TakeIrq))

-----------------------------------------------------------------------------
(* Properties.                                                             *)

\* What the next step of the boot script touches is there: the StaticCells it
\* reads have been written, the device window of a console or controller access
\* translates in the half the code uses, and QemuVirtCpu::new finds EL1.
NextStepReaches ==
  stage # Halted /\ ~Booted =>
    LET step == Script[stage]
    IN /\ step.reads \subseteq cells
       /\ step.name = "cpu" => mach.el = 1
       /\ step.name = "low_console" => Reaches(mach, "low", "dev")
       /\ step.name \in {"console", "gic_init"} => Reaches(mach, "high", "dev")

\* A panic in the middle of the boot finds vectors, stack and the UART, whose
\* half the panic handler derives from SP.
PanicReaches ==
  mach.vbar # None =>
    /\ Reaches(mach, mach.vbar, "ram")
    /\ Reaches(mach, mach.sp, "ram")
    /\ Reaches(mach, mach.sp, "dev")

\* No instant of the boot (kernel_entry, mmu_bootstrap, kernel_main_high) is
\* without its code, stack, vectors and UART, whichever half each is in while
\* the core migrates; no StaticCell is read before it is written, by the script,
\* by an interrupt taken on the way or by the first task.
BootSafe ==
  /\ Reaches(mach, mach.pc, "ram")
  /\ NextStepReaches
  /\ PanicReaches
  /\ stage > 1 /\ "I" \notin daif => "GIC" \in cells /\ mach.vbar = "high"
  /\ running \in Task => TaskReads \subseteq cells

\* arm_deadline, cancel_deadline and irq_entry keep the timer's registers on the
\* deadline asked for, whatever interrupts come between their writes: the line
\* is up exactly from the first tick at which now_ns has reached the deadline,
\* and only then does the handler run.
DeadlineKept ==
  /\ TimerLine <=> armed # None /\ now_ns >= armed
  /\ trap # None /\ trap.at = "mask timer" => armed # None /\ now_ns >= armed

\* Interrupts stay masked while a guard of the running context is alive, across
\* nesting and context switches that do not save DAIF; so no interrupt arrives
\* in EL0, where the vector is a panic, and none but the timer's is handled.
IrqsContained ==
  /\ guards[running] # <<>> => "I" \in daif
  /\ trap # None => "I" \in daif /\ trap.at \notin {"unhandled", "panic"}

\* A kernel test on FakeCpu, FakeTimer and FakeIrqController sees what boot code
\* sees on the board between interrupts: the same mask through nested guards,
\* the same deadline as long as it has not fired, the same line enabled, and no
\* interrupt the controller would not deliver.
FakeHalAgrees ==
  running = Boot /\ gic.forwarding =>
    /\ HalReady => (fake.irqs_enabled <=> "I" \notin daif)
    /\ armed # None => fake.armed_deadline = armed
    /\ fake.enabled = gic.enabled
    /\ trap # None /\ trap.at = "acknowledge" =>
         fake_acknowledge(fake) \in {None, acknowledge(gic, Asserted)}

\* A deadline is not lost: as long as interrupts keep being unmasked, an armed
\* deadline is eventually handled, cancelled or replaced, even when the
\* interrupt was masked, spurious or came while the timer was being armed.
DeadlineHandled ==
  []<>("I" \notin daif) => \A d \in Deadlines : armed = d ~> armed # d

\* "Arm a one-shot deadline" (hal/src/timer.rs), kept by irq_entry "so the same
\* deadline does not re-fire before the next arm_deadline re-arm": one call of
\* arm_deadline is followed by at most one timer interrupt.
OneShot == fired <= 1
=============================================================================
