# A TLA+ model of the Tyrne kernel

Tyrne is a capability microkernel in Rust: single core, cooperative, no heap.
This directory models its core in TLA+, model-checks it with TLC on small
instances and proves the central results with TLAPS for every size.

## 1. The system

| Part | State | Operations | Talks to |
|---|---|---|---|
| Capability table (`kernel/src/cap`) | 64 generation-tagged slots, a free list and a derivation forest threaded through them | `insert_root`, `cap_copy`, `cap_derive`, `cap_revoke`, `cap_drop`, `cap_take`, lookups | used by IPC, syscalls, address spaces |
| Object arenas (`kernel/src/obj`) | per kind: slots with generation, free list | allocate, free, get | IPC, scheduler, address spaces |
| IPC (`kernel/src/ipc`) | per endpoint slot: `Idle`, `RecvWaiting`, `SendPending`, `RecvComplete`, and the generation it belongs to; notification words | `ipc_send`, `ipc_recv`, `ipc_cancel_recv`, `ipc_notify` | moves capabilities between tables; called by the scheduler bridge and the syscalls |
| Scheduler (`kernel/src/sched`) | ready queue, per-task state and address space, current, idle | `add_task`, `add_user_task`, `register_idle`, `start`, `yield_now`, `ipc_send_and_yield`, `ipc_recv_and_yield`, `task_exit_current` | calls IPC, activates address spaces through a BSP callback |
| Physical memory manager (`kernel/src/mm/pmm.rs`) | bitmap, reserved ranges, scan hint, three counters | `new`, `alloc_frame`, `free_frame`, `could_yield_pa_overlapping` | frame provider of the MMU, used by the task loader |
| Page tables (`bsp-qemu-virt/src/mmu.rs`, `hal/src/mmu`) | four levels of descriptors in memory, the TLB | `map`, `unmap`, `translate`, `activate`, flushes | PMM |
| Address spaces (`kernel/src/mm/address_space.rs`) | arena of address spaces, root frames | `cap_create_address_space`, `cap_map`, `cap_unmap`, activate | PMM, capability table, page tables |
| Task loader (`kernel/src/obj/task_loader.rs`) | none of its own | `load_image` with rollback, `task_create_from_image` | PMM, address spaces, capability table |
| Syscalls (`kernel/src/syscall`, `bsp-qemu-virt/src/syscall.rs`) | none of their own | `send`, `recv`, `console_write`, `task_yield`, `task_exit` | IPC, scheduler, user memory |
| Interrupts and timer (`hal/src/cpu.rs`, `timer.rs`, `irq_controller.rs`; `bsp-qemu-virt/src/cpu.rs`, `gic.rs`, `exceptions.rs`) | the mask (DAIF), the virtual timer's registers, the controller's lines | `IrqGuard`, `arm_deadline`, `cancel_deadline`, `irq_entry`, GIC `init`, WFI | any kernel code; the guards around context switches |
| Boot (`bsp-qemu-virt/src/boot.s`, `main.rs`, `mmu_bootstrap.rs`) | system registers, the boot page tables, the `StaticCell`s | reset to EL1, MMU on, migration to the high half, initialisation, `start` | everything |
| Workloads (`main.rs`, `perf_bench.rs`, `userland`) | the demo's tasks, the bench's phase and counters | `task_a`, `task_b`, `hello`; `bench_driver`, `bench_partner`, `el0_roundtrip_tick` | scheduler bridge, syscalls |
| Test HAL (`test-hal`) | host fakes of CPU, timer, interrupt controller and MMU | those of the traits | the kernel's unit tests |

What is hard here: the derivation forest and the free lists are index-linked
structures whose correctness depends on long call sequences; slots are reused,
so every handle may be stale; a send has several points of failure between its
checks and its commit; a receive is cut in two by a context switch and other
tasks run in between; blocked state is kept twice, in the scheduler and in the
endpoint; panics and assertions rest on invariants that no single function
establishes. Loading an image takes many steps that may each fail, over frames
that cannot all be given back; recycled frames become page tables and cached
translations outlive the tables they came from; a syscall handles words,
pointers and lengths that a task chose. Interrupts come between the register
writes of a call and the handler changes the same registers; the mask is not
part of a saved context. During boot code, stack, vectors and devices move to
the high half one after the other, and globals are uninitialised memory until
their step. The unit tests run on fakes that may drift from the board.

What makes each part correct: the table's links describe one forest and one
free list, and revocation follows it exactly; handles die with their object;
messages and capabilities in flight are neither lost nor inherited; blocked
tasks and registered receivers agree, and ready tasks run; set bits are owned
frames; page tables mean what the map calls in force asked for; a failed load
leaves only tables behind; a syscall reaches only the memory, the console and
the capabilities of its caller, and a failed one has no effect; interrupts stay
masked where they must, and a deadline is met at its time; boot uses nothing
before it is there; the workloads run to their end; a fake answers as the board.

## 2. Modules

| Module | Models | Kind |
|---|---|---|
| `Option` | `Option::None` | constant |
| `CapTable` | the table's data structure and operations, as operators on a table record | operators |
| `CapTableSpec` | one table under any sequence of calls | state machine |
| `CapTableProofs` | theorems about `CapTableSpec` | TLAPS |
| `Arena` | `Arena<T, N>` | operators |
| `Ipc` | the IPC operations on arena, queues and a caller's table | operators |
| `IpcSpec` | IPC under any sequence of calls by several callers, endpoints destroyed and slots reused | state machine |
| `Mailbox` | what IPC promises | abstract specification |
| `KernelLemmas` | what each table and IPC operation does to well-formed tables and queues | TLAPS |
| `IpcProofs` | theorems about `IpcSpec`, the refinement of `Mailbox` among them | TLAPS |
| `Scheduler` | the scheduler's fields and helpers | operators |
| `SchedIpc` | kernel tasks, EL0 tasks and idle on top of the scheduler bridge | composition of `Ipc` and `Scheduler` |
| `SchedIpcProofs` | theorems about `SchedIpc` | TLAPS |
| `Pmm` | the frame allocator | operators |
| `PmmSpec` | one allocator from `new` on, under any sequence of calls | state machine |
| `PmmProofs` | theorems about `PmmSpec` | TLAPS |
| `Mmu` | descriptors, the walk, `map`, `unmap`, `translate`; over `Pmm` | operators |
| `AddressSpace` | the capability-gated wrappers; over `CapTable`, `Arena`, `Mmu` | operators |
| `AddressSpaceSpec` | address spaces in use, with the TLB of the core | composition |
| `AddressSpaceProofs` | theorems about `AddressSpaceSpec` | TLAPS |
| `Usize` | `usize` arithmetic that saturates or checks | operators |
| `Loader` | the arithmetic and the preflight of `load_image`; over `AddressSpace` | operators |
| `LoaderSpec` | loads page by page, rollback, task creation | composition |
| `UserAccess` | window, page probe, copies; over `Mmu` | operators |
| `Syscall` | the register ABI and the handlers; over `Ipc`, `UserAccess` | operators |
| `SyscallSpec` | syscalls of several tasks through `syscall_entry` | composition |
| `SyscallProofs` | theorems about `SyscallSpec` | TLAPS |
| `FakeMmu` | the MMU doubles of the host tests; over `Mmu` | operators |
| `Timer` | tick and nanosecond arithmetic | operators |
| `Gic` | the interrupt controller and its driver | operators |
| `TestHal` | `FakeCpu`, `FakeTimer`, `FakeIrqController` | operators |
| `Interrupts` | masks, deadlines, `irq_entry` and context switches; over `Gic`, `Timer`, `TestHal` | actions |
| `Boot` | the boot of both builds, then the actions of `Interrupts` | composition |
| `BootProofs` | theorems about `Timer` and `Boot` | TLAPS |
| `Programs` | the tasks both builds start, on top of `SchedIpc` | composition |
| `MCCapTable`, `MCIpc`, `MCSched`, `MCPmm`, `MCAddressSpace`, `MCLoader`, `MCSyscall`, `MCBoot`, `MCPrograms` | instances for TLC | |

Operations of the Rust types are operators from values to values because
several machines use them: `Ipc` runs `CapTable`'s `cap_take` and `insert_root`,
`SchedIpc` runs `Ipc`'s `ipc_send` and `ipc_recv`, as the kernel does. An
operation with an error type has a `..._result` operator that makes its checks
in the order of the code, and an operator for what it does when they pass. A
call that fails its checks changes nothing.

Every call of the kernel is one atomic step, because v1 is single core and
cooperative and masks interrupts around a switch and from syscall entry to
return; `Interrupts` checks that masking. There are three exceptions. `ipc_recv_and_yield` registers, blocks and
switches in `RecvAndYield`, and collects in `Resume` when its task is dispatched
again; `frame[t]` holds what its stack frame holds in between. `load_image` is
cut into its pages, not because anything runs in between but so that every
intermediate state is one TLC looks at; `load` holds its locals. In `Interrupts`
every register write is a step, because there interrupts do come in between.

State and code:

* `CapTable`: `table.entry[i]`, `generation`, `next_free`, `free_head` are
  `slots[i].entry`, `.generation`, `.next_free` and `free_head`. Walks along
  sibling and child links are the least sets closed under the links
  (`ChildList`, `Descendants`), which makes them usable in proofs. The literal
  scratch-queue loop of `cap_revoke` is in `MCCapTable` and is checked to agree.
* `Ipc`: `queues.states` and `slot_generations` are the fields of `IpcQueues`;
  every access goes through `reset_if_stale_generation` as in the code. Message
  bodies are opaque.
* `Scheduler`: `ready` is the queue as a sequence (the ring indices of
  `SchedQueue` are not modelled yet); a task is named by its slot index, since
  v1 frees no task slot. A kernel panic is the flag `panicked`, after which
  nothing happens.
* `SchedIpc`: `active_as` is what the activation callback last installed;
  `exited` is a history of `task_exit`, which the code does not record.
* `Pmm`: the bitmap is the set of frames whose bit is 1. Addresses are numbers
  and a page is `PageSize` of them, so unaligned, empty and inverted ranges are
  all there. `owned` and `written` in `PmmSpec` are histories.
* `Mmu`: memory is counted in descriptor-sized words, so a page of `PageSize`
  words is a table of `PageSize` entries and an address is four indices and an
  offset in base `PageSize`, as 48 bits are four times nine and twelve. A word
  is zero, a table, page or block descriptor, or data; data in a table would be
  walked as a valid entry. Descriptors keep their fields, not their bit
  positions. `translate` ignores what lies above the four indices, as the code
  does, so an address past the limit aliases one below it.
* `AddressSpaceSpec`: `active` is TTBR0, `tlb` what the core has cached; every
  address space has ASID 0. What `cap_map` was asked for and `cap_unmap` has not
  undone is in the flat maps of the doubles, `host`.
* `LoaderSpec`: if `faulty`, chosen once in `Init`, the `Mmu` is any
  implementation that keeps the failure contract of `Mmu::map` (no mapping, `pa`
  not consumed, tables perhaps kept); otherwise it is `QemuVirtMmu`, which
  cannot fail after the preflight. That is what `PreflightExact` shows, and with
  `QemuVirtMmu` alone the rollback would be dead code.
* `SyscallSpec`: `entry_context` is the all-or-nothing match of `syscall_entry`;
  `tables[None]` is `FAILCLOSED_TABLE`. A call leaves its arguments, return
  registers and console output in `last` until it returns to EL0. Which task
  runs after a yield or an exit is left open: that is `SchedIpc`'s subject.
  `DestroyAddressSpace` is `destroy_address_space`, which v1 reserves for
  revocation; it makes stale address-space handles happen. No v1 syscall calls
  `copy_to_user`; the model calls it with the context of the current task.
* `AddressSpaceSpec` makes every call on the doubles too: `host[r]` is the
  `FakeAddressSpace` that a test would hold for the address space with root `r`.
  The double is `BlockMappedMmu` for the bootstrap tree, which has a block, and
  `OutOfFramesMmu` for the others, with an empty provider where the board runs
  out of frames.
* `Interrupts`: `daif` is the set of masking bits, `timer` the virtual timer's
  registers, `gic` the controller. `pc[c]` is where context `c` stands: between
  calls, between two writes of `arm_deadline` or `cancel_deadline`, in WFI, or
  inside a context switch with its guard on the stack (`guards[c]`). `trap` is
  the interrupt being handled, one step per register access of `irq_entry`. The
  processor sees a request one step late (`late`), which is where spurious
  acknowledges come from. `armed`, `asked` and `fired` are histories. `fake` is
  the host fakes, driven by the same calls as long as boot code runs, which is
  when a test's single thread of control is comparable.
* `Boot`: an address is its half and its window (RAM or devices). `Script` is
  the list of steps of a build, each with the `StaticCell`s it reads and writes;
  `Effect` is what it does to the system registers and tables. The core starts
  in EL1, EL2 or EL3 (where `boot.s` halts) with any mask.
* `Programs`: the program counter of each task; `build` is the choice of cargo
  features and the bench's constants. `.expect` on an error is the place
  `"panicked"`, where the task spins. `stamps` and `tally` are histories of what
  the timed loops covered.

## 3. What TLC checks

| Run | Instance | Shows |
|---|---|---|
| `captable` | 4 slots, depth 2, two rights sets, all calls; every slot freed and reused once | `FreeListExact`, `ForestExact`, `StaleHandlesDead`, `RevokeWalkAgrees`, `RevokeExact` |
| `ipc` | 2 symmetric callers with 2 table slots each, one endpoint slot used twice, one notification bit | `InFlightReachable`, `NothingInherited`, `ReceiverKept`, `Mailboxes` (refinement) |
| `sched` | three kernel tasks in a ring, each the one receiver of its endpoint, two of them sending to the third, one capability to pass on; an EL0 task in an address space of its own that polls a fourth endpoint and may exit; idle registered or not | `ReadyQueueExact`, `NeverPanics`, `OwnAddressSpace`, `WaiterMatches`, `ResumeFindsMessage`, `DeadlockLeavesNoTrace`, `ReadyRuns`, `DeliveredCollected` |
| `sched_shared_receivers` | two receivers on one endpoint | violates `ResumeFindsMessage` (finding) |
| `pmm` | bitmap of 4 frames, extents that fit, are too large, unaligned and inverted, every list of up to three reserved ranges | `BitmapExact`, `AnswersExact`, `HandedOutFresh` |
| `addrspace` | 8 frames, 3 of them the bootstrap tables; 2-word pages; 3 table and arena slots; aligned and misaligned addresses; every call on the doubles too | `FramesAccounted`, `TranslationExact`, `NoStaleTlb`, `MapFailsForCause`, `DoublesAgree` |
| `loader` | extents of 10 to 20 frames, the sixteen requests of `MCLoader` in any order, 4 table slots; `QemuVirtMmu`, and a map that may fail at any page | `PreflightExact`, `LoadedExact`, `FramesAccounted`, `RollbackExact` |
| `syscall_console` | three user tasks (one without a table) and a kernel task; sixteen layouts of three pages, read-only, writable, kernel-only or unmapped; eight pointers, seven lengths; one `copy_to_user`; an address space destroyed and its slot reused | `ConsoleExact`, `CopyToUserExact` |
| `syscall_ipc` | a release build, syscall numbers 1 to 6, seven handle words, table capacity 2, an address space destroyed and its slot reused | `FailClosed`, `TransferWordsExact` |
| `boot` | both builds from every exception level; then one kernel and one EL0 task, two deadlines, three ticks, two nested guards, a device line that comes and goes | `BootSafe`, `DeadlineKept`, `IrqsContained`, `FakeHalAgrees`, `DeadlineHandled` |
| `irq_rearm` | the same instance | violates `OneShot` (finding) |
| `kernel_main` | the demo, debug and release; the bench with one or two timed iterations per loop, warm-ups of 0 and 2, two time steps | `RunAsDocumented`, `ProgramsComplete` |

Why the bounds are enough. Four table slots hold a source, two siblings and a
grandchild: every splice (head, middle, last, root) and every shape of a
revoked subtree up to depth two; one slot more only lengthens lists. Two
callers are a sender and a receiver; a second endpoint slot would add nothing,
because queue slots do not interact, while the second generation of the one
slot brings the reuse cases. Table capacity 2 makes `ReceiverTableFull` and
`HasChildren` happen. One reuse of each table slot is a stale handle to each;
any number of them is covered by the proofs. Five tasks are a full ready queue
of the arena's capacity. In the ring of `sched` everybody can wait for everybody; a
full table of one receiver makes its Phase 3 fail. Four frames give lists with
gaps before, between and after reserved ranges. Eight frames are two new
address spaces with a page, or one with pages in two tables, and running out of
frames at every level of a walk; freed page frames come back as tables. The
loader's requests cross L3, L2 and L1 boundaries, end at and one page past the
user limit, and overflow `usize` (`UsizeMax = 255` with a user range of 32
words); the extents put the free frames at, below and above each request's
budget. In the syscall runs `UsizeMax = 63` is twice the user range, so that
addresses alias, and lengths up to 61 wrap; a chunk of 3 words is not a
multiple of the page of 2, so chunks end inside pages and on their boundaries;
handle words of 4 bits hold a 2-bit index, a 1-bit generation and one bit more
to be truncated. In `boot` the counter runs at two ticks in three nanoseconds,
so both conversions round; `U64Max = 7` lets neither saturate at these
deadlines, a case left to the proofs. Two deadlines are what replacing one by
the other needs, two guards are nesting; the device line is one that firmware
may have left enabled. In `kernel_main` two iterations are enough for a loop to
depend on what the one before left behind, and a warm-up of 0 makes the priming
yield of the bench matter.

Bounds named in the models: `MaxGeneration` (frees of a table slot) and the
guards on `ArenaGenModulus` of `destroy_endpoint` and `DestroyAddressSpace`;
they keep a generation from wrapping, which in the code takes 2^32 frees of one
slot. `Revocable` and `MaxCopies` limit which address spaces are destroyed and
how often `copy_to_user` is called. `MaxTick` stops the counter, after every
deadline has been reached; `MaxGuards` bounds the nesting of guards.

That the handlers never panic ("The panic-free syscall dispatcher", `dispatch.rs`)
has no property of its own: TLC evaluates every operator on every input word
and would stop at an index out of range or a partial function.

Fairness. `SchedIpc!Fairness` (run `sched`): boot proceeds, a dispatched receiver
runs on, and a running task eventually yields. The first two are the processor
executing straight-line code. The third is the contract of a cooperative
kernel: nothing preempts a task, and the idle loop is a loop around a yield. It
is an assumption about tasks, not a fact about the demo's: `task_a` ends in a
spin loop, after which nothing else runs. No fairness is assumed of sending,
receiving or exiting. The EL0 task of that run polls an endpoint no kernel task
blocks on: `sys_send` does not wake a blocked kernel task, which
`docs/architecture/ipc.md` records as deferred.

`Boot!FairSpec` (run `boot`): the counter counts, a handler and a begun
`arm_deadline` or `cancel_deadline` go on (weak), and the processor takes a
request that it finds with interrupts unmasked again and again (strong: kernel
code masks and unmasks in between). `DeadlineHandled` holds under the premise
that interrupts keep being unmasked, because no code is obliged to unmask them.

`Programs!ProgSpec` (run `kernel_main`): the processor goes on executing, and
nothing more. The programs are closed, so their progress follows from their own
steps; `ProgramsComplete` includes the spin loops they end in.

Deadlock checking is on in every run but `loader`: once the frames or the slots
are used up no request is accepted any more, and the system may rest.

### Findings

1. `sched_shared_receivers`. `ipc_recv_and_yield` and `PendingAfterResume` are
   documented as if a second `Pending` could only come from a scheduler bug.
   With two tasks that hold RECV on one endpoint (the boot demo's tables are
   like that) it needs none: the first blocks, a sender delivers and puts it at
   the tail of the ready queue, the second receiver, ahead of it, takes the
   message, and the first resumes to an idle endpoint. It leaves `RecvWaiting`
   registered on the way out.
2. `irq_rearm`. `arm_deadline` on a running timer writes the comparator and then
   the control register without masking. If the new deadline is already met, the
   interrupt can come in between: the handler switches the timer off "so the
   same deadline does not re-fire before the next `arm_deadline` re-arm"
   (`exceptions.rs:232`), and the interrupted call's second write switches it on
   again with the same comparator. One deadline fires twice, although the trait
   promises a one-shot deadline (`hal/src/timer.rs:38`). Nothing in v1 arms a
   deadline yet; a caller that holds an `IrqGuard` across the call is safe.

Comments met on the way that are not quite what the code does, without a run of
their own:

* `sched/mod.rs:861` says that the panic of `start_prelude` is reachable only
  from `start` with nothing registered. `task_exit_current` reaches it when the
  last runnable task exits and there is no idle task; `NeverPanics` is therefore
  stated for systems with an idle task.
* `sched/mod.rs:897` reasons that idle is reached through a switch whose guard
  drops and restores the mask. That holds from idle's second dispatch on; the
  first starts at its entry point, masked.
* `bsp-qemu-virt/src/syscall.rs:161` lists `FAILCLOSED_TABLE` as published before
  any syscall. The perf-bench build never writes it; its one EL0 task has a
  complete context, so the arm that reads it is not reached (`TaskReads`).
* GIC `init` leaves the enable bits of bank 0 (private lines) as it finds them;
  the model starts with them clear, as after reset.

## 4. What is proved

`CapTableProofs`, for every capacity, depth bound, generation width, set of
rights and set of objects (assumptions `CapTableAssumption`, `NoneAssumption`,
`CapTableSpecAssumption`):

* `TableInvariant`: `Spec => []IInv` with `IInv == TypeOK /\ WellFormed(table)`.
  `WellFormed` is the conjunction of the free-list part, the link part and the
  narrowing part. No part is inductive alone: `pop_free` needs the free list to
  hold no occupied slot so that `install` overwrites nothing, `link_child` and
  `unlink_from_siblings` need links that agree in both directions, and the
  completeness of child lists after an unlink needs unique predecessors.
* `FreeListCorrect`, `ForestCorrect`: the run's invariants, from `IInv`;
  `TypeCorrect` and `NarrowingCorrect`: types (the depth bound among them) and
  the narrowing of rights, proved only.
* `RevokeCorrect`: the action property `RevokeExact`; `ImmutableCorrect`: no call
  changes a capability that survives it (`CapabilitiesImmutable`, proved only).
* `StaleCorrect`: with `MaxGeneration + 1 < GenModulus`, from the additional
  invariant that a dead handle's generation is below its slot's.

The argument has two layers: lemmas on table values, in `KernelLemmas` (each
operation takes a well-formed table to a well-formed one, via the shape
`Installed`, `Unlinked`, `Dropped` or `Revoked` it leaves), and one step per
action above them. The other kernel proofs use the first layer. (`KernelLemmas`
extends `Ipc`, so its constants and assumptions are in scope here too; no table
lemma uses them.)

`PmmProofs`, for every bitmap size, page size, extent and reserved list
(assumptions `PmmAssumption`, `PmmSpecAssumption`):

* `PmmInvariant`: `Spec => []IInv`. `IInv` remembers the configuration that
  `new` accepted (aligned ranges inside an extent that fits the bitmap), bounds
  the hint, keeps the owned frames inside the extent, and contains
  `BitmapExact` and `HintBelowFree`. The configuration is needed because the
  scan of `free_frame` protects reserved frames only when the ranges are
  aligned and inside the extent.
* `BitmapCorrect`, `FreshCorrect`: `BitmapExact` and the action property
  `HandedOutFresh`, from `IInv`; `HintCorrect`: no free frame lies below the
  hint (`HintBelowFree`, proved only).
* `AnswersCorrect`: `AnswersExact`, from `IInv` and `Counted` (the three counters
  are the numbers of reserved, owned and free frames, from `new` on and through
  `alloc_frame` and `free_frame`). Two facts carry it. The sum of `new` over the
  reserved list is the number of reserved frames: ranges that passed the overlap
  check are disjoint, so adding one range adds its size to the cardinality of the
  union (`SummedExact`). The walk of `could_yield_pa_overlapping`, which jumps from one
  covering range to the end of it, answers whether any frame of its window is
  not reserved (`ScanExact`). Both the sum and the walk are recursive functions;
  each is shown to be the only solution of its equation, by looking at the least
  argument at which another solution would differ, which needs no induction
  theorem with an operator as a parameter.

`IpcProofs`, for every number of callers, endpoint slots, messages, rights and
generations (assumptions `IpcAssumption`, `IpcSpecAssumption` and those of the
table). `KernelLemmas` says, once for all machines, in which ways `ipc_send`,
`ipc_recv` and `ipc_cancel_recv` can end (`SendOutcome`, `RecvOutcome`,
`CancelOutcome`) and what each leaves in the table and the queue slot.

* `IpcInvariant`: `Spec => []IInv` with `IInv == Typed /\ Agree(queues,
  ep_arena)`. `destroy_endpoint` frees the arena slot and never looks at the
  queues, which catch up at the next access. `Agree` says how far apart the two
  may be: a queue slot's generation never runs ahead; a queue slot that has
  caught up with a free arena slot is idle; a capability is in flight only under
  a live endpoint of the same generation. The second part is what
  `NothingInherited` needs, the third what `InFlightReachable` needs, and the
  first carries both across `reset_if_stale_generation`.
* `InFlightCorrect`, `NothingInheritedCorrect`, `ReceiverKeptCorrect`: the run's
  properties, from `IInv`.
* `MailboxesCorrect`: `Spec => Box!Spec`, the refinement. The mapping reads a
  mailbox off the queue slot (`Contents`) and a caller's holdings off its table
  as a bag (`Holdings`). Each call is shown to be a `Put`, a `Take`, a
  `Discard`, an `Adjust` or a stutter; the bag part counts the live slots that
  hold each capability (installing one adds one, `cap_take` and `cap_drop` remove one,
  everything else keeps the count), by the cardinality theorems of the library.

`SchedIpcProofs`, for every number of tasks, of them any in EL0, with and
without an idle task (assumption `SchedIpcAssumption`; the tables boot hands out
are any well-formed ones):

* `BridgeInvariant`: `Spec => []IInv`. `Sound` is the scheduler's part: besides
  the exact queue it says that the running and the idle task are `Ready`, that
  exited tasks are EL0 tasks and never `Blocked` (a wake-up would queue one
  again), that registered tasks keep their address-space handle, and that a
  queue without duplicates cannot overflow.
* `ReadyQueueCorrect`, `NeverPanicsCorrect`, `OwnAddressSpaceCorrect`: from it.
* `DeadlockCorrect`: the action property `DeadlockLeavesNoTrace`, from `IInv` and
  the fact that the queues stay at the generation of the live endpoints, so that
  register and cancel are exact inverses.
* `WaiterInvariant`, `WaiterMatchesCorrect`, `ResumeCorrect`: the agreement of
  blocked tasks and registered receivers, under `Separated(InitTables)`: an
  endpoint has one receiver, endpoint capabilities lack TRANSFER, and no EL0 task
  sends to a kernel task's endpoint. Each part is needed. Two receivers break the
  agreement (finding 1), a transferred endpoint capability makes a second
  receiver, and `sys_send` wakes nobody. `MCSched` asserts that the tables of the
  run satisfy it. `WInv` adds to the two properties that the hypothesis persists
  (nothing in flight grants an endpoint), that a suspended task is blocked on a
  waiting endpoint or ready with its message delivered, and that a waiting
  endpoint has a suspended task or a polling EL0 task behind it.

`BootProofs`, for every set of kernel and EL0 tasks, of device lines and of
deadlines, every nesting of guards and every frequency up to one tick per
nanosecond (assumptions `InterruptsAssumption`, `TrapAssumption`,
`GicAssumption`, `TimerAssumption`):

* `BootInvariant`: `Spec => []IInv`, four parts besides types. `Masking`: every
  guard but the outermost saved a masked state, and so did every guard of an EL0
  task; that is why dropping a guard, on whichever side of a context switch,
  cannot unmask too early. `OnlyTimer`: after `init` no line but the timer's is
  enabled, because the disabled banks cover every shared line (`BanksCover`).
  `Comparator`: the comparator holds the deadline in force, or, between the first
  two writes of `arm_deadline`, the one asked for, and an interrupt handled as
  the timer's found its line up. `FakeFollows`: the tokens of the fake CPU mirror
  the guard stack (the outermost is 0, the others 1), and the other fakes mirror
  deadline, lines and the interrupt in delivery.
* `IrqsContainedCorrect`, `DeadlineKeptCorrect` (with `DeadlineExact`),
  `FakeHalAgreesCorrect`: from it.
* `BootSafeCorrect`: `BootSafe`, from `IInv` and `BootInv`. `MachAt` gives every
  register and table of the core as a function of the stage, so that the
  translation of code, stack, vectors and UART can be read off the stage.
  `Written`: what the steps that are past write is written; the table of the
  script (`ScriptCommon`, `ScriptProduction`, `ScriptBench`) then shows that every
  read comes after its write. `Started`: a task runs only when the script is
  through. `Quiet`: until the controller forwards nothing interrupts, and every
  mask saved or in force has I set; with `Forwards` (it forwards from its step of
  the production build on) that is why an unmasked interrupt finds the controller
  published, and why the measurement build never takes one.
* `DeadlineExact`, for every u64 deadline and counter value: the counter has
  reached `ns_to_ticks(d)` exactly when `now_ns` has reached `d`. This is the arithmetic half of `DeadlineKept`; it
  rests on what ceiling and floor division mean and on the comparator not
  saturating at these frequencies.
* `NowMonotone`: `now_ns` never goes backwards, also where it saturates.
* `ResolutionNearest`: `resolution_ns` is positive and the nearest whole
  nanosecond to the period.

`SyscallProofs`, for every set of tasks, register words, ranges and memories,
both builds, every page and chunk size, every capacity and every width of the
index, generation and address fields (assumptions `SyscallAssumption`, which
holds the const assert of `abi.rs`, `SyscallSpecAssumption`, where the tables
boot hands out are any well-formed ones, and `BootAssumption`):

* `SyscallInvariant`: `Spec => []IInv`: tables stay well formed, queues typed,
  and the shared `FAILCLOSED_TABLE` empty. The last part is the point: every task
  without a context runs its calls on that one table, so a call that left
  anything in it would hand it to all the others.
* `FailClosedCorrect`: the action property `FailClosed`. The empty table resolves
  no handle, the empty window admits only the empty range, and a control call is
  refused before the scheduler is reached.
* `TransferWordsCorrect`: the action property `TransferWordsExact`. Decoding
  undoes encoding for every handle of a table and for its absence (`RoundTrip`),
  so no handle is taken for the null word, and a word whose index field is out
  of range resolves nowhere (`Decoded`). What the queue and the table then hold
  comes from the lemmas of `KernelLemmas`.
* `ConsoleCorrect`: the action property `ConsoleExact`. The page loop of
  `probe_user_pages`, the run loop of the copies and the chunk loop of
  `sys_console_write` are recursive functions; each is shown to be the only
  solution of its equation and to equal a closed form: every address of the range
  lies on a page the caller may use (`ProbeRange`), the places are those of its
  addresses in order (`PlacesOf`), the chunks together are the words of the range.
  The window is the span, so a range passes exactly when all its addresses are in
  the span and on such pages (`RangePasses`), wherever it ends, the top of
  `usize` included. No chunk can fail after an earlier one was emitted, because
  the probe covered the whole range before.
* `CopyInvariant`: `Spec => []CopyInv` with `CopyInv == IInv /\ BootSpaces /\
  Private(mem)`, and from it `CopyToUserCorrect`: the action property
  `CopyToUserExact`. `BootSpaces` says that a slot of the address-space arena
  keeps its root as long as it keeps the generation of the task's handle; it
  needs the free list to thread free slots only, so that `allocate` overwrites no
  live one. `Private` says that each writable page of a task has a frame of its
  own, which no walk of any task reads. Without it a copy could change the table
  its own second half walks through, or reach one frame by two addresses, and
  what the task reads back would depend on the order of the runs. It is kept
  because a copy changes words of writable pages only (`CopyEffect`), so every
  walk stays as it was (`WalkTables`).
  `BootAssumption` has both parts for the memories and the arena boot leaves. The
  code justifies it: `load_image` maps each page to a frame it has just taken from
  the allocator, `map` takes its tables from there too, and no frame is handed
  out twice (`LoadedExact` and `FramesAccounted` of `loader`, `FreshCorrect`);
  tasks are registered with the handle of the address space that `load_image`
  created.
  TLC evaluates it for the layouts of both `syscall` runs.

`AddressSpaceProofs`, for every number of frames from four on, page size from
two words on, capacity of table and arena, set of addresses, flags and rights
(assumptions `AddressSpaceAssumption`, `AddressSpaceSpecAssumption` and those of
`Pmm`, table and arena). An address is four indices and an offset in base
`PageSize`, for every `PageSize`.

* `AddressSpaceInvariant`: `Spec => []IInv`. The core of `IInv` is that there is
  an assignment of uses to frames (`lvl`: table of level 0 to 3, mapped page, or
  free) under which the memory is a forest (`Tree`): a table of level `l` points
  only to frames of level `l + 1`, a leaf table only to pages, every frame but a
  root has exactly one place that points to it, and the frames in use are exactly
  the allocator's bits. `map` is followed level by level, with the frame being
  hung as the one frame outside the trees; `Tree` holds again after every write,
  so also when the allocator runs dry half way, which is what keeps the tables of
  a failed map in the tree. `HostOk` says that the word reached from a root
  through any page address is the one the flat map of the double stands for.
  The rest: no address space is ever freed, so the arena fills in order; the
  table is well formed; the active handle is live; the TLB holds only what the
  active tables give.
* `FramesAccountedCorrect`: exclusive ownership from the unique places, nothing
  stranded because no use is outside the trees between calls.
* `TranslationCorrect`, `MapCauseCorrect`, `DoublesCorrect`: from `HostOk`; the
  second counts the levels a walk misses against the free frames.
* `NoStaleTlbCorrect`: `cap_unmap` changes the word of one page and flushes that
  page, `cap_map` changes words that were not valid, `activate` flushes all.

### Only model-checked

* Liveness (`ReadyRuns`, `DeliveredCollected`, `DeadlineHandled`,
  `ProgramsComplete`): out of the prover's reach.
* `RevokeWalkAgrees` (the scratch queue of `cap_revoke`): what a recursive
  operator computes takes induction over data. (Where the recursion was a
  function with a measure, in `Pmm`, `UserAccess` and `Syscall`, a
  least-counterexample argument replaced it.)
* `RunAsDocumented`: a closed program without a size parameter, of which TLC sees
  every state.
* The invariants of `LoaderSpec` (`PreflightExact`, `LoadedExact`,
  `FramesAccounted`, `RollbackExact`): not proved. They would need the trees of
  `AddressSpaceProofs` for an extent that varies, a load that is half done, and an
  `Mmu` of which only the failure contract is known.

## 5. Not modelled

* The ring buffer of `SchedQueue`; `destroy_notification`.
* Bridge calls made before `start` (`NoCurrentTask`): the boot code makes none.
* The registers a context switch saves, barriers and cache maintenance, and bit
  positions in descriptors and device registers: hardware state without control.
* The polling transmit loop of the Pl011 console, console text and the
  formatting of panics and measurements.
* Of the test HAL: `FakeContextSwitch`, `FakeConsole` and the counters and logs
  of the fakes, which only the assertions of tests read.
* Interrupts in the middle of kernel calls of `SchedIpc`: `irq_entry` touches
  nothing but the timer and the controller, so it commutes with them.
* `destroy_endpoint` of an endpoint with a capability in flight: documented in
  the code as forbidden to callers; the guard `Drained` says so.
* A transferred capability is a root of its receiver's table, out of reach of
  the revocation of its former ancestors: by design (ADR-0023), so `Mailboxes`
  says that it moves, not that it stays revocable.
* Destroying an address space gives back none of its frames in v1; the syscall
  model destroys only the arena entry, as the code does.

## 6. Plan

Done: the capability table, arenas, IPC, the scheduler, the frame allocator,
page tables and address spaces, the loader, user memory access and syscalls;
interrupts and the timer, the boot, the workloads of both builds, the test
doubles; the proofs of section 4. Next, in this order:

1. Proofs: `LoaderSpec` (frames accounted for over a rollback), on top of
   `AddressSpaceProofs`.
2. `SchedQueue` as a ring buffer that refines the FIFO sequence of `Scheduler`.
3. Notifications destroyed; `SyscallSpec` and `SchedIpc` joined, so that the
   task a yield picks is the scheduler's.

## 7. Running

    tlc -config MCCapTable.cfg MCCapTable
    tlapm CapTableProofs.tla

and likewise for the other configurations; `PROJECT.json` lists the runs, the
mutants that each property is known to catch, the source lines behind every
definition, and the hazards the properties are aimed at.
