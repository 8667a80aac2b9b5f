----------------------------- MODULE Interrupts -----------------------------
(***************************************************************************)
(* Interrupt masking, the timer deadline and the IRQ handler on one core:  *)
(* IrqGuard and QemuVirtCpu (hal/src/cpu.rs, bsp-qemu-virt/src/cpu.rs),    *)
(* irq_entry (bsp-qemu-virt/src/exceptions.rs) and the mask across the     *)
(* scheduler's context switches.                                           *)
(*                                                                         *)
(* Kernel code is any caller of the HAL: it nests guards, arms and cancels *)
(* deadlines, yields.  Each register write of arm_deadline and             *)
(* cancel_deadline is a step of its own, so an interrupt can come between  *)
(* them.  The processor sees the controller's request one step late, which *)
(* is how an interrupt that was withdrawn is still taken, and found        *)
(* spurious.                                                               *)
(***************************************************************************)
EXTENDS Gic, Timer, TestHal, SequencesExt

CONSTANTS
  KernelCtx,   \* kernel tasks
  UserCtx,     \* EL0 tasks
  TimerIrq,    \* TIMER_IRQ_ID (27)
  Frequency,   \* CNTFRQ_EL0
  Deadlines,   \* the deadlines callers ask for, in nanoseconds
  MaxTick,     \* bound: the counter stops here
  MaxGuards,   \* bound: nesting of guards
  DeviceLines  \* the shared lines that devices may assert, of those the board has

ASSUME InterruptsAssumption ==
  /\ TimerIrq \in 0 .. (BankSize - 1)
  /\ Frequency \in 1 .. NanosPerSecond
  /\ Deadlines \subseteq U64
  /\ MaxTick \in Nat /\ MaxGuards \in Nat \ {0}
  /\ DeviceLines \subseteq BankSize .. (irq_count - 1)
  /\ KernelCtx \intersect UserCtx = {}
  /\ "boot" \notin KernelCtx \union UserCtx

Boot == "boot"
Task == KernelCtx \union UserCtx
Context == {Boot} \union Task

\* PSTATE.DAIF, a bit present when it masks.
AllMasked == {"D", "A", "I", "F"}
NoMask == {}                       \* IrqState(0)

\* An interrupt being handled: where irq_entry is, the line, the saved PSTATE.
Trap == [at : {"acknowledge", "mask timer", "eoi", "unhandled", "return", "panic"},
         irq : Irq \union {None}, spsr : SUBSET AllMasked]

ASSUME TrapAssumption == None \notin Trap

VARIABLES
  daif,     \* PSTATE.DAIF
  timer,    \* [cntvct, cval, enable, imask]: the virtual timer's registers
  gic,      \* the interrupt controller
  lines,    \* device lines that are up
  late,     \* what the controller requested one step ago
  running,  \* the context on the processor
  pc,       \* pc[c]: where the code of context c is
  guards,   \* guards[c]: the IrqStates saved by c's IrqGuards, oldest first
  trap,     \* the interrupt being handled, or None
  armed,    \* history: the deadline the timer is set to, or None
  asked,    \* history: the deadline of the last call of arm_deadline, or None
  fired,    \* history: timer interrupts since that call
  fake,     \* the host fakes, driven by the same calls until start
  tokens    \* the IrqStates the fake CPU handed to the boot context's guards

irq_vars == <<daif, timer, gic, lines, late, running, pc, guards, trap, armed, asked, fired,
              fake, tokens>>

-----------------------------------------------------------------------------
(* The hardware.                                                           *)

now_ns == ticks_to_ns(timer.cntvct, Frequency)

\* The timer's output: enabled, unmasked, and the comparator is met.
TimerLine == timer.enable /\ ~timer.imask /\ timer.cntvct >= timer.cval

Asserted == lines \union (IF TimerLine THEN {TimerIrq} ELSE {})
Requesting == Signalled(gic, Asserted) # {}

ResetTimer == [cntvct |-> 0, cval |-> 0, enable |-> FALSE, imask |-> FALSE]

Tick ==
  /\ timer.cntvct < MaxTick
  /\ timer' = [timer EXCEPT !.cntvct = @ + 1]
  /\ UNCHANGED <<daif, gic, lines, running, pc, guards, trap, armed, asked, fired, fake, tokens>>

DeviceToggles(l) ==
  /\ lines' = (lines \ {l}) \union ({l} \ lines)
  /\ UNCHANGED <<daif, timer, gic, running, pc, guards, trap, armed, asked, fired, fake, tokens>>

-----------------------------------------------------------------------------
(* irq_entry: exception entry masks everything and saves PSTATE; the steps  *)
(* after it are acknowledge, the timer branch, EOI and the return.          *)

InEl0(c) == c \in UserCtx /\ pc[c] = "run"

\* The vector table: an interrupt from EL0 is an unhandled class (panic_entry).
vector(c) == IF InEl0(c) THEN "panic" ELSE "acknowledge"

TakeIrq ==
  /\ trap = None
  /\ "I" \notin daif
  /\ Requesting \/ late
  /\ trap' = [at |-> vector(running), irq |-> None, spsr |-> daif]
  /\ daif' = AllMasked
  /\ fake' = IF running = Boot /\ Requesting
             THEN fake_inject(fake, acknowledge(gic, Asserted)) ELSE fake
  /\ UNCHANGED <<timer, gic, lines, running, pc, guards, armed, asked, fired, tokens>>

\* Spurious: return without EOI.  Any other line than the timer's: EOI, panic.
Dispatch(irq) ==
  IF irq = None THEN "return" ELSE IF irq = TimerIrq THEN "mask timer" ELSE "unhandled"

IrqAcknowledge ==
  /\ trap # None /\ trap.at = "acknowledge"
  /\ LET irq == acknowledge(gic, Asserted)
     IN /\ gic' = Activate(gic, irq)
        /\ trap' = [trap EXCEPT !.at = Dispatch(irq), !.irq = irq]
        /\ fired' = IF irq = TimerIrq THEN fired + 1 ELSE fired
  /\ fake' = IF running = Boot THEN fake_acknowledged(fake) ELSE fake
  /\ UNCHANGED <<daif, timer, lines, running, pc, guards, armed, asked, tokens>>

\* CNTV_CTL_EL0 = 0b10.
timer_off(t) == [t EXCEPT !.enable = FALSE, !.imask = TRUE]

IrqMaskTimer ==
  /\ trap # None /\ trap.at = "mask timer"
  /\ timer' = timer_off(timer)
  /\ trap' = [trap EXCEPT !.at = "eoi"]
  /\ armed' = None
  /\ UNCHANGED <<daif, gic, lines, running, pc, guards, asked, fired, fake, tokens>>

IrqEoi ==
  /\ trap # None /\ trap.at \in {"eoi", "unhandled"}
  /\ gic' = end_of_interrupt(gic, trap.irq)
  /\ trap' = [trap EXCEPT !.at = IF @ = "eoi" THEN "return" ELSE "panic"]
  /\ UNCHANGED <<daif, timer, lines, running, pc, guards, armed, asked, fired, fake, tokens>>

IrqReturn ==
  /\ trap # None /\ trap.at = "return"
  /\ daif' = trap.spsr
  /\ trap' = None
  /\ UNCHANGED <<timer, gic, lines, running, pc, guards, armed, asked, fired, fake, tokens>>

-----------------------------------------------------------------------------
(* Calls of the running context's code, between interrupts.                *)

At(c, label) == running = c /\ trap = None /\ pc[c] = label
Goto(c, label) == pc' = [pc EXCEPT ![c] = label]

\* disable_irqs: the old DAIF is returned, every bit is set.
disable_irqs(d) == AllMasked

\* Mutant: a guard restores the state of the outermost guard.
RestoreOutermost(saved) == Head(saved)

\* What restore_irq_state writes when the innermost guard drops.
restored(saved) == Last(saved)

\* IrqGuard::new and Drop, on the board and on the fake.
Push(c) ==
  /\ guards' = [guards EXCEPT ![c] = Append(@, daif)]
  /\ daif' = disable_irqs(daif)
  /\ IF c = Boot
     THEN tokens' = Append(tokens, fake_irq_state(fake)) /\ fake' = fake_disable_irqs(fake)
     ELSE UNCHANGED <<tokens, fake>>

Pop(c) ==
  /\ daif' = restored(guards[c])
  /\ guards' = [guards EXCEPT ![c] = Front(@)]
  /\ IF c = Boot
     THEN fake' = fake_restore_irq_state(fake, Last(tokens)) /\ tokens' = Front(tokens)
     ELSE UNCHANGED <<tokens, fake>>

GuardNew(c) ==
  /\ At(c, "run") /\ c \notin UserCtx
  /\ Len(guards[c]) < MaxGuards
  /\ Push(c)
  /\ UNCHANGED <<timer, gic, lines, running, pc, trap, armed, asked, fired>>

GuardDrop(c) ==
  /\ At(c, "run") /\ guards[c] # <<>>
  /\ Pop(c)
  /\ UNCHANGED <<timer, gic, lines, running, pc, trap, armed, asked, fired>>

\* A kernel task that wants interrupts calls restore_irq_state(IrqState(0)).
EnableIrqs(c) ==
  /\ At(c, "run") /\ c \in KernelCtx /\ guards[c] = <<>>
  /\ daif' = NoMask
  /\ UNCHANGED <<timer, gic, lines, running, pc, guards, trap, armed, asked, fired, fake, tokens>>

\* arm_deadline, first write: the comparator.  With the timer already enabled
\* the new deadline is in force at once.
ArmCval(c, d) ==
  /\ At(c, "run") /\ c \notin UserCtx
  /\ timer' = [timer EXCEPT !.cval = ns_to_ticks(d, Frequency)]
  /\ armed' = IF timer.enable THEN d ELSE armed
  /\ asked' = d
  /\ fired' = 0
  /\ Goto(c, "arm ctl")
  /\ fake' = IF c = Boot THEN fake_arm_deadline(fake, d) ELSE fake
  /\ UNCHANGED <<daif, gic, lines, running, guards, trap, tokens>>

\* Second write: CNTV_CTL_EL0 = 0b01.
ArmCtl(c) ==
  /\ At(c, "arm ctl")
  /\ timer' = [timer EXCEPT !.enable = TRUE, !.imask = FALSE]
  /\ armed' = asked
  /\ Goto(c, "arm gic")
  /\ UNCHANGED <<daif, gic, lines, running, guards, trap, asked, fired, fake, tokens>>

\* Third write: the line is enabled at the controller.
ArmGic(c) ==
  /\ At(c, "arm gic") /\ in_range(TimerIrq)
  /\ gic' = enable(gic, TimerIrq)
  /\ Goto(c, "run")
  /\ fake' = IF c = Boot THEN fake_enable(fake, TimerIrq) ELSE fake
  /\ UNCHANGED <<daif, timer, lines, running, guards, trap, armed, asked, fired, tokens>>

\* cancel_deadline: the timer, then the controller.
CancelCtl(c) ==
  /\ At(c, "run") /\ c \notin UserCtx
  /\ timer' = timer_off(timer)
  /\ armed' = None
  /\ Goto(c, "cancel gic")
  /\ fake' = IF c = Boot THEN fake_cancel_deadline(fake) ELSE fake
  /\ UNCHANGED <<daif, gic, lines, running, guards, trap, asked, fired, tokens>>

CancelGic(c) ==
  /\ At(c, "cancel gic") /\ in_range(TimerIrq)
  /\ gic' = disable(gic, TimerIrq)
  /\ Goto(c, "run")
  /\ fake' = IF c = Boot THEN fake_disable(fake, TimerIrq) ELSE fake
  /\ UNCHANGED <<daif, timer, lines, running, guards, trap, armed, asked, fired, tokens>>

\* wait_for_interrupt returns when an interrupt is pending, masked or not.
Wfi(c) ==
  /\ At(c, "run") /\ c \in KernelCtx
  /\ Goto(c, "wfi")
  /\ UNCHANGED <<daif, timer, gic, lines, running, guards, trap, armed, asked, fired, fake, tokens>>

Wake(c) ==
  /\ At(c, "wfi") /\ Requesting
  /\ Goto(c, "run")
  /\ UNCHANGED <<daif, timer, gic, lines, running, guards, trap, armed, asked, fired, fake, tokens>>

-----------------------------------------------------------------------------
(* Context switches.  A guard is held across each; DAIF is not part of the *)
(* saved context.                                                          *)

\* yield_now and ipc_recv_and_yield: the guard, then the switch.
SwitchGuard(c) ==
  /\ At(c, "run") /\ c \in Task
  /\ Push(c)
  /\ Goto(c, "switch")
  /\ UNCHANGED <<timer, gic, lines, running, trap, armed, asked, fired>>

\* The mask a fresh context starts with: enter_el0 writes SPSR_EL1 = 0x3C0; a
\* kernel entry point is reached by ret, with the mask as it is.
fresh_mask(n, d) == IF n \in UserCtx THEN AllMasked ELSE d

\* context_switch_asm to n, which starts fresh or goes on after its own switch.
SwitchTo(n) ==
  /\ running' = n
  /\ daif' = IF pc[n] = "fresh" THEN fresh_mask(n, daif) ELSE daif

ContextSwitch(c, n) ==
  /\ At(c, "switch")
  /\ n = c \/ pc[n] \in {"fresh", "switched"}
  /\ SwitchTo(n)
  /\ pc' = [pc EXCEPT ![c] = "switched", ![n] = IF pc[n] = "fresh" THEN "run" ELSE "switched"]
  /\ UNCHANGED <<timer, gic, lines, guards, trap, armed, asked, fired, fake, tokens>>

\* Back from the switch: the guard drops.
SwitchReturn(c) ==
  /\ At(c, "switched")
  /\ Pop(c)
  /\ Goto(c, "run")
  /\ UNCHANGED <<timer, gic, lines, running, trap, armed, asked, fired>>

\* run_dispatched, from start and from task_exit_current: the guard is taken on
\* a frame that is never resumed.
Abandon(c, n) ==
  /\ At(c, "run") /\ c \in UserCtx \union {Boot}
  /\ n \in Task /\ pc[n] \in {"fresh", "switched"}
  /\ guards' = [guards EXCEPT ![c] = Append(@, daif)]
  /\ running' = n
  /\ daif' = IF pc[n] = "fresh" THEN fresh_mask(n, disable_irqs(daif)) ELSE disable_irqs(daif)
  /\ pc' = [pc EXCEPT ![c] = "gone", ![n] = IF pc[n] = "fresh" THEN "run" ELSE "switched"]
  /\ UNCHANGED <<timer, gic, lines, trap, armed, asked, fired, fake, tokens>>

Handler == IrqAcknowledge \/ IrqMaskTimer \/ IrqEoi \/ IrqReturn
=============================================================================
