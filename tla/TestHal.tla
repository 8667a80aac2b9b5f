------------------------------- MODULE TestHal -------------------------------
(***************************************************************************)
(* The host fakes of test-hal for Cpu, Timer and IrqController, as         *)
(* operators on one record.  Kernel unit tests run on these in place of    *)
(* the board.  The call counters and the EOI history, which only tests     *)
(* read, are left out.                                                     *)
(***************************************************************************)
EXTENDS Naturals, Sequences, Option

FakeHal == [irqs_enabled |-> TRUE, armed_deadline |-> None, enabled |-> {}, pending |-> <<>>]

\* Mutant: the token has the opposite polarity.
FakeTokenInverted(f) == IF f.irqs_enabled THEN 1 ELSE 0

\* FakeCpu::disable_irqs returns a token: 0 if interrupts were enabled.
fake_irq_state(f) == IF f.irqs_enabled THEN 0 ELSE 1
fake_disable_irqs(f) == [f EXCEPT !.irqs_enabled = FALSE]
fake_restore_irq_state(f, state) == [f EXCEPT !.irqs_enabled = (state = 0)]

fake_arm_deadline(f, deadline_ns) == [f EXCEPT !.armed_deadline = deadline_ns]
fake_cancel_deadline(f) == [f EXCEPT !.armed_deadline = None]

fake_enable(f, irq) == [f EXCEPT !.enabled = @ \union {irq}]
fake_disable(f, irq) == [f EXCEPT !.enabled = @ \ {irq}]
fake_inject(f, irq) == [f EXCEPT !.pending = Append(@, irq)]

\* acknowledge pops the oldest injected interrupt, enabled or not.
fake_acknowledge(f) == IF f.pending = <<>> THEN None ELSE Head(f.pending)
fake_acknowledged(f) == IF f.pending = <<>> THEN f ELSE [f EXCEPT !.pending = Tail(@)]
=============================================================================
