--------------------------------- MODULE Gic ---------------------------------
(***************************************************************************)
(* The GICv2 driver of bsp-qemu-virt/src/gic.rs, as operators on the state *)
(* of the controller: which lines are enabled, routed to this core and     *)
(* active, and whether distributor and CPU interface forward anything.     *)
(* What the controller does by itself (which line it signals, what a read  *)
(* of GICC_IAR returns) is the hardware's.                                 *)
(***************************************************************************)
EXTENDS Naturals, FiniteSets, Option

CONSTANTS
  BankSize,  \* lines per enable register, also FIRST_SPI (32)
  ItLines,   \* GICD_TYPER.ITLinesNumber of this board
  MaxIrq     \* GIC_MAX_IRQ (1020)

ASSUME GicAssumption ==
  /\ BankSize \in Nat \ {0} /\ ItLines \in Nat
  /\ MaxIrq \in Nat /\ (ItLines + 1) * BankSize <= MaxIrq
  /\ None \notin Nat

Irq == 0 .. (MaxIrq - 1)

GicState == [forwarding : BOOLEAN, enabled : SUBSET Irq, routed : SUBSET Irq,
             active : SUBSET Irq]

\* new and reset: nothing is forwarded, the shared lines may be in any state.
ResetGic(enabled_spis) ==
  [forwarding |-> FALSE, enabled |-> enabled_spis, routed |-> {}, active |-> {}]

irq_count == (ItLines + 1) * BankSize

\* The lines the ICENABLER loop disables: every bank but bank 0.
disabled_banks ==
  UNION {(n * BankSize) .. ((n + 1) * BankSize - 1) : n \in {m \in 1 .. ItLines : m * BankSize < irq_count}}

\* The lines the priority and target loops set up.
configured_spis == {i \in Irq : BankSize <= i /\ i < irq_count}

\* init: distributor off, disable, prioritise and route the shared lines, then
\* distributor and CPU interface on.
init(g) ==
  [g EXCEPT !.enabled = @ \ disabled_banks,
            !.routed = @ \union configured_spis,
            !.forwarding = TRUE]

\* enable and disable panic on a line the distributor does not have.
in_range(irq) == irq < MaxIrq
enable(g, irq) == [g EXCEPT !.enabled = @ \union {irq}]
disable(g, irq) == [g EXCEPT !.enabled = @ \ {irq}]

-----------------------------------------------------------------------------
(* The hardware.  Private lines are routed to their core by construction.  *)

\* The lines the CPU interface would signal while the lines in asserted are up.
\* An active line holds back the others: the handler runs masked to its end, so
\* a line of higher priority gains nothing.
Signalled(g, asserted) ==
  IF ~g.forwarding \/ g.active # {} THEN {}
  ELSE {i \in asserted \intersect g.enabled : i < BankSize \/ i \in g.routed}

-----------------------------------------------------------------------------
\* acknowledge: GICC_IAR; the spurious INTID 1023 becomes None.
acknowledge(g, asserted) ==
  IF Signalled(g, asserted) = {} THEN None
  ELSE CHOOSE i \in Signalled(g, asserted) : \A j \in Signalled(g, asserted) : i <= j

\* Reading GICC_IAR makes the line active.
Activate(g, irq) == IF irq = None THEN g ELSE [g EXCEPT !.active = @ \union {irq}]

\* Mutant: no write to GICC_EOIR.
EoiForgotten(g, irq) == g

end_of_interrupt(g, irq) == [g EXCEPT !.active = @ \ {irq}]
=============================================================================
