----------------------------- MODULE BootProofs -----------------------------
(***************************************************************************)
(* Proofs about interrupts on the board, for every set of tasks, device    *)
(* lines, deadlines and every counter frequency up to one tick per         *)
(* nanosecond: the Timer trait's arithmetic, masking, the timer deadline,  *)
(* and the host fakes.                                                     *)
(***************************************************************************)
EXTENDS Boot, Integers, TLAPS, SequenceTheorems

-----------------------------------------------------------------------------
(* The deadline contract of the Timer trait, for every u64 deadline and    *)
(* counter value.                                                          *)

\* What integer division means, in the form the arithmetic below uses.
LEMMA FloorBound ==
  ASSUME NEW a \in Nat, NEW b \in Nat, b > 0, NEW d \in Nat
  PROVE  /\ a \div b \in Nat
         /\ a \div b >= d <=> a >= d * b
  <1>1. a \div b \in Nat /\ b * (a \div b) <= a /\ a < b * ((a \div b) + 1)
    BY SMT
  <1>. DEFINE q == a \div b
  <1>2. CASE q >= d
    <2>1. q \in Nat BY <1>1
    <2>2. PICK k \in Nat : q = d + k BY <1>2, <2>1, SMT
    <2>3. b * q = d * b + b * k BY <2>2, SMT
    <2>4. b * k \in Nat BY SMT
    <2>. QED BY <1>1, <1>2, <2>3, <2>4, SMT
  <1>3. CASE ~(q >= d)
    <2>1. q \in Nat BY <1>1
    <2>2. PICK k \in Nat : d = (q + 1) + k BY <1>3, <2>1, SMT
    <2>3. d * b = b * (q + 1) + b * k BY <2>1, <2>2, SMT
    <2>4. b * k \in Nat BY SMT
    <2>. QED BY <1>1, <1>3, <2>3, <2>4, SMT
  <1>. QED BY <1>1, <1>2, <1>3

\* Multiplication by a natural number is monotone.
LEMMA MulMonotone ==
  ASSUME NEW a \in Nat, NEW b \in Nat, NEW c \in Nat, a <= b
  PROVE  a * c \in Nat /\ b * c \in Nat /\ a * c <= b * c
  <1>1. PICK k \in Nat : b = a + k BY SMT
  <1>2. b * c = a * c + k * c BY <1>1, SMT
  <1>3. a * c \in Nat /\ k * c \in Nat BY SMT
  <1>. QED BY <1>1, <1>2, <1>3, SMT

\* Ceiling division by n: the least c with x <= c * n.
LEMMA CeilBound ==
  ASSUME NEW x \in Nat, NEW n \in Nat, n > 0, NEW c \in Nat
  PROVE  /\ (x + n - 1) \div n \in Nat
         /\ (x + n - 1) \div n <= c <=> x <= c * n
  <1>. DEFINE a == x + n - 1
              q == a \div n
  <1>1. a \in Nat /\ c + 1 \in Nat BY SMT
  <1>2. q \in Nat /\ (q >= c + 1 <=> a >= (c + 1) * n)
    <2>. HIDE DEF a
    <2>. QED BY <1>1, FloorBound
  <1>3. (c + 1) * n = c * n + n /\ c * n \in Nat BY SMT
  <1>. QED BY <1>1, <1>2, <1>3, SMT

\* A frequency of at most one tick per nanosecond never saturates ns_to_ticks.
LEMMA TicksUnsaturated ==
  ASSUME NEW f \in Nat, f > 0, f <= NanosPerSecond, NEW d \in U64
  PROVE  ns_to_ticks(d, f) = (d * f + NanosPerSecond - 1) \div NanosPerSecond
  <1>0. NanosPerSecond \in Nat /\ NanosPerSecond > 0 /\ U64Max \in Nat
    BY TimerAssumption, SMT
  <1>1. d \in Nat /\ d <= U64Max BY <1>0, SMT DEF U64
  <1>2. d * f \in Nat /\ d * f <= d * NanosPerSecond
    <2>1. f * d <= NanosPerSecond * d /\ f * d \in Nat BY <1>0, <1>1, MulMonotone
    <2>2. f * d = d * f /\ NanosPerSecond * d = d * NanosPerSecond BY <1>0, <1>1, SMT
    <2>. QED BY <2>1, <2>2
  <1>. DEFINE x == d * f
              q == (x + NanosPerSecond - 1) \div NanosPerSecond
  <1>3. q \in Nat /\ q <= d
    <2>. HIDE DEF x
    <2>1. x \in Nat /\ x <= d * NanosPerSecond BY <1>2 DEF x
    <2>. QED BY <1>0, <1>1, <2>1, CeilBound
  <1>. HIDE DEF q
  <1>4. saturate(q) = q BY <1>0, <1>1, <1>3, SMT DEF saturate
  <1>. QED BY <1>4 DEF q, ns_to_ticks

\* ADR-0010, "When now_ns() reaches or exceeds deadline_ns, the hardware timer
\* IRQ fires": for a counter of at most one tick per nanosecond, the comparator
\* value arm_deadline writes is met exactly when now_ns has reached the
\* deadline.  The interrupt is never early, never a tick late, and the two
\* saturations never disagree.
THEOREM DeadlineExact ==
  ASSUME NEW f \in Nat, f > 0, f <= NanosPerSecond,
         NEW d \in U64, NEW c \in Nat
  PROVE  c >= ns_to_ticks(d, f) <=> ticks_to_ns(c, f) >= d
  <1>0. NanosPerSecond \in Nat /\ NanosPerSecond > 0 /\ U64Max \in Nat
    BY TimerAssumption, SMT
  <1>1. d \in Nat /\ d <= U64Max BY <1>0, SMT DEF U64
  <1>. DEFINE a == c * NanosPerSecond
              x == d * f
              p == a \div f
              q == (x + NanosPerSecond - 1) \div NanosPerSecond
  <1>2. a \in Nat /\ x \in Nat BY <1>0, <1>1, SMT
  <1>3. p \in Nat /\ (p >= d <=> a >= x)
    <2>. HIDE DEF a
    <2>. QED BY <1>1, <1>2, FloorBound DEF x
  <1>4. q \in Nat /\ (q <= c <=> x <= a)
    <2>. HIDE DEF x
    <2>. QED BY <1>0, <1>2, CeilBound DEF a
  <1>5. ns_to_ticks(d, f) = q BY TicksUnsaturated
  <1>6. ticks_to_ns(c, f) = saturate(p) BY DEF ticks_to_ns
  <1>. HIDE DEF p, q, a, x
  <1>7. saturate(p) >= d <=> p >= d BY <1>0, <1>1, <1>3, SMT DEF saturate
  <1>. QED BY <1>2, <1>3, <1>4, <1>5, <1>6, <1>7, SMT

\* Timer::now_ns never goes backwards: a later counter value never reads as an
\* earlier time, saturation included.
THEOREM NowMonotone ==
  ASSUME NEW f \in Nat, f > 0, NEW b \in Nat, NEW c \in Nat, b <= c
  PROVE  ticks_to_ns(b, f) <= ticks_to_ns(c, f)
  <1>0. NanosPerSecond \in Nat /\ NanosPerSecond > 0 /\ U64Max \in Nat
    BY TimerAssumption, SMT
  <1>. DEFINE x == b * NanosPerSecond
              y == c * NanosPerSecond
              p == x \div f
              q == y \div f
  <1>1. x \in Nat /\ y \in Nat /\ x <= y BY <1>0, MulMonotone
  <1>. HIDE DEF x, y
  <1>2. p \in Nat BY <1>1, FloorBound
  <1>3. x >= p * f BY <1>1, <1>2, FloorBound, SMT
  <1>4. q \in Nat /\ (q >= p <=> y >= p * f)
    <2>. HIDE DEF p
    <2>. QED BY <1>1, <1>2, FloorBound
  <1>5. p * f \in Nat BY <1>2, SMT
  <1>. HIDE DEF p, q
  <1>6. p <= q BY <1>1, <1>2, <1>3, <1>4, <1>5, SMT
  <1>7. saturate(p) <= saturate(q) BY <1>0, <1>2, <1>4, <1>6, SMT DEF saturate
  <1>. QED BY <1>7 DEF p, q, x, y, ticks_to_ns

\* What resolution_ns_for_freq documents: never 0, so callers may divide by it,
\* and, for a counter of at most one tick per nanosecond, the whole number of
\* nanoseconds nearest to the tick period.
THEOREM ResolutionNearest ==
  ASSUME NEW f \in Nat, f > 0
  PROVE  /\ resolution_ns_for_freq(f) \in Nat \ {0}
         /\ f <= NanosPerSecond =>
              /\ resolution_ns_for_freq(f) * f <= NanosPerSecond + f \div 2
              /\ NanosPerSecond + f \div 2 < (resolution_ns_for_freq(f) + 1) * f
  <1>0. NanosPerSecond \in Nat /\ NanosPerSecond > 0
    BY TimerAssumption, SMT
  <1>. DEFINE n == NanosPerSecond + f \div 2
              raw == n \div f
  <1>1. n \in Nat /\ n >= NanosPerSecond BY <1>0, SMT
  <1>2. resolution_ns_for_freq(f) = IF raw = 0 THEN 1 ELSE raw
    BY DEF resolution_ns_for_freq
  <1>. HIDE DEF n
  <1>3. raw \in Nat BY <1>1, FloorBound
  <1>4. ASSUME NEW d \in Nat PROVE raw >= d <=> n >= d * f
    BY <1>1, <1>4, FloorBound
  <1>. HIDE DEF raw
  <1>5. n >= raw * f BY <1>3, <1>4, SMT
  <1>6. ~(n >= (raw + 1) * f)
    <2>1. raw + 1 \in Nat /\ ~(raw >= raw + 1) BY <1>3, SMT
    <2>. QED BY <1>4, <2>1
  <1>7. ASSUME f <= NanosPerSecond PROVE raw # 0
    <2>1. n >= 1 * f BY <1>0, <1>1, <1>7, SMT
    <2>2. raw >= 1 BY <1>4, <2>1
    <2>. QED BY <1>3, <2>2, SMT
  <1>8. raw * f \in Nat /\ (raw + 1) * f \in Nat BY <1>3, SMT
  <1>9. ASSUME f <= NanosPerSecond
        PROVE  /\ resolution_ns_for_freq(f) * f <= n
               /\ n < (resolution_ns_for_freq(f) + 1) * f
    <2>1. resolution_ns_for_freq(f) = raw BY <1>2, <1>7, <1>9
    <2>2. raw * f <= n /\ n < (raw + 1) * f BY <1>1, <1>5, <1>6, <1>8, SMT
    <2>. QED BY <2>1, <2>2
  <1>10. resolution_ns_for_freq(f) \in Nat \ {0} BY <1>2, <1>3, SMT
  <1>. QED BY <1>9, <1>10 DEF n

-----------------------------------------------------------------------------
(* The inductive invariant.                                                *)

PcLabel == {"fresh", "run", "arm ctl", "arm gic", "cancel gic", "wfi", "switch", "switched", "gone"}

Typed ==
  /\ daif \in SUBSET AllMasked
  /\ timer \in [cntvct : Nat, cval : Nat, enable : BOOLEAN, imask : BOOLEAN]
  /\ gic \in GicState
  /\ lines \in SUBSET DeviceLines
  /\ running \in Context
  /\ pc \in [Context -> PcLabel]
  /\ guards \in [Context -> Seq(SUBSET AllMasked)]
  /\ trap \in Trap \union {None}
  /\ armed \in Deadlines \union {None}
  /\ asked \in Deadlines \union {None}

FakeTyped ==
  /\ fake \in [irqs_enabled : BOOLEAN, armed_deadline : Deadlines \union {None},
               enabled : SUBSET Irq, pending : Seq(Irq)]
  /\ tokens \in Seq({0, 1})

\* A guard below the top saved a masked state, and so did every guard of an EL0
\* task; an interrupt is handled on behalf of code that holds no guard.
Masking ==
  /\ guards[running] # <<>> \/ running \in UserCtx => "I" \in daif
  /\ \A c \in Context : pc[c] \in {"switch", "switched"} => guards[c] # <<>>
  /\ \A c \in Context : \A k \in 1 .. Len(guards[c]) :
       k > 1 \/ c \in UserCtx => "I" \in guards[c][k]
  /\ trap # None => /\ "I" \in daif
                    /\ running \notin UserCtx
                    /\ guards[running] = <<>>
                    /\ trap.at \notin {"unhandled", "panic"}

\* Only the timer's line gets through the controller.
OnlyTimer ==
  IF gic.forwarding THEN gic.enabled \subseteq {TimerIrq} ELSE gic.enabled \subseteq DeviceLines

\* The comparator holds the deadline the timer is set to, or, between the first
\* two writes of arm_deadline, the one asked for.
Comparator ==
  /\ timer.enable => ~timer.imask
  /\ armed # None <=> timer.enable
  /\ armed # None => timer.cval = ns_to_ticks(armed, Frequency)
  /\ \A c \in Context : pc[c] = "arm ctl" =>
       c = running /\ asked # None /\ timer.cval = ns_to_ticks(asked, Frequency)
  /\ trap # None /\ trap.at = "mask timer" => TimerLine

\* The fakes know the boot context's guards by their tokens, the outermost of
\* which is 0, ...
FakeMask ==
  /\ Len(tokens) = Len(guards[Boot])
  /\ \A k \in 1 .. Len(tokens) : tokens[k] = 0 <=> k = 1
  /\ fake.irqs_enabled <=> guards[Boot] = <<>>

\* ... the deadline, from the first write of arm_deadline on, ...
FakeDeadline ==
  /\ armed # None => fake.armed_deadline = armed
  /\ pc[Boot] = "arm ctl" => fake.armed_deadline = asked

\* ... the lines that are enabled, ...
FakeLines == fake.enabled = IF gic.forwarding THEN gic.enabled ELSE {}

\* ... and the one interrupt that waits for its handler's acknowledge.
FakePending ==
  fake.pending # <<>> => /\ trap # None /\ trap.at = "acknowledge"
                         /\ fake.pending = <<TimerIrq>>
                         /\ TimerIrq \in Signalled(gic, Asserted)

FakeFollows == running = Boot => FakeMask /\ FakeDeadline /\ FakeLines /\ FakePending

IInv == Typed /\ FakeTyped /\ Masking /\ OnlyTimer /\ Comparator /\ FakeFollows

-----------------------------------------------------------------------------
(* Facts about the constants, the guards' stacks and the controller.       *)

LEMMA Constants ==
  /\ Boot \in Context /\ Boot \notin UserCtx /\ Boot \notin KernelCtx
  /\ Task \subseteq Context /\ UserCtx \subseteq Task /\ KernelCtx \subseteq Task
  /\ Context = {Boot} \union Task
  /\ "I" \in AllMasked /\ NoMask \in SUBSET AllMasked
  /\ TimerIrq \in Irq /\ TimerIrq \notin DeviceLines /\ TimerIrq # None
  /\ DeviceLines \subseteq Irq /\ None \notin Irq
  /\ None \notin Deadlines
<1>1. /\ Boot \in Context /\ Boot \notin UserCtx /\ Boot \notin KernelCtx
      /\ Task \subseteq Context /\ UserCtx \subseteq Task /\ KernelCtx \subseteq Task
      /\ Context = {Boot} \union Task
      /\ "I" \in AllMasked /\ NoMask \in SUBSET AllMasked
  BY InterruptsAssumption DEF Boot, Context, Task, AllMasked, NoMask
<1>2. /\ BankSize \in Nat /\ BankSize > 0 /\ MaxIrq \in Nat /\ ItLines \in Nat
      /\ irq_count <= MaxIrq /\ irq_count \in Nat
      /\ irq_count = ItLines * BankSize + BankSize /\ ItLines * BankSize \in Nat
  BY GicAssumption DEF irq_count
<1>3. /\ TimerIrq \in 0 .. (BankSize - 1) /\ DeviceLines \subseteq BankSize .. (irq_count - 1)
      /\ None \notin Nat
  BY InterruptsAssumption, GicAssumption
<1>4. /\ TimerIrq \in Irq /\ TimerIrq \notin DeviceLines /\ TimerIrq # None
      /\ DeviceLines \subseteq Irq /\ None \notin Irq
  BY <1>2, <1>3 DEF Irq
<1>5. None \notin Deadlines
  <2>1. U64 \subseteq Nat
    BY TimerAssumption DEF U64
  <2>2. QED
    BY <1>3, <2>1, InterruptsAssumption
<1>6. QED
  BY <1>1, <1>4, <1>5

\* IrqGuard::new: one more saved state on top.
LEMMA PushFacts ==
  ASSUME NEW S, NEW s \in Seq(S), NEW x \in S
  PROVE  /\ Append(s, x) \in Seq(S)
         /\ Append(s, x) # <<>>
         /\ Len(Append(s, x)) = Len(s) + 1
         /\ Len(s) \in Nat
         /\ s = <<>> <=> Len(s) = 0
         /\ \A k \in 1 .. Len(s) : Append(s, x)[k] = s[k]
         /\ Append(s, x)[Len(s) + 1] = x
  OBVIOUS

LEMMA PrefixFacts ==
  ASSUME NEW S, NEW s \in Seq(S), NEW n \in Nat, n <= Len(s)
  PROVE  /\ SubSeq(s, 1, n) \in Seq(S)
         /\ Len(SubSeq(s, 1, n)) = n
         /\ \A k \in 1 .. n : SubSeq(s, 1, n)[k] = s[k]
  OBVIOUS

\* Drop: the top one goes.
LEMMA PopFacts ==
  ASSUME NEW S, NEW s \in Seq(S), s # <<>>
  PROVE  /\ Len(s) \in Nat /\ Len(s) >= 1
         /\ Last(s) \in S /\ Last(s) = s[Len(s)]
         /\ Front(s) \in Seq(S)
         /\ Len(Front(s)) = Len(s) - 1
         /\ \A k \in 1 .. (Len(s) - 1) : Front(s)[k] = s[k]
         /\ Front(s) = <<>> <=> Len(s) = 1
<1>1. Len(s) \in Nat /\ Len(s) >= 1
  OBVIOUS
<1>2. Last(s) \in S /\ Last(s) = s[Len(s)]
  BY <1>1 DEF Last
<1>3. Front(s) = SubSeq(s, 1, Len(s) - 1)
  BY DEF Front
<1>4. /\ Front(s) \in Seq(S)
      /\ Len(Front(s)) = Len(s) - 1
      /\ \A k \in 1 .. (Len(s) - 1) : Front(s)[k] = s[k]
  <2>1. Len(s) - 1 \in Nat /\ Len(s) - 1 <= Len(s)
    BY <1>1
  <2>2. QED
    BY <1>3, <2>1, PrefixFacts
<1>5. Front(s) = <<>> <=> Len(s) = 1
  BY <1>1, <1>4
<1>6. QED
  BY <1>1, <1>2, <1>4, <1>5

\* init disables every shared line the board has.
LEMMA BanksCover == BankSize .. (irq_count - 1) \subseteq disabled_banks
<1> SUFFICES ASSUME NEW i \in BankSize .. (irq_count - 1) PROVE i \in disabled_banks
  OBVIOUS
<1> DEFINE n == i \div BankSize
<1>1. /\ BankSize \in Nat /\ BankSize > 0 /\ ItLines \in Nat
      /\ irq_count = (ItLines + 1) * BankSize /\ irq_count \in Nat
  BY GicAssumption DEF irq_count
<1>2. i \in Nat /\ i >= BankSize /\ i < irq_count
  BY <1>1
<1>3. n \in Nat
  BY <1>1, <1>2, FloorBound
<1>4. \A d \in Nat : n >= d <=> i >= d * BankSize
  BY <1>1, <1>2, FloorBound
<1> HIDE DEF n
<1>5. n >= 1
  <2>1. i >= 1 * BankSize
    BY <1>1, <1>2
  <2>2. QED
    BY <1>4, <2>1
<1>6. ~(n >= ItLines + 1)
  <2>1. ItLines + 1 \in Nat /\ ~(i >= (ItLines + 1) * BankSize)
    BY <1>1, <1>2
  <2>2. QED
    BY <1>4, <2>1
<1>7. n \in 1 .. ItLines
  BY <1>1, <1>3, <1>5, <1>6
<1>8. i >= n * BankSize /\ ~(i >= (n + 1) * BankSize)
  <2>1. n >= n /\ ~(n >= n + 1) /\ n + 1 \in Nat
    BY <1>3
  <2>2. QED
    BY <1>3, <1>4, <2>1
<1>9. n * BankSize \in Nat /\ (n + 1) * BankSize \in Nat
  BY <1>1, <1>3
<1>10. n * BankSize < irq_count /\ i \in (n * BankSize) .. ((n + 1) * BankSize - 1)
  BY <1>1, <1>2, <1>8, <1>9
<1>11. QED
  BY <1>7, <1>10 DEF disabled_banks

\* What the controller can signal, and what a read of GICC_IAR returns.
LEMMA Signals ==
  ASSUME Typed, OnlyTimer
  PROVE  /\ Signalled(gic, Asserted) \subseteq {TimerIrq}
         /\ TimerIrq \in Signalled(gic, Asserted) => TimerLine
         /\ acknowledge(gic, Asserted) =
              IF TimerIrq \in Signalled(gic, Asserted) THEN TimerIrq ELSE None
         /\ Requesting <=> TimerIrq \in Signalled(gic, Asserted)
<1>1. Signalled(gic, Asserted) \subseteq {TimerIrq}
  BY DEF OnlyTimer, Signalled
<1>2. TimerIrq \in Signalled(gic, Asserted) => TimerLine
  BY Constants DEF Typed, Signalled, Asserted
<1>3. acknowledge(gic, Asserted) =
        IF TimerIrq \in Signalled(gic, Asserted) THEN TimerIrq ELSE None
  <2>1. CASE TimerIrq \in Signalled(gic, Asserted)
    <3>1. Signalled(gic, Asserted) = {TimerIrq} /\ TimerIrq <= TimerIrq
      BY <1>1, <2>1, InterruptsAssumption, GicAssumption
    <3>2. QED
      BY <3>1 DEF acknowledge
  <2>2. CASE TimerIrq \notin Signalled(gic, Asserted)
    BY <1>1, <2>2 DEF acknowledge
  <2>3. QED
    BY <2>1, <2>2
<1>4. QED
  BY <1>1, <1>2, <1>3 DEF Requesting

\* What a deadline is in ticks.
LEMMA TicksType ==
  ASSUME NEW d \in Deadlines
  PROVE  ns_to_ticks(d, Frequency) \in Nat
<1>1. /\ Frequency \in Nat /\ Frequency > 0 /\ Frequency <= NanosPerSecond
      /\ NanosPerSecond \in Nat /\ NanosPerSecond > 0 /\ d \in U64 /\ d \in Nat
  BY InterruptsAssumption, TimerAssumption DEF U64
<1>2. ns_to_ticks(d, Frequency) = (d * Frequency + NanosPerSecond - 1) \div NanosPerSecond
  BY <1>1, TicksUnsaturated
<1> DEFINE x == d * Frequency
<1>3. x \in Nat
  BY <1>1
<1> HIDE DEF x
<1>4. (x + NanosPerSecond - 1) \div NanosPerSecond \in Nat
  BY <1>1, <1>3, CeilBound
<1>5. QED
  BY <1>2, <1>4 DEF x

-----------------------------------------------------------------------------
(* Types.                                                                  *)

LEMMA InitTyped == Init => Typed /\ FakeTyped
<1> SUFFICES ASSUME Init PROVE Typed /\ FakeTyped
  OBVIOUS
<1>1. gic \in GicState
  <2>1. PICK s \in SUBSET DeviceLines : gic = ResetGic(s)
    BY DEF Init
  <2>2. s \in SUBSET Irq
    BY Constants
  <2>3. QED
    BY <2>1, <2>2 DEF ResetGic, GicState
<1>2. timer \in [cntvct : Nat, cval : Nat, enable : BOOLEAN, imask : BOOLEAN]
  BY DEF Init, ResetTimer
<1>3. daif \in SUBSET AllMasked /\ lines \in SUBSET DeviceLines
  BY DEF Init, NoMask
<1>4. running \in Context /\ pc \in [Context -> PcLabel]
  BY Constants DEF Init, PcLabel
<1>5. guards \in [Context -> Seq(SUBSET AllMasked)]
  BY DEF Init
<1>6. FakeTyped
  <2>1. fake = [irqs_enabled |-> TRUE, armed_deadline |-> None, enabled |-> {}, pending |-> <<>>]
    BY DEF Init, FakeHal
  <2>2. <<>> \in Seq(Irq) /\ tokens = <<>> /\ tokens \in Seq({0, 1})
    BY DEF Init
  <2>3. QED
    BY <2>1, <2>2 DEF FakeTyped
<1>7. QED
  BY <1>1, <1>2, <1>3, <1>4, <1>5, <1>6 DEF Init, Typed

\* The actions, without the boot script's own variables.
LEMMA NextCases ==
  ASSUME [Next]_vars
  PROVE  \/ BootStep
         \/ Tick
         \/ \E l \in DeviceLines : DeviceToggles(l)
         \/ TakeIrq
         \/ IrqAcknowledge \/ IrqMaskTimer \/ IrqEoi \/ IrqReturn
         \/ \E c \in Context :
              \/ GuardNew(c) \/ GuardDrop(c) \/ EnableIrqs(c)
              \/ \E d \in Deadlines : ArmCval(c, d)
              \/ ArmCtl(c) \/ CancelCtl(c)
              \/ gic.forwarding /\ (ArmGic(c) \/ CancelGic(c))
              \/ SwitchGuard(c) \/ SwitchReturn(c)
              \/ \E n \in Task : ContextSwitch(c, n) \/ Abandon(c, n)
              \/ Wfi(c) \/ Wake(c)
         \/ UNCHANGED irq_vars
  BY DEF Next, After, Handler, Hal, HalReady, Switching, vars

\* What a guard's constructor and destructor do to the board.
LEMMA PushTyped ==
  ASSUME Typed, NEW c \in Context, Push(c)
  PROVE  /\ guards' \in [Context -> Seq(SUBSET AllMasked)]
         /\ daif' = AllMasked
         /\ guards'[c] = Append(guards[c], daif)
         /\ \A x \in Context \ {c} : guards'[x] = guards[x]
  BY PushFacts DEF Typed, Push, disable_irqs

LEMMA PopTyped ==
  ASSUME Typed, NEW c \in Context, Pop(c), guards[c] # <<>>
  PROVE  /\ guards' \in [Context -> Seq(SUBSET AllMasked)]
         /\ daif' = Last(guards[c]) /\ daif' \in SUBSET AllMasked
         /\ guards'[c] = Front(guards[c])
         /\ \A x \in Context \ {c} : guards'[x] = guards[x]
  BY PopFacts DEF Typed, Pop, restored

LEMMA TypedStep ==
  ASSUME Typed, Masking, OnlyTimer, [Next]_vars
  PROVE  Typed'
<1>1. CASE BootStep
  <2>1. init(gic) \in GicState
    BY DEF Typed, GicState, init, configured_spis
  <2>2. gic' \in GicState /\ daif' \in SUBSET AllMasked
    BY <1>1, <2>1 DEF BootStep, Typed
  <2>3. QED
    BY <1>1, <2>2 DEF BootStep, Typed
<1>2. CASE Tick
  BY <1>2 DEF Tick, Typed
<1>3. ASSUME NEW l \in DeviceLines, DeviceToggles(l)
      PROVE  Typed'
  BY <1>3 DEF DeviceToggles, Typed
<1>4. CASE TakeIrq
  <2>1. trap' \in Trap
    BY <1>4 DEF TakeIrq, Typed, Trap, vector
  <2>2. QED
    BY <1>4, <2>1 DEF TakeIrq, Typed
<1>5. CASE IrqAcknowledge
  <2>1. acknowledge(gic, Asserted) \in {None, TimerIrq} /\ TimerIrq \in Irq
    BY Signals, Constants
  <2>2. trap \in Trap
    BY <1>5 DEF IrqAcknowledge, Typed
  <2>3. trap' = [trap EXCEPT !.at = Dispatch(acknowledge(gic, Asserted)), !.irq = acknowledge(gic, Asserted)]
        /\ gic' = Activate(gic, acknowledge(gic, Asserted))
    BY <1>5 DEF IrqAcknowledge
  <2>4. trap' \in Trap
    BY <2>1, <2>2, <2>3 DEF Trap, Dispatch
  <2>5. gic' \in GicState
    BY <2>1, <2>3 DEF Typed, Activate, GicState
  <2>6. QED
    BY <1>5, <2>4, <2>5 DEF IrqAcknowledge, Typed
<1>6. CASE IrqMaskTimer
  <2>1. trap' \in Trap
    BY <1>6 DEF IrqMaskTimer, Typed, Trap
  <2>2. QED
    BY <1>6, <2>1 DEF IrqMaskTimer, Typed, timer_off
<1>7. CASE IrqEoi
  <2>1. trap' \in Trap
    BY <1>7 DEF IrqEoi, Typed, Trap
  <2>2. gic' \in GicState
    BY <1>7 DEF IrqEoi, Typed, end_of_interrupt, GicState
  <2>3. QED
    BY <1>7, <2>1, <2>2 DEF IrqEoi, Typed
<1>8. CASE IrqReturn
  BY <1>8 DEF IrqReturn, Typed, Trap
<1>9. ASSUME NEW c \in Context, GuardNew(c)
      PROVE  Typed'
  <2>1. Push(c)
    BY <1>9 DEF GuardNew
  <2>2. QED
    BY <1>9, <2>1, PushTyped DEF GuardNew, Typed
<1>10. ASSUME NEW c \in Context, GuardDrop(c)
       PROVE  Typed'
  <2>1. Pop(c) /\ guards[c] # <<>>
    BY <1>10 DEF GuardDrop
  <2>2. QED
    BY <1>10, <2>1, PopTyped DEF GuardDrop, Typed
<1>11. ASSUME NEW c \in Context, EnableIrqs(c)
       PROVE  Typed'
  BY <1>11 DEF EnableIrqs, Typed, NoMask
<1>12. ASSUME NEW c \in Context, NEW d \in Deadlines, ArmCval(c, d)
       PROVE  Typed'
  BY <1>12, TicksType DEF ArmCval, Typed, Goto, PcLabel
<1>13. ASSUME NEW c \in Context, ArmCtl(c) \/ CancelCtl(c)
       PROVE  Typed'
  BY <1>13 DEF ArmCtl, CancelCtl, Typed, Goto, PcLabel, timer_off
<1>14. ASSUME NEW c \in Context, ArmGic(c) \/ CancelGic(c)
       PROVE  Typed'
  <2>1. gic' \in GicState
    <3>1. gic' = enable(gic, TimerIrq) \/ gic' = disable(gic, TimerIrq)
      BY <1>14 DEF ArmGic, CancelGic
    <3>2. TimerIrq \in Irq /\ gic \in GicState
      BY Constants DEF Typed
    <3>3. QED
      BY <3>1, <3>2 DEF GicState, enable, disable
  <2>2. QED
    BY <1>14, <2>1 DEF ArmGic, CancelGic, Typed, Goto, PcLabel
<1>15. ASSUME NEW c \in Context, SwitchGuard(c)
       PROVE  Typed'
  <2>1. Push(c)
    BY <1>15 DEF SwitchGuard
  <2>2. QED
    BY <1>15, <2>1, PushTyped DEF SwitchGuard, Typed, Goto, PcLabel
<1>16. ASSUME NEW c \in Context, SwitchReturn(c)
       PROVE  Typed'
  <2>1. Pop(c) /\ guards[c] # <<>>
    BY <1>16 DEF SwitchReturn, At, Masking
  <2>2. QED
    BY <1>16, <2>1, PopTyped DEF SwitchReturn, Typed, Goto, PcLabel
<1>17. ASSUME NEW c \in Context, NEW n \in Task, ContextSwitch(c, n)
       PROVE  Typed'
  BY <1>17, Constants DEF ContextSwitch, SwitchTo, fresh_mask, Typed, PcLabel
<1>18. ASSUME NEW c \in Context, NEW n \in Task, Abandon(c, n)
       PROVE  Typed'
  <2>1. guards' \in [Context -> Seq(SUBSET AllMasked)]
    <3>1. guards' = [guards EXCEPT ![c] = Append(guards[c], daif)]
      BY <1>18 DEF Abandon
    <3>2. Append(guards[c], daif) \in Seq(SUBSET AllMasked)
      BY PushFacts DEF Typed
    <3>3. QED
      BY <3>1, <3>2 DEF Typed
  <2>2. QED
    BY <1>18, <2>1, Constants DEF Abandon, Typed, fresh_mask, disable_irqs, PcLabel
<1>19. ASSUME NEW c \in Context, Wfi(c) \/ Wake(c)
       PROVE  Typed'
  BY <1>19 DEF Wfi, Wake, Typed, Goto, PcLabel
<1>20. CASE UNCHANGED irq_vars
  BY <1>20 DEF irq_vars, Typed
<1>21. QED
  BY <1>1, <1>2, <1>3, <1>4, <1>5, <1>6, <1>7, <1>8, <1>9, <1>10, <1>11, <1>12, <1>13, <1>14,
     <1>15, <1>16, <1>17, <1>18, <1>19, <1>20, NextCases

-----------------------------------------------------------------------------
(* Masking.                                                                *)

\* The states saved by a context's guards, as Masking wants them.
Saved(c, s) == \A k \in 1 .. Len(s) : k > 1 \/ c \in UserCtx => "I" \in s[k]

LEMMA PushSaved ==
  ASSUME Typed, Masking, NEW c \in Context, c = running
  PROVE  /\ Append(guards[c], daif) # <<>>
         /\ Saved(c, Append(guards[c], daif))
<1>1. guards[c] \in Seq(SUBSET AllMasked) /\ daif \in SUBSET AllMasked
  BY DEF Typed
<1>2. Saved(c, guards[c]) /\ (guards[c] # <<>> \/ c \in UserCtx => "I" \in daif)
  BY DEF Masking, Saved
<1> DEFINE s == guards[c]
           u == Append(s, daif)
<1>3. /\ Len(u) = Len(s) + 1 /\ Len(s) \in Nat /\ (s = <<>> <=> Len(s) = 0) /\ u # <<>>
      /\ \A k \in 1 .. Len(s) : u[k] = s[k]
      /\ u[Len(s) + 1] = daif
  BY <1>1, PushFacts
<1> HIDE DEF s, u
<1>4. \A k \in 1 .. Len(u) : k \in 1 .. Len(s) \/ k = Len(s) + 1
  BY <1>3
<1>5. \A k \in 1 .. Len(u) : k = Len(s) + 1 /\ k > 1 => s # <<>>
  BY <1>3
<1>6. Saved(c, u)
  BY <1>2, <1>3, <1>4, <1>5 DEF Saved, s
<1>7. QED
  BY <1>3, <1>6 DEF s, u

LEMMA PopSaved ==
  ASSUME Typed, Masking, NEW c \in Context, guards[c] # <<>>
  PROVE  /\ Saved(c, Front(guards[c]))
         /\ Front(guards[c]) # <<>> \/ c \in UserCtx => "I" \in Last(guards[c])
<1>1. guards[c] \in Seq(SUBSET AllMasked)
  BY DEF Typed
<1>2. Saved(c, guards[c])
  BY DEF Masking, Saved
<1> DEFINE s == guards[c]
           u == Front(s)
<1>3. /\ Len(s) \in Nat /\ Len(s) >= 1 /\ Len(u) = Len(s) - 1
      /\ Last(s) = s[Len(s)]
      /\ \A k \in 1 .. (Len(s) - 1) : u[k] = s[k]
      /\ u = <<>> <=> Len(s) = 1
  BY <1>1, PopFacts
<1> HIDE DEF s, u
<1>4. \A k \in 1 .. Len(u) : k \in 1 .. Len(s) /\ k \in 1 .. (Len(s) - 1)
  BY <1>3
<1>5. Len(s) \in 1 .. Len(s) /\ (u # <<>> => Len(s) > 1)
  BY <1>3
<1>6. Saved(c, u) /\ (u # <<>> \/ c \in UserCtx => "I" \in Last(s))
  BY <1>2, <1>3, <1>4, <1>5 DEF Saved, s
<1>7. QED
  BY <1>6 DEF s, u

LEMMA InitMasking == Init => Masking
<1> SUFFICES ASSUME Init PROVE Masking
  OBVIOUS
<1>1. running = Boot /\ running \notin UserCtx /\ trap = None
  BY Constants DEF Init
<1>2. \A c \in Context : guards[c] = <<>> /\ pc[c] \in {"run", "fresh"}
  BY DEF Init
<1>3. \A c \in Context : 1 .. Len(guards[c]) = {}
  BY <1>2
<1>4. QED
  BY <1>1, <1>2, <1>3, Constants DEF Masking

LEMMA MaskingStep ==
  ASSUME Typed, Masking, OnlyTimer, [Next]_vars
  PROVE  Masking'
<1>0. Typed'
  BY TypedStep
<1>1. CASE BootStep
  <2>1. /\ running = Boot /\ trap = None /\ guards[running] = <<>> /\ running \notin UserCtx
        /\ UNCHANGED <<running, trap, guards, pc>>
    BY <1>1, Constants DEF BootStep, At
  <2>2. QED
    BY <2>1 DEF Masking
<1>2. CASE Tick \/ (\E l \in DeviceLines : DeviceToggles(l)) \/ UNCHANGED irq_vars
  BY <1>2 DEF Tick, DeviceToggles, irq_vars, Masking
<1>3. CASE TakeIrq
  <2>1. running \notin UserCtx /\ guards[running] = <<>> /\ "I" \in daif'
    BY <1>3, Constants DEF TakeIrq, Masking
  <2>2. trap'.at = "acknowledge"
    BY <1>3, <2>1 DEF TakeIrq, vector, InEl0
  <2>3. QED
    BY <1>3, <2>1, <2>2 DEF TakeIrq, Masking
<1>4. CASE IrqAcknowledge
  <2>1. Dispatch(acknowledge(gic, Asserted)) \in {"return", "mask timer"}
    BY Signals, Constants DEF Dispatch
  <2>2. trap'.at = Dispatch(acknowledge(gic, Asserted))
    BY <1>4 DEF IrqAcknowledge, Typed, Trap
  <2>3. QED
    BY <1>4, <2>1, <2>2 DEF IrqAcknowledge, Masking
<1>5. CASE IrqMaskTimer
  <2>1. trap'.at = "eoi"
    BY <1>5 DEF IrqMaskTimer, Typed, Trap
  <2>2. QED
    BY <1>5, <2>1 DEF IrqMaskTimer, Masking
<1>6. CASE IrqEoi
  <2>1. trap'.at = "return"
    BY <1>6 DEF IrqEoi, Typed, Trap, Masking
  <2>2. QED
    BY <1>6, <2>1 DEF IrqEoi, Masking
<1>7. CASE IrqReturn
  BY <1>7 DEF IrqReturn, Masking
<1>8. ASSUME NEW c \in Context, GuardNew(c) \/ SwitchGuard(c)
      PROVE  Masking'
  <2>1. /\ Push(c) /\ running = c /\ trap = None
        /\ UNCHANGED <<running, trap>>
        /\ pc' = pc \/ pc' = [pc EXCEPT ![c] = "switch"]
    BY <1>8 DEF GuardNew, SwitchGuard, At, Goto
  <2>2. /\ daif' = AllMasked
        /\ guards'[c] = Append(guards[c], daif)
        /\ \A x \in Context \ {c} : guards'[x] = guards[x]
    BY <2>1, PushTyped
  <2>3. guards'[c] # <<>> /\ Saved(c, guards'[c])
    BY <2>1, <2>2, PushSaved
  <2>4. \A x \in Context \ {c} : Saved(x, guards'[x])
    BY <2>2 DEF Masking, Saved
  <2>5. \A x \in Context \ {c} : pc'[x] = pc[x]
    BY <2>1 DEF Typed
  <2>6. QED
    BY <2>1, <2>2, <2>3, <2>4, <2>5, Constants DEF Masking, Saved
<1>9. ASSUME NEW c \in Context, GuardDrop(c) \/ SwitchReturn(c)
      PROVE  Masking'
  <2>1. /\ Pop(c) /\ running = c /\ trap = None /\ guards[c] # <<>>
        /\ UNCHANGED <<running, trap>>
        /\ pc'[c] = "run" /\ \A x \in Context \ {c} : pc'[x] = pc[x]
    BY <1>9 DEF GuardDrop, SwitchReturn, At, Goto, Masking, Typed
  <2>2. /\ daif' = Last(guards[c])
        /\ guards'[c] = Front(guards[c])
        /\ \A x \in Context \ {c} : guards'[x] = guards[x]
    BY <2>1, PopTyped
  <2>3. Saved(c, guards'[c]) /\ (guards'[c] # <<>> \/ c \in UserCtx => "I" \in daif')
    BY <2>1, <2>2, PopSaved
  <2>4. \A x \in Context \ {c} : Saved(x, guards'[x])
    BY <2>2 DEF Masking, Saved
  <2>5. QED
    BY <2>1, <2>2, <2>3, <2>4 DEF Masking, Saved
<1>10. ASSUME NEW c \in Context, EnableIrqs(c)
       PROVE  Masking'
  <2>1. running \notin UserCtx /\ guards[running] = <<>> /\ trap = None
    BY <1>10, InterruptsAssumption DEF EnableIrqs, At
  <2>2. QED
    BY <1>10, <2>1 DEF EnableIrqs, Masking
<1>11. ASSUME NEW c \in Context,
              \/ \E d \in Deadlines : ArmCval(c, d)
              \/ ArmCtl(c) \/ CancelCtl(c) \/ ArmGic(c) \/ CancelGic(c) \/ Wfi(c) \/ Wake(c)
       PROVE  Masking'
  <2>1. /\ UNCHANGED <<daif, running, guards, trap>>
        /\ \E l \in {"arm ctl", "arm gic", "cancel gic", "run", "wfi"} : pc' = [pc EXCEPT ![c] = l]
    BY <1>11 DEF ArmCval, ArmCtl, CancelCtl, ArmGic, CancelGic, Wfi, Wake, Goto
  <2>2. \A x \in Context : pc'[x] \in {"switch", "switched"} => pc'[x] = pc[x]
    BY <2>1 DEF Typed
  <2>3. QED
    BY <2>1, <2>2 DEF Masking
<1>12. ASSUME NEW c \in Context, NEW n \in Task, ContextSwitch(c, n)
       PROVE  Masking'
  <2>1. /\ running = c /\ trap = None /\ pc[c] = "switch" /\ running' = n
        /\ UNCHANGED <<guards, trap>>
        /\ n = c \/ pc[n] \in {"fresh", "switched"}
        /\ daif' = IF pc[n] = "fresh" THEN fresh_mask(n, daif) ELSE daif
        /\ pc' = [pc EXCEPT ![c] = "switched", ![n] = IF pc[n] = "fresh" THEN "run" ELSE "switched"]
    BY <1>12 DEF ContextSwitch, SwitchTo, At
  <2>2. guards[c] # <<>> /\ "I" \in daif
    BY <2>1 DEF Masking
  <2>3. "I" \in daif'
    BY <2>1, <2>2, Constants DEF fresh_mask
  <2>4. \A x \in Context : pc'[x] \in {"switch", "switched"} => guards[x] # <<>>
    BY <2>1, <2>2, Constants DEF Masking, Typed
  <2>5. QED
    BY <2>1, <2>3, <2>4 DEF Masking
<1>13. ASSUME NEW c \in Context, NEW n \in Task, Abandon(c, n)
       PROVE  Masking'
  <2>1. /\ running = c /\ trap = None /\ pc[c] = "run" /\ running' = n
        /\ UNCHANGED trap
        /\ pc[n] \in {"fresh", "switched"} /\ n \in Context
        /\ daif' = IF pc[n] = "fresh" THEN fresh_mask(n, AllMasked) ELSE AllMasked
        /\ guards' = [guards EXCEPT ![c] = Append(guards[c], daif)]
        /\ pc' = [pc EXCEPT ![c] = "gone", ![n] = IF pc[n] = "fresh" THEN "run" ELSE "switched"]
    BY <1>13, Constants DEF Abandon, At, disable_irqs
  <2>2. "I" \in daif'
    BY <2>1, Constants DEF fresh_mask
  <2>3. /\ guards'[c] = Append(guards[c], daif)
        /\ \A x \in Context \ {c} : guards'[x] = guards[x]
    BY <2>1 DEF Typed
  <2>4. \A x \in Context : Saved(x, guards'[x])
    BY <2>1, <2>3, PushSaved DEF Masking, Saved
  <2>5. \A x \in Context \ {c} : pc'[x] \in {"switch", "switched"} => guards[x] # <<>>
    BY <2>1 DEF Masking, Typed
  <2>6. guards'[c] # <<>>
    BY <2>1, <2>3, PushSaved
  <2>7. QED
    BY <2>1, <2>2, <2>3, <2>4, <2>5, <2>6 DEF Masking, Saved
<1>14. QED
  BY <1>1, <1>2, <1>3, <1>4, <1>5, <1>6, <1>7, <1>8, <1>9, <1>10, <1>11, <1>12, <1>13, NextCases

-----------------------------------------------------------------------------
(* The controller.                                                         *)

LEMMA InitOnlyTimer == Init => OnlyTimer
<1> SUFFICES ASSUME Init PROVE OnlyTimer
  OBVIOUS
<1>1. PICK s \in SUBSET DeviceLines : gic = ResetGic(s)
  BY DEF Init
<1>2. QED
  BY <1>1 DEF ResetGic, OnlyTimer

LEMMA OnlyTimerStep ==
  ASSUME Typed, OnlyTimer, [Next]_vars
  PROVE  OnlyTimer'
<1>1. CASE BootStep
  <2>1. gic' = gic \/ gic' = init(gic)
    BY <1>1 DEF BootStep
  <2>2. CASE gic' = init(gic)
    <3>1. gic'.forwarding /\ gic'.enabled = gic.enabled \ disabled_banks
      BY <2>2 DEF init, Typed, GicState
    <3>2. DeviceLines \subseteq disabled_banks
      BY BanksCover, InterruptsAssumption
    <3>3. gic'.enabled \subseteq {TimerIrq}
      BY <3>1, <3>2 DEF OnlyTimer
    <3>4. QED
      BY <3>1, <3>3 DEF OnlyTimer
  <2>3. QED
    BY <2>1, <2>2 DEF OnlyTimer
<1>2. CASE IrqAcknowledge \/ IrqEoi
  <2>1. gic'.forwarding = gic.forwarding /\ gic'.enabled = gic.enabled
    BY <1>2 DEF IrqAcknowledge, IrqEoi, Activate, end_of_interrupt, Typed, GicState
  <2>2. QED
    BY <2>1 DEF OnlyTimer
<1>3. ASSUME NEW c \in Context, gic.forwarding, ArmGic(c) \/ CancelGic(c)
      PROVE  OnlyTimer'
  <2>1. gic' = enable(gic, TimerIrq) \/ gic' = disable(gic, TimerIrq)
    BY <1>3 DEF ArmGic, CancelGic
  <2>2. gic'.forwarding /\ gic'.enabled \subseteq gic.enabled \union {TimerIrq}
    BY <1>3, <2>1 DEF enable, disable, Typed, GicState
  <2>3. QED
    BY <1>3, <2>2 DEF OnlyTimer
<1>4. CASE UNCHANGED gic
  BY <1>4 DEF OnlyTimer
<1>5. \/ BootStep \/ IrqAcknowledge \/ IrqEoi \/ UNCHANGED gic
      \/ \E c \in Context : gic.forwarding /\ (ArmGic(c) \/ CancelGic(c))
  BY NextCases DEF Tick, DeviceToggles, TakeIrq, IrqMaskTimer, IrqReturn, GuardNew, GuardDrop,
     EnableIrqs, ArmCval, ArmCtl, CancelCtl, SwitchGuard, SwitchReturn, ContextSwitch, Abandon,
     Wfi, Wake, irq_vars
<1>6. QED
  BY <1>1, <1>2, <1>3, <1>4, <1>5

-----------------------------------------------------------------------------
(* The deadline.                                                           *)

LEMMA InitComparator == Init => Comparator
  BY DEF Init, Comparator, ResetTimer

\* The line is up and stays up while the counter counts.
LEMMA ComparatorStep ==
  ASSUME Typed, Masking, OnlyTimer, Comparator, [Next]_vars
  PROVE  Comparator'
<1>1. ASSUME UNCHANGED <<timer, armed, asked, running, pc>>,
             trap' # None /\ trap'.at = "mask timer" => TimerLine
      PROVE  Comparator'
  BY <1>1 DEF Comparator, TimerLine
<1>2. CASE BootStep \/ (\E l \in DeviceLines : DeviceToggles(l)) \/ UNCHANGED irq_vars
  BY <1>1, <1>2 DEF BootStep, DeviceToggles, irq_vars, Comparator
<1>3. CASE Tick
  <2>1. /\ timer'.cntvct = timer.cntvct + 1 /\ timer'.cval = timer.cval
        /\ timer'.enable = timer.enable /\ timer'.imask = timer.imask
        /\ timer.cntvct \in Nat /\ timer.cval \in Nat
        /\ UNCHANGED <<armed, asked, running, pc, trap>>
    BY <1>3 DEF Tick, Typed
  <2>2. TimerLine => TimerLine'
    BY <2>1 DEF TimerLine
  <2>3. QED
    BY <2>1, <2>2 DEF Comparator
<1>4. CASE TakeIrq
  <2>1. trap'.at # "mask timer"
    BY <1>4 DEF TakeIrq, vector
  <2>2. QED
    BY <1>1, <1>4, <2>1 DEF TakeIrq
<1>5. CASE IrqAcknowledge
  <2>1. trap'.at = Dispatch(acknowledge(gic, Asserted))
    BY <1>5 DEF IrqAcknowledge, Typed, Trap
  <2>2. trap'.at = "mask timer" => TimerLine
    BY <2>1, Signals DEF Dispatch
  <2>3. QED
    BY <1>1, <1>5, <2>2 DEF IrqAcknowledge
<1>6. CASE IrqMaskTimer
  <2>1. /\ trap'.at = "eoi" /\ armed' = None
        /\ ~timer'.enable /\ timer'.cval = timer.cval
        /\ UNCHANGED <<asked, running, pc>>
    BY <1>6 DEF IrqMaskTimer, Typed, Trap, timer_off
  <2>2. QED
    BY <2>1 DEF Comparator
<1>7. CASE IrqEoi
  <2>1. trap'.at \in {"return", "panic"}
    BY <1>7 DEF IrqEoi, Typed, Trap
  <2>2. QED
    BY <1>1, <1>7, <2>1 DEF IrqEoi
<1>8. CASE IrqReturn
  BY <1>1, <1>8 DEF IrqReturn
<1>9. ASSUME NEW c \in Context, GuardNew(c) \/ GuardDrop(c) \/ EnableIrqs(c)
      PROVE  Comparator'
  BY <1>1, <1>9 DEF GuardNew, GuardDrop, EnableIrqs, Comparator
<1>10. ASSUME NEW c \in Context, NEW d \in Deadlines, ArmCval(c, d)
       PROVE  Comparator'
  <2>1. /\ timer'.cval = ns_to_ticks(d, Frequency)
        /\ timer'.enable = timer.enable /\ timer'.imask = timer.imask
        /\ armed' = IF timer.enable THEN d ELSE armed
        /\ asked' = d
        /\ running = c /\ trap = None
        /\ UNCHANGED <<running, trap>>
    BY <1>10 DEF ArmCval, At, Typed
  <2>2. \A x \in Context : pc'[x] = "arm ctl" => x = c
    BY <1>10, <2>1 DEF ArmCval, Goto, Typed, Comparator
  <2>3. d # None
    BY Constants
  <2>4. QED
    BY <2>1, <2>2, <2>3 DEF Comparator
<1>11. ASSUME NEW c \in Context, ArmCtl(c)
       PROVE  Comparator'
  <2>1. /\ timer'.enable /\ ~timer'.imask /\ timer'.cval = timer.cval
        /\ armed' = asked
        /\ running = c /\ trap = None /\ pc[c] = "arm ctl"
        /\ UNCHANGED <<running, trap, asked>>
    BY <1>11 DEF ArmCtl, At, Typed
  <2>2. \A x \in Context : pc'[x] # "arm ctl"
    BY <1>11, <2>1 DEF ArmCtl, Goto, Typed, Comparator
  <2>3. asked # None /\ timer.cval = ns_to_ticks(asked, Frequency)
    BY <2>1 DEF Comparator
  <2>4. QED
    BY <2>1, <2>2, <2>3 DEF Comparator
<1>12. ASSUME NEW c \in Context, CancelCtl(c)
       PROVE  Comparator'
  <2>1. /\ ~timer'.enable /\ timer'.cval = timer.cval
        /\ armed' = None /\ trap = None
        /\ UNCHANGED <<running, trap, asked>>
    BY <1>12 DEF CancelCtl, At, Typed, timer_off
  <2>2. \A x \in Context : pc'[x] = "arm ctl" => pc[x] = "arm ctl"
    BY <1>12 DEF CancelCtl, Goto, Typed
  <2>3. QED
    BY <2>1, <2>2 DEF Comparator
<1>13. ASSUME NEW c \in Context,
              ArmGic(c) \/ CancelGic(c) \/ Wfi(c) \/ Wake(c) \/ SwitchGuard(c) \/ SwitchReturn(c)
       PROVE  Comparator'
  <2>1. /\ UNCHANGED <<timer, armed, asked, running, trap>>
        /\ \E l \in {"run", "wfi", "switch"} : pc' = [pc EXCEPT ![c] = l]
    BY <1>13 DEF ArmGic, CancelGic, Wfi, Wake, SwitchGuard, SwitchReturn, Goto
  <2>2. \A x \in Context : pc'[x] = "arm ctl" => pc[x] = "arm ctl"
    BY <2>1 DEF Typed
  <2>3. QED
    BY <2>1, <2>2 DEF Comparator, TimerLine
<1>14. ASSUME NEW c \in Context, NEW n \in Task, ContextSwitch(c, n) \/ Abandon(c, n)
       PROVE  Comparator'
  <2>1. /\ UNCHANGED <<timer, armed, asked, trap>>
        /\ running = c /\ running' = n
        /\ \E l \in {"switched", "gone"}, m \in {"run", "switched"} : pc' = [pc EXCEPT ![c] = l, ![n] = m]
    BY <1>14 DEF ContextSwitch, Abandon, SwitchTo, At
  <2>2. \A x \in Context : pc'[x] # "arm ctl"
    BY <2>1 DEF Typed, Comparator
  <2>3. QED
    BY <2>1, <2>2 DEF Comparator, TimerLine
<1>15. QED
  BY <1>2, <1>3, <1>4, <1>5, <1>6, <1>7, <1>8, <1>9, <1>10, <1>11, <1>12, <1>13, <1>14, NextCases

-----------------------------------------------------------------------------
(* The host fakes.                                                         *)

LEMMA FakeTypedStep ==
  ASSUME Typed, FakeTyped, Masking, OnlyTimer, FakeFollows, [Next]_vars
  PROVE  FakeTyped'
<1>1. CASE UNCHANGED <<fake, tokens>>
  BY <1>1 DEF FakeTyped
<1>2. CASE TakeIrq
  <2>1. UNCHANGED tokens /\ (fake' = fake \/ (Requesting /\ fake' = fake_inject(fake, acknowledge(gic, Asserted))))
    BY <1>2 DEF TakeIrq
  <2>2. Requesting => acknowledge(gic, Asserted) \in Irq
    BY Signals, Constants
  <2>3. Requesting => Append(fake.pending, acknowledge(gic, Asserted)) \in Seq(Irq)
    BY <2>2, PushFacts DEF FakeTyped
  <2>4. QED
    BY <2>1, <2>3 DEF fake_inject, FakeTyped
<1>3. CASE IrqAcknowledge
  <2>1. UNCHANGED tokens /\ (fake' = fake \/ fake' = fake_acknowledged(fake))
    BY <1>3 DEF IrqAcknowledge
  <2>2. fake.pending # <<>> => Tail(fake.pending) \in Seq(Irq)
    BY DEF FakeTyped
  <2>3. QED
    BY <2>1, <2>2 DEF fake_acknowledged, FakeTyped
<1>4. ASSUME NEW c \in Context, GuardNew(c) \/ SwitchGuard(c)
      PROVE  FakeTyped'
  <2>1. \/ UNCHANGED <<fake, tokens>>
        \/ tokens' = Append(tokens, fake_irq_state(fake)) /\ fake' = fake_disable_irqs(fake)
    BY <1>4 DEF GuardNew, SwitchGuard, Push
  <2>2. fake_irq_state(fake) \in {0, 1}
    BY DEF fake_irq_state
  <2>3. Append(tokens, fake_irq_state(fake)) \in Seq({0, 1})
    BY <2>2, PushFacts DEF FakeTyped
  <2>4. QED
    BY <2>1, <2>3 DEF FakeTyped, fake_disable_irqs
<1>5. ASSUME NEW c \in Context, GuardDrop(c) \/ SwitchReturn(c)
      PROVE  FakeTyped'
  <2>1. guards[c] # <<>> /\ running = c
    BY <1>5 DEF GuardDrop, SwitchReturn, At, Masking
  <2>2. CASE c # Boot
    BY <1>1, <1>5, <2>2 DEF GuardDrop, SwitchReturn, Pop
  <2>3. CASE c = Boot
    <3>1. fake' = fake_restore_irq_state(fake, Last(tokens)) /\ tokens' = Front(tokens)
      BY <1>5, <2>3 DEF GuardDrop, SwitchReturn, Pop
    <3>2. tokens \in Seq({0, 1}) /\ Len(tokens) = Len(guards[Boot]) /\ guards[Boot] \in Seq(SUBSET AllMasked)
      BY <2>1, <2>3 DEF FakeFollows, FakeMask, FakeTyped, Typed
    <3>3. tokens # <<>>
      BY <2>1, <2>3, <3>2
    <3>4. Front(tokens) \in Seq({0, 1})
      BY <3>2, <3>3, PopFacts
    <3>5. QED
      BY <3>1, <3>4 DEF fake_restore_irq_state, FakeTyped
  <2>4. QED
    BY <2>2, <2>3
<1>6. ASSUME NEW c \in Context,
             (\E d \in Deadlines : ArmCval(c, d)) \/ CancelCtl(c) \/ ArmGic(c) \/ CancelGic(c)
      PROVE  FakeTyped'
  <2>1. /\ UNCHANGED tokens
        /\ \/ fake' = fake
           \/ \E d \in Deadlines : fake' = fake_arm_deadline(fake, d)
           \/ fake' = fake_cancel_deadline(fake)
           \/ fake' = fake_enable(fake, TimerIrq)
           \/ fake' = fake_disable(fake, TimerIrq)
    BY <1>6 DEF ArmCval, CancelCtl, ArmGic, CancelGic
  <2>2. TimerIrq \in Irq
    BY Constants
  <2>3. QED
    BY <2>1, <2>2 DEF FakeTyped, fake_arm_deadline, fake_cancel_deadline, fake_enable, fake_disable
<1>7. \/ UNCHANGED <<fake, tokens>> \/ TakeIrq \/ IrqAcknowledge
      \/ \E c \in Context :
           \/ GuardNew(c) \/ SwitchGuard(c) \/ GuardDrop(c) \/ SwitchReturn(c)
           \/ \E d \in Deadlines : ArmCval(c, d)
           \/ CancelCtl(c) \/ ArmGic(c) \/ CancelGic(c)
  BY NextCases DEF BootStep, Tick, DeviceToggles, IrqMaskTimer, IrqEoi, IrqReturn,
     EnableIrqs, ArmCtl, ContextSwitch, Abandon, Wfi, Wake, irq_vars
<1>8. QED
  BY <1>1, <1>2, <1>3, <1>4, <1>5, <1>6, <1>7

LEMMA InitFakeFollows == Init => FakeFollows
<1> SUFFICES ASSUME Init PROVE FakeMask /\ FakeDeadline /\ FakeLines /\ FakePending
  BY DEF FakeFollows
<1>1. PICK s \in SUBSET DeviceLines : gic = ResetGic(s)
  BY DEF Init
<1>2. fake = [irqs_enabled |-> TRUE, armed_deadline |-> None, enabled |-> {}, pending |-> <<>>]
  BY DEF Init, FakeHal
<1>3. guards[Boot] = <<>> /\ tokens = <<>> /\ pc[Boot] = "run" /\ armed = None
  BY Constants DEF Init
<1>4. ~gic.forwarding
  BY <1>1 DEF ResetGic
<1>5. QED
  BY <1>2, <1>3, <1>4 DEF FakeMask, FakeDeadline, FakeLines, FakePending

\* start leaves the boot context for good.
LEMMA BootOnce ==
  ASSUME Typed, [Next]_vars, running' = Boot
  PROVE  running = Boot /\ (\A c \in Context, n \in Task : ~ContextSwitch(c, n) /\ ~Abandon(c, n))
<1>1. \A c \in Context, n \in Task : ~ContextSwitch(c, n) /\ ~Abandon(c, n)
  BY InterruptsAssumption DEF ContextSwitch, SwitchTo, Abandon, Boot, Task
<1>2. running' = running
  BY <1>1, NextCases DEF BootStep, Tick, DeviceToggles, TakeIrq, IrqAcknowledge, IrqMaskTimer, IrqEoi,
     IrqReturn, GuardNew, GuardDrop, EnableIrqs, ArmCval, ArmCtl, CancelCtl, ArmGic, CancelGic,
     SwitchGuard, SwitchReturn, Wfi, Wake, irq_vars
<1>3. QED
  BY <1>1, <1>2

\* A guard taken, and a guard dropped, by boot code.
LEMMA FakePush ==
  ASSUME Typed, FakeTyped, FakeMask, Push(Boot)
  PROVE  FakeMask'
<1>1. /\ guards'[Boot] = Append(guards[Boot], daif) /\ guards[Boot] \in Seq(SUBSET AllMasked)
      /\ daif \in SUBSET AllMasked
  BY Constants, PushTyped DEF Typed
<1>2. /\ tokens' = Append(tokens, fake_irq_state(fake)) /\ fake' = fake_disable_irqs(fake)
      /\ tokens \in Seq({0, 1}) /\ fake_irq_state(fake) \in {0, 1}
  BY DEF Push, FakeTyped, fake_irq_state
<1>3. /\ Len(guards'[Boot]) = Len(guards[Boot]) + 1 /\ guards'[Boot] # <<>>
      /\ guards[Boot] = <<>> <=> Len(guards[Boot]) = 0
      /\ Len(guards[Boot]) \in Nat
  BY <1>1, PushFacts
<1>4. /\ Len(tokens') = Len(tokens) + 1
      /\ \A k \in 1 .. Len(tokens) : tokens'[k] = tokens[k]
      /\ tokens'[Len(tokens) + 1] = fake_irq_state(fake)
  BY <1>2, PushFacts
<1>5. fake_irq_state(fake) = 0 <=> Len(tokens) + 1 = 1
  BY <1>3 DEF FakeMask, fake_irq_state
<1>6. \A k \in 1 .. Len(tokens') : tokens'[k] = 0 <=> k = 1
  <2>1. TAKE k \in 1 .. Len(tokens')
  <2>2. k \in 1 .. Len(tokens) \/ k = Len(tokens) + 1
    BY <1>3, <1>4 DEF FakeMask
  <2>3. QED
    BY <1>4, <1>5, <2>2 DEF FakeMask
<1>7. ~fake'.irqs_enabled
  BY <1>2 DEF fake_disable_irqs, FakeTyped
<1>8. QED
  BY <1>3, <1>4, <1>6, <1>7 DEF FakeMask

LEMMA FakePop ==
  ASSUME Typed, FakeTyped, FakeMask, Pop(Boot), guards[Boot] # <<>>
  PROVE  FakeMask'
<1>1. guards'[Boot] = Front(guards[Boot]) /\ guards[Boot] \in Seq(SUBSET AllMasked)
  BY Constants, PopTyped DEF Typed
<1>2. /\ tokens' = Front(tokens) /\ fake' = fake_restore_irq_state(fake, Last(tokens))
      /\ tokens \in Seq({0, 1})
  BY DEF Pop, FakeTyped
<1>3. /\ Len(guards'[Boot]) = Len(guards[Boot]) - 1
      /\ guards'[Boot] = <<>> <=> Len(guards[Boot]) = 1
      /\ Len(guards[Boot]) \in Nat /\ Len(guards[Boot]) >= 1
  BY <1>1, PopFacts
<1>4. tokens # <<>>
  BY <1>2, <1>3 DEF FakeMask
<1>5. /\ Len(tokens') = Len(tokens) - 1
      /\ \A k \in 1 .. (Len(tokens) - 1) : tokens'[k] = tokens[k]
      /\ Last(tokens) = tokens[Len(tokens)]
  BY <1>2, <1>4, PopFacts
<1>6. Last(tokens) = 0 <=> Len(tokens) = 1
  BY <1>3, <1>5 DEF FakeMask
<1>7. fake'.irqs_enabled <=> Len(tokens) = 1
  BY <1>2, <1>6 DEF fake_restore_irq_state, FakeTyped
<1>8. \A k \in 1 .. Len(tokens') : tokens'[k] = 0 <=> k = 1
  BY <1>3, <1>5 DEF FakeMask
<1>9. QED
  BY <1>3, <1>5, <1>7, <1>8 DEF FakeMask

LEMMA FakeMaskStep ==
  ASSUME Typed, FakeTyped, Masking, FakeMask, [Next]_vars, running = Boot, running' = Boot
  PROVE  FakeMask'
<1>1. CASE UNCHANGED <<guards, tokens>> /\ fake'.irqs_enabled = fake.irqs_enabled
  BY <1>1 DEF FakeMask
<1>2. ASSUME NEW c \in Context, GuardNew(c) \/ SwitchGuard(c)
      PROVE  FakeMask'
  BY <1>2, FakePush DEF GuardNew, SwitchGuard, At
<1>3. ASSUME NEW c \in Context, GuardDrop(c) \/ SwitchReturn(c)
      PROVE  FakeMask'
  BY <1>3, FakePop DEF GuardDrop, SwitchReturn, At, Masking
<1>4. ASSUME UNCHANGED <<guards, tokens>>,
             \/ UNCHANGED fake
             \/ fake' = fake_acknowledged(fake)
             \/ \E d \in Deadlines : fake' = fake_arm_deadline(fake, d)
             \/ fake' = fake_cancel_deadline(fake)
             \/ fake' = fake_enable(fake, TimerIrq)
             \/ fake' = fake_disable(fake, TimerIrq)
      PROVE  FakeMask'
  BY <1>1, <1>4 DEF FakeTyped, fake_acknowledged, fake_arm_deadline, fake_cancel_deadline,
     fake_enable, fake_disable
<1>5. CASE TakeIrq
  BY <1>1, <1>5 DEF TakeIrq, fake_inject, FakeTyped
<1>6. CASE IrqAcknowledge
  BY <1>4, <1>6 DEF IrqAcknowledge
<1>7. ASSUME NEW c \in Context,
             (\E d \in Deadlines : ArmCval(c, d)) \/ CancelCtl(c) \/ ArmGic(c) \/ CancelGic(c)
      PROVE  FakeMask'
  BY <1>4, <1>7 DEF ArmCval, CancelCtl, ArmGic, CancelGic
<1>8. \/ UNCHANGED <<guards, tokens, fake>> \/ TakeIrq \/ IrqAcknowledge
      \/ \E c \in Context :
           \/ GuardNew(c) \/ SwitchGuard(c) \/ GuardDrop(c) \/ SwitchReturn(c)
           \/ \E d \in Deadlines : ArmCval(c, d)
           \/ CancelCtl(c) \/ ArmGic(c) \/ CancelGic(c)
  BY NextCases, BootOnce DEF BootStep, Tick, DeviceToggles, IrqMaskTimer, IrqEoi, IrqReturn,
     EnableIrqs, ArmCtl, Wfi, Wake, irq_vars
<1>9. QED
  BY <1>1, <1>2, <1>3, <1>5, <1>6, <1>7, <1>8

LEMMA FakeDeadlineStep ==
  ASSUME Typed, FakeTyped, Comparator, FakeDeadline, [Next]_vars, running = Boot, running' = Boot
  PROVE  FakeDeadline'
<1>1. ASSUME UNCHANGED <<armed, asked>>, fake'.armed_deadline = fake.armed_deadline,
             pc'[Boot] = "arm ctl" => pc[Boot] = "arm ctl"
      PROVE  FakeDeadline'
  BY <1>1 DEF FakeDeadline
<1>2. CASE BootStep \/ Tick \/ (\E l \in DeviceLines : DeviceToggles(l)) \/ IrqEoi \/ IrqReturn
           \/ UNCHANGED irq_vars
  <2>1. UNCHANGED <<armed, asked, fake, pc>>
    BY <1>2 DEF BootStep, Tick, DeviceToggles, IrqEoi, IrqReturn, irq_vars
  <2>2. QED
    BY <1>1, <2>1
<1>3. CASE TakeIrq
  <2>1. UNCHANGED <<armed, asked, pc>> /\ fake'.armed_deadline = fake.armed_deadline
    BY <1>3 DEF TakeIrq, fake_inject, FakeTyped
  <2>2. QED
    BY <1>1, <2>1
<1>4. CASE IrqAcknowledge
  <2>1. UNCHANGED <<armed, asked, pc>> /\ fake'.armed_deadline = fake.armed_deadline
    BY <1>4 DEF IrqAcknowledge, fake_acknowledged, FakeTyped
  <2>2. QED
    BY <1>1, <2>1
<1>5. CASE IrqMaskTimer
  BY <1>5 DEF IrqMaskTimer, FakeDeadline
<1>6. ASSUME NEW c \in Context, GuardNew(c) \/ GuardDrop(c) \/ EnableIrqs(c) \/ SwitchGuard(c) \/ SwitchReturn(c)
      PROVE  FakeDeadline'
  <2>1. /\ UNCHANGED <<armed, asked>>
        /\ UNCHANGED pc \/ Goto(c, "switch") \/ Goto(c, "run")
        /\ \/ UNCHANGED fake \/ fake' = fake_disable_irqs(fake)
           \/ fake' = fake_restore_irq_state(fake, Last(tokens))
    BY <1>6 DEF GuardNew, GuardDrop, EnableIrqs, SwitchGuard, SwitchReturn, Push, Pop
  <2>2. fake'.armed_deadline = fake.armed_deadline
    BY <2>1 DEF fake_disable_irqs, fake_restore_irq_state, FakeTyped
  <2>3. pc'[Boot] = "arm ctl" => pc[Boot] = "arm ctl"
    BY <2>1, Constants DEF Goto, Typed
  <2>4. QED
    BY <1>1, <2>1, <2>2, <2>3
<1>7. ASSUME NEW c \in Context, NEW d \in Deadlines, ArmCval(c, d)
      PROVE  FakeDeadline'
  <2>1. /\ fake' = fake_arm_deadline(fake, d)
        /\ armed' = IF timer.enable THEN d ELSE armed
        /\ asked' = d
    BY <1>7 DEF ArmCval, At
  <2>2. fake'.armed_deadline = d
    BY <2>1 DEF fake_arm_deadline, FakeTyped
  <2>3. QED
    BY <2>1, <2>2 DEF FakeDeadline, Comparator
<1>8. ASSUME NEW c \in Context, ArmCtl(c)
      PROVE  FakeDeadline'
  <2>1. armed' = asked /\ fake' = fake /\ c = Boot /\ pc[Boot] = "arm ctl" /\ Goto(Boot, "arm gic")
    BY <1>8 DEF ArmCtl, At
  <2>2. pc'[Boot] = "arm gic"
    BY <2>1, Constants DEF Goto, Typed
  <2>3. QED
    BY <2>1, <2>2 DEF FakeDeadline
<1>9. ASSUME NEW c \in Context, CancelCtl(c)
      PROVE  FakeDeadline'
  <2>1. armed' = None /\ c = Boot /\ Goto(Boot, "cancel gic")
    BY <1>9 DEF CancelCtl, At
  <2>2. pc'[Boot] = "cancel gic"
    BY <2>1, Constants DEF Goto, Typed
  <2>3. QED
    BY <2>1, <2>2 DEF FakeDeadline
<1>10. ASSUME NEW c \in Context, ArmGic(c) \/ CancelGic(c) \/ Wfi(c) \/ Wake(c)
       PROVE  FakeDeadline'
  <2>1. /\ UNCHANGED <<armed, asked>>
        /\ Goto(c, "run") \/ Goto(c, "wfi")
        /\ UNCHANGED fake \/ fake' = fake_enable(fake, TimerIrq) \/ fake' = fake_disable(fake, TimerIrq)
    BY <1>10 DEF ArmGic, CancelGic, Wfi, Wake
  <2>2. fake'.armed_deadline = fake.armed_deadline
    BY <2>1 DEF fake_enable, fake_disable, FakeTyped
  <2>3. pc'[Boot] = "arm ctl" => pc[Boot] = "arm ctl"
    BY <2>1, Constants DEF Goto, Typed
  <2>4. QED
    BY <1>1, <2>1, <2>2, <2>3
<1>11. QED
  BY <1>2, <1>3, <1>4, <1>5, <1>6, <1>7, <1>8, <1>9, <1>10, NextCases, BootOnce

\* The timer's line is private: init does not disable it.
LEMMA TimerNotDisabled == TimerIrq \notin disabled_banks
<1> SUFFICES ASSUME NEW n \in 1 .. ItLines, TimerIrq \in (n * BankSize) .. ((n + 1) * BankSize - 1)
             PROVE  FALSE
  BY DEF disabled_banks
<1>1. BankSize \in Nat /\ TimerIrq \in Nat /\ TimerIrq < BankSize /\ n \in Nat /\ n >= 1
  BY GicAssumption, InterruptsAssumption
<1>2. n * BankSize = (n - 1) * BankSize + BankSize /\ (n - 1) * BankSize >= 0 /\ n * BankSize \in Int
  BY <1>1
<1>3. QED
  BY <1>1, <1>2

LEMMA FakeLinesStep ==
  ASSUME Typed, FakeTyped, OnlyTimer, FakeLines, [Next]_vars, running = Boot, running' = Boot
  PROVE  FakeLines'
<1>1. ASSUME fake'.enabled = fake.enabled, gic'.forwarding = gic.forwarding, gic'.enabled = gic.enabled
      PROVE  FakeLines'
  BY <1>1 DEF FakeLines
<1>2. CASE BootStep
  <2>1. fake' = fake /\ (gic' = gic \/ gic' = init(gic))
    BY <1>2 DEF BootStep
  <2>2. CASE gic' = init(gic)
    <3>1. gic'.forwarding /\ gic'.enabled = gic.enabled \ disabled_banks
      BY <2>2 DEF init, Typed, GicState
    <3>2. gic.forwarding => gic'.enabled = gic.enabled
      BY <3>1, TimerNotDisabled DEF OnlyTimer
    <3>3. ~gic.forwarding => gic'.enabled = {}
      BY <3>1, BanksCover, InterruptsAssumption DEF OnlyTimer
    <3>4. QED
      BY <2>1, <3>1, <3>2, <3>3 DEF FakeLines
  <2>3. QED
    BY <1>1, <2>1, <2>2
<1>3. CASE TakeIrq
  BY <1>1, <1>3 DEF TakeIrq, fake_inject, FakeTyped
<1>4. CASE IrqAcknowledge
  BY <1>1, <1>4 DEF IrqAcknowledge, fake_acknowledged, FakeTyped, Activate, Typed, GicState
<1>5. CASE IrqEoi
  BY <1>1, <1>5 DEF IrqEoi, end_of_interrupt, Typed, GicState
<1>6. ASSUME NEW c \in Context,
             \/ GuardNew(c) \/ GuardDrop(c) \/ SwitchGuard(c) \/ SwitchReturn(c)
             \/ (\E d \in Deadlines : ArmCval(c, d)) \/ CancelCtl(c)
      PROVE  FakeLines'
  <2>1. /\ UNCHANGED gic
        /\ \/ UNCHANGED fake \/ fake' = fake_disable_irqs(fake)
           \/ fake' = fake_restore_irq_state(fake, Last(tokens))
           \/ \E d \in Deadlines : fake' = fake_arm_deadline(fake, d)
           \/ fake' = fake_cancel_deadline(fake)
    BY <1>6 DEF GuardNew, GuardDrop, SwitchGuard, SwitchReturn, Push, Pop, ArmCval, CancelCtl
  <2>2. fake'.enabled = fake.enabled
    BY <2>1 DEF fake_disable_irqs, fake_restore_irq_state, fake_arm_deadline, fake_cancel_deadline, FakeTyped
  <2>3. QED
    BY <1>1, <2>1, <2>2
<1>7. ASSUME NEW c \in Context, gic.forwarding, ArmGic(c)
      PROVE  FakeLines'
  <2>1. fake' = fake_enable(fake, TimerIrq) /\ gic' = enable(gic, TimerIrq)
    BY <1>7 DEF ArmGic, At
  <2>2. QED
    BY <1>7, <2>1 DEF fake_enable, enable, FakeLines, FakeTyped, Typed, GicState
<1>8. ASSUME NEW c \in Context, gic.forwarding, CancelGic(c)
      PROVE  FakeLines'
  <2>1. fake' = fake_disable(fake, TimerIrq) /\ gic' = disable(gic, TimerIrq)
    BY <1>8 DEF CancelGic, At
  <2>2. QED
    BY <1>8, <2>1 DEF fake_disable, disable, FakeLines, FakeTyped, Typed, GicState
<1>9. \/ UNCHANGED <<gic, fake>> \/ BootStep \/ TakeIrq \/ IrqAcknowledge \/ IrqEoi
      \/ \E c \in Context :
           \/ GuardNew(c) \/ GuardDrop(c) \/ SwitchGuard(c) \/ SwitchReturn(c)
           \/ (\E d \in Deadlines : ArmCval(c, d)) \/ CancelCtl(c)
           \/ gic.forwarding /\ (ArmGic(c) \/ CancelGic(c))
  BY NextCases, BootOnce DEF Tick, DeviceToggles, IrqMaskTimer, IrqReturn, EnableIrqs, ArmCtl, Wfi,
     Wake, irq_vars
<1>10. QED
  BY <1>1, <1>2, <1>3, <1>4, <1>5, <1>6, <1>7, <1>8, <1>9

LEMMA FakePendingStep ==
  ASSUME Typed, FakeTyped, OnlyTimer, FakePending, [Next]_vars, running = Boot, running' = Boot
  PROVE  FakePending'
<1>1. CASE Tick \/ (\E l \in DeviceLines : DeviceToggles(l)) \/ UNCHANGED irq_vars
  <2>1. UNCHANGED <<fake, trap, gic>>
    BY <1>1 DEF Tick, DeviceToggles, irq_vars
  <2>2. TimerLine => TimerLine'
    <3>1. /\ timer'.cval = timer.cval /\ timer'.enable = timer.enable /\ timer'.imask = timer.imask
          /\ timer'.cntvct \in {timer.cntvct, timer.cntvct + 1}
          /\ timer.cntvct \in Nat /\ timer.cval \in Nat
      BY <1>1 DEF Tick, DeviceToggles, irq_vars, Typed
    <3>2. QED
      BY <3>1 DEF TimerLine
  <2>3. TimerIrq \in Signalled(gic, Asserted) => TimerIrq \in Signalled(gic, Asserted')
    <3>1. TimerIrq \in Signalled(gic, Asserted) => TimerIrq \in Asserted'
      BY <2>2, Signals DEF Asserted
    <3>2. QED
      BY <3>1 DEF Signalled
  <2>4. QED
    BY <2>1, <2>3 DEF FakePending
<1>2. CASE TakeIrq
  <2>1. fake.pending = <<>>
    BY <1>2 DEF TakeIrq, FakePending
  <2>2. /\ trap'.at = "acknowledge" /\ trap' # None
        /\ UNCHANGED <<gic, lines, timer>>
        /\ fake' = IF Requesting THEN fake_inject(fake, acknowledge(gic, Asserted)) ELSE fake
    <3>1. trap' = [at |-> "acknowledge", irq |-> None, spsr |-> daif] /\ daif \in SUBSET AllMasked
      BY <1>2, Constants DEF TakeIrq, vector, InEl0, Typed
    <3>2. trap' \in Trap
      BY <3>1 DEF Trap
    <3>3. QED
      BY <1>2, <3>1, <3>2, TrapAssumption DEF TakeIrq
  <2>3. CASE Requesting
    <3>1. acknowledge(gic, Asserted) = TimerIrq /\ TimerIrq \in Signalled(gic, Asserted)
      BY <2>3, Signals
    <3>2. fake'.pending = Append(<<>>, TimerIrq)
      BY <2>1, <2>2, <2>3, <3>1 DEF fake_inject, FakeTyped
    <3>3. fake'.pending = <<TimerIrq>>
      BY <3>2
    <3>4. Asserted' = Asserted
      BY <2>2 DEF Asserted, TimerLine
    <3>5. QED
      BY <2>2, <3>1, <3>3, <3>4 DEF FakePending
  <2>4. QED
    BY <2>1, <2>2, <2>3 DEF FakePending
<1>3. CASE IrqAcknowledge
  <2>1. fake' = fake_acknowledged(fake)
    BY <1>3 DEF IrqAcknowledge
  <2>2. fake'.pending = <<>>
    <3>1. CASE fake.pending = <<>>
      BY <2>1, <3>1 DEF fake_acknowledged
    <3>2. CASE fake.pending # <<>>
      <4>1. fake'.pending = Tail(<<TimerIrq>>)
        BY <2>1, <3>2 DEF fake_acknowledged, FakePending, FakeTyped
      <4>2. QED
        BY <4>1
    <3>3. QED
      BY <3>1, <3>2
  <2>3. QED
    BY <2>2 DEF FakePending
<1>4. CASE IrqMaskTimer \/ IrqEoi \/ IrqReturn
  BY <1>4 DEF IrqMaskTimer, IrqEoi, IrqReturn, FakePending
<1>5. CASE BootStep
  BY <1>5 DEF BootStep, At, FakePending
<1>6. ASSUME NEW c \in Context,
             \/ GuardNew(c) \/ GuardDrop(c) \/ EnableIrqs(c)
             \/ (\E d \in Deadlines : ArmCval(c, d))
             \/ ArmCtl(c) \/ CancelCtl(c) \/ ArmGic(c) \/ CancelGic(c)
             \/ SwitchGuard(c) \/ SwitchReturn(c) \/ Wfi(c) \/ Wake(c)
      PROVE  FakePending'
  <2>1. /\ trap = None
        /\ \/ UNCHANGED fake \/ fake' = fake_disable_irqs(fake)
           \/ fake' = fake_restore_irq_state(fake, Last(tokens))
           \/ \E d \in Deadlines : fake' = fake_arm_deadline(fake, d)
           \/ fake' = fake_cancel_deadline(fake)
           \/ fake' = fake_enable(fake, TimerIrq)
           \/ fake' = fake_disable(fake, TimerIrq)
    BY <1>6 DEF GuardNew, GuardDrop, EnableIrqs, ArmCval, ArmCtl, CancelCtl, ArmGic, CancelGic,
       SwitchGuard, SwitchReturn, Wfi, Wake, At, Push, Pop
  <2>2. fake'.pending = fake.pending
    BY <2>1 DEF fake_disable_irqs, fake_restore_irq_state, fake_arm_deadline, fake_cancel_deadline,
       fake_enable, fake_disable, FakeTyped
  <2>3. fake.pending = <<>>
    BY <2>1 DEF FakePending
  <2>4. QED
    BY <2>2, <2>3 DEF FakePending
<1>7. QED
  BY <1>1, <1>2, <1>3, <1>4, <1>5, <1>6, NextCases, BootOnce

LEMMA FakeFollowsStep ==
  ASSUME Typed, FakeTyped, Masking, OnlyTimer, Comparator, FakeFollows, [Next]_vars
  PROVE  FakeFollows'
<1> SUFFICES ASSUME running' = Boot
             PROVE  FakeMask' /\ FakeDeadline' /\ FakeLines' /\ FakePending'
  BY DEF FakeFollows
<1>1. running = Boot
  BY BootOnce
<1>2. FakeMask /\ FakeDeadline /\ FakeLines /\ FakePending
  BY <1>1 DEF FakeFollows
<1>3. QED
  BY <1>1, <1>2, FakeMaskStep, FakeDeadlineStep, FakeLinesStep, FakePendingStep

-----------------------------------------------------------------------------
(* The theorems.                                                           *)

\* Every step of the boot script, of an interrupt handler, of the HAL's callers
\* and of the devices keeps the masks, the controller, the timer's registers and
\* the fakes together.
THEOREM BootInvariant == Spec => []IInv
<1>1. Init => IInv
  <2> SUFFICES ASSUME Init PROVE IInv
    OBVIOUS
  <2>1. QED
    BY InitTyped, InitMasking, InitOnlyTimer, InitComparator, InitFakeFollows DEF IInv
<1>2. ASSUME IInv, [Next]_vars PROVE IInv'
  BY <1>2, TypedStep, FakeTypedStep, MaskingStep, OnlyTimerStep, ComparatorStep, FakeFollowsStep DEF IInv
<1>3. QED
  BY <1>1, <1>2, PTL DEF Spec

\* IrqGuard, restore_irq_state, context_switch and irq_entry: with any number of
\* tasks and of nested guards, no interrupt arrives under a guard or in EL0, and
\* no line but the timer's reaches the handler.
THEOREM IrqsContainedCorrect == Spec => []IrqsContained
<1>1. IInv => IrqsContained
  BY DEF IInv, Masking, IrqsContained
<1>2. QED
  BY <1>1, BootInvariant, PTL

\* arm_deadline, cancel_deadline and the timer branch of irq_entry: the line is
\* up exactly when now_ns has reached the armed deadline, for every counter
\* frequency of at most one tick per nanosecond.
THEOREM DeadlineKeptCorrect == Spec => []DeadlineKept
<1>1. ASSUME IInv PROVE DeadlineKept
  <2>1. Typed /\ Comparator
    BY <1>1 DEF IInv
  <2>2. armed # None => (timer.cntvct >= ns_to_ticks(armed, Frequency) <=> now_ns >= armed)
    <3> SUFFICES ASSUME armed # None
                 PROVE  timer.cntvct >= ns_to_ticks(armed, Frequency) <=> now_ns >= armed
      OBVIOUS
    <3>1. armed \in U64 /\ timer.cntvct \in Nat
      BY <2>1, InterruptsAssumption DEF Typed
    <3>2. Frequency \in Nat /\ Frequency > 0 /\ Frequency <= NanosPerSecond
      BY InterruptsAssumption, TimerAssumption
    <3>3. QED
      BY <3>1, <3>2, DeadlineExact DEF now_ns
  <2>3. TimerLine <=> armed # None /\ now_ns >= armed
    BY <2>1, <2>2 DEF Comparator, TimerLine
  <2>4. QED
    BY <2>1, <2>3 DEF Comparator, DeadlineKept
<1>2. QED
  BY <1>1, BootInvariant, PTL

\* FakeCpu, FakeTimer and FakeIrqController against the board: boot code that
\* runs on the fakes sees the same mask, deadline and lines, and acknowledges no
\* interrupt the controller would not deliver.
THEOREM FakeHalAgreesCorrect == Spec => []FakeHalAgrees
<1>1. ASSUME IInv PROVE FakeHalAgrees
  <2> SUFFICES ASSUME running = Boot, gic.forwarding
               PROVE  /\ HalReady => (fake.irqs_enabled <=> "I" \notin daif)
                      /\ armed # None => fake.armed_deadline = armed
                      /\ fake.enabled = gic.enabled
                      /\ trap # None /\ trap.at = "acknowledge" =>
                           fake_acknowledge(fake) \in {None, acknowledge(gic, Asserted)}
    BY DEF FakeHalAgrees
  <2>1. Typed /\ Masking /\ OnlyTimer /\ FakeMask /\ FakeDeadline /\ FakeLines /\ FakePending
    BY <1>1 DEF IInv, FakeFollows
  <2>2. HalReady => (fake.irqs_enabled <=> "I" \notin daif)
    BY <2>1 DEF HalReady, Masking, FakeMask
  <2>3. fake_acknowledge(fake) \in {None, acknowledge(gic, Asserted)}
    <3>1. CASE fake.pending = <<>>
      BY <3>1 DEF fake_acknowledge
    <3>2. CASE fake.pending # <<>>
      <4>1. fake.pending = <<TimerIrq>> /\ acknowledge(gic, Asserted) = TimerIrq
        BY <2>1, <3>2, Signals DEF FakePending
      <4>2. QED
        BY <3>2, <4>1 DEF fake_acknowledge
    <3>3. QED
      BY <3>1, <3>2
  <2>4. QED
    BY <2>1, <2>2, <2>3 DEF FakeDeadline, FakeLines
<1>2. QED
  BY <1>1, BootInvariant, PTL

-----------------------------------------------------------------------------
(* The boot script.                                                        *)

\* The StaticCells, and the steps by name.
Cell == {"CONSOLE", "CPU", "BOOT_NS", "PMM", "MMU", "AS_ARENA", "BOOTSTRAP_AS", "BOOTSTRAP_AS_TABLE",
         "BOOTSTRAP_AS_CAP", "GIC", "TASK_ARENA", "EP_ARENA", "IPC_QUEUES", "FAILCLOSED_TABLE",
         "TABLE_A", "TABLE_B", "EP_CAP_A", "EP_CAP_B", "USER_TASK_TABLE", "SCHED"}

StepName ==
  {"mask_daif", "drop_el", "stack", "zero_bss", "low_console", "low_vectors", "low_tables", "ttbr0",
   "mmu_on", "high_tables", "ttbr1", "walk1", "high_vectors", "high_stack", "branch_high",
   "null_ttbr0", "walk0_off", "cpu", "console", "boot_time", "pmm", "mmu", "as_arena",
   "bootstrap_as", "as_table", "as_cap", "load_image", "gic_cell", "gic_init", "unmask",
   "task_arena", "create_tasks", "publish_ipc", "scheduler"}

StepRecord == [name : StepName, reads : SUBSET Cell, writes : SUBSET Cell]

\* part stands in script s after position k.
Stands(s, k, part) ==
  /\ k + Len(part) <= Len(s)
  /\ \A i \in 1 .. Len(part) : s[k + i] = part[i]

\* What stands in s stands in st.
Keeps(s, st) ==
  \A k \in Nat : \A part \in Seq(StepRecord) : Stands(s, k, part) => Stands(st, k, part)

\* Appending steps to a script: where they stand, and what stood before stays.
LEMMA Joined ==
  ASSUME NEW s \in Seq(StepRecord), NEW t \in Seq(StepRecord), NEW st, st = s \o t
  PROVE  /\ st \in Seq(StepRecord)
         /\ Len(st) = Len(s) + Len(t)
         /\ Stands(st, Len(s), t)
         /\ Keeps(s, st)
<1>1. st \in Seq(StepRecord) /\ Len(st) = Len(s) + Len(t) /\ Stands(st, Len(s), t)
  BY DEF Stands
<1> DEFINE n == Len(s)
<1>2. n \in Nat /\ Len(t) \in Nat /\ Len(st) = n + Len(t) /\ \A i \in 1 .. n : st[i] = s[i]
  OBVIOUS
<1>3. ASSUME NEW k \in Nat, NEW part \in Seq(StepRecord), Stands(s, k, part)
      PROVE  Stands(st, k, part)
  <2>1. Len(part) \in Nat /\ k + Len(part) <= n
    BY <1>3 DEF Stands
  <2>2. \A i \in 1 .. Len(part) : k + i \in 1 .. n
    BY <1>2, <2>1
  <2> HIDE DEF n
  <2>3. \A i \in 1 .. Len(part) : s[k + i] = part[i]
    BY <1>3 DEF Stands
  <2>4. QED
    BY <1>2, <2>1, <2>2, <2>3 DEF Stands
<1>4. QED
  BY <1>1, <1>3 DEF Keeps

LEMMA KeptStands ==
  ASSUME NEW s, NEW st, Keeps(s, st), NEW k \in Nat, NEW part \in Seq(StepRecord), Stands(s, k, part)
  PROVE  Stands(st, k, part)
  BY DEF Keeps

\* The blocks are lists of steps.
LEMMA Blocks ==
  /\ ResetSteps \in Seq(StepRecord) /\ Len(ResetSteps) = 4
  /\ EntrySteps \in Seq(StepRecord) /\ Len(EntrySteps) = 2
  /\ LowMmuSteps \in Seq(StepRecord) /\ Len(LowMmuSteps) = 4
  /\ HighMmuSteps \in Seq(StepRecord) /\ Len(HighMmuSteps) = 3
  /\ MigrationSteps \in Seq(StepRecord) /\ Len(MigrationSteps) = 5
  /\ CpuSteps \in Seq(StepRecord) /\ Len(CpuSteps) = 3
  /\ PmmSteps \in Seq(StepRecord) /\ Len(PmmSteps) = 2
  /\ AddressSpaceSteps \in Seq(StepRecord) /\ Len(AddressSpaceSteps) = 6
  /\ LoadSteps \in Seq(StepRecord) /\ Len(LoadSteps) = 1
  /\ GicSteps \in Seq(StepRecord) /\ Len(GicSteps) = 4
  /\ TaskArenaSteps \in Seq(StepRecord) /\ Len(TaskArenaSteps) = 1
  /\ TaskSteps \in Seq(StepRecord) /\ Len(TaskSteps) = 1
  /\ IpcSteps \in Seq(StepRecord) /\ Len(IpcSteps) = 1
  /\ SchedSteps \in Seq(StepRecord) /\ Len(SchedSteps) = 2
  /\ BenchIpcSteps \in Seq(StepRecord) /\ Len(BenchIpcSteps) = 1
<1>1. ResetSteps \in Seq(StepRecord) /\ Len(ResetSteps) = 4
  BY DEF ResetSteps, Step, StepRecord, StepName, Cell
<1>2. EntrySteps \in Seq(StepRecord) /\ Len(EntrySteps) = 2
  BY DEF EntrySteps, Step, StepRecord, StepName, Cell
<1>3. LowMmuSteps \in Seq(StepRecord) /\ Len(LowMmuSteps) = 4
  BY DEF LowMmuSteps, Step, StepRecord, StepName, Cell
<1>4. HighMmuSteps \in Seq(StepRecord) /\ Len(HighMmuSteps) = 3
  BY DEF HighMmuSteps, Step, StepRecord, StepName, Cell
<1>5. MigrationSteps \in Seq(StepRecord) /\ Len(MigrationSteps) = 5
  BY DEF MigrationSteps, Step, StepRecord, StepName, Cell
<1>6. CpuSteps \in Seq(StepRecord) /\ Len(CpuSteps) = 3
  BY DEF CpuSteps, Step, StepRecord, StepName, Cell
<1>7. PmmSteps \in Seq(StepRecord) /\ Len(PmmSteps) = 2
  BY DEF PmmSteps, Step, StepRecord, StepName, Cell
<1>8. AddressSpaceSteps \in Seq(StepRecord) /\ Len(AddressSpaceSteps) = 6
  BY DEF AddressSpaceSteps, Step, StepRecord, StepName, Cell
<1>9. LoadSteps \in Seq(StepRecord) /\ Len(LoadSteps) = 1
  BY DEF LoadSteps, Step, StepRecord, StepName, Cell
<1>10. GicSteps \in Seq(StepRecord) /\ Len(GicSteps) = 4
  BY DEF GicSteps, Step, StepRecord, StepName, Cell
<1>11. TaskArenaSteps \in Seq(StepRecord) /\ Len(TaskArenaSteps) = 1
  BY DEF TaskArenaSteps, Step, StepRecord, StepName, Cell
<1>12. TaskSteps \in Seq(StepRecord) /\ Len(TaskSteps) = 1
  BY DEF TaskSteps, Step, StepRecord, StepName, Cell
<1>13. IpcSteps \in Seq(StepRecord) /\ Len(IpcSteps) = 1
  BY DEF IpcSteps, Step, StepRecord, StepName, Cell
<1>14. SchedSteps \in Seq(StepRecord) /\ Len(SchedSteps) = 2
  BY DEF SchedSteps, Step, StepRecord, StepName, Cell
<1>15. BenchIpcSteps \in Seq(StepRecord) /\ Len(BenchIpcSteps) = 1
  BY DEF BenchIpcSteps, Step, StepRecord, StepName, Cell
<1>16. QED
  BY <1>1, <1>2, <1>3, <1>4, <1>5, <1>6, <1>7, <1>8, <1>9, <1>10, <1>11, <1>12, <1>13, <1>14, <1>15

\* Where each block stands.  What both builds share ends at 29.
CommonScript ==
  ResetSteps \o EntrySteps \o LowMmuSteps \o HighMmuSteps \o MigrationSteps
    \o CpuSteps \o PmmSteps \o AddressSpaceSteps

CommonStands(s) ==
  /\ Stands(s, 0, ResetSteps) /\ Stands(s, 4, EntrySteps) /\ Stands(s, 6, LowMmuSteps)
  /\ Stands(s, 10, HighMmuSteps) /\ Stands(s, 13, MigrationSteps) /\ Stands(s, 18, CpuSteps)
  /\ Stands(s, 21, PmmSteps) /\ Stands(s, 23, AddressSpaceSteps)

LEMMA CommonPlaced ==
  CommonScript \in Seq(StepRecord) /\ Len(CommonScript) = 29 /\ CommonStands(CommonScript)
<1> DEFINE s1 == ResetSteps
           s2 == s1 \o EntrySteps
           s3 == s2 \o LowMmuSteps
           s4 == s3 \o HighMmuSteps
           s5 == s4 \o MigrationSteps
           s6 == s5 \o CpuSteps
           s7 == s6 \o PmmSteps
           s8 == s7 \o AddressSpaceSteps
<1>1. CommonScript = s8
  BY DEF CommonScript
<1>2. s1 \in Seq(StepRecord) /\ Len(s1) = 4 /\ Stands(s1, 0, ResetSteps)
  BY Blocks DEF Stands
<1>3. /\ 0 \in Nat /\ 4 \in Nat /\ 6 \in Nat /\ 10 \in Nat /\ 13 \in Nat /\ 18 \in Nat
      /\ 21 \in Nat /\ 23 \in Nat
  OBVIOUS
<1>4. /\ ResetSteps \in Seq(StepRecord) /\ EntrySteps \in Seq(StepRecord)
      /\ LowMmuSteps \in Seq(StepRecord) /\ HighMmuSteps \in Seq(StepRecord)
      /\ MigrationSteps \in Seq(StepRecord) /\ CpuSteps \in Seq(StepRecord)
      /\ PmmSteps \in Seq(StepRecord) /\ AddressSpaceSteps \in Seq(StepRecord)
  BY Blocks
<1> HIDE DEF s1
<1>5. s2 \in Seq(StepRecord) /\ Len(s2) = 6 /\ Stands(s2, 4, EntrySteps) /\ Keeps(s1, s2)
  <2>1. s2 = s1 \o EntrySteps /\ Len(EntrySteps) = 2
    BY Blocks
  <2> HIDE DEF s2
  <2>2. s2 \in Seq(StepRecord) /\ Len(s2) = Len(s1) + Len(EntrySteps) /\ Stands(s2, Len(s1), EntrySteps)
        /\ Keeps(s1, s2)
    BY <1>2, <1>4, <2>1, Joined
  <2>3. QED
    BY <1>2, <2>1, <2>2
<1> HIDE DEF s2
<1>6. /\ Stands(s2, 0, ResetSteps)
  BY <1>2, <1>3, <1>4, <1>5, KeptStands, Zenon
<1>7. s3 \in Seq(StepRecord) /\ Len(s3) = 10 /\ Stands(s3, 6, LowMmuSteps) /\ Keeps(s2, s3)
  <2>1. s3 = s2 \o LowMmuSteps /\ Len(LowMmuSteps) = 4
    BY Blocks
  <2> HIDE DEF s3
  <2>2. s3 \in Seq(StepRecord) /\ Len(s3) = Len(s2) + Len(LowMmuSteps) /\ Stands(s3, Len(s2), LowMmuSteps)
        /\ Keeps(s2, s3)
    BY <1>5, <1>4, <2>1, Joined
  <2>3. QED
    BY <1>5, <2>1, <2>2
<1> HIDE DEF s3
<1>8. /\ Stands(s3, 0, ResetSteps) /\ Stands(s3, 4, EntrySteps)
  BY <1>5, <1>6, <1>3, <1>4, <1>7, KeptStands, Zenon
<1>9. s4 \in Seq(StepRecord) /\ Len(s4) = 13 /\ Stands(s4, 10, HighMmuSteps) /\ Keeps(s3, s4)
  <2>1. s4 = s3 \o HighMmuSteps /\ Len(HighMmuSteps) = 3
    BY Blocks
  <2> HIDE DEF s4
  <2>2. s4 \in Seq(StepRecord) /\ Len(s4) = Len(s3) + Len(HighMmuSteps) /\ Stands(s4, Len(s3), HighMmuSteps)
        /\ Keeps(s3, s4)
    BY <1>7, <1>4, <2>1, Joined
  <2>3. QED
    BY <1>7, <2>1, <2>2
<1> HIDE DEF s4
<1>10. /\ Stands(s4, 0, ResetSteps) /\ Stands(s4, 4, EntrySteps)
       /\ Stands(s4, 6, LowMmuSteps)
  BY <1>7, <1>8, <1>3, <1>4, <1>9, KeptStands, Zenon
<1>11. s5 \in Seq(StepRecord) /\ Len(s5) = 18 /\ Stands(s5, 13, MigrationSteps) /\ Keeps(s4, s5)
  <2>1. s5 = s4 \o MigrationSteps /\ Len(MigrationSteps) = 5
    BY Blocks
  <2> HIDE DEF s5
  <2>2. s5 \in Seq(StepRecord) /\ Len(s5) = Len(s4) + Len(MigrationSteps) /\ Stands(s5, Len(s4), MigrationSteps)
        /\ Keeps(s4, s5)
    BY <1>9, <1>4, <2>1, Joined
  <2>3. QED
    BY <1>9, <2>1, <2>2
<1> HIDE DEF s5
<1>12. /\ Stands(s5, 0, ResetSteps) /\ Stands(s5, 4, EntrySteps)
       /\ Stands(s5, 6, LowMmuSteps) /\ Stands(s5, 10, HighMmuSteps)
  BY <1>9, <1>10, <1>3, <1>4, <1>11, KeptStands, Zenon
<1>13. s6 \in Seq(StepRecord) /\ Len(s6) = 21 /\ Stands(s6, 18, CpuSteps) /\ Keeps(s5, s6)
  <2>1. s6 = s5 \o CpuSteps /\ Len(CpuSteps) = 3
    BY Blocks
  <2> HIDE DEF s6
  <2>2. s6 \in Seq(StepRecord) /\ Len(s6) = Len(s5) + Len(CpuSteps) /\ Stands(s6, Len(s5), CpuSteps)
        /\ Keeps(s5, s6)
    BY <1>11, <1>4, <2>1, Joined
  <2>3. QED
    BY <1>11, <2>1, <2>2
<1> HIDE DEF s6
<1>14. /\ Stands(s6, 0, ResetSteps) /\ Stands(s6, 4, EntrySteps)
       /\ Stands(s6, 6, LowMmuSteps) /\ Stands(s6, 10, HighMmuSteps)
       /\ Stands(s6, 13, MigrationSteps)
  BY <1>11, <1>12, <1>3, <1>4, <1>13, KeptStands, Zenon
<1>15. s7 \in Seq(StepRecord) /\ Len(s7) = 23 /\ Stands(s7, 21, PmmSteps) /\ Keeps(s6, s7)
  <2>1. s7 = s6 \o PmmSteps /\ Len(PmmSteps) = 2
    BY Blocks
  <2> HIDE DEF s7
  <2>2. s7 \in Seq(StepRecord) /\ Len(s7) = Len(s6) + Len(PmmSteps) /\ Stands(s7, Len(s6), PmmSteps)
        /\ Keeps(s6, s7)
    BY <1>13, <1>4, <2>1, Joined
  <2>3. QED
    BY <1>13, <2>1, <2>2
<1> HIDE DEF s7
<1>16. /\ Stands(s7, 0, ResetSteps) /\ Stands(s7, 4, EntrySteps)
       /\ Stands(s7, 6, LowMmuSteps) /\ Stands(s7, 10, HighMmuSteps)
       /\ Stands(s7, 13, MigrationSteps) /\ Stands(s7, 18, CpuSteps)
  BY <1>13, <1>14, <1>3, <1>4, <1>15, KeptStands, Zenon
<1>17. s8 \in Seq(StepRecord) /\ Len(s8) = 29 /\ Stands(s8, 23, AddressSpaceSteps) /\ Keeps(s7, s8)
  <2>1. s8 = s7 \o AddressSpaceSteps /\ Len(AddressSpaceSteps) = 6
    BY Blocks
  <2> HIDE DEF s8
  <2>2. s8 \in Seq(StepRecord) /\ Len(s8) = Len(s7) + Len(AddressSpaceSteps) /\ Stands(s8, Len(s7), AddressSpaceSteps)
        /\ Keeps(s7, s8)
    BY <1>15, <1>4, <2>1, Joined
  <2>3. QED
    BY <1>15, <2>1, <2>2
<1> HIDE DEF s8
<1>18. /\ Stands(s8, 0, ResetSteps) /\ Stands(s8, 4, EntrySteps)
       /\ Stands(s8, 6, LowMmuSteps) /\ Stands(s8, 10, HighMmuSteps)
       /\ Stands(s8, 13, MigrationSteps) /\ Stands(s8, 18, CpuSteps)
       /\ Stands(s8, 21, PmmSteps)
  BY <1>15, <1>16, <1>3, <1>4, <1>17, KeptStands, Zenon
<1>19. QED
  BY <1>1, <1>17, <1>18, Zenon DEF CommonStands

\* The two tails.
ProductionTail == LoadSteps \o GicSteps \o TaskArenaSteps \o TaskSteps \o IpcSteps \o SchedSteps
BenchTail == TaskArenaSteps \o LoadSteps \o TaskSteps \o BenchIpcSteps \o SchedSteps

LEMMA ProductionTailPlaced ==
  /\ ProductionTail \in Seq(StepRecord) /\ Len(ProductionTail) = 10
  /\ Stands(ProductionTail, 0, LoadSteps) /\ Stands(ProductionTail, 1, GicSteps)
  /\ Stands(ProductionTail, 5, TaskArenaSteps) /\ Stands(ProductionTail, 6, TaskSteps)
  /\ Stands(ProductionTail, 7, IpcSteps) /\ Stands(ProductionTail, 8, SchedSteps)
<1> DEFINE s1 == LoadSteps
           s2 == s1 \o GicSteps
           s3 == s2 \o TaskArenaSteps
           s4 == s3 \o TaskSteps
           s5 == s4 \o IpcSteps
           s6 == s5 \o SchedSteps
<1>1. ProductionTail = s6
  BY DEF ProductionTail
<1>2. s1 \in Seq(StepRecord) /\ Len(s1) = 1 /\ Stands(s1, 0, LoadSteps)
  BY Blocks DEF Stands
<1>3. /\ 0 \in Nat /\ 1 \in Nat /\ 5 \in Nat /\ 6 \in Nat /\ 7 \in Nat /\ 8 \in Nat
  OBVIOUS
<1>4. /\ LoadSteps \in Seq(StepRecord) /\ GicSteps \in Seq(StepRecord)
      /\ TaskArenaSteps \in Seq(StepRecord) /\ TaskSteps \in Seq(StepRecord)
      /\ IpcSteps \in Seq(StepRecord) /\ SchedSteps \in Seq(StepRecord)
  BY Blocks
<1> HIDE DEF s1
<1>5. s2 \in Seq(StepRecord) /\ Len(s2) = 5 /\ Stands(s2, 1, GicSteps) /\ Keeps(s1, s2)
  <2>1. s2 = s1 \o GicSteps /\ Len(GicSteps) = 4
    BY Blocks
  <2> HIDE DEF s2
  <2>2. s2 \in Seq(StepRecord) /\ Len(s2) = Len(s1) + Len(GicSteps) /\ Stands(s2, Len(s1), GicSteps)
        /\ Keeps(s1, s2)
    BY <1>2, <1>4, <2>1, Joined
  <2>3. QED
    BY <1>2, <2>1, <2>2
<1> HIDE DEF s2
<1>6. /\ Stands(s2, 0, LoadSteps)
  BY <1>2, <1>3, <1>4, <1>5, KeptStands, Zenon
<1>7. s3 \in Seq(StepRecord) /\ Len(s3) = 6 /\ Stands(s3, 5, TaskArenaSteps) /\ Keeps(s2, s3)
  <2>1. s3 = s2 \o TaskArenaSteps /\ Len(TaskArenaSteps) = 1
    BY Blocks
  <2> HIDE DEF s3
  <2>2. s3 \in Seq(StepRecord) /\ Len(s3) = Len(s2) + Len(TaskArenaSteps) /\ Stands(s3, Len(s2), TaskArenaSteps)
        /\ Keeps(s2, s3)
    BY <1>5, <1>4, <2>1, Joined
  <2>3. QED
    BY <1>5, <2>1, <2>2
<1> HIDE DEF s3
<1>8. /\ Stands(s3, 0, LoadSteps) /\ Stands(s3, 1, GicSteps)
  BY <1>5, <1>6, <1>3, <1>4, <1>7, KeptStands, Zenon
<1>9. s4 \in Seq(StepRecord) /\ Len(s4) = 7 /\ Stands(s4, 6, TaskSteps) /\ Keeps(s3, s4)
  <2>1. s4 = s3 \o TaskSteps /\ Len(TaskSteps) = 1
    BY Blocks
  <2> HIDE DEF s4
  <2>2. s4 \in Seq(StepRecord) /\ Len(s4) = Len(s3) + Len(TaskSteps) /\ Stands(s4, Len(s3), TaskSteps)
        /\ Keeps(s3, s4)
    BY <1>7, <1>4, <2>1, Joined
  <2>3. QED
    BY <1>7, <2>1, <2>2
<1> HIDE DEF s4
<1>10. /\ Stands(s4, 0, LoadSteps) /\ Stands(s4, 1, GicSteps)
       /\ Stands(s4, 5, TaskArenaSteps)
  BY <1>7, <1>8, <1>3, <1>4, <1>9, KeptStands, Zenon
<1>11. s5 \in Seq(StepRecord) /\ Len(s5) = 8 /\ Stands(s5, 7, IpcSteps) /\ Keeps(s4, s5)
  <2>1. s5 = s4 \o IpcSteps /\ Len(IpcSteps) = 1
    BY Blocks
  <2> HIDE DEF s5
  <2>2. s5 \in Seq(StepRecord) /\ Len(s5) = Len(s4) + Len(IpcSteps) /\ Stands(s5, Len(s4), IpcSteps)
        /\ Keeps(s4, s5)
    BY <1>9, <1>4, <2>1, Joined
  <2>3. QED
    BY <1>9, <2>1, <2>2
<1> HIDE DEF s5
<1>12. /\ Stands(s5, 0, LoadSteps) /\ Stands(s5, 1, GicSteps)
       /\ Stands(s5, 5, TaskArenaSteps) /\ Stands(s5, 6, TaskSteps)
  BY <1>9, <1>10, <1>3, <1>4, <1>11, KeptStands, Zenon
<1>13. s6 \in Seq(StepRecord) /\ Len(s6) = 10 /\ Stands(s6, 8, SchedSteps) /\ Keeps(s5, s6)
  <2>1. s6 = s5 \o SchedSteps /\ Len(SchedSteps) = 2
    BY Blocks
  <2> HIDE DEF s6
  <2>2. s6 \in Seq(StepRecord) /\ Len(s6) = Len(s5) + Len(SchedSteps) /\ Stands(s6, Len(s5), SchedSteps)
        /\ Keeps(s5, s6)
    BY <1>11, <1>4, <2>1, Joined
  <2>3. QED
    BY <1>11, <2>1, <2>2
<1> HIDE DEF s6
<1>14. /\ Stands(s6, 0, LoadSteps) /\ Stands(s6, 1, GicSteps)
       /\ Stands(s6, 5, TaskArenaSteps) /\ Stands(s6, 6, TaskSteps)
       /\ Stands(s6, 7, IpcSteps)
  BY <1>11, <1>12, <1>3, <1>4, <1>13, KeptStands, Zenon
<1>15. QED
  BY <1>1, <1>13, <1>14, Zenon

LEMMA BenchTailPlaced ==
  /\ BenchTail \in Seq(StepRecord) /\ Len(BenchTail) = 6
  /\ Stands(BenchTail, 0, TaskArenaSteps) /\ Stands(BenchTail, 1, LoadSteps)
  /\ Stands(BenchTail, 2, TaskSteps) /\ Stands(BenchTail, 3, BenchIpcSteps)
  /\ Stands(BenchTail, 4, SchedSteps)
<1> DEFINE s1 == TaskArenaSteps
           s2 == s1 \o LoadSteps
           s3 == s2 \o TaskSteps
           s4 == s3 \o BenchIpcSteps
           s5 == s4 \o SchedSteps
<1>1. BenchTail = s5
  BY DEF BenchTail
<1>2. s1 \in Seq(StepRecord) /\ Len(s1) = 1 /\ Stands(s1, 0, TaskArenaSteps)
  BY Blocks DEF Stands
<1>3. /\ 0 \in Nat /\ 1 \in Nat /\ 2 \in Nat /\ 3 \in Nat /\ 4 \in Nat
  OBVIOUS
<1>4. /\ TaskArenaSteps \in Seq(StepRecord) /\ LoadSteps \in Seq(StepRecord)
      /\ TaskSteps \in Seq(StepRecord) /\ BenchIpcSteps \in Seq(StepRecord)
      /\ SchedSteps \in Seq(StepRecord)
  BY Blocks
<1> HIDE DEF s1
<1>5. s2 \in Seq(StepRecord) /\ Len(s2) = 2 /\ Stands(s2, 1, LoadSteps) /\ Keeps(s1, s2)
  <2>1. s2 = s1 \o LoadSteps /\ Len(LoadSteps) = 1
    BY Blocks
  <2> HIDE DEF s2
  <2>2. s2 \in Seq(StepRecord) /\ Len(s2) = Len(s1) + Len(LoadSteps) /\ Stands(s2, Len(s1), LoadSteps)
        /\ Keeps(s1, s2)
    BY <1>2, <1>4, <2>1, Joined
  <2>3. QED
    BY <1>2, <2>1, <2>2
<1> HIDE DEF s2
<1>6. /\ Stands(s2, 0, TaskArenaSteps)
  BY <1>2, <1>3, <1>4, <1>5, KeptStands, Zenon
<1>7. s3 \in Seq(StepRecord) /\ Len(s3) = 3 /\ Stands(s3, 2, TaskSteps) /\ Keeps(s2, s3)
  <2>1. s3 = s2 \o TaskSteps /\ Len(TaskSteps) = 1
    BY Blocks
  <2> HIDE DEF s3
  <2>2. s3 \in Seq(StepRecord) /\ Len(s3) = Len(s2) + Len(TaskSteps) /\ Stands(s3, Len(s2), TaskSteps)
        /\ Keeps(s2, s3)
    BY <1>5, <1>4, <2>1, Joined
  <2>3. QED
    BY <1>5, <2>1, <2>2
<1> HIDE DEF s3
<1>8. /\ Stands(s3, 0, TaskArenaSteps) /\ Stands(s3, 1, LoadSteps)
  BY <1>5, <1>6, <1>3, <1>4, <1>7, KeptStands, Zenon
<1>9. s4 \in Seq(StepRecord) /\ Len(s4) = 4 /\ Stands(s4, 3, BenchIpcSteps) /\ Keeps(s3, s4)
  <2>1. s4 = s3 \o BenchIpcSteps /\ Len(BenchIpcSteps) = 1
    BY Blocks
  <2> HIDE DEF s4
  <2>2. s4 \in Seq(StepRecord) /\ Len(s4) = Len(s3) + Len(BenchIpcSteps) /\ Stands(s4, Len(s3), BenchIpcSteps)
        /\ Keeps(s3, s4)
    BY <1>7, <1>4, <2>1, Joined
  <2>3. QED
    BY <1>7, <2>1, <2>2
<1> HIDE DEF s4
<1>10. /\ Stands(s4, 0, TaskArenaSteps) /\ Stands(s4, 1, LoadSteps)
       /\ Stands(s4, 2, TaskSteps)
  BY <1>7, <1>8, <1>3, <1>4, <1>9, KeptStands, Zenon
<1>11. s5 \in Seq(StepRecord) /\ Len(s5) = 6 /\ Stands(s5, 4, SchedSteps) /\ Keeps(s4, s5)
  <2>1. s5 = s4 \o SchedSteps /\ Len(SchedSteps) = 2
    BY Blocks
  <2> HIDE DEF s5
  <2>2. s5 \in Seq(StepRecord) /\ Len(s5) = Len(s4) + Len(SchedSteps) /\ Stands(s5, Len(s4), SchedSteps)
        /\ Keeps(s4, s5)
    BY <1>9, <1>4, <2>1, Joined
  <2>3. QED
    BY <1>9, <2>1, <2>2
<1> HIDE DEF s5
<1>12. /\ Stands(s5, 0, TaskArenaSteps) /\ Stands(s5, 1, LoadSteps)
       /\ Stands(s5, 2, TaskSteps) /\ Stands(s5, 3, BenchIpcSteps)
  BY <1>9, <1>10, <1>3, <1>4, <1>11, KeptStands, Zenon
<1>13. QED
  BY <1>1, <1>11, <1>12, Zenon

\* The script, step by step: what both builds share, ...
CommonTable(s) ==
  /\ s[1] = Step("mask_daif", {}, {})
  /\ s[2] = Step("drop_el", {}, {})
  /\ s[3] = Step("stack", {}, {})
  /\ s[4] = Step("zero_bss", {}, {})
  /\ s[5] = Step("low_console", {}, {})
  /\ s[6] = Step("low_vectors", {}, {})
  /\ s[7] = Step("low_tables", {}, {})
  /\ s[8] = Step("ttbr0", {}, {})
  /\ s[9] = Step("mmu_on", {}, {})
  /\ s[10] = Step("low_console", {}, {})
  /\ s[11] = Step("high_tables", {}, {})
  /\ s[12] = Step("ttbr1", {}, {})
  /\ s[13] = Step("walk1", {}, {})
  /\ s[14] = Step("high_vectors", {}, {})
  /\ s[15] = Step("high_stack", {}, {})
  /\ s[16] = Step("branch_high", {}, {})
  /\ s[17] = Step("null_ttbr0", {}, {})
  /\ s[18] = Step("walk0_off", {}, {})
  /\ s[19] = Step("cpu", {}, {"CONSOLE", "CPU"})
  /\ s[20] = Step("console", {"CONSOLE"}, {})
  /\ s[21] = Step("boot_time", {"CPU"}, {"BOOT_NS"})
  /\ s[22] = Step("pmm", {}, {"PMM"})
  /\ s[23] = Step("console", {"PMM", "CONSOLE"}, {})
  /\ s[24] = Step("mmu", {}, {"MMU"})
  /\ s[25] = Step("as_arena", {}, {"AS_ARENA"})
  /\ s[26] = Step("bootstrap_as", {"AS_ARENA"}, {"BOOTSTRAP_AS"})
  /\ s[27] = Step("as_table", {}, {"BOOTSTRAP_AS_TABLE"})
  /\ s[28] = Step("as_cap", {"BOOTSTRAP_AS_TABLE"}, {"BOOTSTRAP_AS_CAP"})
  /\ s[29] = Step("console", {"CONSOLE"}, {})

\* ... the rest of the production build, ...
ProductionTable(s) ==
  /\ s[30] = Step("load_image", {"BOOTSTRAP_AS_TABLE", "BOOTSTRAP_AS_CAP", "AS_ARENA", "PMM", "MMU"}, {})
  /\ s[31] = Step("gic_cell", {}, {"GIC"})
  /\ s[32] = Step("gic_init", {"GIC"}, {})
  /\ s[33] = Step("unmask", {}, {})
  /\ s[34] = Step("console", {"CONSOLE", "CPU"}, {})
  /\ s[35] = Step("task_arena", {}, {"TASK_ARENA"})
  /\ s[36] = Step("create_tasks", {"TASK_ARENA", "BOOTSTRAP_AS_TABLE"}, {})
  /\ s[37] = Step("publish_ipc", {}, {"EP_ARENA", "IPC_QUEUES", "FAILCLOSED_TABLE", "TABLE_A", "TABLE_B", "EP_CAP_A", "EP_CAP_B", "USER_TASK_TABLE"})
  /\ s[38] = Step("scheduler", {"CPU"}, {"SCHED"})
  /\ s[39] = Step("console", {"CONSOLE"}, {})

\* ... and the rest of the measurement build.
BenchTable(s) ==
  /\ s[30] = Step("task_arena", {}, {"TASK_ARENA"})
  /\ s[31] = Step("load_image", {"BOOTSTRAP_AS_TABLE", "BOOTSTRAP_AS_CAP", "AS_ARENA", "PMM", "MMU"}, {})
  /\ s[32] = Step("create_tasks", {"TASK_ARENA", "BOOTSTRAP_AS_TABLE"}, {})
  /\ s[33] = Step("publish_ipc", {}, {"EP_ARENA", "IPC_QUEUES", "TABLE_A", "TABLE_B", "USER_TASK_TABLE"})
  /\ s[34] = Step("scheduler", {"CPU"}, {"SCHED"})
  /\ s[35] = Step("console", {"CONSOLE"}, {})

LEMMA ScriptPlaced ==
  ASSUME build \in {"production", "perf-bench"}
  PROVE  /\ CommonStands(Script)
         /\ build = "production" => Len(Script) = 39 /\ Stands(Script, 29, ProductionTail)
         /\ build = "perf-bench" => Len(Script) = 35 /\ Stands(Script, 29, BenchTail)
<1> DEFINE tail == IF build = "production" THEN ProductionTail ELSE BenchTail
<1>1. Script = CommonScript \o tail
  BY DEF Script, CommonScript, ProductionTail, BenchTail
<1>2. /\ tail \in Seq(StepRecord)
      /\ build = "production" => tail = ProductionTail /\ Len(tail) = 10
      /\ build = "perf-bench" => tail = BenchTail /\ Len(tail) = 6
  BY ProductionTailPlaced, BenchTailPlaced
<1>3. /\ CommonScript \in Seq(StepRecord) /\ Len(CommonScript) = 29
      /\ Stands(CommonScript, 0, ResetSteps) /\ Stands(CommonScript, 4, EntrySteps)
      /\ Stands(CommonScript, 6, LowMmuSteps) /\ Stands(CommonScript, 10, HighMmuSteps)
      /\ Stands(CommonScript, 13, MigrationSteps) /\ Stands(CommonScript, 18, CpuSteps)
      /\ Stands(CommonScript, 21, PmmSteps) /\ Stands(CommonScript, 23, AddressSpaceSteps)
  BY CommonPlaced DEF CommonStands
<1> HIDE DEF tail
<1>4. /\ Len(Script) = Len(CommonScript) + Len(tail)
      /\ Stands(Script, Len(CommonScript), tail)
      /\ Keeps(CommonScript, Script)
  BY <1>1, <1>2, <1>3, Joined
<1>5. /\ 0 \in Nat /\ 4 \in Nat /\ 6 \in Nat /\ 10 \in Nat /\ 13 \in Nat /\ 18 \in Nat /\ 21 \in Nat
      /\ 23 \in Nat
  OBVIOUS
<1>6. /\ ResetSteps \in Seq(StepRecord) /\ EntrySteps \in Seq(StepRecord)
      /\ LowMmuSteps \in Seq(StepRecord) /\ HighMmuSteps \in Seq(StepRecord)
      /\ MigrationSteps \in Seq(StepRecord) /\ CpuSteps \in Seq(StepRecord)
      /\ PmmSteps \in Seq(StepRecord) /\ AddressSpaceSteps \in Seq(StepRecord)
  BY Blocks
<1>7. CommonStands(Script)
  BY <1>3, <1>4, <1>5, <1>6, KeptStands DEF CommonStands
<1>8. Len(Script) = 29 + Len(tail)
  BY <1>3, <1>4
<1>9. Stands(Script, 29, tail)
  BY <1>3, <1>4
<1>10. ASSUME build = "production"
       PROVE  Len(Script) = 39 /\ Stands(Script, 29, ProductionTail)
  <2>1. tail = ProductionTail /\ Len(tail) = 10
    BY <1>2, <1>10, Zenon
  <2>2. Len(Script) = 39
    BY <1>8, <2>1
  <2>3. QED
    BY <1>9, <2>1, <2>2
<1>11. ASSUME build = "perf-bench"
       PROVE  Len(Script) = 35 /\ Stands(Script, 29, BenchTail)
  <2>1. tail = BenchTail /\ Len(tail) = 6
    BY <1>2, <1>11, Zenon
  <2>2. Len(Script) = 35
    BY <1>8, <2>1
  <2>3. QED
    BY <1>9, <2>1, <2>2
<1>12. QED
  BY <1>7, <1>10, <1>11, Zenon

\* What stands in a part of a script stands in the script.
LEMMA StandsWithin ==
  ASSUME NEW s, NEW k \in Nat, NEW t, Stands(s, k, t), Len(s) \in Nat, Len(t) \in Nat,
         NEW j \in Nat, NEW part, Stands(t, j, part), Len(part) \in Nat,
         NEW o, o = k + j
  PROVE  Stands(s, o, part)
<1>1. j + Len(part) <= Len(t) /\ k + Len(t) <= Len(s)
  BY DEF Stands
<1>2. \A i \in 1 .. Len(part) : j + i \in 1 .. Len(t) /\ t[j + i] = part[i]
  BY DEF Stands
<1>3. \A i \in 1 .. Len(t) : s[k + i] = t[i]
  BY DEF Stands
<1>4. ASSUME NEW i \in 1 .. Len(part)
      PROVE  s[o + i] = part[i]
  <2>1. s[k + (j + i)] = part[i]
    BY <1>2, <1>3, <1>4
  <2>2. k + (j + i) = o + i
    BY <1>4
  <2>3. QED
    BY <2>1, <2>2
<1>5. QED
  BY <1>1, <1>4 DEF Stands

LEMMA ScriptCommon ==
  ASSUME build \in {"production", "perf-bench"}
  PROVE  CommonTable(Script)
<1>1. CommonStands(Script)
  BY ScriptPlaced
<1>2. /\ Script[1] = Step("mask_daif", {}, {})
      /\ Script[2] = Step("drop_el", {}, {})
      /\ Script[3] = Step("stack", {}, {})
      /\ Script[4] = Step("zero_bss", {}, {})
  <2>1. \A i \in 1 .. 4 : Script[0 + i] = ResetSteps[i]
    BY <1>1, Blocks DEF CommonStands, Stands
  <2>2. /\ Script[1] = ResetSteps[1]
        /\ Script[2] = ResetSteps[2]
        /\ Script[3] = ResetSteps[3]
        /\ Script[4] = ResetSteps[4]
    BY <2>1
  <2>3. QED
    BY <2>2 DEF ResetSteps
<1>3. /\ Script[5] = Step("low_console", {}, {})
      /\ Script[6] = Step("low_vectors", {}, {})
  <2>1. \A i \in 1 .. 2 : Script[4 + i] = EntrySteps[i]
    BY <1>1, Blocks DEF CommonStands, Stands
  <2>2. /\ Script[5] = EntrySteps[1]
        /\ Script[6] = EntrySteps[2]
    BY <2>1
  <2>3. QED
    BY <2>2 DEF EntrySteps
<1>4. /\ Script[7] = Step("low_tables", {}, {})
      /\ Script[8] = Step("ttbr0", {}, {})
      /\ Script[9] = Step("mmu_on", {}, {})
      /\ Script[10] = Step("low_console", {}, {})
  <2>1. \A i \in 1 .. 4 : Script[6 + i] = LowMmuSteps[i]
    BY <1>1, Blocks DEF CommonStands, Stands
  <2>2. /\ Script[7] = LowMmuSteps[1]
        /\ Script[8] = LowMmuSteps[2]
        /\ Script[9] = LowMmuSteps[3]
        /\ Script[10] = LowMmuSteps[4]
    BY <2>1
  <2>3. QED
    BY <2>2 DEF LowMmuSteps
<1>5. /\ Script[11] = Step("high_tables", {}, {})
      /\ Script[12] = Step("ttbr1", {}, {})
      /\ Script[13] = Step("walk1", {}, {})
  <2>1. \A i \in 1 .. 3 : Script[10 + i] = HighMmuSteps[i]
    BY <1>1, Blocks DEF CommonStands, Stands
  <2>2. /\ Script[11] = HighMmuSteps[1]
        /\ Script[12] = HighMmuSteps[2]
        /\ Script[13] = HighMmuSteps[3]
    BY <2>1
  <2>3. QED
    BY <2>2 DEF HighMmuSteps
<1>6. /\ Script[14] = Step("high_vectors", {}, {})
      /\ Script[15] = Step("high_stack", {}, {})
      /\ Script[16] = Step("branch_high", {}, {})
      /\ Script[17] = Step("null_ttbr0", {}, {})
      /\ Script[18] = Step("walk0_off", {}, {})
  <2>1. \A i \in 1 .. 5 : Script[13 + i] = MigrationSteps[i]
    BY <1>1, Blocks DEF CommonStands, Stands
  <2>2. /\ Script[14] = MigrationSteps[1]
        /\ Script[15] = MigrationSteps[2]
        /\ Script[16] = MigrationSteps[3]
        /\ Script[17] = MigrationSteps[4]
        /\ Script[18] = MigrationSteps[5]
    BY <2>1
  <2>3. QED
    BY <2>2 DEF MigrationSteps
<1>7. /\ Script[19] = Step("cpu", {}, {"CONSOLE", "CPU"})
      /\ Script[20] = Step("console", {"CONSOLE"}, {})
      /\ Script[21] = Step("boot_time", {"CPU"}, {"BOOT_NS"})
  <2>1. \A i \in 1 .. 3 : Script[18 + i] = CpuSteps[i]
    BY <1>1, Blocks DEF CommonStands, Stands
  <2>2. /\ Script[19] = CpuSteps[1]
        /\ Script[20] = CpuSteps[2]
        /\ Script[21] = CpuSteps[3]
    BY <2>1
  <2>3. QED
    BY <2>2 DEF CpuSteps
<1>8. /\ Script[22] = Step("pmm", {}, {"PMM"})
      /\ Script[23] = Step("console", {"PMM", "CONSOLE"}, {})
  <2>1. \A i \in 1 .. 2 : Script[21 + i] = PmmSteps[i]
    BY <1>1, Blocks DEF CommonStands, Stands
  <2>2. /\ Script[22] = PmmSteps[1]
        /\ Script[23] = PmmSteps[2]
    BY <2>1
  <2>3. QED
    BY <2>2 DEF PmmSteps
<1>9. /\ Script[24] = Step("mmu", {}, {"MMU"})
      /\ Script[25] = Step("as_arena", {}, {"AS_ARENA"})
      /\ Script[26] = Step("bootstrap_as", {"AS_ARENA"}, {"BOOTSTRAP_AS"})
      /\ Script[27] = Step("as_table", {}, {"BOOTSTRAP_AS_TABLE"})
      /\ Script[28] = Step("as_cap", {"BOOTSTRAP_AS_TABLE"}, {"BOOTSTRAP_AS_CAP"})
      /\ Script[29] = Step("console", {"CONSOLE"}, {})
  <2>1. \A i \in 1 .. 6 : Script[23 + i] = AddressSpaceSteps[i]
    BY <1>1, Blocks DEF CommonStands, Stands
  <2>2. /\ Script[24] = AddressSpaceSteps[1]
        /\ Script[25] = AddressSpaceSteps[2]
        /\ Script[26] = AddressSpaceSteps[3]
        /\ Script[27] = AddressSpaceSteps[4]
        /\ Script[28] = AddressSpaceSteps[5]
        /\ Script[29] = AddressSpaceSteps[6]
    BY <2>1
  <2>3. QED
    BY <2>2 DEF AddressSpaceSteps
<1>10. QED
  BY <1>2, <1>3, <1>4, <1>5, <1>6, <1>7, <1>8, <1>9 DEF CommonTable

LEMMA ScriptProduction ==
  ASSUME build = "production"
  PROVE  ProductionTable(Script)
<1>1. Stands(Script, 29, ProductionTail) /\ Len(ProductionTail) \in Nat /\ Len(Script) \in Nat
  BY ScriptPlaced, ProductionTailPlaced
<1>2. /\ Script[30] = Step("load_image", {"BOOTSTRAP_AS_TABLE", "BOOTSTRAP_AS_CAP", "AS_ARENA", "PMM", "MMU"}, {})
  <2>1. /\ Stands(ProductionTail, 0, LoadSteps) /\ Len(LoadSteps) = 1
        /\ 29 \in Nat /\ 0 \in Nat /\ Len(LoadSteps) \in Nat
    BY Blocks, ProductionTailPlaced
  <2>2. Stands(Script, 29, LoadSteps)
    BY <1>1, <2>1, StandsWithin
  <2>3. \A i \in 1 .. 1 : Script[29 + i] = LoadSteps[i]
    BY <2>1, <2>2 DEF Stands
  <2>4. /\ Script[30] = LoadSteps[1]
    BY <2>3
  <2>5. QED
    BY <2>4 DEF LoadSteps
<1>3. /\ Script[31] = Step("gic_cell", {}, {"GIC"})
      /\ Script[32] = Step("gic_init", {"GIC"}, {})
      /\ Script[33] = Step("unmask", {}, {})
      /\ Script[34] = Step("console", {"CONSOLE", "CPU"}, {})
  <2>1. /\ Stands(ProductionTail, 1, GicSteps) /\ Len(GicSteps) = 4
        /\ 29 \in Nat /\ 1 \in Nat /\ Len(GicSteps) \in Nat
    BY Blocks, ProductionTailPlaced
  <2>2. Stands(Script, 30, GicSteps)
    BY <1>1, <2>1, StandsWithin
  <2>3. \A i \in 1 .. 4 : Script[30 + i] = GicSteps[i]
    BY <2>1, <2>2 DEF Stands
  <2>4. /\ Script[31] = GicSteps[1]
        /\ Script[32] = GicSteps[2]
        /\ Script[33] = GicSteps[3]
        /\ Script[34] = GicSteps[4]
    BY <2>3
  <2>5. QED
    BY <2>4 DEF GicSteps
<1>4. /\ Script[35] = Step("task_arena", {}, {"TASK_ARENA"})
  <2>1. /\ Stands(ProductionTail, 5, TaskArenaSteps) /\ Len(TaskArenaSteps) = 1
        /\ 29 \in Nat /\ 5 \in Nat /\ Len(TaskArenaSteps) \in Nat
    BY Blocks, ProductionTailPlaced
  <2>2. Stands(Script, 34, TaskArenaSteps)
    BY <1>1, <2>1, StandsWithin
  <2>3. \A i \in 1 .. 1 : Script[34 + i] = TaskArenaSteps[i]
    BY <2>1, <2>2 DEF Stands
  <2>4. /\ Script[35] = TaskArenaSteps[1]
    BY <2>3
  <2>5. QED
    BY <2>4 DEF TaskArenaSteps
<1>5. /\ Script[36] = Step("create_tasks", {"TASK_ARENA", "BOOTSTRAP_AS_TABLE"}, {})
  <2>1. /\ Stands(ProductionTail, 6, TaskSteps) /\ Len(TaskSteps) = 1
        /\ 29 \in Nat /\ 6 \in Nat /\ Len(TaskSteps) \in Nat
    BY Blocks, ProductionTailPlaced
  <2>2. Stands(Script, 35, TaskSteps)
    BY <1>1, <2>1, StandsWithin
  <2>3. \A i \in 1 .. 1 : Script[35 + i] = TaskSteps[i]
    BY <2>1, <2>2 DEF Stands
  <2>4. /\ Script[36] = TaskSteps[1]
    BY <2>3
  <2>5. QED
    BY <2>4 DEF TaskSteps
<1>6. /\ Script[37] = Step("publish_ipc", {}, {"EP_ARENA", "IPC_QUEUES", "FAILCLOSED_TABLE", "TABLE_A", "TABLE_B", "EP_CAP_A", "EP_CAP_B", "USER_TASK_TABLE"})
  <2>1. /\ Stands(ProductionTail, 7, IpcSteps) /\ Len(IpcSteps) = 1
        /\ 29 \in Nat /\ 7 \in Nat /\ Len(IpcSteps) \in Nat
    BY Blocks, ProductionTailPlaced
  <2>2. Stands(Script, 36, IpcSteps)
    BY <1>1, <2>1, StandsWithin
  <2>3. \A i \in 1 .. 1 : Script[36 + i] = IpcSteps[i]
    BY <2>1, <2>2 DEF Stands
  <2>4. /\ Script[37] = IpcSteps[1]
    BY <2>3
  <2>5. QED
    BY <2>4 DEF IpcSteps
<1>7. /\ Script[38] = Step("scheduler", {"CPU"}, {"SCHED"})
      /\ Script[39] = Step("console", {"CONSOLE"}, {})
  <2>1. /\ Stands(ProductionTail, 8, SchedSteps) /\ Len(SchedSteps) = 2
        /\ 29 \in Nat /\ 8 \in Nat /\ Len(SchedSteps) \in Nat
    BY Blocks, ProductionTailPlaced
  <2>2. Stands(Script, 37, SchedSteps)
    BY <1>1, <2>1, StandsWithin
  <2>3. \A i \in 1 .. 2 : Script[37 + i] = SchedSteps[i]
    BY <2>1, <2>2 DEF Stands
  <2>4. /\ Script[38] = SchedSteps[1]
        /\ Script[39] = SchedSteps[2]
    BY <2>3
  <2>5. QED
    BY <2>4 DEF SchedSteps
<1>8. QED
  BY <1>2, <1>3, <1>4, <1>5, <1>6, <1>7 DEF ProductionTable

LEMMA ScriptBench ==
  ASSUME build = "perf-bench"
  PROVE  BenchTable(Script)
<1>1. Stands(Script, 29, BenchTail) /\ Len(BenchTail) \in Nat /\ Len(Script) \in Nat
  BY ScriptPlaced, BenchTailPlaced
<1>2. /\ Script[30] = Step("task_arena", {}, {"TASK_ARENA"})
  <2>1. /\ Stands(BenchTail, 0, TaskArenaSteps) /\ Len(TaskArenaSteps) = 1
        /\ 29 \in Nat /\ 0 \in Nat /\ Len(TaskArenaSteps) \in Nat
    BY Blocks, BenchTailPlaced
  <2>2. Stands(Script, 29, TaskArenaSteps)
    BY <1>1, <2>1, StandsWithin
  <2>3. \A i \in 1 .. 1 : Script[29 + i] = TaskArenaSteps[i]
    BY <2>1, <2>2 DEF Stands
  <2>4. /\ Script[30] = TaskArenaSteps[1]
    BY <2>3
  <2>5. QED
    BY <2>4 DEF TaskArenaSteps
<1>3. /\ Script[31] = Step("load_image", {"BOOTSTRAP_AS_TABLE", "BOOTSTRAP_AS_CAP", "AS_ARENA", "PMM", "MMU"}, {})
  <2>1. /\ Stands(BenchTail, 1, LoadSteps) /\ Len(LoadSteps) = 1
        /\ 29 \in Nat /\ 1 \in Nat /\ Len(LoadSteps) \in Nat
    BY Blocks, BenchTailPlaced
  <2>2. Stands(Script, 30, LoadSteps)
    BY <1>1, <2>1, StandsWithin
  <2>3. \A i \in 1 .. 1 : Script[30 + i] = LoadSteps[i]
    BY <2>1, <2>2 DEF Stands
  <2>4. /\ Script[31] = LoadSteps[1]
    BY <2>3
  <2>5. QED
    BY <2>4 DEF LoadSteps
<1>4. /\ Script[32] = Step("create_tasks", {"TASK_ARENA", "BOOTSTRAP_AS_TABLE"}, {})
  <2>1. /\ Stands(BenchTail, 2, TaskSteps) /\ Len(TaskSteps) = 1
        /\ 29 \in Nat /\ 2 \in Nat /\ Len(TaskSteps) \in Nat
    BY Blocks, BenchTailPlaced
  <2>2. Stands(Script, 31, TaskSteps)
    BY <1>1, <2>1, StandsWithin
  <2>3. \A i \in 1 .. 1 : Script[31 + i] = TaskSteps[i]
    BY <2>1, <2>2 DEF Stands
  <2>4. /\ Script[32] = TaskSteps[1]
    BY <2>3
  <2>5. QED
    BY <2>4 DEF TaskSteps
<1>5. /\ Script[33] = Step("publish_ipc", {}, {"EP_ARENA", "IPC_QUEUES", "TABLE_A", "TABLE_B", "USER_TASK_TABLE"})
  <2>1. /\ Stands(BenchTail, 3, BenchIpcSteps) /\ Len(BenchIpcSteps) = 1
        /\ 29 \in Nat /\ 3 \in Nat /\ Len(BenchIpcSteps) \in Nat
    BY Blocks, BenchTailPlaced
  <2>2. Stands(Script, 32, BenchIpcSteps)
    BY <1>1, <2>1, StandsWithin
  <2>3. \A i \in 1 .. 1 : Script[32 + i] = BenchIpcSteps[i]
    BY <2>1, <2>2 DEF Stands
  <2>4. /\ Script[33] = BenchIpcSteps[1]
    BY <2>3
  <2>5. QED
    BY <2>4 DEF BenchIpcSteps
<1>6. /\ Script[34] = Step("scheduler", {"CPU"}, {"SCHED"})
      /\ Script[35] = Step("console", {"CONSOLE"}, {})
  <2>1. /\ Stands(BenchTail, 4, SchedSteps) /\ Len(SchedSteps) = 2
        /\ 29 \in Nat /\ 4 \in Nat /\ Len(SchedSteps) \in Nat
    BY Blocks, BenchTailPlaced
  <2>2. Stands(Script, 33, SchedSteps)
    BY <1>1, <2>1, StandsWithin
  <2>3. \A i \in 1 .. 2 : Script[33 + i] = SchedSteps[i]
    BY <2>1, <2>2 DEF Stands
  <2>4. /\ Script[34] = SchedSteps[1]
        /\ Script[35] = SchedSteps[2]
    BY <2>3
  <2>5. QED
    BY <2>4 DEF SchedSteps
<1>7. QED
  BY <1>2, <1>3, <1>4, <1>5, <1>6 DEF BenchTable

-----------------------------------------------------------------------------
(* The invariant of the boot.                                              *)

Builds == {"production", "perf-bench"}

\* The core at stage k of the script: each register has changed exactly when the
\* step that changes it is past.  Halted, below every stage, is before them all.
MachAt(k, m) ==
  /\ m \in Machine
  /\ k > 2 => m.el = 1
  /\ m.mmu <=> k > 9
  /\ m.low = IF k > 7 THEN Window ELSE {}
  /\ m.high = IF k > 11 THEN Window ELSE {}
  /\ m.ttbr0 <=> k > 8 /\ k <= 17
  /\ m.walk0 <=> k > 8 /\ k <= 18
  /\ m.ttbr1 <=> k > 12
  /\ m.walk1 <=> k > 13
  /\ m.vbar = IF k > 14 THEN "high" ELSE IF k > 6 THEN "low" ELSE None
  /\ m.sp = IF k > 15 THEN "high" ELSE IF k > 3 THEN "low" ELSE None
  /\ m.pc = IF k > 16 THEN "high" ELSE "low"

\* What the steps that are past wrote is written.
Written == \A j \in 1 .. (stage - 1) : Script[j].writes \subseteq cells

\* The scheduler starts when the script is through, and only tasks switch.
Started ==
  /\ running \in Task => Booted
  /\ pc[Boot] \notin {"switch", "switched"}

\* The controller forwards from its step of the production build on, and until
\* then nothing interrupts and nothing unmasks: what the guards have saved and
\* what the processor has is a mask, from the first step on.
Quiet ==
  ~gic.forwarding =>
    /\ trap = None /\ ~late
    /\ \A c \in Context : \A k \in 1 .. Len(guards[c]) : "I" \in guards[c][k]
    /\ stage > 1 => "I" \in daif
Forwards == gic.forwarding <=> build = "production" /\ stage > 32

BootInv ==
  /\ build \in Builds
  /\ stage \in 0 .. (Len(Script) + 1)
  /\ MachAt(stage, mach)
  /\ Written /\ Started /\ Quiet /\ Forwards

-----------------------------------------------------------------------------
(* What the steps are called, and what they do to the core.                *)

\* The steps after the migration, which leave the core's registers alone.
LateStep == {"as_arena", "as_cap", "as_table", "boot_time", "bootstrap_as", "console", "cpu",
             "create_tasks", "gic_cell", "gic_init", "load_image", "mmu", "pmm",
             "publish_ipc", "scheduler", "task_arena", "unmask"}

LEMMA StepFields ==
  ASSUME NEW n, NEW r, NEW w
  PROVE  Step(n, r, w).name = n /\ Step(n, r, w).reads = r /\ Step(n, r, w).writes = w
  BY DEF Step

\* The steps by name: up to the end of the migration, ...
LEMMA MigrationNames ==
  ASSUME build \in Builds
  PROVE  /\ Script[1].name = "mask_daif"
         /\ Script[2].name = "drop_el"
         /\ Script[3].name = "stack"
         /\ Script[4].name = "zero_bss"
         /\ Script[5].name = "low_console"
         /\ Script[6].name = "low_vectors"
         /\ Script[7].name = "low_tables"
         /\ Script[8].name = "ttbr0"
         /\ Script[9].name = "mmu_on"
         /\ Script[10].name = "low_console"
         /\ Script[11].name = "high_tables"
         /\ Script[12].name = "ttbr1"
         /\ Script[13].name = "walk1"
         /\ Script[14].name = "high_vectors"
         /\ Script[15].name = "high_stack"
         /\ Script[16].name = "branch_high"
         /\ Script[17].name = "null_ttbr0"
         /\ Script[18].name = "walk0_off"
<1>1. CommonTable(Script)
  BY ScriptCommon DEF Builds
<1>2. QED
  BY <1>1 DEF CommonTable, Step

\* ... the cells both builds set up, ...
LEMMA CellNames ==
  ASSUME build \in Builds
  PROVE  /\ Script[19].name = "cpu"
         /\ Script[20].name = "console"
         /\ Script[21].name = "boot_time"
         /\ Script[22].name = "pmm"
         /\ Script[23].name = "console"
         /\ Script[24].name = "mmu"
         /\ Script[25].name = "as_arena"
         /\ Script[26].name = "bootstrap_as"
         /\ Script[27].name = "as_table"
         /\ Script[28].name = "as_cap"
         /\ Script[29].name = "console"
<1>1. CommonTable(Script)
  BY ScriptCommon DEF Builds
<1>2. QED
  BY <1>1 DEF CommonTable, Step

\* ... and what follows in either build.
LEMMA ProductionNames ==
  ASSUME build = "production"
  PROVE  /\ Script[30].name = "load_image"
         /\ Script[31].name = "gic_cell"
         /\ Script[32].name = "gic_init"
         /\ Script[33].name = "unmask"
         /\ Script[34].name = "console"
         /\ Script[35].name = "task_arena"
         /\ Script[36].name = "create_tasks"
         /\ Script[37].name = "publish_ipc"
         /\ Script[38].name = "scheduler"
         /\ Script[39].name = "console"
<1>1. ProductionTable(Script)
  BY ScriptProduction
<1>2. QED
  BY <1>1 DEF ProductionTable, Step

LEMMA BenchNames ==
  ASSUME build = "perf-bench"
  PROVE  /\ Script[30].name = "task_arena"
         /\ Script[31].name = "load_image"
         /\ Script[32].name = "create_tasks"
         /\ Script[33].name = "publish_ipc"
         /\ Script[34].name = "scheduler"
         /\ Script[35].name = "console"
<1>1. BenchTable(Script)
  BY ScriptBench
<1>2. QED
  BY <1>1 DEF BenchTable, Step

LEMMA ScriptLength ==
  ASSUME build \in Builds
  PROVE  /\ build = "production" => Len(Script) = 39
         /\ build = "perf-bench" => Len(Script) = 35
         /\ Len(Script) = 35 \/ Len(Script) = 39
  BY ScriptPlaced DEF Builds

\* Where the steps stand that the invariant speaks of.
Placed(k) ==
  /\ Script[k].name = "drop_el" <=> k = 2
  /\ Script[k].name = "cpu" => k = 19
  /\ Script[k].name = "low_console" => k = 5 \/ k = 10
  /\ Script[k].name = "console" => k > 19
  /\ Script[k].name = "gic_init" <=> build = "production" /\ k = 32
  /\ Script[k].name = "unmask" <=> build = "production" /\ k = 33
  /\ k > 18 => Script[k].name \in LateStep

LEMMA PlacedMigration ==
  ASSUME build \in Builds, NEW k \in 1 .. 18
  PROVE  Placed(k)
  BY MigrationNames DEF Placed, LateStep

LEMMA PlacedCells ==
  ASSUME build \in Builds, NEW k \in 19 .. 29
  PROVE  Placed(k)
  BY CellNames DEF Placed, LateStep

LEMMA PlacedProduction ==
  ASSUME build = "production", NEW k \in 30 .. 39
  PROVE  Placed(k)
  BY ProductionNames DEF Placed, LateStep

LEMMA PlacedBench ==
  ASSUME build = "perf-bench", NEW k \in 30 .. 35
  PROVE  Placed(k)
  BY BenchNames DEF Placed, LateStep

LEMMA StepPlaces ==
  ASSUME build \in Builds, NEW k \in 1 .. Len(Script)
  PROVE  Placed(k)
<1>1. k \in 1 .. 18 \/ k \in 19 .. 29 \/ k \in 30 .. Len(Script)
  BY ScriptLength
<1>2. CASE build = "production"
  BY <1>1, <1>2, ScriptLength, PlacedMigration, PlacedCells, PlacedProduction
<1>3. CASE build = "perf-bench"
  BY <1>1, <1>3, ScriptLength, PlacedMigration, PlacedCells, PlacedBench
<1>4. QED
  BY <1>2, <1>3 DEF Builds

\* A step of the script takes the core from its stage to the next.
LEMMA EffectAt ==
  ASSUME build \in Builds, NEW k \in 1 .. Len(Script), NEW m, MachAt(k, m)
  PROVE  MachAt(k + 1, Effect(Script[k].name, m))
<1>1. CASE k > 18
  <2>1. Script[k].name \in LateStep
    BY <1>1, StepPlaces DEF Placed
  <2>2. Effect(Script[k].name, m) = m
    BY <2>1 DEF Effect, LateStep
  <2>3. k \in Int /\ k > 18
    BY <1>1, ScriptLength
  <2>4. QED
    BY <2>2, <2>3 DEF MachAt
<1>2. CASE k <= 18
  <2>1. m \in Machine
    BY DEF MachAt
  <2>2. \/ k = 1 \/ k = 2 \/ k = 3 \/ k = 4 \/ k = 5 \/ k = 6 \/ k = 7 \/ k = 8 \/ k = 9
        \/ k = 10 \/ k = 11 \/ k = 12 \/ k = 13 \/ k = 14 \/ k = 15 \/ k = 16 \/ k = 17 \/ k = 18
    BY <1>2, ScriptLength
  <2>3. CASE k = 1 \/ k = 4 \/ k = 5 \/ k = 10
    <3>1. Effect(Script[k].name, m) = m
      BY <2>3, MigrationNames DEF Effect
    <3>2. QED
      BY <2>3, <3>1 DEF MachAt
  <2>4. CASE k = 2
    <3>1. Effect(Script[k].name, m) = [m EXCEPT !.el = 1]
      BY <2>4, MigrationNames DEF Effect
    <3>2. QED
      BY <2>1, <2>4, <3>1 DEF MachAt, Machine
  <2>5. CASE k = 3
    <3>1. Effect(Script[k].name, m) = [m EXCEPT !.sp = "low"]
      BY <2>5, MigrationNames DEF Effect
    <3>2. QED
      BY <2>1, <2>5, <3>1 DEF MachAt, Machine
  <2>6. CASE k = 6
    <3>1. Effect(Script[k].name, m) = [m EXCEPT !.vbar = "low"]
      BY <2>6, MigrationNames DEF Effect
    <3>2. QED
      BY <2>1, <2>6, <3>1 DEF MachAt, Machine
  <2>7. CASE k = 7
    <3>1. Effect(Script[k].name, m) = [m EXCEPT !.low = Window]
      BY <2>7, MigrationNames DEF Effect
    <3>2. QED
      BY <2>1, <2>7, <3>1 DEF MachAt, Machine
  <2>8. CASE k = 8
    <3> DEFINE e == [m EXCEPT !.ttbr0 = TRUE, !.walk0 = TRUE, !.walk1 = FALSE]
    <3>1. Effect(Script[k].name, m) = e
      BY <2>8, MigrationNames DEF Effect
    <3>2. e \in Machine
      BY <2>1 DEF Machine
    <3>3. /\ e.ttbr0 /\ e.walk0 /\ ~e.walk1
          /\ e.el = m.el /\ e.mmu = m.mmu /\ e.low = m.low /\ e.high = m.high
          /\ e.ttbr1 = m.ttbr1 /\ e.vbar = m.vbar /\ e.sp = m.sp /\ e.pc = m.pc
      BY <2>1 DEF Machine
    <3> HIDE DEF e
    <3>4. QED
      BY <2>8, <3>1, <3>2, <3>3 DEF MachAt
  <2>9. CASE k = 9
    <3> DEFINE e == [m EXCEPT !.mmu = TRUE]
    <3>1. Effect(Script[k].name, m) = e
      BY <2>9, MigrationNames DEF Effect
    <3>2. e \in Machine
      BY <2>1 DEF Machine
    <3>3. /\ e.mmu
          /\ e.el = m.el /\ e.low = m.low /\ e.high = m.high /\ e.ttbr0 = m.ttbr0
          /\ e.walk0 = m.walk0 /\ e.ttbr1 = m.ttbr1 /\ e.walk1 = m.walk1 /\ e.vbar = m.vbar
          /\ e.sp = m.sp /\ e.pc = m.pc
      BY <2>1 DEF Machine
    <3> HIDE DEF e
    <3>4. QED
      BY <2>9, <3>1, <3>2, <3>3 DEF MachAt
  <2>10. CASE k = 11
    <3>1. Effect(Script[k].name, m) = [m EXCEPT !.high = m.low]
      BY <2>10, MigrationNames DEF Effect
    <3>2. QED
      BY <2>1, <2>10, <3>1 DEF MachAt, Machine
  <2>11. CASE k = 12
    <3> DEFINE e == [m EXCEPT !.ttbr1 = TRUE]
    <3>1. Effect(Script[k].name, m) = e
      BY <2>11, MigrationNames DEF Effect
    <3>2. e \in Machine
      BY <2>1 DEF Machine
    <3>3. /\ e.ttbr1
          /\ e.el = m.el /\ e.mmu = m.mmu /\ e.low = m.low /\ e.high = m.high
          /\ e.ttbr0 = m.ttbr0 /\ e.walk0 = m.walk0 /\ e.walk1 = m.walk1 /\ e.vbar = m.vbar
          /\ e.sp = m.sp /\ e.pc = m.pc
      BY <2>1 DEF Machine
    <3> HIDE DEF e
    <3>4. QED
      BY <2>11, <3>1, <3>2, <3>3 DEF MachAt
  <2>12. CASE k = 13
    <3> DEFINE e == [m EXCEPT !.walk1 = TRUE]
    <3>1. Effect(Script[k].name, m) = e
      BY <2>12, MigrationNames DEF Effect
    <3>2. e \in Machine
      BY <2>1 DEF Machine
    <3>3. /\ e.walk1
          /\ e.el = m.el /\ e.mmu = m.mmu /\ e.low = m.low /\ e.high = m.high
          /\ e.ttbr0 = m.ttbr0 /\ e.walk0 = m.walk0 /\ e.ttbr1 = m.ttbr1 /\ e.vbar = m.vbar
          /\ e.sp = m.sp /\ e.pc = m.pc
      BY <2>1 DEF Machine
    <3> HIDE DEF e
    <3>4. QED
      BY <2>12, <3>1, <3>2, <3>3 DEF MachAt
  <2>13. CASE k = 14
    <3>1. Effect(Script[k].name, m) = [m EXCEPT !.vbar = "high"]
      BY <2>1, <2>13, MigrationNames DEF Effect, high_half_alias
    <3>2. QED
      BY <2>1, <2>13, <3>1 DEF MachAt, Machine
  <2>14. CASE k = 15
    <3>1. Effect(Script[k].name, m) = [m EXCEPT !.sp = "high"]
      BY <2>1, <2>14, MigrationNames DEF Effect, high_half_alias
    <3>2. QED
      BY <2>1, <2>14, <3>1 DEF MachAt, Machine
  <2>15. CASE k = 16
    <3>1. Effect(Script[k].name, m) = [m EXCEPT !.pc = "high"]
      BY <2>15, MigrationNames DEF Effect
    <3>2. QED
      BY <2>1, <2>15, <3>1 DEF MachAt, Machine
  <2>16. CASE k = 17
    <3> DEFINE e == [m EXCEPT !.ttbr0 = FALSE]
    <3>1. Effect(Script[k].name, m) = e
      BY <2>16, MigrationNames DEF Effect
    <3>2. e \in Machine
      BY <2>1 DEF Machine
    <3>3. /\ ~e.ttbr0
          /\ e.el = m.el /\ e.mmu = m.mmu /\ e.low = m.low /\ e.high = m.high
          /\ e.walk0 = m.walk0 /\ e.ttbr1 = m.ttbr1 /\ e.walk1 = m.walk1 /\ e.vbar = m.vbar
          /\ e.sp = m.sp /\ e.pc = m.pc
      BY <2>1 DEF Machine
    <3> HIDE DEF e
    <3>4. QED
      BY <2>16, <3>1, <3>2, <3>3 DEF MachAt
  <2>17. CASE k = 18
    <3> DEFINE e == [m EXCEPT !.walk0 = FALSE]
    <3>1. Effect(Script[k].name, m) = e
      BY <2>17, MigrationNames DEF Effect
    <3>2. e \in Machine
      BY <2>1 DEF Machine
    <3>3. /\ ~e.walk0
          /\ e.el = m.el /\ e.mmu = m.mmu /\ e.low = m.low /\ e.high = m.high
          /\ e.ttbr0 = m.ttbr0 /\ e.ttbr1 = m.ttbr1 /\ e.walk1 = m.walk1 /\ e.vbar = m.vbar
          /\ e.sp = m.sp /\ e.pc = m.pc
      BY <2>1 DEF Machine
    <3> HIDE DEF e
    <3>4. QED
      BY <2>17, <3>1, <3>2, <3>3 DEF MachAt
  <2>18. QED
    BY <2>2, <2>3, <2>4, <2>5, <2>6, <2>7, <2>8, <2>9, <2>10, <2>11, <2>12, <2>13, <2>14, <2>15,
       <2>16, <2>17
<1>3. QED
  BY <1>1, <1>2, ScriptLength

-----------------------------------------------------------------------------
(* The invariant of the boot is inductive.                                 *)

LEMMA InitBoot == Init => BootInv
<1> SUFFICES ASSUME Init PROVE BootInv
  OBVIOUS
<1>1. build \in Builds /\ stage = 1
  BY DEF Init, Builds
<1>2. stage \in 0 .. (Len(Script) + 1)
  BY <1>1, ScriptLength
<1>3. MachAt(stage, mach)
  <2>1. PICK e \in 1 .. 3 :
          mach = [el |-> e, mmu |-> FALSE, low |-> {}, high |-> {}, ttbr0 |-> FALSE, walk0 |-> FALSE,
                  ttbr1 |-> FALSE, walk1 |-> FALSE, vbar |-> None, sp |-> None, pc |-> "low"]
    BY DEF Init
  <2>2. mach \in Machine
    BY <2>1 DEF Machine, Window
  <2>3. QED
    BY <1>1, <2>1, <2>2 DEF MachAt
<1>4. Written
  BY <1>1 DEF Written
<1>5. Started
  <2>1. running = Boot /\ Boot \notin Task /\ pc[Boot] = "run"
    BY Constants, InterruptsAssumption DEF Init, Boot, Task
  <2>2. QED
    BY <2>1 DEF Started
<1>6. PICK s \in SUBSET DeviceLines : gic = ResetGic(s)
  BY DEF Init
<1>7. ~gic.forwarding
  BY <1>6 DEF ResetGic
<1>8. Quiet
  <2>1. \A c \in Context : guards[c] = <<>>
    BY DEF Init
  <2>2. \A c \in Context : 1 .. Len(guards[c]) = {}
    BY <2>1
  <2>3. QED
    BY <1>1, <2>2 DEF Quiet, Init
<1>9. Forwards
  BY <1>1, <1>7 DEF Forwards
<1>10. QED
  BY <1>1, <1>2, <1>3, <1>4, <1>5, <1>8, <1>9 DEF BootInv

\* The script is the build's, and the build does not change.
LEMMA ScriptFixed ==
  ASSUME build' = build
  PROVE  Script' = Script
  BY DEF Script

\* A controller that does not forward requests nothing.
LEMMA NothingRequested ==
  ASSUME ~gic.forwarding
  PROVE  ~Requesting
  BY DEF Requesting, Signalled

\* A step of the script.
LEMMA BootStepKeeps ==
  ASSUME Typed, BootInv, BootStep
  PROVE  BootInv'
<1> DEFINE step == Script[stage]
           halts == step.name = "drop_el" /\ mach.el = 3
<1>1. /\ running = Boot /\ trap = None /\ pc[Boot] = "run" /\ guards[Boot] = <<>>
      /\ stage # 0 /\ ~(stage > Len(Script))
      /\ build' = build /\ running' = running /\ pc' = pc /\ guards' = guards /\ trap' = trap
      /\ late' = Requesting
  BY DEF BootStep, At, Halted, Booted
<1>2. /\ mach' = IF halts THEN mach ELSE Effect(step.name, mach)
      /\ stage' = IF halts THEN 0 ELSE stage + 1
      /\ cells' = cells \union step.writes
      /\ daif' = IF step.name \in {"mask_daif", "drop_el"} THEN AllMasked
                 ELSE IF step.name = "unmask" THEN daif \ {"I"} ELSE daif
      /\ gic' = IF step.name = "gic_init" THEN init(gic) ELSE gic
  BY DEF BootStep, Halted
<1>3. build \in Builds /\ (Len(Script) = 35 \/ Len(Script) = 39) /\ stage \in 1 .. Len(Script)
  BY <1>1, ScriptLength DEF BootInv
<1>4. Placed(stage)
  BY <1>3, StepPlaces
<1>5. Script' = Script
  BY <1>1, ScriptFixed
<1>6. halts => stage = 2
  BY <1>4 DEF Placed
<1> HIDE DEF halts, step
<1>7. stage' \in 0 .. (Len(Script) + 1) /\ (stage' = 0 \/ stage' = stage + 1)
  BY <1>2, <1>3
<1>8. MachAt(stage', mach')
  <2>1. CASE halts
    <3>1. MachAt(2, mach) /\ stage' = 0 /\ mach' = mach
      BY <1>2, <1>6, <2>1 DEF BootInv
    <3>2. MachAt(0, mach)
      BY <3>1 DEF MachAt
    <3>3. QED
      BY <3>1, <3>2
  <2>2. CASE ~halts
    <3>1. mach' = Effect(Script[stage].name, mach) /\ stage' = stage + 1 /\ MachAt(stage, mach)
      BY <1>2, <2>2 DEF BootInv, step
    <3>2. MachAt(stage + 1, Effect(Script[stage].name, mach))
      BY <1>3, <3>1, EffectAt
    <3>3. QED
      BY <3>1, <3>2
  <2>3. QED
    BY <2>1, <2>2
<1>9. Written'
  <2>1. ASSUME NEW j \in 1 .. (stage' - 1)
        PROVE  Script[j].writes \subseteq cells'
    <3>1. j \in 1 .. (stage - 1) \/ j = stage
      <4>1. stage \in Int /\ 1 <= stage
        BY <1>3
      <4>2. CASE stage' = 0
        BY <2>1, <4>2
      <4>3. CASE stage' = stage + 1
        BY <2>1, <4>1, <4>3
      <4>4. QED
        BY <1>7, <4>2, <4>3
    <3>2. QED
      BY <1>2, <3>1 DEF BootInv, Written, step
  <2>2. QED
    BY <1>5, <2>1 DEF Written
<1>10. Started'
  <2>1. running' = Boot /\ Boot \notin Task
    BY <1>1, InterruptsAssumption DEF Boot, Task
  <2>2. QED
    BY <1>1, <2>1 DEF Started
<1>11. gic'.forwarding <=> gic.forwarding \/ step.name = "gic_init"
  BY <1>2 DEF init, Typed, GicState
<1>12. /\ step.name = "gic_init" <=> build = "production" /\ stage = 32
       /\ step.name = "unmask" => build = "production" /\ stage = 33
  BY <1>4 DEF Placed, step
<1>13. Forwards'
  <2>1. gic.forwarding <=> build = "production" /\ stage > 32
    BY DEF BootInv, Forwards
  <2>2. stage' = 0 => stage = 2
    BY <1>2, <1>3, <1>6
  <2>3. gic'.forwarding <=> build' = "production" /\ stage' > 32
    BY <1>1, <1>3, <1>7, <1>11, <1>12, <2>1, <2>2
  <2>4. QED
    BY <2>3 DEF Forwards
<1>14. Quiet'
  <2>1. SUFFICES ASSUME ~gic'.forwarding PROVE Quiet'
    BY DEF Quiet
  <2>2. ~gic.forwarding
    BY <1>11, <2>1
  <2>3. /\ ~late
        /\ \A c \in Context : \A k \in 1 .. Len(guards[c]) : "I" \in guards[c][k]
        /\ stage > 1 => "I" \in daif
    BY <2>2 DEF BootInv, Quiet
  <2>4. late' = FALSE
    BY <1>1, <2>2, NothingRequested
  <2>5. stage' > 1 => "I" \in daif'
    <3>1. step.name # "unmask"
      BY <1>12, <2>2 DEF BootInv, Forwards
    <3>2. stage = 1 => step.name = "mask_daif"
      BY <1>3, MigrationNames DEF step
    <3>3. CASE step.name \in {"mask_daif", "drop_el"}
      BY <1>2, <3>3, Constants
    <3>4. CASE step.name \notin {"mask_daif", "drop_el"}
      <4>1. daif' = daif /\ stage > 1
        BY <1>2, <1>3, <3>1, <3>2, <3>4
      <4>2. QED
        BY <2>3, <4>1
    <3>5. QED
      BY <3>3, <3>4
  <2>6. QED
    BY <1>1, <2>3, <2>4, <2>5 DEF Quiet
<1>15. QED
  BY <1>1, <1>3, <1>5, <1>7, <1>8, <1>9, <1>10, <1>13, <1>14 DEF BootInv

\* The other steps leave the script's variables alone.
LEMMA OtherSteps ==
  ASSUME [Next]_vars, ~BootStep
  PROVE  /\ UNCHANGED <<build, mach, cells, stage>>
         /\ late' = Requesting \/ late' = late
         /\ \/ Tick \/ \E l \in DeviceLines : DeviceToggles(l)
            \/ TakeIrq \/ IrqAcknowledge \/ IrqMaskTimer \/ IrqEoi \/ IrqReturn
            \/ gic.forwarding /\ \E c \in Context : Hal(c)
            \/ \E c \in Context : SwitchGuard(c) \/ SwitchReturn(c)
            \/ \E c \in Context, n \in Task : ContextSwitch(c, n)
            \/ Booted /\ \E c \in Context, n \in Task : Abandon(c, n)
            \/ \E c \in Context : Wfi(c) \/ Wake(c)
            \/ UNCHANGED irq_vars
  BY DEF Next, After, Handler, HalReady, Switching, vars, irq_vars

\* Nothing takes back what init set.
LEMMA ForwardingStays ==
  ASSUME Typed, [Next]_vars, ~BootStep
  PROVE  gic'.forwarding <=> gic.forwarding
<1>1. \/ gic' = gic
      \/ gic' = Activate(gic, acknowledge(gic, Asserted))
      \/ gic' = end_of_interrupt(gic, trap.irq)
      \/ gic' = enable(gic, TimerIrq) \/ gic' = disable(gic, TimerIrq)
  <2>1. CASE Tick \/ (\E l \in DeviceLines : DeviceToggles(l)) \/ TakeIrq \/ IrqMaskTimer \/ IrqReturn
    BY <2>1 DEF Tick, DeviceToggles, TakeIrq, IrqMaskTimer, IrqReturn
  <2>2. CASE IrqAcknowledge \/ IrqEoi
    BY <2>2 DEF IrqAcknowledge, IrqEoi
  <2>3. ASSUME NEW c \in Context, Hal(c)
        PROVE  gic' = gic \/ gic' = enable(gic, TimerIrq) \/ gic' = disable(gic, TimerIrq)
    BY <2>3 DEF Hal, GuardNew, GuardDrop, EnableIrqs, ArmCval, ArmCtl, ArmGic, CancelCtl, CancelGic
  <2>4. ASSUME NEW c \in Context, SwitchGuard(c) \/ SwitchReturn(c) \/ Wfi(c) \/ Wake(c)
        PROVE  gic' = gic
    BY <2>4 DEF SwitchGuard, SwitchReturn, Wfi, Wake
  <2>5. ASSUME NEW c \in Context, NEW n \in Task, ContextSwitch(c, n) \/ Abandon(c, n)
        PROVE  gic' = gic
    BY <2>5 DEF ContextSwitch, Abandon
  <2>6. CASE UNCHANGED irq_vars
    BY <2>6 DEF irq_vars
  <2>7. QED
    BY <2>1, <2>2, <2>3, <2>4, <2>5, <2>6, OtherSteps
<1>2. QED
  BY <1>1 DEF Activate, end_of_interrupt, enable, disable, Typed, GicState

Masks(s) == \A k \in 1 .. Len(s) : "I" \in s[k]

LEMMA PushMasks ==
  ASSUME NEW s \in Seq(SUBSET AllMasked), NEW d \in SUBSET AllMasked, Masks(s), "I" \in d
  PROVE  Masks(Append(s, d))
<1>1. /\ Len(Append(s, d)) = Len(s) + 1 /\ Len(s) \in Nat
      /\ \A k \in 1 .. Len(s) : Append(s, d)[k] = s[k]
      /\ Append(s, d)[Len(s) + 1] = d
  BY PushFacts
<1>2. \A k \in 1 .. (Len(s) + 1) : k \in 1 .. Len(s) \/ k = Len(s) + 1
  BY <1>1
<1>3. QED
  BY <1>1, <1>2 DEF Masks

LEMMA PopMasks ==
  ASSUME NEW s \in Seq(SUBSET AllMasked), s # <<>>, Masks(s)
  PROVE  Masks(Front(s)) /\ "I" \in Last(s)
<1>1. /\ Len(s) \in Nat /\ Len(s) >= 1
      /\ Last(s) = s[Len(s)]
      /\ Len(Front(s)) = Len(s) - 1
      /\ \A k \in 1 .. (Len(s) - 1) : Front(s)[k] = s[k]
  BY PopFacts
<1>2. Len(s) \in 1 .. Len(s) /\ 1 .. (Len(s) - 1) \subseteq 1 .. Len(s)
  BY <1>1
<1>3. QED
  BY <1>1, <1>2 DEF Masks

\* A step outside the script.
LEMMA StartedStays ==
  ASSUME Typed, BootInv, [Next]_vars, ~BootStep
  PROVE  Started'
<1>1. UNCHANGED <<build, stage>> /\ Script' = Script
  BY OtherSteps, ScriptFixed
<1>2. Booted' <=> Booted
  BY <1>1 DEF Booted
<1>3. (running \in Task => Booted) /\ pc[Boot] \notin {"switch", "switched"}
  BY DEF BootInv, Started
<1>4. SUFFICES /\ running' \in Task => Booted
               /\ pc'[Boot] \notin {"switch", "switched"}
  BY <1>2 DEF Started
<1>5. Boot \notin Task /\ Boot \in Context
  BY Constants, InterruptsAssumption DEF Boot, Task
<1>6. CASE \/ Tick \/ \E l \in DeviceLines : DeviceToggles(l)
           \/ TakeIrq \/ IrqAcknowledge \/ IrqMaskTimer \/ IrqEoi \/ IrqReturn
           \/ UNCHANGED irq_vars
  <2>1. running' = running /\ pc' = pc
    BY <1>6 DEF Tick, DeviceToggles, TakeIrq, IrqAcknowledge, IrqMaskTimer, IrqEoi, IrqReturn, irq_vars
  <2>2. QED
    BY <1>3, <2>1
<1>7. ASSUME NEW c \in Context, Hal(c) \/ Wfi(c) \/ Wake(c) \/ SwitchReturn(c)
      PROVE  running' = running /\ pc'[Boot] \notin {"switch", "switched"}
  <2>1. /\ running' = running
        /\ \/ pc' = pc
           \/ \E l \in {"arm ctl", "arm gic", "cancel gic", "run", "wfi"} : pc' = [pc EXCEPT ![c] = l]
    BY <1>7 DEF Hal, GuardNew, GuardDrop, EnableIrqs, ArmCval, ArmCtl, ArmGic, CancelCtl, CancelGic,
                Wfi, Wake, SwitchReturn, Goto
  <2>2. \A x \in Context : pc'[x] \in {"switch", "switched"} => pc'[x] = pc[x]
    BY <2>1 DEF Typed
  <2>3. QED
    BY <1>3, <1>5, <2>1, <2>2
<1>8. ASSUME NEW c \in Context, SwitchGuard(c)
      PROVE  running' = running /\ pc'[Boot] = pc[Boot]
  <2>1. running' = running /\ c \in Task /\ pc' = [pc EXCEPT ![c] = "switch"]
    BY <1>8 DEF SwitchGuard, Goto
  <2>2. QED
    BY <1>5, <2>1 DEF Typed
<1>9. ASSUME NEW c \in Context, NEW n \in Task, ContextSwitch(c, n)
      PROVE  Booted /\ pc'[Boot] = pc[Boot]
  <2>1. /\ running = c /\ pc[c] = "switch"
        /\ pc' = [pc EXCEPT ![c] = "switched", ![n] = IF pc[n] = "fresh" THEN "run" ELSE "switched"]
    BY <1>9 DEF ContextSwitch, At
  <2>2. c \in Task
    BY <1>3, <2>1, Constants
  <2>3. QED
    BY <1>3, <1>5, <2>1, <2>2 DEF Typed
<1>10. ASSUME NEW c \in Context, NEW n \in Task, Booted, Abandon(c, n)
       PROVE  Booted /\ pc'[Boot] \notin {"switch", "switched"}
  <2>1. pc' = [pc EXCEPT ![c] = "gone", ![n] = IF pc[n] = "fresh" THEN "run" ELSE "switched"]
    BY <1>10 DEF Abandon
  <2>2. pc'[Boot] = pc[Boot] \/ pc'[Boot] = "gone"
    BY <1>5, <2>1 DEF Typed
  <2>3. QED
    BY <1>3, <1>10, <2>2
<1>11. QED
  BY <1>3, <1>6, <1>7, <1>8, <1>9, <1>10, OtherSteps

LEMMA QuietStays ==
  ASSUME Typed, Masking, BootInv, [Next]_vars, ~BootStep
  PROVE  Quiet'
<1>1. SUFFICES ASSUME ~gic'.forwarding PROVE Quiet'
  BY DEF Quiet
<1>2. ~gic.forwarding
  BY <1>1, ForwardingStays
<1>3. /\ trap = None /\ ~late
      /\ \A c \in Context : Masks(guards[c])
      /\ stage > 1 => "I" \in daif
  BY <1>2 DEF BootInv, Quiet, Masks
<1>4. stage' = stage /\ late' = FALSE
  BY <1>2, <1>3, OtherSteps, NothingRequested
<1>5. SUFFICES /\ trap' = None
               /\ \A c \in Context : Masks(guards'[c])
               /\ stage > 1 => "I" \in daif'
  BY <1>4 DEF Quiet, Masks
<1>6. Booted => "I" \in daif
  <2> DEFINE n == Len(Script)
  <2>1. (n = 35 \/ n = 39) /\ stage \in 0 .. (n + 1) /\ (Booted => stage > n)
    BY ScriptLength DEF BootInv, Booted
  <2> HIDE DEF n
  <2>2. Booted => stage > 1
    BY <2>1
  <2>3. QED
    BY <1>3, <2>2
<1>7. running \in Task => Booted
  BY DEF BootInv, Started
<1>8. guards \in [Context -> Seq(SUBSET AllMasked)] /\ daif \in SUBSET AllMasked
  BY DEF Typed
<1>9. CASE Tick \/ (\E l \in DeviceLines : DeviceToggles(l)) \/ UNCHANGED irq_vars
  BY <1>3, <1>9 DEF Tick, DeviceToggles, irq_vars
<1>10. ~(TakeIrq \/ IrqAcknowledge \/ IrqMaskTimer \/ IrqEoi \/ IrqReturn)
  BY <1>2, <1>3, NothingRequested DEF TakeIrq, IrqAcknowledge, IrqMaskTimer, IrqEoi, IrqReturn
<1>11. ASSUME NEW c \in Context, Wfi(c) \/ Wake(c)
       PROVE  trap' = trap /\ guards' = guards /\ daif' = daif
  BY <1>11 DEF Wfi, Wake
<1>12. ASSUME NEW c \in Context, SwitchGuard(c)
       PROVE  trap' = trap /\ (\A x \in Context : Masks(guards'[x])) /\ "I" \in daif'
  <2>1. Push(c) /\ running = c /\ c \in Task /\ trap' = trap
    BY <1>12 DEF SwitchGuard, At
  <2>2. /\ daif' = AllMasked /\ guards'[c] = Append(guards[c], daif)
        /\ \A x \in Context \ {c} : guards'[x] = guards[x]
    BY <2>1, PushTyped
  <2>3. Masks(guards'[c])
    BY <1>3, <1>6, <1>7, <1>8, <2>1, <2>2, PushMasks
  <2>4. QED
    BY <1>3, <2>1, <2>2, <2>3, Constants
<1>13. ASSUME NEW c \in Context, SwitchReturn(c)
       PROVE  trap' = trap /\ (\A x \in Context : Masks(guards'[x])) /\ "I" \in daif'
  <2>1. Pop(c) /\ pc[c] = "switched" /\ trap' = trap
    BY <1>13 DEF SwitchReturn, At
  <2>2. guards[c] # <<>>
    BY <2>1 DEF Masking
  <2>3. /\ daif' = Last(guards[c]) /\ guards'[c] = Front(guards[c])
        /\ \A x \in Context \ {c} : guards'[x] = guards[x]
    BY <2>1, <2>2, PopTyped
  <2>4. Masks(Front(guards[c])) /\ "I" \in Last(guards[c])
    BY <1>3, <1>8, <2>2, PopMasks
  <2>5. QED
    BY <1>3, <2>1, <2>3, <2>4
<1>14. ASSUME NEW c \in Context, NEW n \in Task, ContextSwitch(c, n)
       PROVE  trap' = trap /\ guards' = guards /\ ("I" \in daif => "I" \in daif')
  BY <1>14, Constants DEF ContextSwitch, SwitchTo, fresh_mask
<1>15. ASSUME NEW c \in Context, NEW n \in Task, Booted, Abandon(c, n)
       PROVE  trap' = trap /\ (\A x \in Context : Masks(guards'[x])) /\ "I" \in daif'
  <2>1. /\ trap' = trap /\ guards' = [guards EXCEPT ![c] = Append(guards[c], daif)]
        /\ daif' = AllMasked
    BY <1>15 DEF Abandon, disable_irqs, fresh_mask
  <2>2. /\ guards'[c] = Append(guards[c], daif)
        /\ \A x \in Context \ {c} : guards'[x] = guards[x]
    BY <1>8, <2>1
  <2>3. Masks(guards'[c])
    BY <1>3, <1>6, <1>8, <1>15, <2>2, PushMasks
  <2>4. QED
    BY <1>3, <2>1, <2>2, <2>3, Constants
<1>16. QED
  BY <1>2, <1>3, <1>9, <1>10, <1>11, <1>12, <1>13, <1>14, <1>15, OtherSteps

\* A step outside the script keeps the invariant of the boot.
LEMMA OtherStepKeeps ==
  ASSUME Typed, Masking, BootInv, [Next]_vars, ~BootStep
  PROVE  BootInv'
<1>1. UNCHANGED <<build, mach, cells, stage>> /\ Script' = Script
  BY OtherSteps, ScriptFixed
<1>2. Started' /\ Quiet'
  BY StartedStays, QuietStays
<1>3. Forwards'
  BY <1>1, ForwardingStays DEF BootInv, Forwards
<1>4. Written'
  BY <1>1 DEF BootInv, Written
<1>5. QED
  BY <1>1, <1>2, <1>3, <1>4 DEF BootInv

-----------------------------------------------------------------------------
(* The boot is safe.                                                       *)

\* What the steps that are past wrote, cell by cell, ...
LEMMA CellsWritten ==
  ASSUME BootInv
  PROVE  /\ stage > 19 => {"CONSOLE", "CPU"} \subseteq cells
         /\ stage > 21 => "BOOT_NS" \in cells
         /\ stage > 22 => "PMM" \in cells
         /\ stage > 24 => "MMU" \in cells
         /\ stage > 25 => "AS_ARENA" \in cells
         /\ stage > 26 => "BOOTSTRAP_AS" \in cells
         /\ stage > 27 => "BOOTSTRAP_AS_TABLE" \in cells
         /\ stage > 28 => "BOOTSTRAP_AS_CAP" \in cells
<1>1. build \in Builds /\ stage \in Int
  BY ScriptLength DEF BootInv
<1>2. \A j \in 1 .. (stage - 1) : Script[j].writes \subseteq cells
  BY DEF BootInv, Written
<1>3. /\ Script[19].writes = {"CONSOLE", "CPU"} /\ Script[21].writes = {"BOOT_NS"}
      /\ Script[22].writes = {"PMM"} /\ Script[24].writes = {"MMU"}
      /\ Script[25].writes = {"AS_ARENA"} /\ Script[26].writes = {"BOOTSTRAP_AS"}
      /\ Script[27].writes = {"BOOTSTRAP_AS_TABLE"} /\ Script[28].writes = {"BOOTSTRAP_AS_CAP"}
  BY <1>1, ScriptCommon, StepFields DEF CommonTable, Builds
<1>4. QED
  BY <1>1, <1>2, <1>3

\* ... in the production build ...
LEMMA ProductionWritten ==
  ASSUME BootInv, build = "production"
  PROVE  /\ stage > 31 => "GIC" \in cells
         /\ stage > 35 => "TASK_ARENA" \in cells
         /\ stage > 37 => {"EP_ARENA", "IPC_QUEUES", "FAILCLOSED_TABLE", "TABLE_A", "TABLE_B",
                           "EP_CAP_A", "EP_CAP_B", "USER_TASK_TABLE"} \subseteq cells
         /\ stage > 38 => "SCHED" \in cells
<1>1. stage \in Int /\ \A j \in 1 .. (stage - 1) : Script[j].writes \subseteq cells
  BY ScriptLength DEF BootInv, Written
<1>2. /\ Script[31].writes = {"GIC"} /\ Script[35].writes = {"TASK_ARENA"}
      /\ Script[37].writes = {"EP_ARENA", "IPC_QUEUES", "FAILCLOSED_TABLE", "TABLE_A", "TABLE_B",
                              "EP_CAP_A", "EP_CAP_B", "USER_TASK_TABLE"}
      /\ Script[38].writes = {"SCHED"}
  BY ScriptProduction, StepFields DEF ProductionTable
<1>3. QED
  BY <1>1, <1>2

\* ... and in the measurement build.
LEMMA BenchWritten ==
  ASSUME BootInv, build = "perf-bench"
  PROVE  /\ stage > 30 => "TASK_ARENA" \in cells
         /\ stage > 33 => {"EP_ARENA", "IPC_QUEUES", "TABLE_A", "TABLE_B", "USER_TASK_TABLE"}
                            \subseteq cells
         /\ stage > 34 => "SCHED" \in cells
<1>1. stage \in Int /\ \A j \in 1 .. (stage - 1) : Script[j].writes \subseteq cells
  BY ScriptLength DEF BootInv, Written
<1>2. /\ Script[30].writes = {"TASK_ARENA"}
      /\ Script[33].writes = {"EP_ARENA", "IPC_QUEUES", "TABLE_A", "TABLE_B", "USER_TASK_TABLE"}
      /\ Script[34].writes = {"SCHED"}
  BY ScriptBench, StepFields DEF BenchTable
<1>3. QED
  BY <1>1, <1>2

\* Every step finds the cells it reads.
LEMMA ReadsWritten ==
  ASSUME BootInv, NEW k \in 1 .. Len(Script), k = stage
  PROVE  Script[k].reads \subseteq cells
<1>1. build \in Builds /\ stage \in Int /\ (Len(Script) = 35 \/ Len(Script) = 39)
  BY ScriptLength DEF BootInv
<1>2. CASE k \in 1 .. 29
  <2>1. \A j \in 1 .. 19 : Script[j].reads = {}
    <3>1. CommonTable(Script)
      BY <1>1, ScriptCommon DEF Builds
    <3>2. /\ Script[1].reads = {} /\ Script[2].reads = {} /\ Script[3].reads = {}
          /\ Script[4].reads = {} /\ Script[5].reads = {} /\ Script[6].reads = {}
          /\ Script[7].reads = {} /\ Script[8].reads = {} /\ Script[9].reads = {}
          /\ Script[10].reads = {}
      BY <3>1 DEF CommonTable, Step
    <3>3. /\ Script[11].reads = {} /\ Script[12].reads = {} /\ Script[13].reads = {}
          /\ Script[14].reads = {} /\ Script[15].reads = {} /\ Script[16].reads = {}
          /\ Script[17].reads = {} /\ Script[18].reads = {} /\ Script[19].reads = {}
      BY <3>1 DEF CommonTable, Step
    <3>4. QED
      BY <3>2, <3>3
  <2>2. /\ Script[20].reads = {"CONSOLE"} /\ Script[21].reads = {"CPU"} /\ Script[22].reads = {}
        /\ Script[23].reads = {"PMM", "CONSOLE"} /\ Script[24].reads = {} /\ Script[25].reads = {}
        /\ Script[26].reads = {"AS_ARENA"} /\ Script[27].reads = {}
        /\ Script[28].reads = {"BOOTSTRAP_AS_TABLE"} /\ Script[29].reads = {"CONSOLE"}
    <3>1. CommonTable(Script)
      BY <1>1, ScriptCommon DEF Builds
    <3>2. QED
      BY <3>1 DEF CommonTable, Step
  <2>3. CASE k \in 1 .. 19 \/ k = 22 \/ k = 24 \/ k = 25 \/ k = 27
    BY <2>1, <2>2, <2>3
  <2>4. CASE k = 20 \/ k = 21 \/ k = 23 \/ k = 26 \/ k = 28 \/ k = 29
    BY <2>2, <2>4, CellsWritten
  <2>5. QED
    BY <1>2, <2>3, <2>4
<1>3. CASE k \in 30 .. Len(Script) /\ build = "production"
  <2>1. /\ Script[30].reads = {"BOOTSTRAP_AS_TABLE", "BOOTSTRAP_AS_CAP", "AS_ARENA", "PMM", "MMU"}
        /\ Script[31].reads = {} /\ Script[32].reads = {"GIC"} /\ Script[33].reads = {}
        /\ Script[34].reads = {"CONSOLE", "CPU"} /\ Script[35].reads = {}
        /\ Script[36].reads = {"TASK_ARENA", "BOOTSTRAP_AS_TABLE"} /\ Script[37].reads = {}
        /\ Script[38].reads = {"CPU"} /\ Script[39].reads = {"CONSOLE"}
    <3>1. ProductionTable(Script)
      BY <1>3, ScriptProduction
    <3>2. QED
      BY <3>1 DEF ProductionTable, Step
  <2>2. \/ k = 30 \/ k = 31 \/ k = 32 \/ k = 33 \/ k = 34 \/ k = 35 \/ k = 36 \/ k = 37 \/ k = 38
        \/ k = 39
    <3>1. k \in 30 .. 39
      BY <1>1, <1>3, ScriptLength
    <3>2. QED
      BY <3>1
  <2>3. QED
    BY <1>3, <2>1, <2>2, CellsWritten, ProductionWritten
<1>4. CASE k \in 30 .. Len(Script) /\ build = "perf-bench"
  <2>1. /\ Script[30].reads = {}
        /\ Script[31].reads = {"BOOTSTRAP_AS_TABLE", "BOOTSTRAP_AS_CAP", "AS_ARENA", "PMM", "MMU"}
        /\ Script[32].reads = {"TASK_ARENA", "BOOTSTRAP_AS_TABLE"} /\ Script[33].reads = {}
        /\ Script[34].reads = {"CPU"} /\ Script[35].reads = {"CONSOLE"}
    BY <1>4, ScriptBench, StepFields DEF BenchTable
  <2>2. k = 30 \/ k = 31 \/ k = 32 \/ k = 33 \/ k = 34 \/ k = 35
    <3>1. k \in 30 .. 35
      BY <1>1, <1>4, ScriptLength
    <3>2. QED
      BY <3>1
  <2>3. QED
    BY <1>4, <2>1, <2>2, CellsWritten, BenchWritten
<1>5. QED
  BY <1>1, <1>2, <1>3, <1>4 DEF Builds

\* The boot of bsp-qemu-virt, in either build, from any exception level and any
\* state of the controller, with interrupts at any instant: code, stack, vectors
\* and UART translate at every step, and no StaticCell is read before it is
\* written.
THEOREM BootSafeCorrect == Spec => []BootSafe
<1>1. ASSUME IInv, BootInv, [Next]_vars PROVE BootInv'
  BY <1>1, BootStepKeeps, OtherStepKeeps DEF IInv
<1>2. ASSUME IInv, BootInv PROVE BootSafe
  <2>1. build \in Builds /\ stage \in Int /\ stage >= 0 /\ (Len(Script) = 35 \/ Len(Script) = 39) /\ MachAt(stage, mach)
    BY <1>2, ScriptLength DEF BootInv
  <2>2. Reaches(mach, mach.pc, "ram")
    BY <2>1 DEF MachAt, Reaches, Window
  <2>3. NextStepReaches
    <3>1. SUFFICES ASSUME stage # 0, ~(stage > Len(Script)) PROVE NextStepReaches
      BY DEF NextStepReaches, Halted, Booted
    <3>2. stage \in 1 .. Len(Script)
      BY <2>1, <3>1
    <3>3. Script[stage].reads \subseteq cells
      BY <1>2, <3>2, ReadsWritten
    <3>4. Placed(stage)
      BY <2>1, <3>2, StepPlaces
    <3>5. Script[stage].name = "cpu" => mach.el = 1
      BY <2>1, <3>4 DEF Placed, MachAt
    <3>6. stage = 5 \/ stage = 10 => Reaches(mach, "low", "dev")
      BY <2>1 DEF MachAt, Reaches, Window
    <3>7. stage > 19 => Reaches(mach, "high", "dev")
      BY <2>1 DEF MachAt, Reaches, Window
    <3>8. /\ Script[stage].name = "low_console" => stage = 5 \/ stage = 10
          /\ Script[stage].name \in {"console", "gic_init"} => stage > 19
      BY <2>1, <3>4 DEF Placed
    <3>9. QED
      BY <3>3, <3>5, <3>6, <3>7, <3>8 DEF NextStepReaches
  <2>4. PanicReaches
    <3>1. SUFFICES ASSUME mach.vbar # None PROVE PanicReaches
      BY DEF PanicReaches
    <3>2. stage > 6
      BY <2>1, <3>1 DEF MachAt
    <3>3. Reaches(mach, mach.vbar, "ram")
      BY <2>1, <3>2 DEF MachAt, Reaches, Window
    <3>4. Reaches(mach, mach.sp, "ram") /\ Reaches(mach, mach.sp, "dev")
      BY <2>1, <3>2 DEF MachAt, Reaches, Window
    <3>5. QED
      BY <3>3, <3>4 DEF PanicReaches
  <2>5. stage > 1 /\ "I" \notin daif => "GIC" \in cells /\ mach.vbar = "high"
    <3>1. SUFFICES ASSUME stage > 1, "I" \notin daif PROVE "GIC" \in cells /\ mach.vbar = "high"
      OBVIOUS
    <3>2. build = "production" /\ stage > 32
      BY <1>2, <3>1 DEF BootInv, Quiet, Forwards
    <3>3. "GIC" \in cells
      BY <1>2, <2>1, <3>2, ProductionWritten
    <3>4. mach.vbar = "high"
      BY <2>1, <3>2 DEF MachAt
    <3>5. QED
      BY <3>3, <3>4
  <2>6. running \in Task => TaskReads \subseteq cells
    <3>1. SUFFICES ASSUME stage > Len(Script) PROVE TaskReads \subseteq cells
      BY <1>2 DEF BootInv, Started, Booted
    <3>2. /\ stage > 34
          /\ build = "production" => stage > 38
      <4> DEFINE n == Len(Script)
      <4>1. (n = 35 \/ n = 39) /\ (build = "production" => n = 39) /\ stage > n
        BY <2>1, <3>1, ScriptLength
      <4> HIDE DEF n
      <4>2. QED
        BY <2>1, <4>1
    <3>3. {"CONSOLE", "CPU", "AS_ARENA", "MMU", "BOOTSTRAP_AS", "BOOT_NS"} \subseteq cells
      BY <1>2, <2>1, <3>2, CellsWritten
    <3>4. CASE build = "production"
      BY <1>2, <2>1, <3>2, <3>3, <3>4, ProductionWritten DEF TaskReads
    <3>5. CASE build = "perf-bench"
      BY <1>2, <2>1, <3>2, <3>3, <3>5, BenchWritten DEF TaskReads
    <3>6. QED
      BY <2>1, <3>4, <3>5 DEF Builds
  <2>7. QED
    BY <2>2, <2>3, <2>4, <2>5, <2>6 DEF BootSafe
<1>3. QED
  BY <1>1, <1>2, InitBoot, BootInvariant, PTL DEF Spec
=============================================================================
