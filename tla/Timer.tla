-------------------------------- MODULE Timer --------------------------------
(***************************************************************************)
(* The tick arithmetic of hal/src/timer.rs: conversions between counter    *)
(* ticks and nanoseconds.  The code multiplies in 128 bits, which holds    *)
(* every product of two u64 values, and saturates the result to u64: here  *)
(* the product is exact and U64Max is the saturation bound.                *)
(***************************************************************************)
EXTENDS Naturals

CONSTANTS
  NanosPerSecond,  \* NANOS_PER_SECOND (10^9)
  U64Max           \* u64::MAX

ASSUME TimerAssumption ==
  /\ NanosPerSecond \in Nat \ {0}
  /\ U64Max \in Nat \ {0}

U64 == 0 .. U64Max

saturate(n) == IF n > U64Max THEN U64Max ELSE n

ticks_to_ns(count, frequency_hz) == saturate((count * NanosPerSecond) \div frequency_hz)

\* Mutant: flooring division.
FloorTicks(ns, frequency_hz) == saturate((ns * frequency_hz) \div NanosPerSecond)

\* Ceiling division.
ns_to_ticks(ns, frequency_hz) ==
  saturate((ns * frequency_hz + NanosPerSecond - 1) \div NanosPerSecond)

\* The tick period rounded to the nearest nanosecond, and never 0.
resolution_ns_for_freq(frequency_hz) ==
  LET raw == (NanosPerSecond + frequency_hz \div 2) \div frequency_hz
  IN IF raw = 0 THEN 1 ELSE raw
=============================================================================
