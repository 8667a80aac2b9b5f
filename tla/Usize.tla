-------------------------------- MODULE Usize --------------------------------
(***************************************************************************)
(* The overflow-aware arithmetic of Rust's usize, for a UsizeMax of any    *)
(* size.                                                                   *)
(***************************************************************************)
EXTENDS Naturals, Option

CONSTANT UsizeMax   \* usize::MAX

ASSUME UsizeAssumption == UsizeMax \in Nat /\ None \notin Nat

saturated(n) == IF n > UsizeMax THEN UsizeMax ELSE n

saturating_add(a, b) == saturated(a + b)
saturating_mul(a, b) == saturated(a * b)

\* checked_add: None on overflow.
checked_add(a, b) == IF a + b > UsizeMax THEN None ELSE a + b

div_ceil(a, b) == (a + b - 1) \div b
=============================================================================
