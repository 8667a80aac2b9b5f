------------------------------- MODULE Option -------------------------------
(***************************************************************************)
(* Rust's Option::None, one value shared by every module of the project.   *)
(***************************************************************************)
CONSTANT None
=============================================================================
