-------------------------------- MODULE MCPmm --------------------------------
(***************************************************************************)
(* Pages of two addresses.  The extents start above address 0; one is      *)
(* unaligned, one is inverted, one is too large for the bitmap.            *)
(***************************************************************************)
EXTENDS PmmSpec

R(a, b) == [start |-> a, end |-> b]

MCExtents == {R(2, 10), R(2, 6), R(3, 10), R(6, 2), R(2, 14)}

\* Aligned ranges of the extent (empty ones too), and three that are refused.
MCRanges ==
  {R(a, b) : a \in {2, 4, 6, 8}, b \in {4, 6, 8, 10}} \union {R(3, 4), R(0, 4), R(8, 12)}
=============================================================================
