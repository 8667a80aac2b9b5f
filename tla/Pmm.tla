--------------------------------- MODULE Pmm ---------------------------------
(***************************************************************************)
(* kernel::mm::pmm::Pmm (kernel/src/mm/pmm.rs): the bitmap allocator of    *)
(* physical frames, as operators on a Pmm record; PmmSpec is the machine.  *)
(*                                                                         *)
(* Addresses are naturals and a page is PageSize of them, so that ranges   *)
(* may be unaligned, empty or inverted as in the code.  The bitmap is the  *)
(* set of frame indices whose bit is 1.                                    *)
(***************************************************************************)
EXTENDS Naturals, Sequences, FiniteSets, Option

CONSTANTS
  PageSize,      \* PAGE_SIZE (4096)
  BitmapBits,    \* N * 8, the bits of the bitmap
  MaxReserved    \* R, the slots of reserved_ranges

ASSUME PmmAssumption ==
  /\ PageSize \in Nat \ {0}
  /\ BitmapBits \in Nat /\ MaxReserved \in Nat
  /\ None \notin Nat

\* struct PhysFrameRange: [start, end), unchecked.
PhysFrameRange == [start : Nat, end : Nat]

-----------------------------------------------------------------------------
(* Ranges.                                                                 *)

saturating_sub(a, b) == IF a > b THEN a - b ELSE 0

is_aligned(r) == r.start % PageSize = 0 /\ r.end % PageSize = 0
frame_count(r) == saturating_sub(r.end, r.start) \div PageSize
range_contains(r, pa) == r.start <= pa /\ pa < r.end

\* The frame of extent e that holds address pa, and a frame's address.
frame_index(e, pa) == saturating_sub(pa, e.start) \div PageSize
frame_addr(e, idx) == e.start + idx * PageSize

Frames(e) == 0 .. (frame_count(e) - 1)

\* The frames whose bits Pmm::new sets for reserved range r.
CoveredFrames(e, r) ==
  {frame_index(e, r.start) + off : off \in 0 .. (frame_count(r) - 1)}

ReservedFrames(e, reserved) ==
  UNION {CoveredFrames(e, reserved[i]) : i \in DOMAIN reserved}

-----------------------------------------------------------------------------
(* Pmm::new.                                                               *)

overlap(a, b) == a.start < b.end /\ b.start < a.end

Overlapping(reserved) ==
  \E i, j \in DOMAIN reserved : i < j /\ overlap(reserved[i], reserved[j])

\* A range of the list fails its own checks: MisalignedAddress or
\* OutOfRange, whichever the first such range meets first.
malformed(extent, r) ==
  \/ ~is_aligned(r)
  \/ r.start < extent.start \/ r.end > extent.end
  \/ r.end < r.start

new_result(extent, reserved) ==
  IF ~is_aligned(extent) THEN "MisalignedAddress"
  ELSE IF frame_count(extent) > BitmapBits THEN "OutOfRange"
  ELSE IF Len(reserved) > MaxReserved THEN "TooManyReservedRanges"
  ELSE IF \E i \in DOMAIN reserved : malformed(extent, reserved[i]) THEN "Malformed"
  ELSE IF Overlapping(reserved) THEN "OverlappingReservedRanges"
  ELSE "Ok"

\* first_zero_bit, or the frame count when every bit is set.
first_zero_bit(bitmap, n) ==
  IF (0 .. (n - 1)) \subseteq bitmap THEN n
  ELSE CHOOSE i \in 0 .. n : i \notin bitmap /\ \A j \in 0 .. (i - 1) : j \in bitmap

\* The counter is summed range by range, not read off the bitmap.
reserved_total(reserved) ==
  LET summed[i \in 0 .. Len(reserved)] ==
        IF i = 0 THEN 0 ELSE summed[i - 1] + frame_count(reserved[i])
  IN summed[Len(reserved)]

new(extent, reserved) ==
  LET bits == ReservedFrames(extent, reserved)
  IN [bitmap          |-> bits,
      extent          |-> extent,
      reserved_ranges |-> reserved,
      hint            |-> first_zero_bit(bits, frame_count(extent)),
      free_count      |-> saturating_sub(frame_count(extent), reserved_total(reserved)),
      reserved_count  |-> reserved_total(reserved),
      allocated_count |-> 0]

-----------------------------------------------------------------------------
(* alloc_frame and free_frame.                                             *)

\* The forward scan from the hint, then the wrapped one; None if both fail.
ClearFrom(p, lo, hi) == {i \in lo .. (hi - 1) : i \notin p.bitmap}

Lowest(S) == CHOOSE i \in S : \A j \in S : i <= j

alloc_index(p) ==
  LET forward == ClearFrom(p, p.hint, frame_count(p.extent))
      wrapped == ClearFrom(p, 0, p.hint)
  IN IF forward # {} THEN Lowest(forward)
     ELSE IF wrapped # {} THEN Lowest(wrapped)
     ELSE None

alloc_frame(p, idx) ==
  [bitmap          |-> p.bitmap \union {idx},
   extent          |-> p.extent,
   reserved_ranges |-> p.reserved_ranges,
   hint            |-> idx + 1,
   free_count      |-> saturating_sub(p.free_count, 1),
   reserved_count  |-> p.reserved_count,
   allocated_count |-> p.allocated_count + 1]

\* Mutant: no scan of the reserved ranges, the bitmap alone decides.
FreeIgnoresReserved(p, pa) ==
  IF ~range_contains(p.extent, pa) THEN "OutOfRange"
  ELSE IF frame_index(p.extent, pa) \notin p.bitmap THEN "DoubleFree"
  ELSE "Ok"

free_frame_result(p, pa) ==
  IF ~range_contains(p.extent, pa) THEN "OutOfRange"
  ELSE IF \E i \in DOMAIN p.reserved_ranges : range_contains(p.reserved_ranges[i], pa)
    THEN "DoubleFree"
  ELSE IF frame_index(p.extent, pa) \notin p.bitmap THEN "DoubleFree"
  ELSE "Ok"

free_frame(p, idx) ==
  [bitmap          |-> p.bitmap \ {idx},
   extent          |-> p.extent,
   reserved_ranges |-> p.reserved_ranges,
   hint            |-> IF idx < p.hint THEN idx ELSE p.hint,
   free_count      |-> p.free_count + 1,
   reserved_count  |-> p.reserved_count,
   allocated_count |-> saturating_sub(p.allocated_count, 1)]

-----------------------------------------------------------------------------
(* could_yield_pa_overlapping.                                             *)

\* The first reserved range that covers the cursor, as the frame past its end.
Covering(p, cursor) ==
  {i \in DOMAIN p.reserved_ranges :
     /\ frame_index(p.extent, p.reserved_ranges[i].start) <= cursor
     /\ cursor < frame_index(p.extent, p.reserved_ranges[i].end)}

\* Mutant: the last frame of the window is rounded down.
LastWindowDown(e, end) == frame_index(e, end)

\* One past the frame that holds the last address of the clipped window.
window_end(e, end) ==
  (saturating_sub(IF end < e.end THEN end ELSE e.end, e.start) + PageSize - 1) \div PageSize

\* The loop over the cursor, up to the frame last: a covered cursor jumps past
\* the range that covers it.
YieldScan(p, last) ==
  LET e == p.extent
      yields[cursor \in 0 .. frame_count(e)] ==
        IF cursor >= last THEN FALSE
        ELSE IF Covering(p, cursor) = {} THEN TRUE
        ELSE yields[frame_index(e, p.reserved_ranges[Lowest(Covering(p, cursor))].end)]
  IN yields

could_yield_pa_overlapping(p, q) ==
  /\ q.start < q.end
  /\ ~(q.end <= p.extent.start \/ q.start >= p.extent.end)
  /\ YieldScan(p, window_end(p.extent, q.end))[frame_index(p.extent, q.start)]
=============================================================================
