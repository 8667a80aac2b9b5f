------------------------------- MODULE PmmSpec -------------------------------
(***************************************************************************)
(* One Pmm from Pmm::new over the BSP's reserved ranges to any sequence of *)
(* alloc_frame and free_frame calls.  owned and written are histories: the *)
(* frames handed out and not yet returned, and the frames whose memory     *)
(* holds something else than zeros.                                        *)
(***************************************************************************)
EXTENDS Pmm

CONSTANTS
  Extents,       \* the extents Pmm::new may be called with
  RangeChoices   \* the ranges a reserved list may hold

ASSUME PmmSpecAssumption ==
  /\ Extents \subseteq PhysFrameRange
  /\ RangeChoices \subseteq PhysFrameRange

VARIABLES
  pmm,      \* the Pmm, or None before Pmm::new
  owned,    \* history: the frames alloc_frame returned and nobody freed since
  written   \* the frames that are not all zeros

vars == <<pmm, owned, written>>

-----------------------------------------------------------------------------
Init ==
  /\ pmm = None
  /\ owned = {}
  /\ written = {}

\* Nobody owns a frame yet; memory holds anything at boot.
New(extent, reserved) ==
  /\ pmm = None
  /\ new_result(extent, reserved) = "Ok"
  /\ pmm' = new(extent, reserved)
  /\ owned' = {}
  /\ written' = Frames(extent)

\* alloc_frame zero-fills the frame it returns; None changes nothing.
AllocFrame ==
  /\ pmm # None
  /\ LET idx == alloc_index(pmm)
     IN IF idx = None THEN UNCHANGED vars
        ELSE /\ pmm' = alloc_frame(pmm, idx)
             /\ owned' = owned \union {idx}
             /\ written' = written \ {idx}

\* free_frame of any aligned address, by a caller that may not own it; every
\* error leaves the Pmm as it was.
FreeFrame(pa) ==
  /\ pmm # None
  /\ free_frame_result(pmm, pa) = "Ok"
  /\ LET idx == frame_index(pmm.extent, pa)
     IN /\ pmm' = free_frame(pmm, idx)
        /\ owned' = owned \ {idx}
  /\ UNCHANGED written

\* The owner of a frame writes to it.
Write(idx) ==
  /\ idx \in owned
  /\ written' = written \union {idx}
  /\ UNCHANGED <<pmm, owned>>

\* Lists longer than MaxReserved are tried too.
ReservedLists == UNION {[1 .. n -> RangeChoices] : n \in 0 .. (MaxReserved + 1)}

AlignedAddrs == {i * PageSize : i \in 0 .. (BitmapBits + 2)}

Next ==
  \/ \E extent \in Extents, reserved \in ReservedLists : New(extent, reserved)
  \/ AllocFrame
  \/ \E pa \in AlignedAddrs : FreeFrame(pa)
  \/ \E idx \in owned : Write(idx)

Spec == Init /\ [][Next]_vars

-----------------------------------------------------------------------------
(* Correctness.                                                            *)

Total == frame_count(pmm.extent)
AllFrames == Frames(pmm.extent)
Reserved == ReservedFrames(pmm.extent, pmm.reserved_ranges)

\* The single bit that stands for Allocated and for Reserved is never
\* ambiguous: the set bits are the reserved frames and the frames callers own,
\* and no frame is both.
BitmapExact ==
  pmm # None => /\ pmm.bitmap = Reserved \union owned
                /\ Reserved \intersect owned = {}

\* "hint <= lowest-free-index": the forward scan finds every free frame and
\* the wrapped scan of alloc_frame is dead code.
HintBelowFree ==
  pmm # None => \A i \in AllFrames : i \notin pmm.bitmap => pmm.hint <= i

\* A frame is handed out only when nobody owns it and it is not reserved, and
\* what its new owner finds in it is zeros, whatever its last owner wrote.
HandedOutFresh ==
  [][\A i \in owned' \ owned :
       pmm # None /\ i \in AllFrames /\ i \notin Reserved /\ i \notin written']_vars

\* The addresses of frame i meet the range q.
Meets(i, q) ==
  \E pa \in frame_addr(pmm.extent, i) .. (frame_addr(pmm.extent, i) + PageSize - 1) :
    range_contains(q, pa)

\* What the allocator says of itself is exact, whatever was allocated and freed.
\* stats(), kept by increments, never drifts from the frames it counts, so
\* free_frames is a budget; and the query the task loader trusts for the
\* disjointness of its copy answers yes exactly when some frame that alloc_frame
\* can ever return meets the range.
AnswersExact ==
  pmm # None =>
    /\ pmm.reserved_count = Cardinality(Reserved)
    /\ pmm.allocated_count = Cardinality(owned)
    /\ pmm.free_count = Cardinality(AllFrames \ pmm.bitmap)
    /\ \A a, b \in 0 .. (BitmapBits + 2) * PageSize :
         could_yield_pa_overlapping(pmm, [start |-> a, end |-> b]) <=>
           \E i \in AllFrames \ Reserved : Meets(i, [start |-> a, end |-> b])
=============================================================================
