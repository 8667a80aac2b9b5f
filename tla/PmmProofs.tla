------------------------------ MODULE PmmProofs ------------------------------
(***************************************************************************)
(* Proofs about the frame allocator, for every page size, extent, bitmap   *)
(* size and list of reserved ranges.                                       *)
(***************************************************************************)
EXTENDS PmmSpec, WellFoundedInduction, FiniteSetTheorems, TLAPS

-----------------------------------------------------------------------------
(* Numbers.                                                                *)

\* Every non-empty set of naturals has a least element.
LEMMA LeastElement ==
  \A S \in SUBSET Nat : S # {} => \E m \in S : \A k \in S : m <= k
<1>1. SUFFICES ASSUME NEW S \in SUBSET Nat, S # {}
               PROVE  \E m \in S : \A k \in S : m <= k
  OBVIOUS
<1> DEFINE Less == OpToRel(<, Nat)
<1>2. IsWellFoundedOn(Less, Nat)
  BY NatLessThanWellFounded, Zenon
<1>3. \A x, y \in Nat : y < x => <<y, x>> \in Less
  BY DEF OpToRel
<1> HIDE DEF Less
<1>4. PICK m \in S : \A y \in S : ~ (<<y, m>> \in Less)
  BY <1>1, <1>2, WFMin, Zenon
<1>5. \A y \in S : ~(y < m)
  BY <1>3, <1>4, Zenon
<1>6. QED
  BY <1>5

\* Lowest(S) is the least element of S: the scans of alloc_frame return the
\* first clear bit.
LEMMA LowestFacts ==
  ASSUME NEW S \in SUBSET Nat, S # {}
  PROVE  Lowest(S) \in S /\ \A j \in S : Lowest(S) <= j
  BY LeastElement DEF Lowest

\* An aligned address is a multiple of the page size, and back.
LEMMA Multiple ==
  ASSUME NEW x \in Nat, x % PageSize = 0
  PROVE  \E k \in Nat : x = k * PageSize
<1>1. x = PageSize * (x \div PageSize) + (x % PageSize) /\ x \div PageSize \in Nat
  BY PmmAssumption
<1>2. x = (x \div PageSize) * PageSize
  BY <1>1, PmmAssumption
<1>3. QED
  BY <1>1, <1>2

\* A multiple of the page size divides back.
LEMMA DivMultiple ==
  ASSUME NEW k \in Nat
  PROVE  (k * PageSize) \div PageSize = k
  BY PmmAssumption

\* Frame arithmetic on aligned addresses: the quotient of a difference is the
\* difference of the quotients, saturating.
LEMMA DivDifference ==
  ASSUME NEW a \in Nat, NEW b \in Nat
  PROVE  saturating_sub(a * PageSize, b * PageSize) \div PageSize = saturating_sub(a, b)
<1>1. CASE a > b
  <2>1. a - b \in Nat /\ (a - b) * PageSize = a * PageSize - b * PageSize
    BY <1>1, PmmAssumption
  <2>2. a * PageSize > b * PageSize
    BY <1>1, PmmAssumption
  <2>3. ((a - b) * PageSize) \div PageSize = a - b
    BY <2>1, DivMultiple
  <2>4. QED
    BY <1>1, <2>1, <2>2, <2>3 DEF saturating_sub
<1>2. CASE ~(a > b)
  <2>1. ~(a * PageSize > b * PageSize)
    BY <1>2, PmmAssumption
  <2>2. 0 \div PageSize = 0
    BY PmmAssumption
  <2>3. QED
    BY <1>2, <2>1, <2>2 DEF saturating_sub
<1>3. QED
  BY <1>1, <1>2

-----------------------------------------------------------------------------
(* Ranges.                                                                 *)

\* The shape Pmm::new accepts.
Accepted(extent, reserved) ==
  /\ extent \in PhysFrameRange
  /\ is_aligned(extent)
  /\ \A i \in DOMAIN reserved :
       reserved[i] \in PhysFrameRange /\ ~malformed(extent, reserved[i])

\* A reserved range lies inside the frames of the extent, and a frame it
\* covers has its address in the range.
LEMMA CoveredFacts ==
  ASSUME NEW e \in PhysFrameRange, NEW r \in PhysFrameRange,
         is_aligned(e), ~malformed(e, r)
  PROVE  /\ CoveredFrames(e, r) \subseteq Frames(e)
         /\ \A k \in Nat :
              (e.start <= k * PageSize /\ frame_index(e, k * PageSize) \in CoveredFrames(e, r))
                => range_contains(r, k * PageSize)
<1>1. PICK es \in Nat : e.start = es * PageSize
  BY Multiple DEF is_aligned, PhysFrameRange
<1>2. PICK ee \in Nat : e.end = ee * PageSize
  BY Multiple DEF is_aligned, PhysFrameRange
<1>3. PICK rs \in Nat : r.start = rs * PageSize
  BY Multiple DEF is_aligned, malformed, PhysFrameRange
<1>4. PICK re \in Nat : r.end = re * PageSize
  BY Multiple DEF is_aligned, malformed, PhysFrameRange
<1>5. es <= rs /\ rs <= re /\ re <= ee
  <2>1. e.start <= r.start /\ r.start <= r.end /\ r.end <= e.end
    BY DEF malformed, PhysFrameRange
  <2>2. \A a, b \in Nat : a * PageSize <= b * PageSize => a <= b
    BY PmmAssumption
  <2>3. QED
    BY <1>1, <1>2, <1>3, <1>4, <2>1, <2>2
<1>6. frame_count(e) = ee - es /\ frame_count(r) = re - rs /\ frame_index(e, r.start) = rs - es
  BY <1>1, <1>2, <1>3, <1>4, <1>5, DivDifference DEF frame_count, frame_index, saturating_sub
<1>7. CoveredFrames(e, r) = {(rs - es) + off : off \in 0 .. (re - rs - 1)}
  BY <1>6 DEF CoveredFrames
<1>8. CoveredFrames(e, r) \subseteq Frames(e)
  BY <1>5, <1>6, <1>7 DEF Frames
<1>9. ASSUME NEW k \in Nat, e.start <= k * PageSize,
             frame_index(e, k * PageSize) \in CoveredFrames(e, r)
      PROVE  range_contains(r, k * PageSize)
  <2>1. es <= k
    BY <1>1, <1>9, PmmAssumption
  <2>2. frame_index(e, k * PageSize) = k - es
    BY <1>1, <2>1, DivDifference DEF frame_index, saturating_sub
  <2>3. PICK off \in 0 .. (re - rs - 1) : k - es = (rs - es) + off
    BY <1>7, <1>9, <2>2
  <2>4. rs <= k /\ k < re
    BY <1>5, <2>3
  <2>5. rs * PageSize <= k * PageSize /\ k * PageSize < re * PageSize
    BY <2>4, PmmAssumption
  <2>6. QED
    BY <1>3, <1>4, <2>5 DEF range_contains
<1>10. QED
  BY <1>8, <1>9

\* What Pmm::new accepts covers frames of the extent only, and free_frame's
\* scan of the reserved ranges protects every reserved frame.
LEMMA ReservedFacts ==
  ASSUME NEW e, NEW reserved, Accepted(e, reserved)
  PROVE  /\ ReservedFrames(e, reserved) \subseteq Frames(e)
         /\ \A k \in Nat :
              (/\ e.start <= k * PageSize
               /\ frame_index(e, k * PageSize) \in ReservedFrames(e, reserved))
                => \E i \in DOMAIN reserved : range_contains(reserved[i], k * PageSize)
<1>1. \A i \in DOMAIN reserved :
        /\ CoveredFrames(e, reserved[i]) \subseteq Frames(e)
        /\ \A k \in Nat :
             (/\ e.start <= k * PageSize
              /\ frame_index(e, k * PageSize) \in CoveredFrames(e, reserved[i]))
               => range_contains(reserved[i], k * PageSize)
  BY CoveredFacts DEF Accepted
<1>2. QED
  BY <1>1, Zenon DEF ReservedFrames

\* A frame index inside the extent is a frame of it.
LEMMA FrameIndexInExtent ==
  ASSUME NEW e \in PhysFrameRange, is_aligned(e), NEW k \in Nat,
         range_contains(e, k * PageSize)
  PROVE  frame_index(e, k * PageSize) \in Frames(e)
<1>1. PICK es \in Nat : e.start = es * PageSize
  BY Multiple DEF is_aligned, PhysFrameRange
<1>2. PICK ee \in Nat : e.end = ee * PageSize
  BY Multiple DEF is_aligned, PhysFrameRange
<1>3. es <= k /\ k < ee
  BY <1>1, <1>2, PmmAssumption DEF range_contains
<1>4. frame_count(e) = ee - es /\ frame_index(e, k * PageSize) = k - es
  BY <1>1, <1>2, <1>3, DivDifference DEF frame_count, frame_index, saturating_sub
<1>5. QED
  BY <1>3, <1>4 DEF Frames

\* The number of frames is a natural number.
LEMMA FrameCountType ==
  ASSUME NEW e \in PhysFrameRange
  PROVE  frame_count(e) \in Nat /\ Frames(e) \subseteq Nat
<1>1. saturating_sub(e.end, e.start) \in Nat
  BY DEF PhysFrameRange, saturating_sub
<1>2. frame_count(e) \in Nat
  BY <1>1, PmmAssumption DEF frame_count
<1>3. QED
  BY <1>2 DEF Frames

\* The first clear bit is at or below every clear bit.
LEMMA FirstZeroFacts ==
  ASSUME NEW n \in Nat, NEW bits
  PROVE  /\ first_zero_bit(bits, n) \in 0 .. n
         /\ \A i \in 0 .. (n - 1) : i \notin bits => first_zero_bit(bits, n) <= i
<1>1. CASE (0 .. (n - 1)) \subseteq bits
  BY <1>1 DEF first_zero_bit
<1>2. CASE ~((0 .. (n - 1)) \subseteq bits)
  <2> DEFINE Clear == {i \in 0 .. (n - 1) : i \notin bits}
  <2>1. PICK m \in Clear : \A k \in Clear : m <= k
    <3>1. Clear \in SUBSET Nat /\ Clear # {}
      BY <1>2
    <3> HIDE DEF Clear
    <3>2. QED
      BY <3>1, LeastElement
  <2>2. m \in 0 .. n /\ m \notin bits /\ \A j \in 0 .. (m - 1) : j \in bits
    BY <2>1
  <2> DEFINE z == first_zero_bit(bits, n)
  <2>3. z \in 0 .. n /\ z \notin bits /\ \A j \in 0 .. (z - 1) : j \in bits
    BY <1>2, <2>2 DEF first_zero_bit
  <2> HIDE DEF z
  <2>4. \A i \in 0 .. (n - 1) : i \notin bits => z <= i
    BY <2>3
  <2>5. QED
    BY <2>3, <2>4 DEF z
<1>3. QED
  BY <1>1, <1>2

-----------------------------------------------------------------------------
(* The invariant.                                                          *)

\* Besides the two properties: what new accepted is remembered, the hint is an
\* index of the extent or one past it, and callers own frames of the extent.
IInv ==
  /\ pmm # None =>
       /\ Accepted(pmm.extent, pmm.reserved_ranges)
       /\ pmm.hint \in 0 .. Total
       /\ owned \subseteq AllFrames
  /\ BitmapExact
  /\ HintBelowFree

\* alloc_frame: under the invariant the forward scan finds the lowest clear
\* bit of the whole bitmap, or there is none.
LEMMA AllocIndexFacts ==
  ASSUME IInv, pmm # None, alloc_index(pmm) # None
  PROVE  /\ alloc_index(pmm) \in AllFrames \ pmm.bitmap
         /\ \A i \in AllFrames \ pmm.bitmap : alloc_index(pmm) <= i
<1> DEFINE forward == ClearFrom(pmm, pmm.hint, frame_count(pmm.extent))
           wrapped == ClearFrom(pmm, 0, pmm.hint)
<1>1. frame_count(pmm.extent) \in Nat /\ pmm.hint \in 0 .. frame_count(pmm.extent)
  BY FrameCountType DEF IInv, Accepted, Total
<1>2. forward = AllFrames \ pmm.bitmap /\ wrapped = {}
  <2>1. \A i \in AllFrames : i \notin pmm.bitmap => pmm.hint <= i
    BY DEF IInv, HintBelowFree
  <2>2. QED
    BY <1>1, <2>1 DEF ClearFrom, AllFrames, Frames
<1>3. alloc_index(pmm) = IF forward # {} THEN Lowest(forward)
                         ELSE IF wrapped # {} THEN Lowest(wrapped) ELSE None
  BY DEF alloc_index
<1>4. forward \in SUBSET Nat
  BY <1>1 DEF ClearFrom
<1> HIDE DEF forward, wrapped
<1>5. forward # {} /\ alloc_index(pmm) = Lowest(forward)
  BY <1>2, <1>3
<1>6. QED
  BY <1>2, <1>4, <1>5, LowestFacts

\* Before Pmm::new there is nothing to say.
LEMMA InitInv == Init => IInv
  BY DEF Init, IInv, BitmapExact, HintBelowFree

\* Pmm::new establishes the invariant: its checks are what makes the bits it
\* sets frames of the extent.
LEMMA NewInv ==
  ASSUME NEW extent \in Extents, NEW reserved \in ReservedLists,
         IInv, New(extent, reserved)
  PROVE  IInv'
<1>1. extent \in PhysFrameRange
  BY PmmSpecAssumption
<1>2. /\ is_aligned(extent)
      /\ \A i \in DOMAIN reserved : ~malformed(extent, reserved[i])
  BY DEF New, new_result
<1>3. \A i \in DOMAIN reserved : reserved[i] \in PhysFrameRange
  BY PmmAssumption, PmmSpecAssumption DEF ReservedLists
<1>4. Accepted(extent, reserved)
  BY <1>1, <1>2, <1>3 DEF Accepted
<1>5. owned' = {}
  BY DEF New
<1> DEFINE bits == ReservedFrames(extent, reserved)
<1>6. /\ pmm'.extent = extent
      /\ pmm'.reserved_ranges = reserved
      /\ pmm'.bitmap = bits
      /\ pmm'.hint = first_zero_bit(bits, frame_count(extent))
  BY DEF New, new
<1>7. /\ Total' = frame_count(extent)
      /\ AllFrames' = 0 .. (frame_count(extent) - 1)
      /\ Reserved' = bits
  BY <1>6 DEF Total, AllFrames, Reserved, Frames
<1> HIDE DEF bits
<1>8. frame_count(extent) \in Nat
  BY <1>1, FrameCountType
<1>9. /\ pmm'.hint \in 0 .. Total'
      /\ \A i \in AllFrames' : i \notin pmm'.bitmap => pmm'.hint <= i
  BY <1>6, <1>7, <1>8, FirstZeroFacts
<1>10. QED
  BY <1>4, <1>5, <1>6, <1>7, <1>9 DEF IInv, BitmapExact, HintBelowFree

\* alloc_frame sets a bit that was clear and moves the hint just past it.
LEMMA AllocInv ==
  ASSUME IInv, AllocFrame
  PROVE  IInv'
<1>1. CASE UNCHANGED vars
  BY <1>1 DEF vars, IInv, BitmapExact, HintBelowFree, Total, AllFrames, Reserved
<1>2. CASE ~UNCHANGED vars
  <2> DEFINE idx == alloc_index(pmm)
  <2>1. /\ pmm # None
        /\ idx # None
        /\ pmm' = alloc_frame(pmm, idx)
        /\ owned' = owned \union {idx}
    BY <1>2 DEF AllocFrame
  <2>2. idx \in AllFrames \ pmm.bitmap /\ \A i \in AllFrames \ pmm.bitmap : idx <= i
    BY <2>1, AllocIndexFacts
  <2> HIDE DEF idx
  <2>3. /\ pmm'.extent = pmm.extent
        /\ pmm'.reserved_ranges = pmm.reserved_ranges
        /\ pmm'.bitmap = pmm.bitmap \union {idx}
        /\ pmm'.hint = idx + 1
    BY <2>1 DEF alloc_frame
  <2>4. Total' = Total /\ AllFrames' = AllFrames /\ Reserved' = Reserved
    BY <2>3 DEF Total, AllFrames, Reserved
  <2>5. Total \in Nat /\ AllFrames = 0 .. (Total - 1)
    BY <2>1, FrameCountType DEF IInv, Accepted, Total, AllFrames, Frames
  <2>6. Accepted(pmm.extent, pmm.reserved_ranges)' /\ owned' \subseteq AllFrames'
    BY <2>1, <2>2, <2>3, <2>4 DEF IInv, Accepted
  <2>7. pmm'.hint \in 0 .. Total'
    BY <2>2, <2>3, <2>4, <2>5
  <2>8. BitmapExact'
    BY <2>1, <2>2, <2>3, <2>4 DEF IInv, BitmapExact
  <2>9. \A i \in AllFrames : i \notin pmm'.bitmap => idx + 1 <= i
    BY <2>2, <2>3, <2>5
  <2>10. QED
    BY <2>3, <2>4, <2>6, <2>7, <2>8, <2>9 DEF IInv, HintBelowFree
<1>3. QED
  BY <1>1, <1>2

\* free_frame clears only the bit of a frame somebody owns.
LEMMA FreeInv ==
  ASSUME NEW pa \in AlignedAddrs, IInv, FreeFrame(pa)
  PROVE  IInv'
<1> DEFINE idx == frame_index(pmm.extent, pa)
<1>1. PICK k \in Nat : pa = k * PageSize
  BY PmmAssumption DEF AlignedAddrs
<1>2. /\ pmm # None
      /\ range_contains(pmm.extent, pa)
      /\ \A i \in DOMAIN pmm.reserved_ranges : ~range_contains(pmm.reserved_ranges[i], pa)
      /\ idx \in pmm.bitmap
      /\ pmm' = free_frame(pmm, idx)
      /\ owned' = owned \ {idx}
  BY DEF FreeFrame, free_frame_result
<1>3. Accepted(pmm.extent, pmm.reserved_ranges)
  BY <1>2 DEF IInv
<1>4. idx \in AllFrames
  BY <1>1, <1>2, <1>3, FrameIndexInExtent DEF Accepted, AllFrames
<1>5. idx \notin Reserved
  BY <1>1, <1>2, <1>3, ReservedFacts DEF Reserved, range_contains
<1> HIDE DEF idx
<1>6. /\ pmm'.extent = pmm.extent
      /\ pmm'.reserved_ranges = pmm.reserved_ranges
      /\ pmm'.bitmap = pmm.bitmap \ {idx}
      /\ pmm'.hint = IF idx < pmm.hint THEN idx ELSE pmm.hint
  BY <1>2 DEF free_frame
<1>7. Total' = Total /\ AllFrames' = AllFrames /\ Reserved' = Reserved
  BY <1>6 DEF Total, AllFrames, Reserved
<1>8. Total \in Nat /\ AllFrames = 0 .. (Total - 1) /\ pmm.hint \in 0 .. Total
  BY <1>2, <1>3, FrameCountType DEF IInv, Accepted, Total, AllFrames, Frames
<1>9. BitmapExact'
  BY <1>2, <1>5, <1>6, <1>7 DEF IInv, BitmapExact
<1>10. pmm'.hint \in 0 .. Total'
  BY <1>4, <1>6, <1>7, <1>8
<1>11. \A i \in AllFrames : i \notin pmm'.bitmap => pmm'.hint <= i
  <2>1. \A i \in AllFrames : i \notin pmm.bitmap => pmm.hint <= i
    BY <1>2 DEF IInv, HintBelowFree
  <2>2. QED
    BY <1>4, <1>6, <1>8, <2>1
<1>12. owned' \subseteq AllFrames'
  BY <1>2, <1>7 DEF IInv
<1>13. Accepted(pmm.extent, pmm.reserved_ranges)'
  BY <1>3, <1>6 DEF Accepted
<1>14. QED
  BY <1>7, <1>9, <1>10, <1>11, <1>12, <1>13 DEF IInv, HintBelowFree

\* The inductive invariant of the allocator holds in every reachable state.
THEOREM PmmInvariant == Spec => []IInv
<1>1. Init => IInv
  BY InitInv
<1>2. IInv /\ [Next]_vars => IInv'
  <2> SUFFICES ASSUME IInv, [Next]_vars
               PROVE  IInv'
    OBVIOUS
  <2>1. ASSUME NEW extent \in Extents, NEW reserved \in ReservedLists, New(extent, reserved)
        PROVE  IInv'
    BY <2>1, NewInv
  <2>2. CASE AllocFrame
    BY <2>2, AllocInv
  <2>3. ASSUME NEW pa \in AlignedAddrs, FreeFrame(pa)
        PROVE  IInv'
    BY <2>3, FreeInv
  <2>4. ASSUME NEW idx \in owned, Write(idx)
        PROVE  IInv'
    BY <2>4 DEF Write, IInv, BitmapExact, HintBelowFree, Total, AllFrames, Reserved
  <2>5. CASE UNCHANGED vars
    BY <2>5 DEF vars, IInv, BitmapExact, HintBelowFree, Total, AllFrames, Reserved
  <2>6. QED
    BY <2>1, <2>2, <2>3, <2>4, <2>5 DEF Next
<1>3. QED
  BY <1>1, <1>2, PTL DEF Spec

\* The set bits are the reserved frames and the frames callers own, never
\* both: neither alloc_frame nor free_frame confuses the two meanings of a bit.
THEOREM BitmapCorrect == Spec => []BitmapExact
<1>1. IInv => BitmapExact
  BY DEF IInv
<1>2. QED
  BY <1>1, PmmInvariant, PTL

\* No free frame is below the hint: the wrapped scan of alloc_frame is dead.
THEOREM HintCorrect == Spec => []HintBelowFree
<1>1. IInv => HintBelowFree
  BY DEF IInv
<1>2. QED
  BY <1>1, PmmInvariant, PTL

\* alloc_frame hands out frames of the extent that nobody owns and that are not
\* reserved, and hands them out zeroed.
THEOREM FreshCorrect == Spec => HandedOutFresh
<1> DEFINE Fresh == \A i \in owned' \ owned :
                      pmm # None /\ i \in AllFrames /\ i \notin Reserved /\ i \notin written'
<1>1. IInv /\ [Next]_vars => [Fresh]_vars
  <2> SUFFICES ASSUME IInv, Next, NEW i \in owned' \ owned
               PROVE  pmm # None /\ i \in AllFrames /\ i \notin Reserved /\ i \notin written'
    OBVIOUS
  <2>1. AllocFrame
    BY DEF Next, New, FreeFrame, Write
  <2>2. /\ pmm # None
        /\ alloc_index(pmm) # None
        /\ i = alloc_index(pmm)
        /\ written' = written \ {i}
    BY <2>1 DEF AllocFrame, vars
  <2>3. i \in AllFrames \ pmm.bitmap
    BY <2>2, AllocIndexFacts
  <2>4. i \notin Reserved
    BY <2>2, <2>3 DEF IInv, BitmapExact
  <2>5. QED
    BY <2>2, <2>3, <2>4
<1>2. QED
  BY <1>1, PmmInvariant, PTL DEF Spec, HandedOutFresh

-----------------------------------------------------------------------------
(* Counters.                                                               *)

\* frame_count and frame_index of a range Pmm::new accepts, in whole frames.
LEMMA RangeIndices ==
  ASSUME NEW e \in PhysFrameRange, NEW r \in PhysFrameRange,
         is_aligned(e), ~malformed(e, r)
  PROVE  /\ frame_index(e, r.start) \in Nat /\ frame_index(e, r.end) \in Nat
         /\ frame_index(e, r.start) <= frame_index(e, r.end)
         /\ frame_index(e, r.end) <= frame_count(e)
         /\ frame_count(r) = frame_index(e, r.end) - frame_index(e, r.start)
         /\ r.start = e.start + frame_index(e, r.start) * PageSize
         /\ r.end = e.start + frame_index(e, r.end) * PageSize
         /\ CoveredFrames(e, r) = frame_index(e, r.start) .. (frame_index(e, r.end) - 1)
<1>1. PICK es \in Nat : e.start = es * PageSize
  BY Multiple DEF is_aligned, PhysFrameRange
<1>2. PICK ee \in Nat : e.end = ee * PageSize
  BY Multiple DEF is_aligned, PhysFrameRange
<1>3. PICK rs \in Nat : r.start = rs * PageSize
  BY Multiple DEF is_aligned, malformed, PhysFrameRange
<1>4. PICK re \in Nat : r.end = re * PageSize
  BY Multiple DEF is_aligned, malformed, PhysFrameRange
<1>5. es <= rs /\ rs <= re /\ re <= ee
  <2>1. e.start <= r.start /\ r.start <= r.end /\ r.end <= e.end
    BY DEF malformed, PhysFrameRange
  <2>2. \A a, b \in Nat : a * PageSize <= b * PageSize => a <= b
    BY PmmAssumption
  <2>3. QED
    BY <1>1, <1>2, <1>3, <1>4, <2>1, <2>2
<1>6. /\ frame_count(e) = ee - es /\ frame_count(r) = re - rs
      /\ frame_index(e, r.start) = rs - es /\ frame_index(e, r.end) = re - es
  BY <1>1, <1>2, <1>3, <1>4, <1>5, DivDifference DEF frame_count, frame_index, saturating_sub
<1>7. \A a, b \in Nat : a <= b => b * PageSize = a * PageSize + (b - a) * PageSize
  BY PmmAssumption
<1>8. CoveredFrames(e, r) = {(rs - es) + off : off \in 0 .. (re - rs - 1)}
  BY <1>6 DEF CoveredFrames
<1>9. CoveredFrames(e, r) = (rs - es) .. (re - es - 1)
  <2>1. \A k \in (rs - es) .. (re - es - 1) :
          k - (rs - es) \in 0 .. (re - rs - 1) /\ k = (rs - es) + (k - (rs - es))
    BY <1>5
  <2>2. \A off \in 0 .. (re - rs - 1) : (rs - es) + off \in (rs - es) .. (re - es - 1)
    BY <1>5
  <2>3. ASSUME NEW k
        PROVE  k \in CoveredFrames(e, r) <=> k \in (rs - es) .. (re - es - 1)
    BY <1>8, <2>1, <2>2, Zenon
  <2>4. QED
    BY <2>3, Zenon
<1>10. es <= re
  BY <1>5
<1>11. QED
  BY <1>1, <1>3, <1>4, <1>5, <1>6, <1>7, <1>9, <1>10

\* Ranges that pass the overlap check cover different frames.
LEMMA CoveredDisjoint ==
  ASSUME NEW e \in PhysFrameRange, NEW r \in PhysFrameRange, NEW s \in PhysFrameRange,
         is_aligned(e), ~malformed(e, r), ~malformed(e, s), ~overlap(r, s)
  PROVE  CoveredFrames(e, r) \intersect CoveredFrames(e, s) = {}
<1> DEFINE a == frame_index(e, r.start)
           b == frame_index(e, r.end)
           c == frame_index(e, s.start)
           d == frame_index(e, s.end)
<1>1. /\ a \in Nat /\ b \in Nat
      /\ r.start = e.start + a * PageSize /\ r.end = e.start + b * PageSize
      /\ CoveredFrames(e, r) = a .. (b - 1)
  BY RangeIndices
<1>2. /\ c \in Nat /\ d \in Nat
      /\ s.start = e.start + c * PageSize /\ s.end = e.start + d * PageSize
      /\ CoveredFrames(e, s) = c .. (d - 1)
  BY RangeIndices
<1> HIDE DEF a, b, c, d
<1>3. ~(r.start < s.end) \/ ~(s.start < r.end)
  BY DEF overlap
<1>4. e.start \in Nat
  BY DEF PhysFrameRange
<1>5. d <= a \/ b <= c
  <2>1. \A x, y \in Nat : x < y => e.start + x * PageSize < e.start + y * PageSize
    BY <1>4, PmmAssumption
  <2>2. QED
    BY <1>1, <1>2, <1>3, <2>1
<1>6. QED
  BY <1>1, <1>2, <1>5

\* The frames the first n ranges of the list cover.
CoveredBy(e, reserved, n) == UNION {CoveredFrames(e, reserved[i]) : i \in 1 .. n}

\* Pmm::new's counter is the number of bits it set: the sum over disjoint
\* ranges is the size of their union, at every iteration of the loop.
LEMMA SummedExact ==
  ASSUME NEW e, NEW reserved \in Seq(PhysFrameRange),
         Accepted(e, reserved), ~Overlapping(reserved)
  PROVE  /\ IsFiniteSet(ReservedFrames(e, reserved))
         /\ reserved_total(reserved) = Cardinality(ReservedFrames(e, reserved))
<1> DEFINE N == Len(reserved)
           sum == [i \in 0 .. N |-> Cardinality(CoveredBy(e, reserved, i))]
           Sums(f) == f = [i \in 0 .. N |->
                             IF i = 0 THEN 0 ELSE f[i - 1] + frame_count(reserved[i])]
<1>1. N \in Nat /\ DOMAIN reserved = 1 .. N
  OBVIOUS
<1>2. e \in PhysFrameRange /\ is_aligned(e)
  BY DEF Accepted
<1>3. ASSUME NEW i \in 1 .. N
      PROVE  reserved[i] \in PhysFrameRange /\ ~malformed(e, reserved[i])
  BY <1>1 DEF Accepted
<1>4. \A i \in 1 .. N : CoveredFrames(e, reserved[i]) \subseteq Frames(e)
  BY <1>2, <1>3, CoveredFacts
<1>5. IsFiniteSet(Frames(e))
  BY <1>2, FrameCountType, FS_Interval DEF Frames
<1>6. ASSUME NEW n \in 0 .. N
      PROVE  IsFiniteSet(CoveredBy(e, reserved, n))
  <2>1. CoveredBy(e, reserved, n) \in SUBSET Frames(e)
    BY <1>1, <1>4, <1>6 DEF CoveredBy
  <2>2. QED
    BY <1>5, <2>1, FS_Subset
<1>7. ASSUME NEW n \in 1 .. N
      PROVE  sum[n] = sum[n - 1] + frame_count(reserved[n])
  <2> DEFINE before == CoveredBy(e, reserved, n - 1)
             next == CoveredFrames(e, reserved[n])
  <2>1. n - 1 \in 0 .. N /\ n \in 0 .. N /\ 1 .. n = (1 .. (n - 1)) \union {n}
    BY <1>1, <1>7
  <2>2. CoveredBy(e, reserved, n) = before \union next
    BY <2>1 DEF CoveredBy
  <2>3. before \intersect next = {}
    <3>1. ASSUME NEW i \in 1 .. (n - 1)
          PROVE  CoveredFrames(e, reserved[i]) \intersect next = {}
      <4>1. i \in 1 .. N /\ i < n
        BY <1>1, <1>7, <3>1
      <4>2. ~overlap(reserved[i], reserved[n])
        BY <1>1, <1>7, <4>1 DEF Overlapping
      <4>3. QED
        BY <1>2, <1>3, <1>7, <4>1, <4>2, CoveredDisjoint
    <3>2. QED
      BY <3>1, Zenon DEF CoveredBy
  <2>4. IsFiniteSet(before) /\ Cardinality(before) \in Nat
    BY <1>6, <2>1, FS_CardinalityType
  <2>5. IsFiniteSet(next) /\ Cardinality(next) = frame_count(reserved[n])
    <3> DEFINE a == frame_index(e, reserved[n].start)
               b == frame_index(e, reserved[n].end)
    <3>1. a \in Nat /\ b \in Nat /\ a <= b /\ frame_count(reserved[n]) = b - a
          /\ next = a .. (b - 1)
      BY <1>2, <1>3, <1>7, RangeIndices
    <3> HIDE DEF a, b, next
    <3>2. IsFiniteSet(a .. (b - 1)) /\ Cardinality(a .. (b - 1)) = IF a > b - 1 THEN 0 ELSE b - 1 - a + 1
      BY <3>1, FS_Interval
    <3>3. QED
      BY <3>1, <3>2
  <2> HIDE DEF before, next
  <2>6. Cardinality(before \union next) = Cardinality(before) + Cardinality(next)
    <3>1. Cardinality(before \union next)
            = Cardinality(before) + Cardinality(next) - Cardinality(before \intersect next)
      BY <2>4, <2>5, FS_Union
    <3>2. Cardinality(before \intersect next) = 0
      BY <2>3, FS_EmptySet
    <3>3. Cardinality(next) \in Nat
      BY <2>5, FS_CardinalityType
    <3>4. QED
      BY <2>4, <3>1, <3>2, <3>3
  <2>7. QED
    BY <2>1, <2>2, <2>5, <2>6 DEF before
<1>8. sum[0] = 0
  <2>1. CoveredBy(e, reserved, 0) = {}
    BY DEF CoveredBy
  <2>2. sum[0] = Cardinality(CoveredBy(e, reserved, 0))
    BY <1>1
  <2>3. QED
    BY <2>1, <2>2, FS_EmptySet
<1>9. sum \in [0 .. N -> Nat]
  BY <1>6, FS_CardinalityType
<1>10. \A i \in 1 .. N : frame_count(reserved[i]) \in Nat
  BY <1>3, FrameCountType
<1>11. sum[N] = Cardinality(ReservedFrames(e, reserved))
       /\ IsFiniteSet(ReservedFrames(e, reserved))
  <2>1. ReservedFrames(e, reserved) = CoveredBy(e, reserved, N)
    BY <1>1 DEF ReservedFrames, CoveredBy
  <2>2. QED
    BY <1>1, <1>6, <2>1
<1> HIDE DEF sum
<1>12. Sums(sum)
  <2>1. \A i \in 0 .. N : sum[i] = IF i = 0 THEN 0 ELSE sum[i - 1] + frame_count(reserved[i])
    BY <1>1, <1>7, <1>8
  <2>2. QED
    BY <1>9, <2>1
<1>13. ASSUME NEW f, Sums(f)
       PROVE  f = sum
  <2> DEFINE Bad == {i \in 0 .. N : f[i] # sum[i]}
  <2>1. \A i \in 0 .. N : f[i] = IF i = 0 THEN 0 ELSE f[i - 1] + frame_count(reserved[i])
    BY <1>13
  <2>2. Bad = {}
    <3>1. SUFFICES ASSUME Bad # {} PROVE FALSE
      OBVIOUS
    <3>2. Bad \in SUBSET Nat
      BY <1>1
    <3>3. PICK m \in Bad : \A k \in Bad : m <= k
      BY <3>1, <3>2, LeastElement
    <3>4. m # 0
      BY <1>8, <2>1, <3>3
    <3>5. m - 1 \in 0 .. N /\ m - 1 \notin Bad /\ m \in 1 .. N
      BY <1>1, <3>3, <3>4
    <3>6. f[m - 1] = sum[m - 1]
      BY <3>5
    <3>7. QED
      BY <1>7, <2>1, <3>3, <3>4, <3>5, <3>6
  <2>3. \A i \in 0 .. N : f[i] = sum[i]
    BY <2>2
  <2>4. f = [i \in 0 .. N |-> f[i]] /\ sum = [i \in 0 .. N |-> sum[i]]
    BY <1>9, <1>13
  <2>5. QED
    BY <2>3, <2>4
<1>14. reserved_total(reserved) = (CHOOSE f : Sums(f))[N]
  BY DEF reserved_total
<1> HIDE DEF Sums
<1>15. (CHOOSE f : Sums(f)) = sum
  BY <1>12, <1>13
<1>16. QED
  BY <1>11, <1>14, <1>15

\* stats() agrees with the bitmap and with what callers own, and the reserved
\* ranges stay the list new accepted.
Counted ==
  pmm # None =>
    /\ pmm.reserved_ranges \in Seq(PhysFrameRange)
    /\ IsFiniteSet(AllFrames)
    /\ pmm.reserved_count = Cardinality(Reserved)
    /\ pmm.allocated_count = Cardinality(owned)
    /\ pmm.free_count = Cardinality(AllFrames \ pmm.bitmap)

\* Pmm::new: the free frames are those the sum left.
LEMMA NewCounted ==
  ASSUME NEW extent \in Extents, NEW reserved \in ReservedLists, New(extent, reserved)
  PROVE  Counted'
<1>1. extent \in PhysFrameRange
  BY PmmSpecAssumption
<1>2. /\ is_aligned(extent)
      /\ \A i \in DOMAIN reserved : ~malformed(extent, reserved[i])
      /\ ~Overlapping(reserved)
  BY DEF New, new_result
<1>3. reserved \in Seq(PhysFrameRange)
  <2>1. PICK n \in 0 .. (MaxReserved + 1) : reserved \in [1 .. n -> RangeChoices]
    BY DEF ReservedLists
  <2>2. n \in Nat /\ reserved \in [1 .. n -> PhysFrameRange]
    BY <2>1, PmmAssumption, PmmSpecAssumption
  <2>3. QED
    BY <2>2
<1>4. Accepted(extent, reserved)
  BY <1>1, <1>2, <1>3 DEF Accepted
<1> DEFINE bits == ReservedFrames(extent, reserved)
           all == Frames(extent)
<1>5. IsFiniteSet(bits) /\ reserved_total(reserved) = Cardinality(bits) /\ bits \subseteq all
  BY <1>2, <1>3, <1>4, SummedExact, ReservedFacts
<1>6. /\ frame_count(extent) \in Nat
      /\ IsFiniteSet(all) /\ Cardinality(all) = frame_count(extent)
  <2>1. frame_count(extent) \in Nat
    BY <1>1, FrameCountType
  <2>2. QED
    BY <2>1, FS_Interval DEF Frames
<1>7. /\ pmm'.extent = extent
      /\ pmm'.reserved_ranges = reserved
      /\ pmm'.bitmap = bits
      /\ pmm'.reserved_count = reserved_total(reserved)
      /\ pmm'.allocated_count = 0
      /\ pmm'.free_count = saturating_sub(frame_count(extent), reserved_total(reserved))
      /\ owned' = {}
  BY DEF New, new
<1>8. AllFrames' = all /\ Reserved' = bits
  BY <1>7 DEF AllFrames, Reserved
<1> HIDE DEF bits, all
<1>9. saturating_sub(frame_count(extent), reserved_total(reserved)) = Cardinality(all \ bits)
  <2>1. Cardinality(all \ bits) = Cardinality(all) - Cardinality(all \intersect bits)
    BY <1>5, <1>6, FS_Difference
  <2>2. all \intersect bits = bits
    BY <1>5
  <2>3. Cardinality(bits) \in Nat /\ Cardinality(bits) <= Cardinality(all)
    BY <1>5, <1>6, FS_Subset, FS_CardinalityType
  <2>4. QED
    BY <1>5, <1>6, <2>1, <2>2, <2>3 DEF saturating_sub
<1>10. QED
  BY <1>3, <1>5, <1>6, <1>7, <1>8, <1>9, FS_EmptySet DEF Counted

\* alloc_frame moves one frame from free to allocated.
LEMMA AllocCounted ==
  ASSUME IInv, Counted, AllocFrame
  PROVE  Counted'
<1>1. CASE UNCHANGED vars
  BY <1>1 DEF vars, Counted, AllFrames, Reserved
<1>2. CASE ~UNCHANGED vars
  <2> DEFINE idx == alloc_index(pmm)
             free == AllFrames \ pmm.bitmap
  <2>1. /\ pmm # None
        /\ idx # None
        /\ pmm' = alloc_frame(pmm, idx)
        /\ owned' = owned \union {idx}
    BY <1>2 DEF AllocFrame
  <2>2. idx \in free
    BY <2>1, AllocIndexFacts
  <2> HIDE DEF idx
  <2>3. /\ pmm'.extent = pmm.extent
        /\ pmm'.reserved_ranges = pmm.reserved_ranges
        /\ pmm'.bitmap = pmm.bitmap \union {idx}
        /\ pmm'.free_count = saturating_sub(pmm.free_count, 1)
        /\ pmm'.reserved_count = pmm.reserved_count
        /\ pmm'.allocated_count = pmm.allocated_count + 1
    BY <2>1 DEF alloc_frame
  <2>4. AllFrames' = AllFrames /\ Reserved' = Reserved
    BY <2>3 DEF AllFrames, Reserved
  <2>5. AllFrames' \ pmm'.bitmap = free \ {idx}
    BY <2>3, <2>4
  <2>6. owned \subseteq AllFrames /\ idx \notin owned
    BY <2>1, <2>2 DEF IInv, BitmapExact
  <2>7. IsFiniteSet(AllFrames) /\ IsFiniteSet(owned) /\ IsFiniteSet(free)
    <3>1. IsFiniteSet(AllFrames)
      BY <2>1 DEF Counted
    <3>2. owned \in SUBSET AllFrames /\ free \in SUBSET AllFrames
      BY <2>6
    <3> HIDE DEF free
    <3>3. QED
      BY <3>1, <3>2, FS_Subset
  <2>8. Cardinality(owned') = pmm.allocated_count + 1
    <3>1. Cardinality(owned \union {idx}) = Cardinality(owned) + 1
      BY <2>6, <2>7, FS_AddElement
    <3>2. QED
      BY <2>1, <3>1 DEF Counted
  <2> HIDE DEF free
  <2>9. Cardinality(free \ {idx}) = Cardinality(free) - 1
        /\ Cardinality(free) \in Nat /\ Cardinality(free \ {idx}) \in Nat
    BY <2>2, <2>7, FS_RemoveElement, FS_CardinalityType
  <2>10. pmm.free_count = Cardinality(free)
    BY <2>1 DEF Counted, free
  <2>11. saturating_sub(pmm.free_count, 1) = Cardinality(free \ {idx})
    BY <2>9, <2>10 DEF saturating_sub
  <2>12. QED
    BY <2>1, <2>3, <2>4, <2>5, <2>8, <2>11 DEF Counted
<1>3. QED
  BY <1>1, <1>2

\* free_frame moves it back, and only a frame somebody owns.
LEMMA FreeCounted ==
  ASSUME NEW pa \in AlignedAddrs, IInv, Counted, FreeFrame(pa)
  PROVE  Counted'
<1> DEFINE idx == frame_index(pmm.extent, pa)
           free == AllFrames \ pmm.bitmap
<1>1. PICK k \in Nat : pa = k * PageSize
  BY PmmAssumption DEF AlignedAddrs
<1>2. /\ pmm # None
      /\ range_contains(pmm.extent, pa)
      /\ \A i \in DOMAIN pmm.reserved_ranges : ~range_contains(pmm.reserved_ranges[i], pa)
      /\ idx \in pmm.bitmap
      /\ pmm' = free_frame(pmm, idx)
      /\ owned' = owned \ {idx}
  BY DEF FreeFrame, free_frame_result
<1>3. Accepted(pmm.extent, pmm.reserved_ranges)
  BY <1>2 DEF IInv
<1>4. idx \in AllFrames
  BY <1>1, <1>2, <1>3, FrameIndexInExtent DEF Accepted, AllFrames
<1>5. idx \notin Reserved
  BY <1>1, <1>2, <1>3, ReservedFacts DEF Reserved, range_contains
<1>6. idx \in owned /\ owned \subseteq AllFrames
  BY <1>2, <1>5 DEF IInv, BitmapExact
<1> HIDE DEF idx
<1>7. /\ pmm'.extent = pmm.extent
      /\ pmm'.reserved_ranges = pmm.reserved_ranges
      /\ pmm'.bitmap = pmm.bitmap \ {idx}
      /\ pmm'.free_count = pmm.free_count + 1
      /\ pmm'.reserved_count = pmm.reserved_count
      /\ pmm'.allocated_count = saturating_sub(pmm.allocated_count, 1)
  BY <1>2 DEF free_frame
<1>8. AllFrames' = AllFrames /\ Reserved' = Reserved
  BY <1>7 DEF AllFrames, Reserved
<1>9. AllFrames' \ pmm'.bitmap = free \union {idx} /\ idx \notin free
  BY <1>2, <1>4, <1>7, <1>8
<1>10. IsFiniteSet(AllFrames) /\ IsFiniteSet(owned) /\ IsFiniteSet(free)
  BY <1>2, <1>6, FS_Subset DEF Counted
<1>11. Cardinality(owned \ {idx}) = Cardinality(owned) - 1
       /\ Cardinality(owned) \in Nat /\ Cardinality(owned \ {idx}) \in Nat
  BY <1>6, <1>10, FS_RemoveElement, FS_CardinalityType
<1>12. saturating_sub(pmm.allocated_count, 1) = Cardinality(owned')
  BY <1>2, <1>11 DEF Counted, saturating_sub
<1>13. pmm.free_count = Cardinality(free)
  BY <1>2 DEF Counted
<1> HIDE DEF free
<1>14. Cardinality(free \union {idx}) = pmm.free_count + 1
  BY <1>9, <1>10, <1>13, FS_AddElement
<1>15. QED
  BY <1>2, <1>7, <1>8, <1>9, <1>12, <1>14 DEF Counted

\* stats() never drifts, whatever was allocated and freed.
LEMMA CountedAlways == Spec => []Counted
<1>1. Init => Counted
  BY DEF Init, Counted
<1>2. IInv /\ Counted /\ [Next]_vars => Counted'
  <2> SUFFICES ASSUME IInv, Counted, [Next]_vars
               PROVE  Counted'
    OBVIOUS
  <2>1. ASSUME NEW extent \in Extents, NEW reserved \in ReservedLists, New(extent, reserved)
        PROVE  Counted'
    BY <2>1, NewCounted
  <2>2. CASE AllocFrame
    BY <2>2, AllocCounted
  <2>3. ASSUME NEW pa \in AlignedAddrs, FreeFrame(pa)
        PROVE  Counted'
    BY <2>3, FreeCounted
  <2>4. ASSUME NEW idx \in owned, Write(idx)
        PROVE  Counted'
    BY <2>4 DEF Write, Counted, AllFrames, Reserved
  <2>5. CASE UNCHANGED vars
    BY <2>5 DEF vars, Counted, AllFrames, Reserved
  <2>6. QED
    BY <2>1, <2>2, <2>3, <2>4, <2>5 DEF Next
<1>3. QED
  BY <1>1, <1>2, PmmInvariant, PTL DEF Spec

-----------------------------------------------------------------------------
(* could_yield_pa_overlapping.                                             *)

\* Rounding down: the page of offset x is at or below page i exactly when x is
\* below the end of page i.
LEMMA FloorWindow ==
  ASSUME NEW x \in Nat, NEW i \in Nat
  PROVE  x \div PageSize <= i <=> x < i * PageSize + PageSize
<1> DEFINE q == x \div PageSize
<1>1. q \in Nat /\ q * PageSize <= x /\ x < q * PageSize + PageSize
  BY PmmAssumption
<1> HIDE DEF q
<1>2. ASSUME q <= i PROVE x < i * PageSize + PageSize
  <2>1. q * PageSize <= i * PageSize
    BY <1>1, <1>2, PmmAssumption
  <2>2. QED
    BY <1>1, <2>1, PmmAssumption
<1>3. ASSUME ~(q <= i) PROVE ~(x < i * PageSize + PageSize)
  <2>1. (i + 1) * PageSize <= q * PageSize /\ (i + 1) * PageSize = i * PageSize + PageSize
    BY <1>1, <1>3, PmmAssumption
  <2>2. QED
    BY <1>1, <2>1, PmmAssumption
<1>4. QED
  BY <1>2, <1>3 DEF q

\* Rounding up: page i is below the first page past offset x exactly when it
\* begins below x.
LEMMA CeilWindow ==
  ASSUME NEW x \in Nat, NEW i \in Nat
  PROVE  /\ (x + PageSize - 1) \div PageSize \in Nat
         /\ i < (x + PageSize - 1) \div PageSize <=> i * PageSize < x
<1> DEFINE y == x + PageSize - 1
           c == y \div PageSize
<1>1. y \in Nat /\ c \in Nat
  BY PmmAssumption
<1>2. c <= i <=> y < i * PageSize + PageSize
  BY <1>1, FloorWindow
<1>3. i * PageSize \in Nat
  BY PmmAssumption
<1>4. y < i * PageSize + PageSize <=> x <= i * PageSize
  BY <1>3, PmmAssumption
<1> HIDE DEF c
<1>5. i < c <=> i * PageSize < x
  BY <1>1, <1>2, <1>3, <1>4
<1>6. QED
  BY <1>1, <1>5 DEF c

\* A frame of the extent meets [a, b) exactly when it lies in the window of
\* frame indices the query computes.
LEMMA WindowExact ==
  ASSUME NEW a \in Nat, NEW b \in Nat, NEW i \in Nat,
         pmm.extent \in PhysFrameRange, is_aligned(pmm.extent), i \in AllFrames
  PROVE  Meets(i, [start |-> a, end |-> b]) <=>
           /\ a < b
           /\ ~(b <= pmm.extent.start \/ a >= pmm.extent.end)
           /\ frame_index(pmm.extent, a) <= i
           /\ i < window_end(pmm.extent, b)
<1> DEFINE es == pmm.extent.start
           ee == pmm.extent.end
           n == frame_count(pmm.extent)
           ip == i * PageSize
           base == es + ip
           clip == IF b < ee THEN b ELSE ee
<1>1. es \in Nat /\ ee \in Nat
  BY DEF PhysFrameRange
<1>2. n \in Nat /\ i < n
  BY FrameCountType DEF AllFrames, Frames
<1>3. ee = es + n * PageSize
  <2>1. PICK s \in Nat : es = s * PageSize
    BY <1>1, Multiple DEF is_aligned
  <2>2. PICK t \in Nat : ee = t * PageSize
    BY <1>1, Multiple DEF is_aligned
  <2>3. n = saturating_sub(t, s)
    BY <2>1, <2>2, DivDifference DEF frame_count
  <2>4. s < t /\ n = t - s
    BY <1>2, <2>3 DEF saturating_sub
  <2>5. t * PageSize = s * PageSize + (t - s) * PageSize
    BY <2>4, PmmAssumption
  <2>6. QED
    BY <2>1, <2>2, <2>4, <2>5
<1>4. ip \in Nat /\ ip + PageSize <= n * PageSize
  <2>1. (i + 1) * PageSize <= n * PageSize /\ (i + 1) * PageSize = i * PageSize + PageSize
    BY <1>2, PmmAssumption
  <2>2. QED
    BY <2>1, PmmAssumption
<1>5. frame_index(pmm.extent, a) <= i <=> saturating_sub(a, es) < ip + PageSize
  <2>1. saturating_sub(a, es) \in Nat
    BY <1>1 DEF saturating_sub
  <2>2. QED
    BY <2>1, FloorWindow DEF frame_index
<1>6. i < window_end(pmm.extent, b) <=> ip < saturating_sub(clip, es)
  <2>1. saturating_sub(clip, es) \in Nat
    BY <1>1 DEF saturating_sub
  <2>2. QED
    BY <2>1, CeilWindow DEF window_end
<1>7. PageSize \in Nat /\ PageSize > 0 /\ n * PageSize \in Nat
  BY <1>2, PmmAssumption
<1>8. Meets(i, [start |-> a, end |-> b]) <=>
        \E pa \in base .. (base + PageSize - 1) : a <= pa /\ pa < b
  BY DEF Meets, frame_addr, range_contains
<1> HIDE DEF es, ee, n, ip
<1>9. (\E pa \in base .. (base + PageSize - 1) : a <= pa /\ pa < b)
        <=> a < b /\ a < base + PageSize /\ base < b
  <2>1. ASSUME a < b, a < base + PageSize, base < b
        PROVE  \E pa \in base .. (base + PageSize - 1) : a <= pa /\ pa < b
    <3>1. CASE a <= base
      <4>1. base \in base .. (base + PageSize - 1)
        BY <1>1, <1>4, <1>7
      <4>2. QED
        BY <2>1, <3>1, <4>1
    <3>2. CASE ~(a <= base)
      <4>1. a \in base .. (base + PageSize - 1)
        BY <1>1, <1>4, <1>7, <2>1, <3>2
      <4>2. QED
        BY <2>1, <4>1
    <3>3. QED
      BY <3>1, <3>2
  <2>2. ASSUME NEW pa \in base .. (base + PageSize - 1), a <= pa, pa < b
        PROVE  a < b /\ a < base + PageSize /\ base < b
    BY <1>1, <1>4, <1>7, <2>2
  <2>3. QED
    BY <2>1, <2>2
<1>10. saturating_sub(a, es) < ip + PageSize <=> a < base + PageSize
  BY <1>1, <1>4, <1>7 DEF saturating_sub
<1>11. ip < saturating_sub(clip, es) <=> base < b
  BY <1>1, <1>3, <1>4, <1>7 DEF saturating_sub
<1>12. a < base + PageSize /\ base < b => ~(b <= es \/ a >= ee)
  BY <1>1, <1>3, <1>4, <1>7
<1>13. QED
  BY <1>5, <1>6, <1>8, <1>9, <1>10, <1>11, <1>12 DEF es, ee

\* The query's bounds are frame indices of the extent.
LEMMA WindowBounds ==
  ASSUME NEW e \in PhysFrameRange, is_aligned(e), NEW a \in Nat, NEW b \in Nat, a < e.end
  PROVE  /\ frame_index(e, a) \in 0 .. frame_count(e)
         /\ window_end(e, b) \in 0 .. frame_count(e)
<1> DEFINE n == frame_count(e)
           clip == IF b < e.end THEN b ELSE e.end
<1>1. e.start \in Nat /\ e.end \in Nat
  BY DEF PhysFrameRange
<1>2. n \in Nat /\ saturating_sub(e.end, e.start) = n * PageSize
  <2>1. PICK s \in Nat : e.start = s * PageSize
    BY <1>1, Multiple DEF is_aligned
  <2>2. PICK t \in Nat : e.end = t * PageSize
    BY <1>1, Multiple DEF is_aligned
  <2>3. n = saturating_sub(t, s)
    BY <2>1, <2>2, DivDifference DEF frame_count
  <2>4. CASE t > s
    <3>1. n = t - s /\ t * PageSize = s * PageSize + (t - s) * PageSize /\ (t - s) * PageSize \in Nat
      BY <2>3, <2>4, PmmAssumption DEF saturating_sub
    <3>2. QED
      BY <2>1, <2>2, <2>4, <3>1, PmmAssumption DEF saturating_sub
  <2>5. CASE ~(t > s)
    <3>1. n = 0 /\ t * PageSize <= s * PageSize
      BY <2>3, <2>5, PmmAssumption DEF saturating_sub
    <3>2. QED
      BY <1>1, <2>1, <2>2, <3>1, PmmAssumption DEF saturating_sub
  <2>6. QED
    BY <2>4, <2>5
<1>3. n * PageSize \in Nat /\ PageSize \in Nat /\ PageSize > 0
  BY <1>2, PmmAssumption
<1> HIDE DEF n
<1>4. frame_index(e, a) \in 0 .. n
  <2> DEFINE x == saturating_sub(a, e.start)
  <2>1. x \in Nat /\ x <= n * PageSize
    BY <1>1, <1>2, <1>3 DEF saturating_sub
  <2>2. x \div PageSize <= n <=> x < n * PageSize + PageSize
    BY <1>2, <2>1, FloorWindow
  <2>3. x \div PageSize \in Nat
    BY <2>1, PmmAssumption
  <2> HIDE DEF x
  <2>4. x \div PageSize <= n
    BY <1>3, <2>1, <2>2
  <2>5. QED
    BY <1>2, <2>3, <2>4 DEF frame_index, x
<1>5. window_end(e, b) \in 0 .. n
  <2> DEFINE y == saturating_sub(clip, e.start)
  <2>1. y \in Nat /\ y <= n * PageSize
    BY <1>1, <1>2, <1>3 DEF saturating_sub
  <2> HIDE DEF y
  <2>2. /\ (y + PageSize - 1) \div PageSize \in Nat
        /\ n < (y + PageSize - 1) \div PageSize <=> n * PageSize < y
    BY <1>2, <2>1, CeilWindow
  <2>3. window_end(e, b) = (y + PageSize - 1) \div PageSize
    BY DEF window_end, y
  <2> DEFINE w == (y + PageSize - 1) \div PageSize
  <2> HIDE DEF w
  <2>4. w \in Nat /\ ~(n < w)
    BY <1>3, <2>1, <2>2 DEF w
  <2>5. QED
    BY <1>2, <2>3, <2>4 DEF w
<1>6. QED
  BY <1>4, <1>5 DEF n

\* A frame is covered exactly when its bit is reserved, and the walk's jump from
\* a covered frame passes over covered frames only.
LEMMA CoveringFacts ==
  ASSUME NEW p, Accepted(p.extent, p.reserved_ranges),
         p.reserved_ranges \in Seq(PhysFrameRange), NEW c \in Nat
  PROVE  /\ Covering(p, c) = {} <=> c \notin ReservedFrames(p.extent, p.reserved_ranges)
         /\ Covering(p, c) # {} =>
              LET next == frame_index(p.extent, p.reserved_ranges[Lowest(Covering(p, c))].end)
              IN /\ next \in Nat /\ c < next /\ next <= frame_count(p.extent)
                 /\ \A i \in c .. (next - 1) : Covering(p, i) # {}
<1> DEFINE e == p.extent
           rr == p.reserved_ranges
           lo(i) == frame_index(e, rr[i].start)
           hi(i) == frame_index(e, rr[i].end)
<1>1. e \in PhysFrameRange /\ is_aligned(e)
  BY DEF Accepted
<1>2. ASSUME NEW i \in DOMAIN rr
      PROVE  /\ lo(i) \in Nat /\ hi(i) \in Nat /\ hi(i) <= frame_count(e)
             /\ CoveredFrames(e, rr[i]) = lo(i) .. (hi(i) - 1)
  <2>1. rr[i] \in PhysFrameRange /\ ~malformed(e, rr[i])
    BY <1>2 DEF Accepted
  <2>2. QED
    BY <1>1, <2>1, RangeIndices
<1>3. \A k : Covering(p, k) = {i \in DOMAIN rr : lo(i) <= k /\ k < hi(i)}
  BY DEF Covering
<1>4. DOMAIN rr \in SUBSET Nat
  OBVIOUS
<1> HIDE DEF e, rr, lo, hi
<1>5. ASSUME NEW i \in DOMAIN rr
      PROVE  i \in Covering(p, c) <=> c \in CoveredFrames(e, rr[i])
  BY <1>2, <1>3, <1>5
<1>6. Covering(p, c) \subseteq DOMAIN rr
  BY <1>3
<1>7. Covering(p, c) = {} <=> c \notin ReservedFrames(e, rr)
  BY <1>5, <1>6, Zenon DEF ReservedFrames
<1>8. ASSUME Covering(p, c) # {}
      PROVE  LET next == hi(Lowest(Covering(p, c)))
             IN /\ next \in Nat /\ c < next /\ next <= frame_count(e)
                /\ \A i \in c .. (next - 1) : Covering(p, i) # {}
  <2> DEFINE j == Lowest(Covering(p, c))
  <2>1. j \in Covering(p, c)
    BY <1>4, <1>6, <1>8, LowestFacts
  <2> HIDE DEF j
  <2>2. j \in DOMAIN rr /\ lo(j) <= c /\ c < hi(j)
    BY <1>3, <2>1
  <2>3. lo(j) \in Nat /\ hi(j) \in Nat /\ hi(j) <= frame_count(e)
    BY <1>2, <2>2
  <2>4. ASSUME NEW i \in c .. (hi(j) - 1)
        PROVE  Covering(p, i) # {}
    <3>1. lo(j) <= i /\ i < hi(j)
      BY <2>2, <2>3, <2>4
    <3>2. QED
      BY <1>3, <2>2, <3>1
  <2>5. QED
    BY <2>2, <2>3, <2>4 DEF j
<1>9. QED
  BY <1>7, <1>8 DEF e, rr, hi

\* What the walk of could_yield_pa_overlapping should answer at each cursor: is there
\* a frame from the cursor on, below last, that no reserved range covers?
Found(p, last) ==
  [c \in 0 .. frame_count(p.extent) |-> \E i \in c .. (last - 1) : Covering(p, i) = {}]

\* The walk over the cursor answers whether some frame between it and the end of
\* the window is not reserved.  The walk is defined by recursion; the answer is
\* the only function that satisfies its equation.
LEMMA ScanExact ==
  ASSUME NEW p, Accepted(p.extent, p.reserved_ranges),
         p.reserved_ranges \in Seq(PhysFrameRange), NEW last \in Nat
  PROVE  YieldScan(p, last) = Found(p, last)
<1> DEFINE n == frame_count(p.extent)
           next(c) == frame_index(p.extent, p.reserved_ranges[Lowest(Covering(p, c))].end)
           Walks(f) == f = [cursor \in 0 .. n |->
                              IF cursor >= last THEN FALSE
                              ELSE IF Covering(p, cursor) = {} THEN TRUE
                              ELSE f[next(cursor)]]
           found == [c \in 0 .. n |-> \E i \in c .. (last - 1) : Covering(p, i) = {}]
<1>1. n \in Nat
  BY FrameCountType DEF Accepted
<1>2. \A c \in 0 .. n : Covering(p, c) # {} =>
         /\ next(c) \in Nat /\ c < next(c) /\ next(c) <= n
         /\ \A i \in c .. (next(c) - 1) : Covering(p, i) # {}
  BY <1>1, CoveringFacts
<1>3. YieldScan(p, last) = CHOOSE f : Walks(f)
  BY DEF YieldScan
<1> HIDE DEF n, next
<1>4. ASSUME NEW c \in 0 .. n
      PROVE  /\ c >= last => found[c] = FALSE
             /\ ~(c >= last) /\ Covering(p, c) = {} => found[c] = TRUE
             /\ ~(c >= last) /\ Covering(p, c) # {} => found[c] = found[next(c)]
  <2>1. found[c] = (\E i \in c .. (last - 1) : Covering(p, i) = {})
    OBVIOUS
  <2>2. c >= last => c .. (last - 1) = {}
    BY <1>1, <1>4
  <2>3. ~(c >= last) => c \in c .. (last - 1)
    BY <1>1, <1>4
  <2>4. ASSUME ~(c >= last), Covering(p, c) # {}
        PROVE  found[c] = found[next(c)]
    <3>1. /\ next(c) \in Nat /\ c < next(c) /\ next(c) <= n
          /\ \A i \in c .. (next(c) - 1) : Covering(p, i) # {}
      BY <1>2, <1>4, <2>4
    <3>2. found[next(c)] = (\E i \in next(c) .. (last - 1) : Covering(p, i) = {})
      BY <1>1, <3>1
    <3>3. ASSUME NEW i \in c .. (last - 1), Covering(p, i) = {}
          PROVE  i \in next(c) .. (last - 1)
      <4>1. i \notin c .. (next(c) - 1)
        BY <3>1, <3>3
      <4>2. QED
        BY <1>1, <1>4, <3>1, <3>3, <4>1
    <3>4. next(c) .. (last - 1) \subseteq c .. (last - 1)
      BY <1>1, <1>4, <3>1
    <3>5. QED
      BY <2>1, <3>2, <3>3, <3>4, Zenon
  <2>5. QED
    BY <2>1, <2>2, <2>3, <2>4, Zenon
<1>5. found = [c \in 0 .. n |-> found[c]]
  OBVIOUS
<1> HIDE DEF found
<1>6. Walks(found)
  <2>1. \A c \in 0 .. n :
          found[c] = IF c >= last THEN FALSE
                     ELSE IF Covering(p, c) = {} THEN TRUE ELSE found[next(c)]
    BY <1>4
  <2>2. QED
    BY <1>5, <2>1
<1>7. ASSUME NEW f, Walks(f)
      PROVE  f = found
  <2> DEFINE Bad == {d \in 0 .. n : f[n - d] # found[n - d]}
  <2>1. \A c \in 0 .. n :
          f[c] = IF c >= last THEN FALSE
                 ELSE IF Covering(p, c) = {} THEN TRUE ELSE f[next(c)]
    BY <1>7
  <2>2. Bad = {}
    <3>1. SUFFICES ASSUME Bad # {} PROVE FALSE
      OBVIOUS
    <3>2. Bad \in SUBSET Nat
      BY <1>1
    <3>3. PICK d \in Bad : \A k \in Bad : d <= k
      BY <3>1, <3>2, LeastElement
    <3> DEFINE c == n - d
    <3>4. c \in 0 .. n /\ f[c] # found[c]
      BY <1>1, <3>3
    <3>5. ~(c >= last) /\ Covering(p, c) # {}
      BY <1>4, <2>1, <3>4
    <3>6. next(c) \in Nat /\ c < next(c) /\ next(c) <= n
      BY <1>2, <3>4, <3>5
    <3>7. n - next(c) \in 0 .. n /\ n - next(c) < d /\ n - (n - next(c)) = next(c)
      BY <1>1, <3>3, <3>6
    <3>8. n - next(c) \notin Bad
      BY <1>1, <3>3, <3>7
    <3>9. f[next(c)] = found[next(c)]
      BY <3>7, <3>8
    <3>10. QED
      BY <1>4, <2>1, <3>4, <3>5, <3>9
  <2>3. ASSUME NEW c \in 0 .. n
        PROVE  f[c] = found[c]
    <3>1. n - c \in 0 .. n /\ n - (n - c) = c
      BY <1>1, <2>3
    <3>2. n - c \notin Bad
      BY <2>2
    <3>3. QED
      BY <3>1, <3>2
  <2>4. f = [c \in 0 .. n |-> f[c]]
    BY <1>7
  <2>5. QED
    BY <1>5, <2>3, <2>4
<1> HIDE DEF Walks
<1>8. (CHOOSE f : Walks(f)) = found
  BY <1>6, <1>7
<1>9. QED
  BY <1>3, <1>8 DEF found, n, Found

\* What the allocator says of itself is exact: stats() counts the reserved,
\* owned and free frames, and the query answers yes exactly when some frame that
\* alloc_frame can ever return meets the range.
THEOREM AnswersCorrect == Spec => []AnswersExact
<1>1. ASSUME IInv, Counted, pmm # None, NEW a \in Nat, NEW b \in Nat
      PROVE  could_yield_pa_overlapping(pmm, [start |-> a, end |-> b]) <=>
               \E i \in AllFrames \ Reserved : Meets(i, [start |-> a, end |-> b])
  <2> DEFINE e == pmm.extent
             n == frame_count(e)
             first == frame_index(e, a)
             last == window_end(e, b)
             inside == a < b /\ ~(b <= e.start \/ a >= e.end)
             Clear == \E i \in first .. (last - 1) : Covering(pmm, i) = {}
  <2>1. /\ Accepted(e, pmm.reserved_ranges) /\ e \in PhysFrameRange /\ is_aligned(e)
        /\ pmm.reserved_ranges \in Seq(PhysFrameRange)
    BY <1>1 DEF IInv, Accepted, Counted
  <2>2. n \in Nat /\ AllFrames = 0 .. (n - 1)
    BY <2>1, FrameCountType DEF AllFrames, Frames
  <2>3. could_yield_pa_overlapping(pmm, [start |-> a, end |-> b])
          <=> inside /\ YieldScan(pmm, last)[first]
    BY DEF could_yield_pa_overlapping
  <2>4. ASSUME NEW i \in AllFrames
        PROVE  /\ Meets(i, [start |-> a, end |-> b]) <=> inside /\ first <= i /\ i < last
               /\ Covering(pmm, i) = {} <=> i \notin Reserved
    <3>1. i \in Nat
      BY <2>2, <2>4
    <3>2. Meets(i, [start |-> a, end |-> b]) <=> inside /\ first <= i /\ i < last
      BY <1>1, <2>1, <2>4, <3>1, WindowExact
    <3>3. Covering(pmm, i) = {} <=> i \notin Reserved
      BY <2>1, <3>1, CoveringFacts DEF Reserved
    <3>4. QED
      BY <3>2, <3>3
  <2>5. inside => first \in 0 .. n /\ last \in 0 .. n
    <3>1. ASSUME inside PROVE a < e.end
      BY <1>1, <2>1, <3>1 DEF PhysFrameRange
    <3>2. QED
      BY <1>1, <2>1, <3>1, WindowBounds
  <2>6. inside => (YieldScan(pmm, last)[first] <=> Clear)
    <3>1. SUFFICES ASSUME inside PROVE YieldScan(pmm, last)[first] <=> Clear
      OBVIOUS
    <3>2. last \in Nat /\ first \in 0 .. n
      BY <2>2, <2>5, <3>1
    <3>3. YieldScan(pmm, last) = Found(pmm, last)
      <4> HIDE DEF last
      <4>1. last \in Nat
        BY <3>2
      <4>2. QED
        BY <2>1, <4>1, ScanExact, Zenon
    <3>4. Found(pmm, last) = [c \in 0 .. n |-> \E i \in c .. (last - 1) : Covering(pmm, i) = {}]
      BY DEF Found
    <3> HIDE DEF first, last, n
    <3>5. QED
      BY <3>2, <3>3, <3>4
  <2> HIDE DEF first, last, n, inside, e
  <2>7. ASSUME inside
        PROVE  Clear <=> \E i \in AllFrames \ Reserved : first <= i /\ i < last
    <3>1. first \in 0 .. n /\ last \in 0 .. n
      BY <2>5, <2>7
    <3>2. \A i : i \in first .. (last - 1) <=> i \in AllFrames /\ first <= i /\ i < last
      BY <2>2, <3>1
    <3>3. QED
      BY <2>4, <3>2, Zenon
  <2>8. QED
    BY <2>3, <2>4, <2>6, <2>7, Zenon
<1>2. IInv /\ Counted => AnswersExact
  <2>1. 0 .. (BitmapBits + 2) * PageSize \subseteq Nat
    BY PmmAssumption
  <2>2. QED
    BY <1>1, <2>1 DEF AnswersExact, Counted
<1>3. QED
  BY <1>2, PmmInvariant, CountedAlways, PTL
=============================================================================
