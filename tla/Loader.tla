-------------------------------- MODULE Loader --------------------------------
(***************************************************************************)
(* The arithmetic and the checks of kernel::obj::task_loader::load_image.  *)
(*                                                                         *)
(* A request is a record of load_image's arguments.  The image is a range  *)
(* of physical memory, pa .. pa + len - 1, read when it is copied, so that *)
(* an image the allocator could hand out would be seen to change.          *)
(***************************************************************************)
EXTENDS AddressSpace, Usize

ASSUME LoaderAssumption == UsizeMax >= USERSPACE_VA_LIMIT

Request == [pa : Nat, len : Nat, parent : CapHandle, new_rights : SUBSET Rights,
            base : Nat, stack_pages : Nat]

image_pages(r) == div_ceil(r.len, PageSize)

-----------------------------------------------------------------------------
(* The preflight.                                                          *)

\* Mutant: plain arithmetic, which wraps in a release build.
SpanEndWraps(r) == (r.base + (image_pages(r) + r.stack_pages) * PageSize) % (UsizeMax + 1)

span_end(r) ==
  saturating_add(r.base, saturating_mul(saturating_add(image_pages(r), r.stack_pages), PageSize))

\* The slots of 2^shift (here EntrySpan[shift]) addresses that the span touches.
slots_touched(first, last, shift) ==
  saturating_sub(last \div EntrySpan[shift], first \div EntrySpan[shift]) + 1

\* L1, L2 and L3 tables below a fresh root.
intermediate_frame_count(base, images, stacks) ==
  LET total == saturating_add(images, stacks)
      last == saturating_sub(saturating_add(base, saturating_mul(total, PageSize)), 1)
  IN IF total = 0 THEN 0
     ELSE saturating_add(slots_touched(base, last, 4),
            saturating_add(slots_touched(base, last, 3), slots_touched(base, last, 2)))

\* Root, image, stack and tables.
needed(r) ==
  saturating_add(saturating_add(saturating_add(1, image_pages(r)), r.stack_pages),
                 intermediate_frame_count(r.base, image_pages(r), r.stack_pages))

image_range(r) == [start |-> r.pa, end |-> saturating_add(r.pa, r.len)]

\* Mutant: the image may lie in memory the allocator hands out.
PreflightSkipsOverlap(k, r) ==
  IF r.len = 0 THEN "InvalidImage"
  ELSE IF r.stack_pages = 0 THEN "InvalidStackSize"
  ELSE IF r.base % PageSize # 0 THEN "MisalignedImageBaseVa"
  ELSE IF ~resolves(k.table, r.parent) THEN "InvalidParentCap"
  ELSE IF entry_of(k.table, r.parent).object.kind # "AddressSpace" THEN "InvalidParentCap"
  ELSE IF span_end(r) > USERSPACE_VA_LIMIT THEN "InvalidImageBaseVa"
  ELSE IF needed(r) > k.pmm.free_count THEN "FrameBudgetExceeded"
  ELSE "Ok"

\* Rows 1 to 4; row 5 is create_preflight.
load_preflight(k, r) ==
  IF r.len = 0 THEN "InvalidImage"
  ELSE IF r.stack_pages = 0 THEN "InvalidStackSize"
  ELSE IF r.base % PageSize # 0 THEN "MisalignedImageBaseVa"
  ELSE IF ~resolves(k.table, r.parent) THEN "InvalidParentCap"
  ELSE IF entry_of(k.table, r.parent).object.kind # "AddressSpace" THEN "InvalidParentCap"
  ELSE IF span_end(r) > USERSPACE_VA_LIMIT THEN "InvalidImageBaseVa"
  ELSE IF needed(r) > k.pmm.free_count THEN "FrameBudgetExceeded"
  ELSE IF could_yield_pa_overlapping(k.pmm, image_range(r)) THEN "ImageOverlapsAllocatableMemory"
  ELSE "Ok"

-----------------------------------------------------------------------------
(* The pages.                                                              *)

stack_base(r) == saturating_add(r.base, saturating_mul(image_pages(r), PageSize))
stack_top(r) == saturating_add(stack_base(r), saturating_mul(r.stack_pages, PageSize))

image_va(r, i) == saturating_add(r.base, saturating_mul(i, PageSize))
stack_va(r, i) == saturating_add(stack_base(r), saturating_mul(i, PageSize))

IMAGE_FLAGS == {"USER", "EXECUTE"}
STACK_FLAGS == {"USER", "WRITE"}

word_at(mem, pa) == mem[pa \div PageSize][pa % PageSize]

\* copy_nonoverlapping of chunk i into frame f: the words past the image's end
\* keep the zeroes of alloc_frame.
copy_chunk(k, r, i, f) ==
  Kernel(k.table, k.arena, k.pmm,
    [k.mem EXCEPT ![f] = [w \in WordIndex |->
       IF i * PageSize + w < r.len THEN word_at(k.mem, r.pa + i * PageSize + w)
       ELSE k.mem[f][w]]])
=============================================================================
