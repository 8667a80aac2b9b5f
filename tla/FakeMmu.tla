------------------------------- MODULE FakeMmu -------------------------------
(***************************************************************************)
(* The MMU doubles of test-hal/src/mmu.rs, on which the kernel's host tests *)
(* run in place of QemuVirtMmu: FakeMmu, whose address space is a flat map  *)
(* from page addresses to frames and flags, and its two decorators, which   *)
(* inject OutOfFrames and BlockMapped.  An operation that changes the       *)
(* address space is an operator to its Result and what it leaves.  The call *)
(* log (activated root, flushes), which only tests read, is left out.       *)
(***************************************************************************)
EXTENDS Mmu, Functions

FakeOutcome(result, mappings) == [result |-> result, mappings |-> mappings]

\* FakeMmu::create_address_space: an empty HashMap.
fake_create == <<>>

fake_map(as, va, pa, flags) ==
  IF va % PageSize # 0 THEN FakeOutcome("MisalignedAddress", as)
  ELSE IF {"DEVICE", "EXECUTE"} \subseteq flags THEN FakeOutcome("InvalidFlags", as)
  ELSE IF va \in DOMAIN as THEN FakeOutcome("AlreadyMapped", as)
  ELSE FakeOutcome("Ok", [x \in DOMAIN as \union {va} |->
                           IF x = va THEN [frame |-> pa, flags |-> flags] ELSE as[x]])

fake_unmap(as, va) ==
  IF va % PageSize # 0 THEN FakeOutcome("MisalignedAddress", as)
  ELSE IF va \notin DOMAIN as THEN FakeOutcome("NotMapped", as)
  ELSE FakeOutcome("Ok", Restrict(as, DOMAIN as \ {va}))

\* translate looks up the page va lies in; None is NotMapped.
fake_translate(as, va) ==
  LET page_base == va - (va % PageSize)
  IN IF page_base \in DOMAIN as THEN as[page_base] ELSE None

-----------------------------------------------------------------------------
(* OutOfFramesMmu.                                                         *)

\* VecFrameProvider::alloc_frame: pop from the end.
vec_alloc_frame(frames) == IF frames = <<>> THEN None ELSE frames[Len(frames)]

\* Mutant: the mapping stays when the provider is empty.
StarvedMapKept(as, va, pa, flags, frames) ==
  LET inner == fake_map(as, va, pa, flags)
  IN IF inner.result # "Ok" THEN inner
     ELSE IF vec_alloc_frame(frames) = None THEN FakeOutcome("OutOfFrames", inner.mappings)
     ELSE inner

\* Map first, then take one frame, and undo the map if there is none.
out_of_frames_map(as, va, pa, flags, frames) ==
  LET inner == fake_map(as, va, pa, flags)
  IN IF inner.result # "Ok" THEN inner
     ELSE IF vec_alloc_frame(frames) = None
       THEN FakeOutcome("OutOfFrames", fake_unmap(inner.mappings, va).mappings)
     ELSE inner

-----------------------------------------------------------------------------
(* BlockMappedMmu, with the page addresses that stand for blocks.          *)

block_map(as, blocked, va, pa, flags) ==
  IF va \in blocked THEN FakeOutcome("BlockMapped", as) ELSE fake_map(as, va, pa, flags)

block_unmap(as, blocked, va) ==
  IF va \in blocked THEN FakeOutcome("BlockMapped", as) ELSE fake_unmap(as, va)

block_translate(as, blocked, va) ==
  IF va - (va % PageSize) \in blocked THEN None ELSE fake_translate(as, va)
=============================================================================
