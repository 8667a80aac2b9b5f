--------------------------- MODULE AddressSpaceSpec ---------------------------
(***************************************************************************)
(* The kernel's address spaces in use: any holder of capabilities creates  *)
(* address spaces and maps and unmaps pages through the cap_* wrappers,    *)
(* the scheduler activates address spaces, and the hardware fills the TLB  *)
(* of the running core from the active tables (ASID 0 for all of them).    *)
(*                                                                         *)
(* A page is mapped the way the loader does it: take a frame, write it,    *)
(* cap_map it, and give it back when the map fails; an unmapped frame is   *)
(* given back with what was written in it.                                 *)
(*                                                                         *)
(* Every call is made on the host doubles of module FakeMmu as well.       *)
(***************************************************************************)
EXTENDS AddressSpace, FakeMmu

CONSTANTS
  Vas,            \* the virtual addresses callers name
  FlagChoices,    \* the MappingFlags callers ask for
  RightsChoices   \* the rights asked for a new address space

ASSUME AddressSpaceSpecAssumption ==
  /\ Vas \subseteq 0 .. (USERSPACE_VA_LIMIT - 1)
  /\ FlagChoices \subseteq SUBSET MappingFlags
  /\ RightsChoices \subseteq SUBSET Rights

VARIABLES
  kernel,   \* the boot task's table, the address-space arena, PMM and memory
  active,   \* the handle whose root is in TTBR0_EL1; None while EPD0 is set
  tlb,      \* the translations the core has cached
  host      \* host[r]: the FakeAddressSpace of the address space with root r

vars == <<kernel, active, tlb, host>>

Init ==
  /\ kernel = BootKernel
  /\ active = None
  /\ tlb = {}
  /\ host = [f \in Frame |-> fake_create]

-----------------------------------------------------------------------------
\* MapperFlush::flush: TLBI VAE1 on the page number of va.
invalidate_tlb_address(va) == {e \in tlb : e.page # va \div PageSize}

Create(parent, new_rights) ==
  /\ create_preflight(kernel, parent, new_rights) = "Ok"
  /\ kernel' = cap_create_address_space(kernel, parent, new_rights).kernel
  /\ host' = [host EXCEPT ![alloc_index(kernel.pmm)] = fake_create]
  /\ UNCHANGED <<active, tlb>>

\* The region the bootstrap tree maps as a block.
InBlock(root, va) == root = 0 /\ va < EntrySpan[2]

\* Its page addresses, which a test registers as blocked.
Blocked(root) == {va \in Vas : va % PageSize = 0 /\ InBlock(root, va)}

\* The map on the double that a test of this situation uses.
HostMap(root, va, pa, flags, starved) ==
  IF Blocked(root) # {} THEN block_map(host[root], Blocked(root), va, pa, flags)
  ELSE out_of_frames_map(host[root], va, pa, flags, IF starved THEN <<>> ELSE <<pa>>)

\* The caller's write of the frame it just took.
written(k, f) == Kernel(k.table, k.arena, k.pmm, [k.mem EXCEPT ![f] = [i \in WordIndex |-> Data("left")]])

MapPage(cap, va, flags) ==
  LET pa == alloc_index(kernel.pmm)
      m == cap_map(written(take_frame(kernel), pa), cap, va, pa, flags)
  IN /\ pa # None
     /\ IF m.result = "Ok"
          THEN /\ kernel' = m.kernel
               /\ tlb' = invalidate_tlb_address(va)
               /\ host' = [host EXCEPT ![root_of(kernel, cap)] =
                                        HostMap(root_of(kernel, cap), va, pa, flags, FALSE).mappings]
          ELSE /\ kernel' = give_frame(m.kernel, pa)
               /\ UNCHANGED <<tlb, host>>
     /\ UNCHANGED active

UnmapPage(cap, va) ==
  /\ cap_unmap_result(kernel, cap, va) = "Ok"
  /\ kernel' = give_frame(cap_unmap(kernel, cap, va), cap_unmap_frame(kernel, cap, va))
  /\ tlb' = invalidate_tlb_address(va)
  /\ host' = [host EXCEPT ![root_of(kernel, cap)] = block_unmap(@, Blocked(root_of(kernel, cap)), va).mappings]
  /\ UNCHANGED active

\* cap_drop: the address space outlives its last capability.
DropCap(cap) ==
  /\ cap_drop_result(kernel.table, cap) = "Ok"
  /\ kernel' = Kernel(cap_drop(kernel.table, cap), kernel.arena, kernel.pmm, kernel.mem)
  /\ UNCHANGED <<active, tlb, host>>

\* Mutant: the switch of TTBR0_EL1 without TLBI VMALLE1.
ActivateKeepsTlb(h) ==
  /\ contains(kernel.arena, h)
  /\ active' = h
  /\ UNCHANGED <<kernel, tlb, host>>

\* activate_address_space_handle; a stale handle is a no-op.
Activate(h) ==
  /\ contains(kernel.arena, h)
  /\ active' = h
  /\ tlb' = {}
  /\ UNCHANGED <<kernel, host>>

TranslateIn(root, va) == translate(root, kernel.mem, va)

\* The hardware walk on a TLB miss; a fault is not cached.
TlbFill(va) ==
  LET t == TranslateIn(root_frame(kernel.arena, active), va)
  IN /\ active # None
     /\ t # None
     /\ \A e \in tlb : e.page # va \div PageSize
     /\ tlb' = tlb \union {[page |-> va \div PageSize, frame |-> t.frame, flags |-> t.flags]}
     /\ UNCHANGED <<kernel, active, host>>

Next ==
  \/ \E parent \in CapHandle, r \in RightsChoices : Create(parent, r)
  \/ \E cap \in CapHandle, va \in Vas, flags \in FlagChoices : MapPage(cap, va, flags)
  \/ \E cap \in CapHandle, va \in Vas : UnmapPage(cap, va)
  \/ \E cap \in CapHandle : DropCap(cap)
  \/ \E h \in SlotId : Activate(h)
  \/ \E va \in Vas : TlbFill(va)

Spec == Init /\ [][Next]_vars

-----------------------------------------------------------------------------
(* Properties.                                                             *)

\* "Exclusively owned" of walk_and_install_leaf's and create_address_space's
\* safety contracts: no frame is a table of two trees or of two places in one,
\* or both a table and a mapped page, or mapped twice, and none of them is free
\* for alloc_frame to hand out.  And what the preflight order of
\* cap_create_address_space is for: every frame the allocator has handed out is
\* a root, a table or a mapped page; no failed creation or map strands one.
FramesAccounted ==
  /\ ExclusivelyOwned(kernel)
  /\ kernel.pmm.bitmap \subseteq Roots(kernel) \union Referenced(kernel)

\* An address translates, in each address space, to exactly the frame and the
\* permissions of the cap_map call that is still in force, which is what the
\* flat map of FakeMmu holds, and an address nobody mapped does not translate,
\* whatever was written in recycled tables.
TranslationExact ==
  \A r \in Roots(kernel) :
    \A va \in Vas \union {page * PageSize : page \in 0 .. (USERSPACE_VA_LIMIT \div PageSize - 1)} :
      TranslateIn(r, va) = block_translate(host[r], Blocked(r), va)

\* A cached translation is one the active tables still give: the per-address
\* flush of MapperFlush and the full flush of activate leave nothing stale, so
\* no access reaches an unmapped, perhaps reused, frame.
NoStaleTlb ==
  \A e \in tlb :
    TranslateIn(root_frame(kernel.arena, active), e.page * PageSize) =
      [frame |-> e.frame, flags |-> e.flags]

\* The tables a map of va still has to hang: one per level from the first
\* level whose entry is empty.
MissingTables(root, va) ==
  LET l0 == kernel.mem[root][va_index(va, 4)]
      l1 == kernel.mem[l0.pa][va_index(va, 3)]
      l2 == kernel.mem[l1.pa][va_index(va, 2)]
  IN IF ~valid(l0) THEN 3 ELSE IF ~valid(l1) THEN 2 ELSE IF ~valid(l2) THEN 1 ELSE 0

\* A map that is well formed fails for two reasons only: the page is mapped
\* (by page or by block), or the free frames do not cover the tables it needs.
\* In particular tables left by an earlier failed map do not get in its way.
MapFailsForCause ==
  \A r \in Roots(kernel) : \A va \in Vas : \A flags \in FlagChoices :
    (va % PageSize = 0 /\ ~({"DEVICE", "EXECUTE"} \subseteq flags)) =>
      map(r, kernel.mem, kernel.pmm, va, 0, flags).result =
        IF InBlock(r, va) \/ va \in DOMAIN host[r] THEN "AlreadyMapped"
        ELSE IF NumFrames - Cardinality(kernel.pmm.bitmap) < MissingTables(r, va) THEN "OutOfFrames"
        ELSE "Ok"

\* A host test learns what the board would do: outside blocks, map gives the
\* same Result on the doubles, with OutOfFramesMmu standing in where frames run
\* out (none has both blocks and an empty provider), and so does unmap, with the
\* same frame, everywhere.  On a block every map fails on both, if not with the
\* same error.  And a double that refuses a map keeps the failure contract of
\* Mmu::map: the address space is as it was.
DoublesAgree ==
  \A r \in Roots(kernel) : \A va \in Vas :
    /\ \A flags \in FlagChoices :
         LET real == map(r, kernel.mem, kernel.pmm, va, 0, flags).result
             double == HostMap(r, va, 0, flags, real = "OutOfFrames")
         IN /\ IF InBlock(r, va) THEN "Ok" \notin {real, double.result}
               ELSE real = double.result \/ (r = 0 /\ real = "OutOfFrames")
            /\ double.result # "Ok" => double.mappings = host[r]
    /\ LET double == block_unmap(host[r], Blocked(r), va)
       IN /\ double.result = unmap_result(r, kernel.mem, va)
          /\ double.result = "Ok" => unmapped_frame(r, kernel.mem, va) = host[r][va].frame
=============================================================================
