----------------------------- MODULE AddressSpace -----------------------------
(***************************************************************************)
(* kernel::mm::address_space: address spaces as arena objects, and the     *)
(* capability-gated wrappers around Mmu::create_address_space, map and     *)
(* unmap.  An arena entry is the root frame of its address space.  Each    *)
(* wrapper is an operator from the state it borrows to a record of its     *)
(* Result and the state it leaves.                                         *)
(***************************************************************************)
EXTENDS CapTable, Arena, Mmu

CONSTANT NumFrames   \* the frames of the PMM's extent

AddressSpaceObject(h) == [kind |-> "AddressSpace", slot |-> h]

\* The objects of that kind are address-space handles; boot's two capabilities
\* fit the table.
ASSUME AddressSpaceAssumption ==
  /\ NumFrames \in Nat /\ NumFrames > 3 /\ PageSize > 1
  /\ Capacity > 1
  /\ [kind |-> "DebugConsole"] \in Objects
  /\ \A h \in SlotId : AddressSpaceObject(h) \in Objects
  /\ \A o \in Objects : o.kind = "AddressSpace" => \E h \in SlotId : o = AddressSpaceObject(h)

Frame == 0 .. (NumFrames - 1)

\* get_address_space, for a handle the arena contains.
root_frame(arena, h) == get(arena, h)

\* The state the wrappers thread through.
Kernel(table, arena, pmm, mem) == [table |-> table, arena |-> arena, pmm |-> pmm, mem |-> mem]

-----------------------------------------------------------------------------
(* What boot leaves: the tables mmu_bootstrap built, wrapped as the first  *)
(* address space, and its root capability next to another object's.        *)

BootHandle == [index |-> 0, generation |-> 0]

\* Frames 0 to 2, reserved, are the bootstrap root, its L1 and its L2, whose
\* first entry is a block; other frames hold what was in RAM.
BootPmm == new([start |-> 0, end |-> NumFrames * PageSize], <<[start |-> 0, end |-> 3 * PageSize]>>)

BootMemory ==
  [f \in Frame |->
     IF f = 0 THEN [ZeroPage EXCEPT ![0] = table_descriptor(1)]
     ELSE IF f = 1 THEN [ZeroPage EXCEPT ![0] = table_descriptor(2)]
     ELSE IF f = 2 THEN [ZeroPage EXCEPT ![0] = Block]
     ELSE [i \in WordIndex |-> Data("left")]]

BootKernel ==
  Kernel(insert_root(insert_root(NewTable, [rights |-> Rights, object |-> AddressSpaceObject(BootHandle)]),
                     [rights |-> Rights, object |-> [kind |-> "DebugConsole"]]),
         allocate(NewArena, 0), BootPmm, BootMemory)

-----------------------------------------------------------------------------
(* cap_create_address_space.                                               *)

\* Mutant: no capacity preflight of the capability table.
CreateSkipsTablePreflight(k, parent, new_rights) ==
  IF ~resolves(k.table, parent) THEN "InvalidHandle"
  ELSE IF entry_of(k.table, parent).object.kind # "AddressSpace" THEN "WrongKind"
  ELSE IF "DERIVE" \notin entry_of(k.table, parent).rights THEN "InsufficientRights"
  ELSE IF ~(new_rights \subseteq entry_of(k.table, parent).rights) THEN "WidenedRights"
  ELSE IF entry_of(k.table, parent).depth + 1 > MaxDepth THEN "DerivationTooDeep"
  ELSE IF arena_is_full(k.arena) THEN "ArenaFull"
  ELSE IF alloc_index(k.pmm) = None THEN "OutOfFrames"
  ELSE "Ok"

\* Steps 1 to 4: every check comes before the frame, which cannot be returned.
create_preflight(k, parent, new_rights) ==
  IF ~resolves(k.table, parent) THEN "InvalidHandle"
  ELSE IF entry_of(k.table, parent).object.kind # "AddressSpace" THEN "WrongKind"
  ELSE IF "DERIVE" \notin entry_of(k.table, parent).rights THEN "InsufficientRights"
  ELSE IF ~(new_rights \subseteq entry_of(k.table, parent).rights) THEN "WidenedRights"
  ELSE IF entry_of(k.table, parent).depth + 1 > MaxDepth THEN "DerivationTooDeep"
  ELSE IF arena_is_full(k.arena) THEN "ArenaFull"
  ELSE IF is_full(k.table) THEN "CapsExhausted"
  ELSE IF alloc_index(k.pmm) = None THEN "OutOfFrames"
  ELSE "Ok"

\* Steps 4 to 7: root frame, arena slot, and the capability as a child of the
\* parent.  A cap_derive that fails frees the slot and leaks the frame.
cap_create_address_space(k, parent, new_rights) ==
  LET root == alloc_index(k.pmm)
      slot == [index |-> k.arena.free_head, generation |-> k.arena.generation[k.arena.free_head]]
      arena == allocate(k.arena, root)
      minted == cap_derive_result(k.table, parent, new_rights)
  IN [result |-> minted,
      cap    |-> IF minted = "Ok" THEN HandleOf(k.table, k.table.free_head) ELSE None,
      kernel |-> Kernel(IF minted = "Ok"
                          THEN cap_derive(k.table, parent, new_rights, AddressSpaceObject(slot))
                          ELSE k.table,
                        IF minted = "Ok" THEN arena ELSE free(arena, slot),
                        alloc_frame(k.pmm, root),
                        [k.mem EXCEPT ![root] = ZeroPage])]

-----------------------------------------------------------------------------
(* cap_map and cap_unmap: the kind of the capability is the authority.     *)

resolve_address_space_cap(k, cap) ==
  IF ~resolves(k.table, cap) THEN "InvalidHandle"
  ELSE IF entry_of(k.table, cap).object.kind # "AddressSpace" THEN "WrongKind"
  ELSE IF ~contains(k.arena, entry_of(k.table, cap).object.slot) THEN "StaleHandle"
  ELSE "Ok"

\* The root of the address space behind a capability that resolved.
root_of(k, cap) == root_frame(k.arena, entry_of(k.table, cap).object.slot)

cap_map(k, cap, va, pa, flags) ==
  LET r == resolve_address_space_cap(k, cap)
      m == map(root_of(k, cap), k.mem, k.pmm, va, pa, flags)
  IN IF r # "Ok" THEN [result |-> r, kernel |-> k]
     ELSE [result |-> m.result, kernel |-> Kernel(k.table, k.arena, m.pmm, m.mem)]

cap_unmap_result(k, cap, va) ==
  LET r == resolve_address_space_cap(k, cap)
  IN IF r # "Ok" THEN r ELSE unmap_result(root_of(k, cap), k.mem, va)

cap_unmap(k, cap, va) ==
  Kernel(k.table, k.arena, k.pmm, unmap(root_of(k, cap), k.mem, va))

\* The frame cap_unmap returns.
cap_unmap_frame(k, cap, va) == unmapped_frame(root_of(k, cap), k.mem, va)

-----------------------------------------------------------------------------
(* What callers do around them.                                            *)

\* alloc_frame of a Pmm that has a free frame: the frame is alloc_index, and
\* it comes zero-filled.
take_frame(k) ==
  LET f == alloc_index(k.pmm)
  IN Kernel(k.table, k.arena, alloc_frame(k.pmm, f), [k.mem EXCEPT ![f] = ZeroPage])

\* free_frame with its Result ignored.
give_frame(k, f) ==
  IF free_frame_result(k.pmm, frame_addr(k.pmm.extent, f)) = "Ok"
  THEN Kernel(k.table, k.arena, free_frame(k.pmm, f), k.mem)
  ELSE k

-----------------------------------------------------------------------------
(* The table trees of a kernel state, for its properties.                  *)

Roots(k) == {k.arena.entry[i] : i \in SlotIndex} \ {None}

\* The frames that table descriptors in the frames of S name.
Below(k, S) ==
  {k.mem[x[1]][x[2]].pa : x \in {y \in S \X WordIndex : k.mem[y[1]][y[2]].kind = "table"}}

TreeOf(k, S) ==
  LET l1 == Below(k, S)
      l2 == Below(k, l1)
  IN S \union l1 \union l2 \union Below(k, l2)

\* Every descriptor that names a frame in the trees with roots S.
Refs(k, S) == {x \in TreeOf(k, S) \X WordIndex : k.mem[x[1]][x[2]].kind \in {"table", "page"}}

PaOf(k, x) == k.mem[x[1]][x[2]].pa

Referenced(k) == {PaOf(k, x) : x \in Refs(k, Roots(k))}

\* No frame has two places in the trees, and none in a tree is free.
ExclusivelyOwned(k) ==
  /\ \A i, j \in SlotIndex :
       (k.arena.entry[i] = k.arena.entry[j] /\ k.arena.entry[i] # None) => i = j
  /\ \A x, y \in Refs(k, Roots(k)) : PaOf(k, x) = PaOf(k, y) => x = y
  /\ Roots(k) \intersect Referenced(k) = {}
  /\ Roots(k) \union Referenced(k) \subseteq k.pmm.bitmap
=============================================================================
