--------------------------------- MODULE Mmu ---------------------------------
(***************************************************************************)
(* QemuVirtMmu (bsp-qemu-virt/src/mmu.rs): map, unmap and translate over a *)
(* four-level VMSAv8 table tree, and the descriptor encoding of            *)
(* hal/src/mmu/vmsav8.rs.                                                  *)
(*                                                                         *)
(* Memory is counted in words of the size of a descriptor, so a page of    *)
(* PageSize words is a table of PageSize entries and a virtual address has *)
(* four indices and an offset in base PageSize.  A PhysFrame is its index  *)
(* in the PMM's extent; mem[f] is the page of frame f.                     *)
(***************************************************************************)
EXTENDS Pmm

WordIndex == 0 .. (PageSize - 1)

\* The words below one entry of an L3 table (a page), and of an L2, an L1 and an
\* L0 table.
EntrySpan ==
  LET l2 == PageSize * PageSize
      l1 == PageSize * l2
  IN <<PageSize, l2, l1, PageSize * l1>>

\* One past the last user address (1 << 48): four indices and the offset.
USERSPACE_VA_LIMIT == PageSize * EntrySpan[4]

MappingFlags == {"WRITE", "EXECUTE", "USER", "DEVICE", "GLOBAL"}

-----------------------------------------------------------------------------
(* Descriptors.                                                            *)

\* Mutant: user-executable pages are left executable for the kernel only.
SwappedExecuteNever(flags) ==
  [attr_idx |-> IF "DEVICE" \in flags THEN 0 ELSE 1,
   ap       |-> (IF "USER" \in flags THEN 1 ELSE 0) + (IF "WRITE" \in flags THEN 0 ELSE 2),
   pxn      |-> ~("EXECUTE" \in flags /\ "USER" \in flags /\ "DEVICE" \notin flags),
   uxn      |-> ~("EXECUTE" \in flags /\ "USER" \notin flags /\ "DEVICE" \notin flags),
   ng       |-> "GLOBAL" \notin flags]

\* AP[0] is EL0 access, AP[1] is read-only; shareability follows attr_idx.
flags_to_descriptor_bits(flags) ==
  [attr_idx |-> IF "DEVICE" \in flags THEN 0 ELSE 1,
   ap       |-> (IF "USER" \in flags THEN 1 ELSE 0) + (IF "WRITE" \in flags THEN 0 ELSE 2),
   pxn      |-> ~("EXECUTE" \in flags /\ "USER" \notin flags /\ "DEVICE" \notin flags),
   uxn      |-> ~("EXECUTE" \in flags /\ "USER" \in flags /\ "DEVICE" \notin flags),
   ng       |-> "GLOBAL" \notin flags]

descriptor_bits_to_flags(bits) ==
  LET user == bits.ap \in {1, 3}
  IN {f \in MappingFlags :
        \/ f = "WRITE" /\ bits.ap \in {0, 1}
        \/ f = "EXECUTE" /\ (IF user THEN ~bits.uxn ELSE ~bits.pxn)
        \/ f = "USER" /\ user
        \/ f = "DEVICE" /\ bits.attr_idx = 0
        \/ f = "GLOBAL" /\ ~bits.ng}

\* The words a page may hold: zero, descriptors, and whatever else was
\* written there, which a walk would take for a valid block entry.
ZeroWord == [kind |-> "zero"]
Data(x) == [kind |-> "data", value |-> x]
Block == [kind |-> "block"]
table_descriptor(f) == [kind |-> "table", pa |-> f]
page_descriptor(f, bits) == [kind |-> "page", pa |-> f, bits |-> bits]

\* DESC_VALID_BIT and DESC_TABLE_OR_PAGE_BIT.
valid(word) == word.kind # "zero"
is_table(word) == word.kind \in {"table", "page"}

ZeroPage == [i \in WordIndex |-> ZeroWord]

-----------------------------------------------------------------------------
(* The walk.                                                               *)

\* The index of va at level L0 (shift 4) to L3 (shift 1).
va_index(va, shift) == (va \div EntrySpan[shift]) % PageSize

\* A walk in progress: its Result, the table reached, memory and allocator.
WalkFrom(root, mem, pmm) == [result |-> "Ok", table |-> root, mem |-> mem, pmm |-> pmm]

Failed(w, error) == [w EXCEPT !.result = error]

\* Mutant: a new table frame is used as it comes, not zero-filled.
WalkUnzeroed(w, idx) ==
  LET existing == w.mem[w.table][idx]
      new_table == alloc_index(w.pmm)
  IN IF w.result # "Ok" THEN w
     ELSE IF is_table(existing) THEN [w EXCEPT !.table = existing.pa]
     ELSE IF valid(existing) THEN Failed(w, "AlreadyMapped")
     ELSE IF new_table = None THEN Failed(w, "OutOfFrames")
     ELSE [result |-> "Ok",
           table  |-> new_table,
           mem    |-> [w.mem EXCEPT ![w.table][idx] = table_descriptor(new_table)],
           pmm    |-> alloc_frame(w.pmm, new_table)]

\* walk_or_alloc_table for map: follow the entry, or hang a new table there; it
\* relies on alloc_frame to have zero-filled the frame.
walk_or_alloc_table(w, idx) ==
  LET existing == w.mem[w.table][idx]
      new_table == alloc_index(w.pmm)
  IN IF w.result # "Ok" THEN w
     ELSE IF is_table(existing) THEN [w EXCEPT !.table = existing.pa]
     ELSE IF valid(existing) THEN Failed(w, "AlreadyMapped")
     ELSE IF new_table = None THEN Failed(w, "OutOfFrames")
     ELSE [result |-> "Ok",
           table  |-> new_table,
           mem    |-> [w.mem EXCEPT ![new_table] = ZeroPage,
                                    ![w.table][idx] = table_descriptor(new_table)],
           pmm    |-> alloc_frame(w.pmm, new_table)]

\* The three table levels above the leaf table.
walk(root, mem, pmm, va) ==
  walk_or_alloc_table(
    walk_or_alloc_table(
      walk_or_alloc_table(WalkFrom(root, mem, pmm), va_index(va, 4)),
      va_index(va, 3)),
    va_index(va, 2))

\* walk_or_alloc_table with unmap = true, for unmap and translate: the step
\* that reads only, on the Result so far and the table reached.
read_table(mem, w, idx) ==
  LET existing == mem[w.table][idx]
  IN IF w.result # "Ok" THEN w
     ELSE IF is_table(existing) THEN [w EXCEPT !.table = existing.pa]
     ELSE Failed(w, IF valid(existing) THEN "BlockMapped" ELSE "NotMapped")

read_walk(root, mem, va) ==
  read_table(mem,
    read_table(mem,
      read_table(mem, [result |-> "Ok", table |-> root], va_index(va, 4)),
      va_index(va, 3)),
    va_index(va, 2))

-----------------------------------------------------------------------------
(* map, unmap, translate.                                                  *)

\* A failed map keeps the tables the walk hung into the tree.
map(root, mem, pmm, va, pa, flags) ==
  LET w == walk(root, mem, pmm, va)
  IN IF va % PageSize # 0 THEN Failed(WalkFrom(root, mem, pmm), "MisalignedAddress")
     ELSE IF {"DEVICE", "EXECUTE"} \subseteq flags
       THEN Failed(WalkFrom(root, mem, pmm), "InvalidFlags")
     ELSE IF w.result # "Ok" THEN w
     ELSE IF valid(w.mem[w.table][va_index(va, 1)]) THEN Failed(w, "AlreadyMapped")
     ELSE [w EXCEPT !.mem[w.table][va_index(va, 1)] =
                       page_descriptor(pa, flags_to_descriptor_bits(flags))]

\* The leaf entry a read-only walk reaches, and its word (zero if it fails).
leaf_of(root, mem, va) ==
  LET w == read_walk(root, mem, va)
  IN [result |-> w.result, table |-> w.table,
      word |-> IF w.result = "Ok" THEN mem[w.table][va_index(va, 1)] ELSE ZeroWord]

\* unmap returns the frame of the leaf it zeroes.
unmap_result(root, mem, va) ==
  LET leaf == leaf_of(root, mem, va)
  IN IF va % PageSize # 0 THEN "MisalignedAddress"
     ELSE IF leaf.result # "Ok" THEN leaf.result
     ELSE IF ~valid(leaf.word) THEN "NotMapped"
     ELSE "Ok"

unmap(root, mem, va) ==
  [mem EXCEPT ![read_walk(root, mem, va).table][va_index(va, 1)] = ZeroWord]

unmapped_frame(root, mem, va) == leaf_of(root, mem, va).word.pa

\* translate: the frame and the flags of a page leaf, or None for its error.
translate(root, mem, va) ==
  LET word == leaf_of(root, mem, va).word
  IN IF word.kind = "page"
     THEN [frame |-> word.pa, flags |-> descriptor_bits_to_flags(word.bits)]
     ELSE None
=============================================================================
