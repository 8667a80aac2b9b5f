------------------------------- MODULE MCLoader -------------------------------
(***************************************************************************)
(* Requests around the boundaries: spans inside one L3 table and across    *)
(* L3, L2 and L1 tables, up to and past the end of the user range, sizes   *)
(* that overflow, an image in allocatable memory, and malformed arguments. *)
(***************************************************************************)
EXTENDS LoaderSpec

MCObjects == {AddressSpaceObject(h) : h \in SlotId} \union {TaskObject(h) : h \in SlotId}
               \union {[kind |-> "DebugConsole"]}

BootCap == [index |-> 0, generation |-> 0]
ConsoleCap == [index |-> 1, generation |-> 0]
FirstLoadedCap == [index |-> 2, generation |-> 0]

Req(pa, len, base, stack) ==
  [pa |-> pa, len |-> len, parent |-> BootCap, new_rights |-> {}, base |-> base, stack_pages |-> stack]

MCRequests ==
  {Req(6, 1, 0, 1),                  \* one page of each, one L3 table
   Req(6, 1, 0, 2),                  \* two stack pages
   Req(6, 3, 6, 1),                  \* pages 3 to 5: two L3, two L2 tables
   Req(7, 2, 14, 1),                 \* pages 7 and 8: every level twice
   Req(6, 1, 28, 1),                 \* ends at USERSPACE_VA_LIMIT
   Req(6, 1, 30, 1),                 \* one page past it
   Req(6, 1, 4, 128),                \* 129 pages: the byte count overflows
   Req(6, 1, 4, 127),                \* 128 pages: it wraps to 0
   Req(6, 1, 4, 255),
   Req(9, 2, 4, 1),                  \* from .rodata into allocatable memory
   Req(12, 2, 4, 1),                 \* in allocatable memory
   Req(6, 0, 4, 1), Req(6, 1, 4, 0), Req(6, 1, 5, 1),
   [Req(6, 1, 4, 1) EXCEPT !.parent = ConsoleCap],
   [Req(6, 1, 4, 1) EXCEPT !.parent = FirstLoadedCap]}
=============================================================================
