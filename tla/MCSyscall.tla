------------------------------ MODULE MCSyscall ------------------------------
(***************************************************************************)
(* Three user tasks and a kernel task.  Task 1 holds the console and the   *)
(* endpoint and has a span of three pages; task 2 holds the endpoint and   *)
(* has one page, at the same address; task 3 has no table.                 *)
(***************************************************************************)
EXTENDS SyscallSpec

CONSTANTS u1, u2, u3, k, PageFlags

MCObjects == {EndpointObject(h) : h \in SlotId} \union {NotificationObject(h) : h \in SlotId}
               \union {[kind |-> "DebugConsole"]}

MCSpan == [t \in {u1, u2, u3} |->
             IF t = u1 THEN [entry |-> PageSize, sp |-> 4 * PageSize]
             ELSE IF t = u2 THEN [entry |-> PageSize, sp |-> 2 * PageSize]
             ELSE [entry |-> 2 * PageSize, sp |-> PageSize]]

\* AS_ARENA: the bootstrap address space, then one per task with a table.
MCTaskAs == [t \in {u1, u2, u3} |->
               [index |-> IF t = u1 THEN 1 ELSE IF t = u2 THEN 2 ELSE 0, generation |-> 0]]
MCAsArena == allocate(allocate(allocate(NewArena, 0), 2), 3)

Ep == [kind |-> "Endpoint", slot |-> [index |-> 0, generation |-> 0]]

MCTables ==
  [t \in {u1, u2} |->
     IF t = u1
     THEN insert_root(insert_root(NewTable, [rights |-> {"SEND", "RECV"}, object |-> Ep]),
                      [rights |-> {"TRANSFER", "CONSOLE_WRITE"}, object |-> [kind |-> "DebugConsole"]])
     ELSE insert_root(NewTable, [rights |-> {"SEND", "RECV", "TRANSFER"}, object |-> Ep])]

\* Memory: frame 0 is the bootstrap root, 1 a zeroed frame, 2 and 3 the roots
\* of tasks 1 and 2.  Pages are mapped as the loader maps them.
NumFrames == 16

BlankMemory ==
  [f \in 0 .. (NumFrames - 1) |->
     IF f < 4 THEN ZeroPage ELSE [i \in WordIndex |-> Data(<<f, i>>)]]

BlankPmm ==
  new([start |-> 0, end |-> NumFrames * PageSize], <<[start |-> 0, end |-> 4 * PageSize]>>)

MapPage(w, root, page, flags) ==
  LET pa == alloc_index(w.pmm)
  IN IF flags = {} THEN w
     ELSE map(root, w.mem, alloc_frame(w.pmm, pa), page * PageSize, pa, flags)

MemoryWith(flags) ==
  MapPage(MapPage(MapPage(MapPage(
    [mem |-> BlankMemory, pmm |-> BlankPmm],
    3, 1, {"USER", "WRITE"}),
    2, 1, flags[1]), 2, 2, flags[2]), 2, 3, flags[3]).mem

\* PageFlags[p]: what page p of task 1 may be mapped with.  An empty choice
\* leaves the page unmapped.
MCMemories ==
  {MemoryWith(<<f, g, h>>) : f \in PageFlags[1], g \in PageFlags[2], h \in PageFlags[3]}

ReadOnly == {"USER", "EXECUTE"}
ReadWrite == {"USER", "WRITE"}
KernelOnly == {"WRITE"}
AnyPageFlags == <<{ReadOnly, ReadWrite}, {ReadOnly, ReadWrite, KernelOnly, {}}, {ReadWrite, {}}>>
LoadedPageFlags == <<{ReadOnly}, {ReadWrite}, {ReadWrite}>>
=============================================================================
