------------------------------ MODULE LoaderSpec ------------------------------
(***************************************************************************)
(* load_image page by page, its rollback, and task_create_from_image.      *)
(* Requests come one after the other (the kernel does not yield inside     *)
(* load_image); the steps expose every intermediate state.                 *)
(*                                                                         *)
(* A faulty Mmu is any implementation of the trait: map may fail when it   *)
(* likes, having hung tables or not, as the failure contract of Mmu::map   *)
(* allows.  One that is not faulty is QemuVirtMmu.                         *)
(***************************************************************************)
EXTENDS Loader

CONSTANTS
  ExtentFrames,   \* the sizes, in frames, the PMM's extent may have
  Requests,       \* the requests made
  MmuFaults       \* the values faulty may have

ASSUME LoaderSpecAssumption ==
  /\ ExtentFrames \subseteq 5 .. NumFrames
  /\ Requests \subseteq Request
  /\ MmuFaults \subseteq BOOLEAN

VARIABLES
  kernel,   \* BOOTSTRAP_AS_TABLE, the address-space arena, PMM and memory
  load,     \* the load_image call in progress: its locals, or None
  loaded,   \* the LoadedImages returned, each with the image it was made from
  tasks,    \* TASK_ARENA
  faulty    \* whether map may fail without a cause in the tables

vars == <<kernel, load, loaded, tasks, faulty>>

\* Frames 3 and 4 are the kernel's .rodata, reserved, with the images in it.
RodataRange == [start |-> 3 * PageSize, end |-> 5 * PageSize]

LoaderMemory ==
  [BootMemory EXCEPT ![3] = [i \in WordIndex |-> Data(3 * PageSize + i)],
                     ![4] = [i \in WordIndex |-> Data(4 * PageSize + i)]]

LoaderPmm(n) ==
  new([start |-> 0, end |-> n * PageSize], <<[start |-> 0, end |-> 3 * PageSize], RodataRange>>)

Init ==
  /\ \E n \in ExtentFrames :
       kernel = Kernel(BootKernel.table, BootKernel.arena, LoaderPmm(n), LoaderMemory)
  /\ load = None
  /\ loaded = {}
  /\ tasks = NewArena
  /\ faulty \in MmuFaults

-----------------------------------------------------------------------------
(* load_image.                                                             *)

ImageOf(mem, r) == [i \in 0 .. (r.len - 1) |-> word_at(mem, r.pa + i)]

\* Rows 1 to 5.  A refused request changes nothing.
Begin(r) ==
  LET c == cap_create_address_space(kernel, r.parent, r.new_rights)
  IN /\ load = None
     /\ load_preflight(kernel, r) = "Ok"
     /\ create_preflight(kernel, r.parent, r.new_rights) = "Ok"
     /\ kernel' = c.kernel
     /\ load' = [request |-> r, cap |-> c.cap, unwinding |-> FALSE, images |-> 0, stacks |-> 0,
                 image |-> ImageOf(kernel.mem, r), free |-> kernel.pmm.free_count]
     /\ UNCHANGED <<loaded, tasks, faulty>>

Walked(k, cap, va) ==
  LET w == walk(root_of(k, cap), k.mem, k.pmm, va)
  IN Kernel(k.table, k.arena, w.pmm, w.mem)

\* What cap_map may answer.
MapOutcomes(k, cap, va, pa, flags) ==
  {cap_map(k, cap, va, pa, flags)} \union
  (IF faulty
   THEN {[result |-> "Fault", kernel |-> k], [result |-> "Fault", kernel |-> Walked(k, cap, va)]}
   ELSE {})

Unwind == load' = [load EXCEPT !.unwinding = TRUE]

\* Mutant: the frame of the failed map is forgotten.
LeafForgotten(k, pa) == k

\* pmm.free_frame(frame) after a failed map.
return_leaf(k, pa) == give_frame(k, pa)

\* The tail of both loops: map the frame, or return it and unwind.
InstallPage(k, va, pa, flags, advanced) ==
  \E m \in MapOutcomes(k, load.cap, va, pa, flags) :
    IF m.result = "Ok" THEN kernel' = m.kernel /\ load' = advanced
    ELSE kernel' = return_leaf(m.kernel, pa) /\ Unwind

ImagesDone == load.images = image_pages(load.request)
StacksDone == load.stacks = load.request.stack_pages

MapImagePage ==
  LET r == load.request
      pa == alloc_index(kernel.pmm)
  IN /\ load # None /\ ~load.unwinding /\ ~ImagesDone
     /\ IF pa = None THEN Unwind /\ UNCHANGED kernel
        ELSE InstallPage(copy_chunk(take_frame(kernel), r, load.images, pa),
                         image_va(r, load.images), pa, IMAGE_FLAGS,
                         [load EXCEPT !.images = load.images + 1])
     /\ UNCHANGED <<loaded, tasks, faulty>>

MapStackPage ==
  LET r == load.request
      pa == alloc_index(kernel.pmm)
  IN /\ load # None /\ ~load.unwinding /\ ImagesDone /\ ~StacksDone
     /\ IF pa = None THEN Unwind /\ UNCHANGED kernel
        ELSE InstallPage(take_frame(kernel), stack_va(r, load.stacks), pa, STACK_FLAGS,
                         [load EXCEPT !.stacks = load.stacks + 1])
     /\ UNCHANGED <<loaded, tasks, faulty>>

\* Row 8; the history keeps the request and the image beside the result.
Finish ==
  LET r == load.request
  IN /\ load # None /\ ~load.unwinding /\ ImagesDone /\ StacksDone
     /\ loaded' = loaded \union
          {[as_cap |-> load.cap, entry_va |-> r.base, stack_top_va |-> stack_top(r),
            request |-> r, image |-> load.image, root |-> root_of(kernel, load.cap)]}
     /\ load' = None
     /\ UNCHANGED <<kernel, tasks, faulty>>

-----------------------------------------------------------------------------
(* rollback.                                                               *)

UnmapAndFree(va) ==
  kernel' = IF cap_unmap_result(kernel, load.cap, va) = "Ok"
            THEN give_frame(cap_unmap(kernel, load.cap, va), cap_unmap_frame(kernel, load.cap, va))
            ELSE kernel

UnwindStackPage ==
  /\ load # None /\ load.unwinding /\ load.stacks > 0
  /\ UnmapAndFree(stack_va(load.request, load.stacks - 1))
  /\ load' = [load EXCEPT !.stacks = load.stacks - 1]
  /\ UNCHANGED <<loaded, tasks, faulty>>

\* Mutant: off by one, the last page mapped is skipped.
UnwindBelowLast ==
  /\ load # None /\ load.unwinding /\ load.stacks = 0 /\ load.images > 0
  /\ UnmapAndFree(image_va(load.request, load.images))
  /\ load' = [load EXCEPT !.images = load.images - 1]
  /\ UNCHANGED <<loaded, tasks, faulty>>

UnwindImagePage ==
  /\ load # None /\ load.unwinding /\ load.stacks = 0 /\ load.images > 0
  /\ UnmapAndFree(image_va(load.request, load.images - 1))
  /\ load' = [load EXCEPT !.images = load.images - 1]
  /\ UNCHANGED <<loaded, tasks, faulty>>

UnwindCap ==
  /\ load # None /\ load.unwinding /\ load.stacks = 0 /\ load.images = 0
  /\ kernel' = IF cap_drop_result(kernel.table, load.cap) = "Ok"
               THEN Kernel(cap_drop(kernel.table, load.cap), kernel.arena, kernel.pmm, kernel.mem)
               ELSE kernel
  /\ load' = None
  /\ UNCHANGED <<loaded, tasks, faulty>>

-----------------------------------------------------------------------------
(* task_create_from_image, and the owner of the table dropping an image's  *)
(* address-space capability.                                               *)

TaskObject(h) == [kind |-> "Task", slot |-> h]

NextTask == [index |-> tasks.free_head, generation |-> tasks.generation[tasks.free_head]]

\* A full table gives the task's slot back, with its generation bumped.
MintTask(as_handle, rights) ==
  LET minted == allocate(tasks, [address_space_handle |-> as_handle])
  IN IF insert_root_result(kernel.table) = "Ok"
     THEN /\ tasks' = minted
          /\ kernel' = Kernel(insert_root(kernel.table, [rights |-> rights, object |-> TaskObject(NextTask)]),
                              kernel.arena, kernel.pmm, kernel.mem)
     ELSE /\ tasks' = free(minted, NextTask)
          /\ UNCHANGED kernel

CreateTask(l, rights) ==
  /\ load = None
  /\ resolves(kernel.table, l.as_cap)
  /\ entry_of(kernel.table, l.as_cap).object.kind = "AddressSpace"
  /\ ~arena_is_full(tasks)
  /\ MintTask(entry_of(kernel.table, l.as_cap).object.slot, rights)
  /\ UNCHANGED <<load, loaded, faulty>>

DropImageCap(l) ==
  /\ load = None
  /\ cap_drop_result(kernel.table, l.as_cap) = "Ok"
  /\ kernel' = Kernel(cap_drop(kernel.table, l.as_cap), kernel.arena, kernel.pmm, kernel.mem)
  /\ UNCHANGED <<load, loaded, tasks, faulty>>

Next ==
  \/ \E r \in Requests : Begin(r)
  \/ MapImagePage \/ MapStackPage \/ Finish
  \/ UnwindStackPage \/ UnwindImagePage \/ UnwindCap
  \/ \E l \in loaded : CreateTask(l, {}) \/ DropImageCap(l)

Spec == Init /\ [][Next]_vars

-----------------------------------------------------------------------------
(* Properties.                                                             *)

\* A request with well-formed arguments and a parent to derive from.
WellFormedRequest(r) ==
  /\ r.len > 0 /\ r.stack_pages > 0 /\ r.base % PageSize = 0
  /\ resolves(kernel.table, r.parent)
  /\ entry_of(kernel.table, r.parent).object.kind = "AddressSpace"

\* The preflight is exact.  A well-formed request is answered InvalidImageBaseVa
\* precisely when, in unbounded arithmetic, its span passes the end of the user
\* range: usize arithmetic never wraps a span back into range and the frame
\* budget never masks it.  An accepted load uses the frames the preflight
\* counted, no more and no fewer (intermediate_frame_count), so with QemuVirtMmu
\* it never fails half way.
PreflightExact ==
  /\ \A r \in Requests : WellFormedRequest(r) =>
       (load_preflight(kernel, r) = "InvalidImageBaseVa" <=>
          r.base + (image_pages(r) + r.stack_pages) * PageSize > USERSPACE_VA_LIMIT)
  /\ (load # None /\ ~faulty) =>
       /\ ~load.unwinding
       /\ (ImagesDone /\ StacksDone) => load.free - kernel.pmm.free_count = needed(load.request)

\* What the page at va of image l must hold.
ExpectedWord(l, va) ==
  IF va - l.entry_va < l.request.len THEN l.image[va - l.entry_va] ELSE ZeroWord

InImage(l, va) == l.entry_va <= va /\ va < stack_base(l.request)
InStack(l, va) == stack_base(l.request) <= va /\ va < l.stack_top_va

\* A returned image stays loaded: its address space maps the image, zero to the
\* end of its last page, executable and not writable, then a zeroed stack,
\* writable and not executable, and nothing else, whatever is loaded after it.
LoadedExact ==
  \A l \in loaded : \A va \in 0 .. (USERSPACE_VA_LIMIT - 1) :
    LET t == translate(l.root, kernel.mem, va)
    IN IF InImage(l, va) \/ InStack(l, va)
       THEN /\ t # None
            /\ t.flags = IF InImage(l, va) THEN IMAGE_FLAGS ELSE STACK_FLAGS
            /\ kernel.mem[t.frame][va % PageSize] = ExpectedWord(l, va)
       ELSE t = None

\* The table trees stay disjoint through loads and rollbacks, and every frame
\* handed out is in one of them.
FramesAccounted ==
  /\ ExclusivelyOwned(kernel)
  /\ kernel.pmm.bitmap \ CoveredFrames(kernel.pmm.extent, RodataRange) =
       Roots(kernel) \union Referenced(kernel)

\* The roots of the address spaces that an image or the load in progress owns.
Kept == {0} \union {l.root : l \in loaded}
            \union (IF load = None THEN {} ELSE {root_of(kernel, load.cap)})

\* A failed load leaves no page mapped in its address space and no capability
\* to it, and no other trace but its tables.
FailedLoadLeavesTables ==
  \A i \in SlotIndex :
    (kernel.arena.entry[i] # None /\ kernel.arena.entry[i] \notin Kept) =>
      /\ \A x \in Refs(kernel, {kernel.arena.entry[i]}) : kernel.mem[x[1]][x[2]].kind = "table"
      /\ ~references_object(kernel.table,
            AddressSpaceObject([index |-> i, generation |-> kernel.arena.generation[i]]))

\* A task runs in the address space of an image that was loaded, even after the
\* image's own capability was dropped and its slot reused.
InLoadedImage(task) ==
  /\ contains(kernel.arena, task.address_space_handle)
  /\ \E l \in loaded : l.root = root_frame(kernel.arena, task.address_space_handle)

\* The rollback contracts of load_image and task_create_from_image: whichever
\* step fails, nothing is left that no capability reaches, neither a page of a
\* half-loaded image nor a task, and no task has lost its address space.
RollbackExact ==
  /\ FailedLoadLeavesTables
  /\ \A i \in SlotIndex : tasks.entry[i] # None =>
       /\ references_object(kernel.table, TaskObject([index |-> i, generation |-> tasks.generation[i]]))
       /\ InLoadedImage(tasks.entry[i])
=============================================================================
