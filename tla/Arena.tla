-------------------------------- MODULE Arena --------------------------------
(***************************************************************************)
(* kernel::obj::arena::Arena<T, N>: the fixed-capacity, generation-tagged  *)
(* pool that stores every kind of kernel object.  All object kinds share   *)
(* the code, so one set of parameters stands for every arena of a model.   *)
(* An arena is a record of arrays; the operations are operators on it.     *)
(***************************************************************************)
EXTENDS Naturals, Option

CONSTANTS
  ArenaCapacity,     \* N (16 for tasks, endpoints and notifications)
  ArenaGenModulus    \* 2^32: Slot.generation is a u32 bumped with wrapping_add

ASSUME ArenaAssumption ==
  /\ ArenaCapacity \in Nat \ {0}
  /\ ArenaGenModulus \in Nat \ {0}

SlotIndex == 0 .. (ArenaCapacity - 1)
SlotGeneration == 0 .. (ArenaGenModulus - 1)

\* struct SlotId, the payload of every typed handle.
SlotId == [index : SlotIndex, generation : SlotGeneration]

ArenaOf(T) == [entry : [SlotIndex -> T \union {None}],
               generation : [SlotIndex -> SlotGeneration],
               next_free : [SlotIndex -> SlotIndex \union {None}],
               free_head : SlotIndex \union {None}]

\* Arena::new: every slot free, threaded in index order.
NewArena ==
  [entry      |-> [i \in SlotIndex |-> None],
   generation |-> [i \in SlotIndex |-> 0],
   next_free  |-> [i \in SlotIndex |-> IF i + 1 < ArenaCapacity THEN i + 1 ELSE None],
   free_head  |-> 0]

\* is_full: the free list is empty.
arena_is_full(a) == a.free_head = None

\* get / get_mut / contains: the generation is current and the slot occupied.
contains(a, id) ==
  /\ a.generation[id.index] = id.generation
  /\ a.entry[id.index] # None

get(a, id) == a.entry[id.index]

\* allocate: pop the free list and store the value.
allocate(a, value) ==
  [entry      |-> [a.entry EXCEPT ![a.free_head] = value],
   generation |-> a.generation,
   next_free  |-> [a.next_free EXCEPT ![a.free_head] = None],
   free_head  |-> a.next_free[a.free_head]]

\* free, for an id the arena contains: clear, bump (wrapping), push.
free(a, id) ==
  [entry      |-> [a.entry EXCEPT ![id.index] = None],
   generation |-> [a.generation EXCEPT ![id.index] = (a.generation[id.index] + 1) % ArenaGenModulus],
   next_free  |-> [a.next_free EXCEPT ![id.index] = a.free_head],
   free_head  |-> id.index]

\* The write through get_mut.
update(a, id, value) ==
  [entry      |-> [a.entry EXCEPT ![id.index] = value],
   generation |-> a.generation,
   next_free  |-> a.next_free,
   free_head  |-> a.free_head]
=============================================================================
