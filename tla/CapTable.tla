------------------------------ MODULE CapTable ------------------------------
(***************************************************************************)
(* The data structure behind kernel::cap::CapabilityTable                  *)
(* (kernel/src/cap/table.rs): a fixed array of generation-tagged slots, an *)
(* embedded LIFO free list, and a derivation forest threaded through the   *)
(* occupied slots by parent / first_child / next_sibling indices.          *)
(*                                                                         *)
(* A table is a record of arrays; every operation of the Rust type is an   *)
(* operator from table values to table values, so that the single-table    *)
(* machine (CapTableSpec) and the modules that hold one table per task     *)
(* share one definition.  An operation's checks are a ...Result operator   *)
(* that yields "Ok" or the CapError variant, tested in the code's order.   *)
(***************************************************************************)
EXTENDS Naturals, FiniteSets, Option

CONSTANTS
  Capacity,     \* CAP_TABLE_CAPACITY (64)
  MaxDepth,     \* MAX_DERIVATION_DEPTH (16)
  GenModulus,   \* 2^32: Slot.generation is a u32 bumped with wrapping_add
  Rights,       \* the named bits of CapRights
  Objects       \* the kernel objects a CapObject can name

\* const assert in new(), u8 depth and u32 generation.
ASSUME CapTableAssumption ==
  /\ Capacity \in Nat \ {0}
  /\ MaxDepth \in Nat
  /\ GenModulus \in Nat \ {0}

Index == 0 .. (Capacity - 1)
Generation == 0 .. (GenModulus - 1)
Link == Index \union {None}

\* struct Capability: rights over one object.
Capability == [rights : SUBSET Rights, object : Objects]

\* struct SlotEntry, the capability's two fields inlined.
Entry == [rights : SUBSET Rights, object : Objects, parent : Link,
          first_child : Link, next_sibling : Link, depth : 0 .. MaxDepth]

CapHandle == [index : Index, generation : Generation]

\* Option::None is neither a slot index, nor a slot's contents, nor a handle,
\* nor a capability.
ASSUME NoneAssumption ==
  /\ None \notin Nat /\ None \notin Entry
  /\ None \notin CapHandle /\ None \notin Capability

CapabilityTable == [entry : [Index -> Entry \union {None}],
                    generation : [Index -> Generation],
                    next_free : [Index -> Link],
                    free_head : Link]

-----------------------------------------------------------------------------
(* Reading a table.                                                        *)

\* CapabilityTable::new: slot i's next_free is i + 1, the last one's None.
NewTable ==
  [entry      |-> [i \in Index |-> None],
   generation |-> [i \in Index |-> 0],
   next_free  |-> [i \in Index |-> IF i + 1 < Capacity THEN i + 1 ELSE None],
   free_head  |-> 0]

Live(t) == {i \in Index : t.entry[i] # None}

is_full(t) == t.free_head = None

\* resolve_handle: index in range, generation current, slot occupied.
resolves(t, h) ==
  /\ h.index \in Index
  /\ t.generation[h.index] = h.generation
  /\ t.entry[h.index] # None

\* entry_of / lookup, for a handle that resolves.
entry_of(t, h) == t.entry[h.index]

lookup(t, h) == [rights |-> entry_of(t, h).rights, object |-> entry_of(t, h).object]

\* references_object: does any occupied slot name obj?
references_object(t, obj) == \E i \in Live(t) : t.entry[i].object = obj

HandleOf(t, i) == [index |-> i, generation |-> t.generation[i]]

\* The `match entry { Some(e) => e.link, None => None }` reads of the walks.
FirstChild(t, i) == IF t.entry[i] = None THEN None ELSE t.entry[i].first_child
NextSibling(t, i) == IF t.entry[i] = None THEN None ELSE t.entry[i].next_sibling

\* The slots a walk along next_sibling from first_child of p visits: the
\* least set that holds the head and is closed under next_sibling.
SiblingClosed(t, S) == \A c \in S : NextSibling(t, c) \in S \union {None}

ChildList(t, p) ==
  {c \in Index : \A S \in SUBSET Index :
      (FirstChild(t, p) \in S \union {None} /\ SiblingClosed(t, S)) => c \in S}

\* Mutant: the walk stops at the direct children.
DescendantsDirectOnly(t, s) == ChildList(t, s)

\* The slots cap_revoke collects: closed under next_sibling and first_child.
TreeClosed(t, S) ==
  \A c \in S : /\ NextSibling(t, c) \in S \union {None}
               /\ FirstChild(t, c) \in S \union {None}

Descendants(t, s) ==
  {c \in Index : \A S \in SUBSET Index :
      (FirstChild(t, s) \in S \union {None} /\ TreeClosed(t, S)) => c \in S}

-----------------------------------------------------------------------------
(* The internal helpers of the implementation.                             *)

\* Writes through a slot's `entry` and through the links of an entry.
SetEntry(t, i, e) ==
  [entry      |-> [t.entry EXCEPT ![i] = e],
   generation |-> t.generation,
   next_free  |-> t.next_free,
   free_head  |-> t.free_head]

SetFirstChild(e, c) ==
  [rights |-> e.rights, object |-> e.object, parent |-> e.parent,
   first_child |-> c, next_sibling |-> e.next_sibling, depth |-> e.depth]

SetNextSibling(e, c) ==
  [rights |-> e.rights, object |-> e.object, parent |-> e.parent,
   first_child |-> e.first_child, next_sibling |-> c, depth |-> e.depth]

\* pop_free, for a table that is not full; the popped index is t.free_head.
pop_free(t) ==
  [entry      |-> t.entry,
   generation |-> t.generation,
   next_free  |-> [t.next_free EXCEPT ![t.free_head] = None],
   free_head  |-> t.next_free[t.free_head]]

\* link_child: n becomes the head of p's child list (nothing to do for a root).
link_child(t, p, n) ==
  IF p = None THEN t
  ELSE SetEntry(t, p, SetFirstChild(t.entry[p], n))

\* Mutants: the old head is forgotten; the generation is not bumped.
FreeSlotLosesList(t, i) ==
  [entry      |-> [t.entry EXCEPT ![i] = None],
   generation |-> [t.generation EXCEPT ![i] = (t.generation[i] + 1) % GenModulus],
   next_free  |-> [t.next_free EXCEPT ![i] = None],
   free_head  |-> i]

FreeSlotKeepsGeneration(t, i) ==
  [entry      |-> [t.entry EXCEPT ![i] = None],
   generation |-> t.generation,
   next_free  |-> [t.next_free EXCEPT ![i] = t.free_head],
   free_head  |-> i]

\* free_slot: clear, bump the generation (wrapping), push on the free list.
free_slot(t, i) ==
  [entry      |-> [t.entry EXCEPT ![i] = None],
   generation |-> [t.generation EXCEPT ![i] = (t.generation[i] + 1) % GenModulus],
   next_free  |-> [t.next_free EXCEPT ![i] = t.free_head],
   free_head  |-> i]

\* The walk of unlink_from_siblings finds i on its parent's child list.
unlinkable(t, i) ==
  \/ t.entry[i].parent = None
  \/ i \in ChildList(t, t.entry[i].parent)

\* The sibling whose next_sibling is i.
Predecessor(t, i) ==
  CHOOSE c \in ChildList(t, t.entry[i].parent) : NextSibling(t, c) = i

\* Mutant: only a list head is unlinked.
UnlinkHeadOnly(t, i) ==
  LET p == t.entry[i].parent
  IN IF p = None \/ t.entry[p].first_child # i THEN t
     ELSE SetEntry(t, p, SetFirstChild(t.entry[p], t.entry[i].next_sibling))

\* unlink_from_siblings: a root needs nothing, a list head is replaced by its
\* successor in the parent, any other slot by its successor in its predecessor.
unlink_from_siblings(t, i) ==
  LET p == t.entry[i].parent
      next == t.entry[i].next_sibling
  IN IF p = None THEN t
     ELSE IF t.entry[p].first_child = i
       THEN SetEntry(t, p, SetFirstChild(t.entry[p], next))
       ELSE LET c == Predecessor(t, i)
            IN SetEntry(t, c, SetNextSibling(t.entry[c], next))

\* The common tail of insert_root, cap_copy and cap_derive: pop a slot, splice
\* it in front of the parent's children, write its entry.
install(t, cap, p, d) ==
  LET n == t.free_head
      former == IF p = None THEN None ELSE t.entry[p].first_child
  IN SetEntry(link_child(pop_free(t), p, n), n,
              [rights |-> cap.rights, object |-> cap.object, parent |-> p,
               first_child |-> None, next_sibling |-> former, depth |-> d])

-----------------------------------------------------------------------------
(* The public operations: first the Result, then the effect when it is Ok. *)

insert_root_result(t) == IF is_full(t) THEN "CapsExhausted" ELSE "Ok"

insert_root(t, cap) == install(t, cap, None, 0)

cap_copy_result(t, src, new_rights) ==
  IF ~resolves(t, src) THEN "InvalidHandle"
  ELSE IF "DUPLICATE" \notin entry_of(t, src).rights THEN "InsufficientRights"
  ELSE IF ~(new_rights \subseteq entry_of(t, src).rights) THEN "WidenedRights"
  ELSE IF is_full(t) THEN "CapsExhausted"
  ELSE "Ok"

\* A peer: the source's object, parent and depth, narrower or equal rights.
cap_copy(t, src, new_rights) ==
  LET e == entry_of(t, src)
  IN install(t, [rights |-> new_rights, object |-> e.object], e.parent, e.depth)

cap_derive_result(t, src, new_rights) ==
  IF ~resolves(t, src) THEN "InvalidHandle"
  ELSE IF "DERIVE" \notin entry_of(t, src).rights THEN "InsufficientRights"
  ELSE IF ~(new_rights \subseteq entry_of(t, src).rights) THEN "WidenedRights"
  ELSE IF entry_of(t, src).depth + 1 > MaxDepth THEN "DerivationTooDeep"
  ELSE IF is_full(t) THEN "CapsExhausted"
  ELSE "Ok"

\* A child of the source, over an object the caller names.
cap_derive(t, src, new_rights, new_object) ==
  install(t, [rights |-> new_rights, object |-> new_object],
          src.index, entry_of(t, src).depth + 1)

cap_revoke_result(t, src) ==
  IF ~resolves(t, src) THEN "InvalidHandle"
  ELSE IF "REVOKE" \notin entry_of(t, src).rights THEN "InsufficientRights"
  ELSE "Ok"

\* order enumerates the descendants of s the way the scratch queue does:
\* the children of s first, siblings in list order, and the children of an
\* earlier entry before the children of a later one.
IsQueueOrder(t, s, order) ==
  LET D == Descendants(t, s)
      Pos == 1 .. Cardinality(D)
  IN /\ order \in [Pos -> D]
     /\ \A j, k \in Pos : order[j] = order[k] => j = k
     /\ \A d \in D : \E k \in Pos : order[k] = d
     /\ FirstChild(t, s) # None => order[1] = FirstChild(t, s)
     /\ \A k \in Pos : NextSibling(t, order[k]) # None =>
          k + 1 \in Pos /\ order[k + 1] = NextSibling(t, order[k])
     /\ \A j, k, m, n \in Pos :
          (j < k /\ order[m] = FirstChild(t, order[j])
                 /\ order[n] = FirstChild(t, order[k])) => m < n

\* Free every descendant in queue order (so the last one ends up as the head
\* of the free list), then clear the source's first_child.
cap_revoke(t, src, order) ==
  LET s == src.index
      D == Descendants(t, s)
      last == Cardinality(D)
      PosOf(d) == CHOOSE k \in 1 .. last : order[k] = d
  IN [entry |-> [i \in Index |->
                   IF i \in D THEN None
                   ELSE IF i = s THEN SetFirstChild(t.entry[s], None)
                   ELSE t.entry[i]],
      generation |-> [i \in Index |->
                   IF i \in D THEN (t.generation[i] + 1) % GenModulus
                   ELSE t.generation[i]],
      next_free |-> [i \in Index |->
                   IF i \notin D THEN t.next_free[i]
                   ELSE IF PosOf(i) = 1 THEN t.free_head
                   ELSE order[PosOf(i) - 1]],
      free_head |-> IF D = {} THEN t.free_head ELSE order[last]]

\* cap_drop and cap_take share their checks; the last one is unreachable in
\* a sound table (the code keeps it behind a debug_assert).
cap_drop_result(t, h) ==
  IF ~resolves(t, h) THEN "InvalidHandle"
  ELSE IF entry_of(t, h).first_child # None THEN "HasChildren"
  ELSE IF ~unlinkable(t, h.index) THEN "InvalidHandle"
  ELSE "Ok"

cap_drop(t, h) == free_slot(unlink_from_siblings(t, h.index), h.index)

\* cap_take additionally hands the caller lookup(t, h).
cap_take(t, h) == cap_drop(t, h)

-----------------------------------------------------------------------------
(* Well-formed tables: what the operations rely on and preserve.           *)

FreeSlots(t) == Index \ Live(t)

NextFreeClosed(t, S) == \A i \in S : t.next_free[i] \in S \union {None}

\* The list holds only free slots, an occupied slot is on no list, no two
\* entries share a successor and the head has no predecessor.
FreeListSound(t) ==
  /\ t.free_head \in FreeSlots(t) \union {None}
  /\ \A i \in FreeSlots(t) : t.next_free[i] \in FreeSlots(t) \union {None}
  /\ \A i \in Live(t) : t.next_free[i] = None
  /\ \A i, j \in Index :
       (t.next_free[i] = t.next_free[j] /\ t.next_free[i] # None) => i = j
  /\ \A i \in Index : t.next_free[i] # None => t.next_free[i] # t.free_head

\* Walking next_free from free_head meets every free slot.
FreeListComplete(t) ==
  \A S \in SUBSET Index :
    (t.free_head \in S \union {None} /\ NextFreeClosed(t, S)) => FreeSlots(t) \subseteq S

\* Every link of an occupied slot names an occupied slot that agrees with it:
\* a first child has the slot as its parent, a sibling has the same parent,
\* and a root is on no sibling list.
LinksAgree(t) ==
  \A i \in Live(t) :
    LET e == t.entry[i]
    IN /\ e.parent # None => e.parent \in Live(t)
       /\ e.first_child # None =>
            /\ e.first_child \in Live(t)
            /\ t.entry[e.first_child].parent = i
       /\ e.next_sibling # None =>
            /\ e.parent # None
            /\ e.next_sibling \in Live(t)
            /\ t.entry[e.next_sibling].parent = e.parent

\* No slot is the successor of two others, and no list head is a successor.
OnePredecessor(t) ==
  /\ \A i, j \in Live(t) :
       (NextSibling(t, i) = NextSibling(t, j) /\ NextSibling(t, i) # None) => i = j
  /\ \A i, j \in Live(t) : NextSibling(t, i) # None => NextSibling(t, i) # FirstChild(t, j)

\* The walk along a child list reaches every slot that names the list's owner
\* as its parent.
ChildListComplete(t) ==
  \A S \in SUBSET Index : \A p \in Live(t) :
    (FirstChild(t, p) \in S \union {None} /\ SiblingClosed(t, S))
      => \A c \in Live(t) : t.entry[c].parent = p => c \in S

\* A capability holds no right its parent lacks; depth counts the derivations.
Narrowed(t) ==
  \A i \in Live(t) :
    LET e == t.entry[i]
    IN /\ e.parent = None => e.depth = 0
       /\ e.parent # None =>
            /\ e.rights \subseteq t.entry[e.parent].rights
            /\ e.depth = t.entry[e.parent].depth + 1

\* The conjunction every operation preserves.
WellFormed(t) ==
  /\ FreeListSound(t)
  /\ FreeListComplete(t)
  /\ LinksAgree(t)
  /\ OnePredecessor(t)
  /\ ChildListComplete(t)
  /\ Narrowed(t)

\* Two entries stand for the same capability at the same place of the forest.
SameCapability(e, f) ==
  /\ e.rights = f.rights
  /\ e.object = f.object
  /\ e.parent = f.parent
  /\ e.depth = f.depth
=============================================================================
