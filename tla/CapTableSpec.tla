---------------------------- MODULE CapTableSpec ----------------------------
(***************************************************************************)
(* One capability table driven by arbitrary callers: every public mutating *)
(* operation of CapabilityTable, in any order, with any arguments.         *)
(*                                                                         *)
(* One action per operation for its Ok path; Refused is every call that    *)
(* returns an Err, which leaves the table as it was.                       *)
(* The generation is a wrapping u32 in the code.  MaxGeneration bounds the *)
(* frees a slot may see: with MaxGeneration = GenModulus - 1 generations   *)
(* wrap, with a smaller bound they never do.                               *)
(***************************************************************************)
EXTENDS CapTable

CONSTANTS
  RightsChoices,  \* the rights sets callers ask for
  MaxGeneration   \* a slot may be freed while its generation is at most this

ASSUME CapTableSpecAssumption ==
  /\ RightsChoices \subseteq SUBSET Rights
  /\ MaxGeneration \in Generation

VARIABLES
  table,  \* the CapabilityTable
  dead    \* history: every handle whose slot was freed while it was valid

vars == <<table, dead>>

Init ==
  /\ table = NewTable
  /\ dead = {}

\* The bound on frees, and the history they leave.
MayFree(S) == \A i \in S : table.generation[i] <= MaxGeneration
Bury(S) == dead' = dead \union {HandleOf(table, i) : i \in S}

InsertRoot(cap) ==
  /\ insert_root_result(table) = "Ok"
  /\ table' = insert_root(table, cap)
  /\ UNCHANGED dead

Copy(src, new_rights) ==
  /\ cap_copy_result(table, src, new_rights) = "Ok"
  /\ table' = cap_copy(table, src, new_rights)
  /\ UNCHANGED dead

Derive(src, new_rights, new_object) ==
  /\ cap_derive_result(table, src, new_rights) = "Ok"
  /\ table' = cap_derive(table, src, new_rights, new_object)
  /\ UNCHANGED dead

Revoke(src) ==
  LET D == Descendants(table, src.index)
  IN /\ cap_revoke_result(table, src) = "Ok"
     /\ MayFree(D)
     /\ \E order \in [1 .. Cardinality(D) -> D] :
          /\ IsQueueOrder(table, src.index, order)
          /\ table' = cap_revoke(table, src, order)
     /\ Bury(D)

Drop(h) ==
  /\ cap_drop_result(table, h) = "Ok"
  /\ MayFree({h.index})
  /\ table' = cap_drop(table, h)
  /\ Bury({h.index})

\* The capability the caller receives is lookup(table, h), read before the free.
Take(h) ==
  /\ cap_drop_result(table, h) = "Ok"
  /\ MayFree({h.index})
  /\ table' = cap_take(table, h)
  /\ Bury({h.index})

\* What the calls that can be made now return.
Results ==
  UNION {{insert_root_result(table), cap_copy_result(table, h, r),
          cap_derive_result(table, h, r), cap_revoke_result(table, h),
          cap_drop_result(table, h)} : h \in CapHandle, r \in RightsChoices}

\* A call whose checks fail returns its CapError before any write.
Refused ==
  /\ Results # {"Ok"}
  /\ UNCHANGED vars

Next ==
  \/ \E r \in RightsChoices, o \in Objects : InsertRoot([rights |-> r, object |-> o])
  \/ \E src \in CapHandle, r \in RightsChoices : Copy(src, r)
  \/ \E src \in CapHandle, r \in RightsChoices, o \in Objects : Derive(src, r, o)
  \/ \E src \in CapHandle : Revoke(src)
  \/ \E h \in CapHandle : Drop(h)
  \/ \E h \in CapHandle : Take(h)
  \/ Refused

Spec == Init /\ [][Next]_vars

-----------------------------------------------------------------------------
(* Correctness.                                                            *)

\* Every slot, link, generation and depth stays in its range.
TypeOK ==
  /\ table \in CapabilityTable
  /\ dead \in SUBSET CapHandle

\* The LIFO list of pop_free and free_slot holds every free slot exactly once
\* and nothing else: no slot is handed out twice, none is lost, and
\* CapsExhausted means that every slot is occupied.
FreeListExact == FreeListSound(table) /\ FreeListComplete(table)

\* "Every live capability slot has exactly one parent and appears in at most
\* one parent's chain" (the size proof in cap_revoke), and in that one: revoke
\* misses no child, visits none twice, and unlink_from_siblings always finds
\* its slot, so the errors behind its debug_asserts never happen.
ForestExact ==
  /\ LinksAgree(table)
  /\ OnePredecessor(table)
  /\ ChildListComplete(table)
  /\ \A i \in Live(table) : unlinkable(table, i)

\* Authority only narrows: a derived or copied capability never holds a right
\* its parent lacks, and its depth counts its distance from its root.
Narrowing == Narrowed(table)

\* A handle whose slot was freed never resolves again, whoever reuses the slot.
StaleHandlesDead == \A h \in dead : ~resolves(table, h)

\* The subtree of s by the parent links alone, independent of the child lists.
ParentClosed(t, S, s) ==
  \A c \in Live(t) : t.entry[c].parent \in S \union {s} => c \in S

Below(t, s) ==
  {i \in Live(t) : \A S \in SUBSET Index : ParentClosed(t, S, s) => i \in S}

\* cap_revoke frees exactly the capabilities derived from src, directly or not,
\* and leaves src and every other capability valid under its old handle.
RevokeExact ==
  [][\A src \in CapHandle : Revoke(src) =>
       /\ src.index \notin Below(table, src.index)
       /\ Live(table)' = Live(table) \ Below(table, src.index)
       /\ \A i \in Live(table)' : HandleOf(table, i)' = HandleOf(table, i)]_vars

\* What a valid handle names never changes under it: no call rewrites the
\* rights, object, parent or depth of a capability that survives the call.
CapabilitiesImmutable ==
  [][\A i \in Live(table) \intersect Live(table)' :
       SameCapability(table.entry[i], table'.entry[i])]_vars
=============================================================================
