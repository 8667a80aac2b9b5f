----------------------------- MODULE KernelLemmas -----------------------------
(***************************************************************************)
(* Lemmas about capability tables and about the operators of Ipc, for      *)
(* every value of the constants: new() builds a well-formed table,         *)
(* insert_root, cap_copy, cap_derive, cap_drop and cap_take map a          *)
(* well-formed table to a well-formed one, and each IPC call returns and   *)
(* leaves what it should on well-formed tables and well-typed queues.      *)
(* They mention no variable, so the proofs about every machine that holds  *)
(* tables or queues rest on them.                                          *)
(***************************************************************************)
EXTENDS Ipc, FiniteSetTheorems, WellFoundedInduction, TLAPS

-----------------------------------------------------------------------------
(* Vocabulary.                                                             *)

\* The one fact about numbers the provers cannot find: every non-empty set of
\* naturals has a least element.
LEMMA LeastNatural ==
  \A S \in SUBSET Nat : S # {} => \E m \in S : \A k \in S : m <= k
<1>1. SUFFICES ASSUME NEW S \in SUBSET Nat, S # {}
               PROVE  \E m \in S : \A k \in S : m <= k
  OBVIOUS
<1> DEFINE R == OpToRel(<, Nat)
<1>2. IsWellFoundedOn(R, Nat)
  BY NatLessThanWellFounded, Zenon
<1>3. \A x, y \in Nat : y < x => <<y, x>> \in R
  BY DEF OpToRel
<1> HIDE DEF R
<1>4. PICK m \in S : \A y \in S : ~ (<<y, m>> \in R)
  BY <1>1, <1>2, WFMin, Zenon
<1>5. \A y \in S : ~(y < m)
  BY <1>3, <1>4, Zenon
<1>6. QED
  BY <1>5

\* The fields of a table, and of an occupied slot, have their types.
LEMMA TableFields ==
  ASSUME NEW t \in CapabilityTable
  PROVE  /\ t.entry \in [Index -> Entry \union {None}]
         /\ t.generation \in [Index -> Generation]
         /\ t.next_free \in [Index -> Link]
         /\ t.free_head \in Link
         /\ \A i \in Live(t) : i \in Index /\ t.entry[i] \in Entry
         /\ \A i \in Index : i \notin Live(t) <=> t.entry[i] = None
  BY DEF CapabilityTable, Live

LEMMA LinkFacts ==
  /\ None \notin Index
  /\ None \notin Entry
  /\ Index \subseteq Nat
  /\ \A S \in SUBSET Index : IsFiniteSet(S) /\ Cardinality(S) \in Nat
<1>1. Index \subseteq Nat /\ None \notin Index /\ None \notin Entry
  BY CapTableAssumption, NoneAssumption DEF Index
<1>2. IsFiniteSet(Index)
  BY CapTableAssumption, FS_Interval DEF Index
<1>3. QED
  BY <1>1, <1>2, FS_Subset, FS_CardinalityType

\* The table new() builds is well typed.
LEMMA NewTableType == NewTable \in CapabilityTable
  BY CapTableAssumption DEF NewTable, CapabilityTable, Index, Link, Generation

\* A record of four well-typed arrays is a table, and its fields read back.
LEMMA TableValue ==
  ASSUME NEW f \in [Index -> Entry \union {None}], NEW g \in [Index -> Generation],
         NEW nf \in [Index -> Link], NEW h \in Link, NEW u,
         u = [entry |-> f, generation |-> g, next_free |-> nf, free_head |-> h]
  PROVE  /\ u \in CapabilityTable
         /\ u.entry = f
         /\ u.generation = g
         /\ u.next_free = nf
         /\ u.free_head = h
         /\ Live(u) = {i \in Index : f[i] # None}
  BY DEF CapabilityTable, Live

\* What the common tail of insert_root, cap_copy and cap_derive writes.
Installed(t, cap, p, d, u) ==
  LET n == t.free_head
  IN /\ n \in Index
     /\ u.generation = t.generation
     /\ u.free_head = t.next_free[n]
     /\ u.next_free = [t.next_free EXCEPT ![n] = None]
     /\ Live(u) = Live(t) \union {n}
     /\ u.entry[n] = [rights |-> cap.rights, object |-> cap.object, parent |-> p,
                      first_child |-> None,
                      next_sibling |-> IF p = None THEN None ELSE t.entry[p].first_child,
                      depth |-> d]
     /\ \A i \in Index \ {n} : i # p => u.entry[i] = t.entry[i]
     /\ p # None => u.entry[p] = SetFirstChild(t.entry[p], n)

LEMMA InstallFields ==
  ASSUME NEW t \in CapabilityTable, ~is_full(t), t.free_head \notin Live(t),
         NEW cap \in Capability, NEW p \in Live(t) \union {None},
         NEW d \in 0 .. MaxDepth
  PROVE  /\ install(t, cap, p, d) \in CapabilityTable
         /\ Installed(t, cap, p, d, install(t, cap, p, d))
<1> DEFINE u == install(t, cap, p, d)
           n == t.free_head
           e == [rights |-> cap.rights, object |-> cap.object, parent |-> p,
                 first_child |-> None,
                 next_sibling |-> IF p = None THEN None ELSE t.entry[p].first_child,
                 depth |-> d]
<1>1. n \in Index /\ n # p
  BY TableFields, LinkFacts DEF is_full, Link, Live
<1>2. e \in Entry
  BY TableFields DEF Entry, Capability, Link, Live
<1>3. p # None => p \in Index /\ t.entry[p] \in Entry /\ SetFirstChild(t.entry[p], n) \in Entry
  BY <1>1, TableFields DEF SetFirstChild, Entry, Link
<1> DEFINE f == IF p = None THEN [t.entry EXCEPT ![n] = e]
                ELSE [[t.entry EXCEPT ![p] = SetFirstChild(t.entry[p], n)] EXCEPT ![n] = e]
           nf == [t.next_free EXCEPT ![n] = None]
<1>4. u = [entry |-> f, generation |-> t.generation, next_free |-> nf,
           free_head |-> t.next_free[n]]
  BY DEF install, SetEntry, link_child, pop_free
<1>5. e = [rights |-> cap.rights, object |-> cap.object, parent |-> p,
           first_child |-> None,
           next_sibling |-> IF p = None THEN None ELSE t.entry[p].first_child,
           depth |-> d]
  OBVIOUS
<1> HIDE DEF e, u
<1>6. /\ f \in [Index -> Entry \union {None}]
      /\ nf \in [Index -> Link]
      /\ f[n] = e
      /\ \A i \in Index \ {n} : i # p => f[i] = t.entry[i]
      /\ p # None => f[p] = SetFirstChild(t.entry[p], n)
  BY <1>1, <1>2, <1>3, TableFields, LinkFacts DEF Link
<1>7. t.generation \in [Index -> Generation] /\ t.next_free[n] \in Link
  BY <1>1, TableFields
<1> HIDE DEF f, nf
<1>8. /\ u \in CapabilityTable
      /\ u.entry = f
      /\ u.generation = t.generation
      /\ u.next_free = nf
      /\ u.free_head = t.next_free[n]
      /\ Live(u) = {i \in Index : f[i] # None}
  BY <1>4, <1>6, <1>7, TableValue
<1>9. Live(u) = Live(t) \union {n}
  <2>1. \A i \in Index : f[i] # None <=> i = n \/ i \in Live(t)
    BY <1>1, <1>2, <1>3, <1>6, LinkFacts, TableFields
  <2>2. Live(t) \subseteq Index
    BY DEF Live
  <2>3. QED
    BY <1>1, <1>8, <2>1, <2>2
<1>10. u.next_free = [t.next_free EXCEPT ![n] = None]
  BY <1>8 DEF nf
<1>11. QED
  BY <1>1, <1>5, <1>6, <1>8, <1>9, <1>10 DEF Installed, u

\* pop_free keeps the free list exact: it gives up its head and nothing else.
LEMMA InstallFreeList ==
  ASSUME NEW t \in CapabilityTable, NEW u \in CapabilityTable,
         NEW cap, NEW p, NEW d,
         FreeListSound(t), FreeListComplete(t), ~is_full(t), Installed(t, cap, p, d, u)
  PROVE  FreeListSound(u) /\ FreeListComplete(u)
<1> DEFINE n == t.free_head
<1>1. /\ n \in Index /\ n \in FreeSlots(t) /\ n # None
      /\ u.free_head = t.next_free[n]
      /\ u.next_free[n] = None
      /\ \A i \in Index \ {n} : u.next_free[i] = t.next_free[i]
      /\ FreeSlots(u) = FreeSlots(t) \ {n}
      /\ Live(u) = Live(t) \union {n}
  BY TableFields, LinkFacts DEF Installed, FreeListSound, is_full, FreeSlots
<1>2. /\ \A i \in FreeSlots(t) : i \in Index /\ i \notin Live(t)
      /\ Live(t) \subseteq Index
      /\ \A i \in Index : i \in FreeSlots(t) \/ i \in Live(t)
  BY DEF FreeSlots, Live
<1>3. FreeListSound(u)
  BY <1>1, <1>2 DEF FreeListSound
<1>4. FreeListComplete(u)
  <2>1. SUFFICES ASSUME NEW S \in SUBSET Index, u.free_head \in S \union {None},
                        NextFreeClosed(u, S)
                 PROVE  FreeSlots(u) \subseteq S
    BY DEF FreeListComplete
  <2>2. NextFreeClosed(t, S \union {n})
    BY <1>1, <2>1 DEF NextFreeClosed
  <2>3. t.free_head \in (S \union {n}) \union {None} /\ S \union {n} \in SUBSET Index
    BY <1>1
  <2>4. FreeSlots(t) \subseteq S \union {n}
    BY <2>2, <2>3 DEF FreeListComplete
  <2>5. QED
    BY <1>1, <2>4
<1>5. QED
  BY <1>3, <1>4

\* The links of the table with the new slot n: n heads p's child list and the
\* former head follows it; no other link changes.
NewLinks(t, cap, p, d, u, n) ==
  /\ Live(u) = Live(t) \union {n}
  /\ n \notin Live(t)
  /\ n \in Index /\ n # None /\ n # p
  /\ u.entry[n].parent = p
  /\ u.entry[n].first_child = None
  /\ u.entry[n].next_sibling = IF p = None THEN None ELSE t.entry[p].first_child
  /\ u.entry[n].rights = cap.rights
  /\ u.entry[n].object = cap.object
  /\ u.entry[n].depth = d
  /\ \A i \in Live(t) :
       /\ SameCapability(t.entry[i], u.entry[i])
       /\ u.entry[i].next_sibling = t.entry[i].next_sibling
       /\ u.entry[i].first_child = IF i = p THEN n ELSE t.entry[i].first_child

LEMMA InstallLinks ==
  ASSUME NEW t \in CapabilityTable, NEW u \in CapabilityTable,
         NEW cap \in Capability, NEW p \in Live(t) \union {None}, NEW d \in 0 .. MaxDepth,
         t.free_head \notin Live(t), Installed(t, cap, p, d, u)
  PROVE  NewLinks(t, cap, p, d, u, t.free_head)
<1>1. t.free_head \in Index /\ t.free_head # None /\ t.free_head # p
  BY LinkFacts, TableFields DEF Installed
<1>2. ASSUME NEW i \in Live(t)
      PROVE  /\ SameCapability(t.entry[i], u.entry[i])
             /\ u.entry[i].next_sibling = t.entry[i].next_sibling
             /\ u.entry[i].first_child = IF i = p THEN t.free_head ELSE t.entry[i].first_child
  <2>1. i \in Index \ {t.free_head}
    BY TableFields
  <2>2. CASE i = p
    BY <2>1, <2>2, LinkFacts DEF Installed, SameCapability, SetFirstChild
  <2>3. CASE i # p
    BY <2>1, <2>3 DEF Installed, SameCapability
  <2>4. QED
    BY <2>2, <2>3
<1>3. QED
  BY <1>1, <1>2 DEF Installed, NewLinks

\* The successor and head functions of the walks, on occupied and free slots.
LEMMA WalkReads ==
  ASSUME NEW t \in CapabilityTable
  PROVE  /\ \A i \in Live(t) : /\ NextSibling(t, i) = t.entry[i].next_sibling
                               /\ FirstChild(t, i) = t.entry[i].first_child
         /\ \A i \in Index \ Live(t) : NextSibling(t, i) = None /\ FirstChild(t, i) = None
         /\ Live(t) \subseteq Index
  BY DEF NextSibling, FirstChild, Live

\* install keeps the derivation forest exact.
LEMMA InstallForest ==
  ASSUME NEW t \in CapabilityTable, NEW u \in CapabilityTable,
         NEW cap, NEW p \in Live(t) \union {None}, NEW d, NEW n,
         NewLinks(t, cap, p, d, u, n),
         LinksAgree(t), OnePredecessor(t), ChildListComplete(t)
  PROVE  LinksAgree(u) /\ OnePredecessor(u) /\ ChildListComplete(u)
<1>1. /\ Live(u) = Live(t) \union {n}
      /\ n \notin Live(t) /\ n \in Index /\ n # None /\ n # p
      /\ u.entry[n].parent = p
      /\ u.entry[n].first_child = None
      /\ u.entry[n].next_sibling = IF p = None THEN None ELSE t.entry[p].first_child
  BY DEF NewLinks
<1>2. \A i \in Live(t) :
        /\ u.entry[i].parent = t.entry[i].parent
        /\ u.entry[i].next_sibling = t.entry[i].next_sibling
        /\ u.entry[i].first_child = IF i = p THEN n ELSE t.entry[i].first_child
  BY DEF NewLinks, SameCapability
<1>3. LinksAgree(u)
  BY <1>1, <1>2 DEF LinksAgree
<1>4. /\ \A i \in Live(t) : /\ NextSibling(u, i) = NextSibling(t, i)
                            /\ FirstChild(u, i) = IF i = p THEN n ELSE FirstChild(t, i)
      /\ FirstChild(u, n) = None
      /\ NextSibling(u, n) = IF p = None THEN None ELSE FirstChild(t, p)
      /\ \A i \in Index \ Live(u) : NextSibling(u, i) = None /\ NextSibling(t, i) = None
      /\ \A i \in Live(t) : /\ NextSibling(t, i) \in Live(t) \union {None}
                            /\ FirstChild(t, i) \in Live(t) \union {None}
  BY <1>1, <1>2, WalkReads DEF LinksAgree
<1>5. OnePredecessor(u)
  <2>1. ASSUME NEW i \in Live(t), NEW j \in Live(t)
        PROVE  /\ NextSibling(t, i) = NextSibling(t, j) /\ NextSibling(t, i) # None => i = j
               /\ NextSibling(t, i) # None => NextSibling(t, i) # FirstChild(t, j)
    BY DEF OnePredecessor
  <2>2. \A i, j \in Live(t) : FirstChild(t, i) = FirstChild(t, j) /\ FirstChild(t, i) # None => i = j
    BY WalkReads DEF LinksAgree
  <2>3. QED
    BY <1>1, <1>4, <2>1, <2>2 DEF OnePredecessor
<1>6. ChildListComplete(u)
  <2>1. SUFFICES ASSUME NEW S \in SUBSET Index, NEW q \in Live(u),
                        FirstChild(u, q) \in S \union {None}, SiblingClosed(u, S),
                        NEW c \in Live(u), u.entry[c].parent = q
                 PROVE  c \in S
    BY DEF ChildListComplete
  <2>2. SiblingClosed(t, S \ {n})
    BY <1>1, <1>4, <2>1 DEF SiblingClosed
  <2>3. q # n
    BY <1>1, <1>2, <2>1 DEF LinksAgree
  <2>4. FirstChild(t, q) \in (S \ {n}) \union {None}
    <3>1. CASE q = p
      <4>1. p \in Live(t) /\ p # None /\ n \in S
        BY <1>1, <1>4, <2>1, <2>3, <3>1, LinkFacts, WalkReads
      <4>2. FirstChild(t, p) \in S \union {None}
        BY <1>4, <2>1, <4>1 DEF SiblingClosed
      <4>3. QED
        BY <1>1, <1>4, <3>1, <4>1, <4>2
    <3>2. CASE q # p
      BY <1>1, <1>4, <2>1, <2>3, <3>2
    <3>3. QED
      BY <3>1, <3>2
  <2>5. c # n => c \in S \ {n}
    BY <1>1, <1>2, <2>1, <2>2, <2>3, <2>4 DEF ChildListComplete
  <2>6. c = n => c \in S
    BY <1>1, <1>4, <2>1
  <2>7. QED
    BY <2>5, <2>6
<1>7. QED
  BY <1>3, <1>5, <1>6

\* What the callers of install establish about the new capability: a root has
\* depth 0, any other holds no right its parent lacks and is one level deeper.
FitsUnder(t, cap, p, d) ==
  /\ p = None => d = 0
  /\ p # None => cap.rights \subseteq t.entry[p].rights /\ d = t.entry[p].depth + 1

\* install keeps authority narrowing and depths exact.
LEMMA InstallNarrowed ==
  ASSUME NEW t \in CapabilityTable, NEW u \in CapabilityTable,
         NEW cap, NEW p \in Live(t) \union {None}, NEW d, NEW n,
         NewLinks(t, cap, p, d, u, n),
         LinksAgree(t), Narrowed(t), FitsUnder(t, cap, p, d)
  PROVE  Narrowed(u)
<1>1. /\ Live(u) = Live(t) \union {n}
      /\ n \notin Live(t) /\ n # p
      /\ u.entry[n].parent = p
      /\ u.entry[n].rights = cap.rights
      /\ u.entry[n].depth = d
  BY DEF NewLinks
<1>2. \A i \in Live(t) :
        /\ u.entry[i].parent = t.entry[i].parent
        /\ u.entry[i].rights = t.entry[i].rights
        /\ u.entry[i].depth = t.entry[i].depth
  BY DEF NewLinks, SameCapability
<1>3. \A i \in Live(t) : t.entry[i].parent # None => t.entry[i].parent \in Live(t)
  BY DEF LinksAgree
<1>4. QED
  BY <1>1, <1>2, <1>3 DEF Narrowed, FitsUnder

\* The common tail of insert_root, cap_copy and cap_derive, all in one.
LEMMA InstallPreserves ==
  ASSUME NEW t \in CapabilityTable, WellFormed(t), ~is_full(t),
         NEW cap \in Capability, NEW p \in Live(t) \union {None},
         NEW d \in 0 .. MaxDepth, FitsUnder(t, cap, p, d)
  PROVE  LET u == install(t, cap, p, d)
         IN /\ u \in CapabilityTable
            /\ WellFormed(u)
            /\ u.generation = t.generation
            /\ NewLinks(t, cap, p, d, u, t.free_head)
<1> DEFINE u == install(t, cap, p, d)
<1>1. t.free_head \notin Live(t)
  BY TableFields, LinkFacts DEF WellFormed, FreeListSound, FreeSlots, is_full
<1>2. u \in CapabilityTable /\ Installed(t, cap, p, d, u)
  BY <1>1, InstallFields
<1> HIDE DEF u
<1>3. NewLinks(t, cap, p, d, u, t.free_head)
  BY <1>1, <1>2, InstallLinks
<1>4. FreeListSound(u) /\ FreeListComplete(u)
  BY <1>2, InstallFreeList DEF WellFormed
<1>5. LinksAgree(u) /\ OnePredecessor(u) /\ ChildListComplete(u)
  BY <1>2, <1>3, InstallForest DEF WellFormed
<1>6. Narrowed(u)
  BY <1>2, <1>3, InstallNarrowed DEF WellFormed
<1>7. u.generation = t.generation
  BY <1>2 DEF Installed
<1>8. QED
  BY <1>2, <1>3, <1>4, <1>5, <1>6, <1>7 DEF WellFormed, u

-----------------------------------------------------------------------------
(* cap_drop and cap_take.                                                  *)

\* A slot's child list is itself closed under the walk.
LEMMA ChildListClosed ==
  ASSUME NEW t \in CapabilityTable, NEW p \in Index
  PROVE  /\ ChildList(t, p) \in SUBSET Index
         /\ FirstChild(t, p) \in ChildList(t, p) \union {None}
         /\ SiblingClosed(t, ChildList(t, p))
<1>1. \A c \in Index : NextSibling(t, c) \in Link /\ FirstChild(t, c) \in Link
  BY TableFields DEF NextSibling, FirstChild, Entry, Link, Live
<1>2. FirstChild(t, p) \in ChildList(t, p) \union {None}
  BY <1>1 DEF ChildList, Link
<1>3. SiblingClosed(t, ChildList(t, p))
  <2>1. SUFFICES ASSUME NEW c \in ChildList(t, p), NextSibling(t, c) # None
                 PROVE  NextSibling(t, c) \in ChildList(t, p)
    BY DEF SiblingClosed
  <2>2. c \in Index /\ NextSibling(t, c) \in Index
    BY <1>1, <2>1 DEF ChildList, Link
  <2>3. ASSUME NEW S \in SUBSET Index, FirstChild(t, p) \in S \union {None}, SiblingClosed(t, S)
        PROVE  NextSibling(t, c) \in S
    BY <2>1, <2>3 DEF ChildList, SiblingClosed
  <2>4. QED
    BY <2>2, <2>3 DEF ChildList
<1>4. QED
  BY <1>2, <1>3 DEF ChildList

\* unlink_from_siblings finds every slot: a child is the head of its parent's
\* list, or the walk meets the one slot whose next_sibling it is.
LEMMA UnlinkFinds ==
  ASSUME NEW t \in CapabilityTable, LinksAgree(t), OnePredecessor(t), ChildListComplete(t),
         NEW i \in Live(t)
  PROVE  /\ unlinkable(t, i)
         /\ LET p == t.entry[i].parent
                c == Predecessor(t, i)
            IN (p # None /\ t.entry[p].first_child # i) =>
                  /\ p \in Live(t) /\ c \in Live(t) /\ t.entry[c].next_sibling = i
<1> DEFINE p == t.entry[i].parent
<1>1. CASE p = None
  BY <1>1 DEF unlinkable
<1>2. CASE p # None
  <2>1. p \in Live(t) /\ p \in Index /\ i \in Index /\ i # None
    BY <1>2, TableFields, LinkFacts DEF LinksAgree
  <2> DEFINE L == ChildList(t, p)
  <2>2. /\ L \in SUBSET Index
        /\ FirstChild(t, p) \in L \union {None}
        /\ SiblingClosed(t, L)
    BY <2>1, ChildListClosed
  <2>3. i \in L
    BY <2>1, <2>2 DEF ChildListComplete
  <2>4. ASSUME t.entry[p].first_child # i
        PROVE  \E c \in L : NextSibling(t, c) = i
    <3>1. SUFFICES ASSUME \A c \in L : NextSibling(t, c) # i
                   PROVE  FALSE
      OBVIOUS
    <3>2. FirstChild(t, p) # i
      BY <2>1, <2>4, WalkReads
    <3>3. SiblingClosed(t, L \ {i})
      BY <2>2, <3>1 DEF SiblingClosed
    <3>4. L \ {i} \in SUBSET Index /\ FirstChild(t, p) \in (L \ {i}) \union {None}
      BY <2>2, <3>2
    <3>5. i \in L \ {i}
      BY <2>1, <3>3, <3>4 DEF ChildListComplete
    <3>6. QED
      BY <3>5
  <2>5. ASSUME t.entry[p].first_child # i
        PROVE  Predecessor(t, i) \in L /\ NextSibling(t, Predecessor(t, i)) = i
    BY <2>4, <2>5 DEF Predecessor
  <2>6. \A c \in L : NextSibling(t, c) = i => c \in Live(t) /\ t.entry[c].next_sibling = i
    BY <2>1, <2>2, WalkReads
  <2>7. unlinkable(t, i)
    BY <2>3 DEF unlinkable
  <2>8. QED
    BY <2>1, <2>5, <2>6, <2>7
<1>3. QED
  BY <1>1, <1>2

\* What unlinking and freeing the childless slot i leaves: whoever pointed at i
\* now points at its successor, and i is the head of the free list.
Dropped(t, u, i) ==
  /\ Live(u) = Live(t) \ {i}
  /\ \A j \in Live(u) :
       /\ SameCapability(t.entry[j], u.entry[j])
       /\ u.entry[j].first_child =
            IF t.entry[j].first_child = i THEN t.entry[i].next_sibling ELSE t.entry[j].first_child
       /\ u.entry[j].next_sibling =
            IF t.entry[j].next_sibling = i THEN t.entry[i].next_sibling ELSE t.entry[j].next_sibling
  /\ u.generation = [t.generation EXCEPT ![i] = (t.generation[i] + 1) % GenModulus]
  /\ u.next_free = [t.next_free EXCEPT ![i] = t.free_head]
  /\ u.free_head = i

\* The same for the links alone, before free_slot.
Unlinked(t, w, i) ==
  /\ w \in [Index -> Entry \union {None}]
  /\ \A j \in Index : w[j] = None <=> t.entry[j] = None
  /\ \A j \in Live(t) \ {i} :
       /\ SameCapability(t.entry[j], w[j])
       /\ w[j].first_child =
            IF t.entry[j].first_child = i THEN t.entry[i].next_sibling ELSE t.entry[j].first_child
       /\ w[j].next_sibling =
            IF t.entry[j].next_sibling = i THEN t.entry[i].next_sibling ELSE t.entry[j].next_sibling

\* Replacing one entry of a table by another one gives the array it should.
LEMMA SetEntryFields ==
  ASSUME NEW t \in CapabilityTable, NEW c \in Live(t), NEW e \in Entry
  PROVE  LET u == SetEntry(t, c, e)
         IN /\ u.entry \in [Index -> Entry \union {None}]
            /\ u.entry[c] = e
            /\ \A j \in Index \ {c} : u.entry[j] = t.entry[j]
            /\ u.generation = t.generation
            /\ u.next_free = t.next_free
            /\ u.free_head = t.free_head
<1>1. c \in Index /\ t.entry \in [Index -> Entry \union {None}]
  BY TableFields
<1>2. QED
  BY <1>1 DEF SetEntry

LEMMA UnlinkFields ==
  ASSUME NEW t \in CapabilityTable, LinksAgree(t), OnePredecessor(t), ChildListComplete(t),
         NEW i \in Live(t)
  PROVE  LET u == unlink_from_siblings(t, i)
         IN /\ Unlinked(t, u.entry, i)
            /\ u.generation = t.generation
            /\ u.next_free = t.next_free
            /\ u.free_head = t.free_head
<1> DEFINE p == t.entry[i].parent
           next == t.entry[i].next_sibling
           u == unlink_from_siblings(t, i)
<1>1. /\ i \in Index /\ i # None /\ next \in Link /\ None \notin Entry
      /\ t.entry \in [Index -> Entry \union {None}]
      /\ \A j \in Live(t) : j \in Index /\ t.entry[j] \in Entry
      /\ \A j \in Index : t.entry[j] = None <=> j \notin Live(t)
  BY TableFields, LinkFacts DEF Entry
<1>2. \A j \in Live(t) : t.entry[j].first_child = i => p = j
  BY <1>1 DEF LinksAgree
<1>3. \A j \in Live(t) : t.entry[j].next_sibling = i => p # None /\ p \in Live(t)
  BY <1>1 DEF LinksAgree
<1>4. CASE p = None
  <2>1. u = t
    BY <1>4 DEF unlink_from_siblings
  <2>2. \A j \in Live(t) : t.entry[j].first_child # i /\ t.entry[j].next_sibling # i
    BY <1>2, <1>3, <1>4, LinkFacts, TableFields
  <2>3. QED
    BY <1>1, <2>1, <2>2 DEF Unlinked, SameCapability
<1>5. CASE p # None /\ t.entry[p].first_child = i
  <2>1. p \in Live(t)
    BY <1>5 DEF LinksAgree
  <2> DEFINE e == SetFirstChild(t.entry[p], next)
  <2>2. u = SetEntry(t, p, e)
    BY <1>5 DEF unlink_from_siblings
  <2>3. /\ e \in Entry /\ SameCapability(t.entry[p], e)
        /\ e.first_child = next /\ e.next_sibling = t.entry[p].next_sibling
    BY <1>1, <2>1 DEF SetFirstChild, Entry, SameCapability
  <2>4. \A j \in Live(t) : t.entry[j].next_sibling # i
    BY <1>1, <1>5, <2>1, WalkReads DEF OnePredecessor
  <2> HIDE DEF e, u
  <2>5. /\ u.entry \in [Index -> Entry \union {None}]
        /\ u.entry[p] = e
        /\ \A j \in Index \ {p} : u.entry[j] = t.entry[j]
        /\ u.generation = t.generation
        /\ u.next_free = t.next_free
        /\ u.free_head = t.free_head
    BY <2>1, <2>2, <2>3, SetEntryFields
  <2>6. Unlinked(t, u.entry, i)
    BY <1>1, <1>2, <1>5, <2>1, <2>3, <2>4, <2>5 DEF Unlinked, SameCapability
  <2>7. QED
    BY <2>5, <2>6 DEF u
<1>6. CASE p # None /\ t.entry[p].first_child # i
  <2> DEFINE c == Predecessor(t, i)
             e == SetNextSibling(t.entry[c], next)
  <2>1. p \in Live(t) /\ c \in Live(t) /\ t.entry[c].next_sibling = i
    BY <1>6, UnlinkFinds
  <2>2. u = SetEntry(t, c, e)
    BY <1>6 DEF unlink_from_siblings
  <2> HIDE DEF c
  <2>3. /\ e \in Entry /\ SameCapability(t.entry[c], e)
        /\ e.next_sibling = next /\ e.first_child = t.entry[c].first_child
    BY <1>1, <2>1 DEF SetNextSibling, Entry, SameCapability
  <2>4. \A j \in Live(t) : t.entry[j].next_sibling = i => j = c
    BY <1>1, <2>1, WalkReads DEF OnePredecessor
  <2>5. \A j \in Live(t) : t.entry[j].first_child # i
    BY <1>2, <1>6
  <2> HIDE DEF e, u
  <2>6. /\ u.entry \in [Index -> Entry \union {None}]
        /\ u.entry[c] = e
        /\ \A j \in Index \ {c} : u.entry[j] = t.entry[j]
        /\ u.generation = t.generation
        /\ u.next_free = t.next_free
        /\ u.free_head = t.free_head
    BY <2>1, <2>2, <2>3, SetEntryFields
  <2>7. Unlinked(t, u.entry, i)
    BY <1>1, <2>1, <2>3, <2>4, <2>5, <2>6 DEF Unlinked, SameCapability
  <2>8. QED
    BY <2>6, <2>7 DEF u
<1>7. QED
  BY <1>4, <1>5, <1>6

\* cap_drop, and cap_take, as a relation between the two tables.
LEMMA DropFields ==
  ASSUME NEW t \in CapabilityTable, LinksAgree(t), OnePredecessor(t), ChildListComplete(t),
         NEW h \in CapHandle, h.index \in Live(t)
  PROVE  /\ cap_drop(t, h) \in CapabilityTable
         /\ Dropped(t, cap_drop(t, h), h.index)
<1> DEFINE i == h.index
           v == unlink_from_siblings(t, i)
           u == cap_drop(t, h)
           f == [v.entry EXCEPT ![i] = None]
           g == [t.generation EXCEPT ![i] = (t.generation[i] + 1) % GenModulus]
           nf == [t.next_free EXCEPT ![i] = t.free_head]
<1>1. /\ Unlinked(t, v.entry, i)
      /\ v.generation = t.generation
      /\ v.next_free = t.next_free
      /\ v.free_head = t.free_head
  BY UnlinkFields
<1>2. u = [entry |-> f, generation |-> g, next_free |-> nf, free_head |-> i]
  BY <1>1 DEF cap_drop, free_slot
<1>3. i \in Index /\ i \in Link /\ t.free_head \in Link
  BY TableFields DEF Link
<1>4. g \in [Index -> Generation]
  BY <1>3, TableFields, CapTableAssumption DEF Generation
<1>5. nf \in [Index -> Link]
  BY <1>3, TableFields
<1> HIDE DEF v
<1>6. f \in [Index -> Entry \union {None}] /\ f[i] = None /\ \A j \in Index \ {i} : f[j] = v.entry[j]
  BY <1>1, <1>3 DEF Unlinked
<1> HIDE DEF u, f, g, nf
<1>7. /\ u \in CapabilityTable
      /\ u.entry = f
      /\ u.generation = g
      /\ u.next_free = nf
      /\ u.free_head = i
      /\ Live(u) = {j \in Index : f[j] # None}
  BY <1>2, <1>3, <1>4, <1>5, <1>6, TableValue
<1>8. Live(u) = Live(t) \ {i}
  <2>1. \A j \in Index : f[j] # None <=> j \in Live(t) /\ j # i
    BY <1>1, <1>3, <1>6, TableFields DEF Unlinked
  <2>2. QED
    BY <1>7, <2>1, TableFields
<1>9. \A j \in Live(u) : u.entry[j] = v.entry[j] /\ j \in Live(t) \ {i}
  BY <1>6, <1>7, <1>8, TableFields
<1>10. Dropped(t, u, i)
  <2>1. u.generation = [t.generation EXCEPT ![i] = (t.generation[i] + 1) % GenModulus]
    BY <1>7 DEF g
  <2>2. u.next_free = [t.next_free EXCEPT ![i] = t.free_head]
    BY <1>7 DEF nf
  <2>3. QED
    BY <1>1, <1>7, <1>8, <1>9, <2>1, <2>2 DEF Dropped, Unlinked
<1>11. QED
  BY <1>7, <1>10 DEF u

\* free_slot keeps the free list exact: the freed slot is its new head.
LEMMA DropFreeList ==
  ASSUME NEW t \in CapabilityTable, NEW u \in CapabilityTable, NEW i \in Live(t),
         Dropped(t, u, i), FreeListSound(t), FreeListComplete(t)
  PROVE  FreeListSound(u) /\ FreeListComplete(u)
<1>1. /\ i \in Index /\ i # None /\ i \notin FreeSlots(t)
      /\ u.free_head = i
      /\ u.next_free[i] = t.free_head
      /\ \A j \in Index \ {i} : u.next_free[j] = t.next_free[j]
      /\ FreeSlots(u) = FreeSlots(t) \union {i}
      /\ Live(u) = Live(t) \ {i}
  BY TableFields, LinkFacts DEF Dropped, FreeSlots
<1>2. /\ \A j \in FreeSlots(t) : j \in Index /\ j \notin Live(t)
      /\ Live(t) \subseteq Index
      /\ \A j \in Index : j \in FreeSlots(t) \/ j \in Live(t)
  BY DEF FreeSlots, Live
<1>3. FreeListSound(u)
  BY <1>1, <1>2 DEF FreeListSound
<1>4. FreeListComplete(u)
  <2>1. SUFFICES ASSUME NEW S \in SUBSET Index, u.free_head \in S \union {None},
                        NextFreeClosed(u, S)
                 PROVE  FreeSlots(u) \subseteq S
    BY DEF FreeListComplete
  <2>2. i \in S /\ t.free_head \in S \union {None}
    BY <1>1, <2>1 DEF NextFreeClosed
  <2>3. \A j \in Index : t.next_free[j] # i
    BY <1>1, <1>2 DEF FreeListSound
  <2>4. NextFreeClosed(t, S \ {i}) /\ t.free_head \in (S \ {i}) \union {None}
    BY <1>1, <2>1, <2>2, <2>3 DEF NextFreeClosed, FreeListSound
  <2>5. FreeSlots(t) \subseteq S \ {i}
    BY <2>4 DEF FreeListComplete
  <2>6. QED
    BY <1>1, <2>2, <2>5
<1>5. QED
  BY <1>3, <1>4

\* Dropping a slot without children keeps the forest exact.
LEMMA DropForest ==
  ASSUME NEW t \in CapabilityTable, NEW u \in CapabilityTable, NEW i \in Live(t),
         Dropped(t, u, i), t.entry[i].first_child = None,
         LinksAgree(t), OnePredecessor(t), ChildListComplete(t)
  PROVE  LinksAgree(u) /\ OnePredecessor(u) /\ ChildListComplete(u)
<1> DEFINE next == t.entry[i].next_sibling
<1>1. i \in Index /\ i # None /\ Live(u) = Live(t) \ {i} /\ Live(t) \subseteq Index
  BY TableFields, LinkFacts DEF Dropped
<1>2. \A j \in Live(u) :
        /\ u.entry[j].parent = t.entry[j].parent
        /\ u.entry[j].first_child = IF t.entry[j].first_child = i THEN next ELSE t.entry[j].first_child
        /\ u.entry[j].next_sibling = IF t.entry[j].next_sibling = i THEN next ELSE t.entry[j].next_sibling
  BY DEF Dropped, SameCapability
<1>3. \A j \in Live(t) : t.entry[j].parent # i
  <2>1. {} \in SUBSET Index /\ SiblingClosed(t, {}) /\ FirstChild(t, i) = None
    BY WalkReads DEF SiblingClosed
  <2>2. QED
    BY <2>1 DEF ChildListComplete
<1>4. next # i
  <2>1. t.entry[i].parent # None => t.entry[i].parent \in Live(t)
    BY DEF LinksAgree
  <2>2. SUFFICES ASSUME next = i PROVE FALSE
    OBVIOUS
  <2> DEFINE p == t.entry[i].parent
             L == ChildList(t, p) \ {i}
  <2>3. p \in Live(t) /\ p \in Index
    BY <1>1, <2>1, <2>2 DEF LinksAgree
  <2>4. FirstChild(t, p) # i /\ \A c \in Index : NextSibling(t, c) = i => c = i
    BY <1>1, <2>2, <2>3, WalkReads DEF OnePredecessor
  <2>5. L \in SUBSET Index /\ FirstChild(t, p) \in L \union {None} /\ SiblingClosed(t, L)
    BY <2>3, <2>4, ChildListClosed DEF SiblingClosed
  <2>6. i \in L
    BY <2>3, <2>5 DEF ChildListComplete
  <2>7. QED
    BY <2>6
<1>5. LinksAgree(u)
  <2>1. ASSUME NEW j \in Live(u)
        PROVE  /\ u.entry[j].parent # None => u.entry[j].parent \in Live(u)
               /\ u.entry[j].first_child # None =>
                    /\ u.entry[j].first_child \in Live(u)
                    /\ u.entry[u.entry[j].first_child].parent = j
               /\ u.entry[j].next_sibling # None =>
                    /\ u.entry[j].parent # None
                    /\ u.entry[j].next_sibling \in Live(u)
                    /\ u.entry[u.entry[j].next_sibling].parent = u.entry[j].parent
    <3>1. j \in Live(t) /\ j # i
      BY <1>1
    <3>2. next # None => next \in Live(u) /\ u.entry[next].parent = t.entry[i].parent
      BY <1>1, <1>2, <1>4 DEF LinksAgree
    <3>3. /\ t.entry[j].first_child = i => t.entry[i].parent = j
          /\ t.entry[j].next_sibling = i =>
               t.entry[i].parent = t.entry[j].parent /\ t.entry[j].parent # None
      BY <1>1, <3>1 DEF LinksAgree
    <3>4. t.entry[j].first_child \notin {i, None} =>
            /\ t.entry[j].first_child \in Live(u)
            /\ u.entry[t.entry[j].first_child].parent = j
      BY <1>1, <1>2, <3>1 DEF LinksAgree
    <3>5. t.entry[j].next_sibling \notin {i, None} =>
            /\ t.entry[j].next_sibling \in Live(u)
            /\ t.entry[j].parent # None
            /\ u.entry[t.entry[j].next_sibling].parent = t.entry[j].parent
      BY <1>1, <1>2, <3>1 DEF LinksAgree
    <3>6. t.entry[j].parent # None => t.entry[j].parent \in Live(u)
      BY <1>1, <1>3, <3>1 DEF LinksAgree
    <3> HIDE DEF next
    <3>7. QED
      BY <1>1, <1>2, <3>2, <3>3, <3>4, <3>5, <3>6
  <2>2. QED
    BY <2>1 DEF LinksAgree
<1>6. /\ \A j \in Live(u) :
           /\ NextSibling(u, j) = IF NextSibling(t, j) = i THEN next ELSE NextSibling(t, j)
           /\ FirstChild(u, j) = IF FirstChild(t, j) = i THEN next ELSE FirstChild(t, j)
      /\ NextSibling(t, i) = next
      /\ NextSibling(u, i) = None
      /\ \A j \in Index \ Live(t) : NextSibling(u, j) = None /\ NextSibling(t, j) = None
  BY <1>1, <1>2, WalkReads
<1>7. \A j, k \in Live(t) :
        /\ NextSibling(t, j) = NextSibling(t, k) /\ NextSibling(t, j) # None => j = k
        /\ NextSibling(t, j) # None => NextSibling(t, j) # FirstChild(t, k)
        /\ FirstChild(t, j) = FirstChild(t, k) /\ FirstChild(t, j) # None => j = k
  <2>1. ASSUME NEW j \in Live(t), NEW k \in Live(t),
               FirstChild(t, j) = FirstChild(t, k), FirstChild(t, j) # None
        PROVE  j = k
    BY <2>1, WalkReads DEF LinksAgree
  <2>2. QED
    BY <2>1 DEF OnePredecessor
<1> HIDE DEF next
<1>8. OnePredecessor(u)
  BY <1>1, <1>6, <1>7 DEF OnePredecessor
<1>9. ChildListComplete(u)
  <2>1. SUFFICES ASSUME NEW S \in SUBSET Index, NEW q \in Live(u),
                        FirstChild(u, q) \in S \union {None}, SiblingClosed(u, S),
                        NEW c \in Live(u), u.entry[c].parent = q
                 PROVE  c \in S
    BY DEF ChildListComplete
  <2>2. c \in Live(t) /\ t.entry[c].parent = q /\ q \in Live(t) /\ c # i
    BY <1>1, <1>2, <2>1
  <2>3. CASE FirstChild(t, q) = i \/ \E k \in S \ {i} : NextSibling(t, k) = i
    <3>1. next \in S \union {None}
      BY <1>1, <1>6, <2>1, <2>2, <2>3 DEF SiblingClosed
    <3>2. SiblingClosed(t, S \union {i})
      BY <1>1, <1>6, <2>1, <3>1 DEF SiblingClosed
    <3>3. FirstChild(t, q) \in (S \union {i}) \union {None} /\ S \union {i} \in SUBSET Index
      BY <1>1, <1>6, <2>1
    <3>4. QED
      BY <2>2, <3>2, <3>3 DEF ChildListComplete
  <2>4. CASE FirstChild(t, q) # i /\ \A k \in S \ {i} : NextSibling(t, k) # i
    <3>1. SiblingClosed(t, S \ {i})
      BY <1>1, <1>6, <2>1, <2>4 DEF SiblingClosed
    <3>2. FirstChild(t, q) \in (S \ {i}) \union {None} /\ S \ {i} \in SUBSET Index
      BY <1>6, <2>1, <2>4
    <3>3. QED
      BY <2>2, <3>1, <3>2 DEF ChildListComplete
  <2>5. QED
    BY <2>3, <2>4
<1>10. QED
  BY <1>5, <1>8, <1>9

LEMMA DropNarrowed ==
  ASSUME NEW t \in CapabilityTable, NEW u \in CapabilityTable, NEW i \in Live(t),
         Dropped(t, u, i), LinksAgree(t), LinksAgree(u), Narrowed(t)
  PROVE  Narrowed(u)
<1>1. Live(u) = Live(t) \ {i}
  BY DEF Dropped
<1>2. \A j \in Live(u) :
        /\ u.entry[j].parent = t.entry[j].parent
        /\ u.entry[j].rights = t.entry[j].rights
        /\ u.entry[j].depth = t.entry[j].depth
  BY DEF Dropped, SameCapability
<1>3. \A j \in Live(u) : u.entry[j].parent # None => u.entry[j].parent \in Live(u)
  BY DEF LinksAgree
<1>4. QED
  BY <1>1, <1>2, <1>3 DEF Narrowed

\* cap_drop, and cap_take, all in one.
LEMMA DropPreserves ==
  ASSUME NEW t \in CapabilityTable, WellFormed(t),
         NEW h \in CapHandle, h.index \in Live(t), t.entry[h.index].first_child = None
  PROVE  LET u == cap_drop(t, h)
         IN /\ u \in CapabilityTable
            /\ WellFormed(u)
            /\ Dropped(t, u, h.index)
<1> DEFINE u == cap_drop(t, h)
<1>1. u \in CapabilityTable /\ Dropped(t, u, h.index)
  BY DropFields DEF WellFormed
<1> HIDE DEF u
<1>2. FreeListSound(u) /\ FreeListComplete(u)
  BY <1>1, DropFreeList DEF WellFormed
<1>3. LinksAgree(u) /\ OnePredecessor(u) /\ ChildListComplete(u)
  BY <1>1, DropForest DEF WellFormed
<1>4. Narrowed(u)
  BY <1>1, <1>3, DropNarrowed DEF WellFormed
<1>5. QED
  BY <1>1, <1>2, <1>3, <1>4 DEF WellFormed, u

-----------------------------------------------------------------------------
(* What the callers of the operations cite.                                *)

\* The table new() builds is well formed: the free list threads every slot.
LEMMA NewTableWellFormed == WellFormed(NewTable)
<1> DEFINE t == NewTable
<1>1. t \in CapabilityTable
  BY NewTableType
<1>2. /\ Live(t) = {}
      /\ FreeSlots(t) = Index
      /\ t.free_head = 0
      /\ \A i \in Index : t.next_free[i] = IF i + 1 < Capacity THEN i + 1 ELSE None
  BY DEF NewTable, Live, FreeSlots
<1> HIDE DEF t
<1>3. 0 \in Index /\ None \notin Index /\ \A i \in Index : i \in Nat /\ i < Capacity
  BY CapTableAssumption, LinkFacts DEF Index
<1>4. \A i \in Index : i + 1 < Capacity => i + 1 \in Index /\ i + 1 # 0
  BY <1>3, CapTableAssumption DEF Index
<1>5. FreeListSound(t)
  BY <1>2, <1>3, <1>4 DEF FreeListSound
<1>6. FreeListComplete(t)
  <2>1. SUFFICES ASSUME NEW S \in SUBSET Index, 0 \in S, NextFreeClosed(t, S)
                 PROVE  Index \subseteq S
    BY <1>2, <1>3 DEF FreeListComplete
  <2> DEFINE Missed == {i \in Nat : i \in Index /\ i \notin S}
  <2>2. SUFFICES ASSUME Missed # {} PROVE FALSE
    BY <1>3
  <2>3. PICK m \in Missed : \A k \in Missed : m <= k
    BY <2>2, LeastNatural
  <2>4. m \in Nat /\ m \in Index /\ m \notin S /\ m # 0
    BY <2>1, <2>3
  <2>5. m - 1 \in Nat /\ m - 1 \in Index /\ ~(m <= m - 1) /\ (m - 1) + 1 = m
    BY <2>4, CapTableAssumption DEF Index
  <2>6. m - 1 \in S
    BY <2>3, <2>5
  <2>7. t.next_free[m - 1] = m
    BY <1>2, <1>3, <2>4, <2>5
  <2>8. QED
    BY <1>3, <2>1, <2>4, <2>6, <2>7 DEF NextFreeClosed
<1>7. /\ LinksAgree(t) /\ OnePredecessor(t)
      /\ ChildListComplete(t) /\ Narrowed(t)
  BY <1>2 DEF LinksAgree, OnePredecessor, ChildListComplete, Narrowed
<1>8. QED
  BY <1>5, <1>6, <1>7 DEF WellFormed, t

\* A handle that resolves names an occupied slot.
LEMMA ResolvedIsLive ==
  ASSUME NEW t \in CapabilityTable, NEW h \in CapHandle, resolves(t, h)
  PROVE  h.index \in Live(t) /\ t.entry[h.index] \in Entry
  BY TableFields DEF resolves, Live

\* insert_root on a table that is not full.
LEMMA InsertRootPreserves ==
  ASSUME NEW t \in CapabilityTable, WellFormed(t), ~is_full(t), NEW cap \in Capability
  PROVE  LET u == insert_root(t, cap)
         IN /\ u \in CapabilityTable
            /\ WellFormed(u)
            /\ u.generation = t.generation
            /\ NewLinks(t, cap, None, 0, u, t.free_head)
<1>1. FitsUnder(t, cap, None, 0) /\ 0 \in 0 .. MaxDepth
  BY CapTableAssumption DEF FitsUnder
<1>2. QED
  BY <1>1, InstallPreserves DEF insert_root

\* cap_take on a handle that passes its checks.
LEMMA TakePreserves ==
  ASSUME NEW t \in CapabilityTable, WellFormed(t), NEW h \in CapHandle,
         cap_drop_result(t, h) = "Ok"
  PROVE  LET u == cap_take(t, h)
         IN /\ u \in CapabilityTable
            /\ WellFormed(u)
            /\ Dropped(t, u, h.index)
            /\ h.index \in Live(t)
<1>1. resolves(t, h) /\ t.entry[h.index].first_child = None
  BY DEF cap_drop_result, entry_of
<1>2. QED
  BY <1>1, ResolvedIsLive, DropPreserves DEF cap_take

-----------------------------------------------------------------------------
(* IpcQueues.                                                              *)

\* The four states are told apart by their tag, and only the two that hold a
\* message can hold a capability.
LEMMA StateFacts ==
  ASSUME NEW s \in EndpointState
  PROVE  /\ s.tag \in {"Idle", "RecvWaiting", "SendPending", "RecvComplete"}
         /\ s = Idle <=> s.tag = "Idle"
         /\ s = RecvWaiting <=> s.tag = "RecvWaiting"
         /\ Holding(s) <=> s.tag \notin {"Idle", "RecvWaiting"}
         /\ Holding(s) => s.msg \in Message /\ s.cap \in Capability \union {None}
         /\ s.cap # None => Holding(s)
  BY DEF EndpointState, Idle, RecvWaiting, Holding

LEMMA StateTypes ==
  /\ Idle \in EndpointState /\ RecvWaiting \in EndpointState
  /\ \A m \in Message, c \in Capability \union {None} :
       SendPending(m, c) \in EndpointState /\ RecvComplete(m, c) \in EndpointState
  BY DEF EndpointState, Idle, RecvWaiting, SendPending, RecvComplete

\* The fields of the queues after the first access under generation h.
LEMMA ResetFields ==
  ASSUME NEW q \in IpcQueues, NEW h \in SlotId
  PROVE  LET r == reset_if_stale_generation(q, h)
         IN /\ r \in IpcQueues
            /\ r.states[h.index] =
                 IF q.slot_generations[h.index] = h.generation THEN q.states[h.index] ELSE Idle
            /\ r.slot_generations = [q.slot_generations EXCEPT ![h.index] = h.generation]
            /\ \A i \in SlotIndex \ {h.index} : r.states[i] = q.states[i]
  BY StateTypes DEF IpcQueues, SlotId, reset_if_stale_generation

\* The fields of the queues after a write through state_of.
LEMMA SetFields ==
  ASSUME NEW q \in IpcQueues, NEW h \in SlotId, NEW s \in EndpointState
  PROVE  LET r == set_state(q, h, s)
         IN /\ r \in IpcQueues
            /\ r.states[h.index] = s
            /\ r.slot_generations = [q.slot_generations EXCEPT ![h.index] = h.generation]
            /\ \A i \in SlotIndex \ {h.index} : r.states[i] = q.states[i]
<1> DEFINE r == reset_if_stale_generation(q, h)
           u == set_state(q, h, s)
<1>1. /\ r \in IpcQueues
      /\ r.slot_generations = [q.slot_generations EXCEPT ![h.index] = h.generation]
      /\ \A i \in SlotIndex \ {h.index} : r.states[i] = q.states[i]
  BY ResetFields
<1>2. u = [states |-> [r.states EXCEPT ![h.index] = s], slot_generations |-> r.slot_generations]
  BY DEF set_state
<1> HIDE DEF r, u
<1>3. QED
  BY <1>1, <1>2 DEF IpcQueues, SlotId, u

LEMMA QueueTypes ==
  ASSUME NEW q \in IpcQueues, NEW h \in SlotId
  PROVE  /\ reset_if_stale_generation(q, h) \in IpcQueues
         /\ set_state(q, h, Idle) \in IpcQueues
         /\ set_state(q, h, RecvWaiting) \in IpcQueues
         /\ \A m \in Message, c \in Capability \union {None} :
              /\ set_state(q, h, SendPending(m, c)) \in IpcQueues
              /\ set_state(q, h, RecvComplete(m, c)) \in IpcQueues
<1>1. \A s \in EndpointState : set_state(q, h, s) \in IpcQueues
  BY SetFields
<1>2. reset_if_stale_generation(q, h) \in IpcQueues
  BY ResetFields
<1>3. QED
  BY <1>1, <1>2, StateTypes, Zenon

\* What peek_state sees.
LEMMA PeekType ==
  ASSUME NEW q \in IpcQueues, NEW h \in SlotId
  PROVE  /\ peek_state(q, h) \in EndpointState
         /\ peek_state(q, h) =
              IF q.slot_generations[h.index] = h.generation THEN q.states[h.index] ELSE Idle
<1>1. h.index \in SlotIndex /\ q.states \in [SlotIndex -> EndpointState]
  BY DEF SlotId, IpcQueues
<1>2. peek_state(q, h) =
        IF q.slot_generations[h.index] = h.generation THEN q.states[h.index] ELSE Idle
  BY ResetFields DEF peek_state
<1>3. QED
  BY <1>1, <1>2, StateTypes

\* What it sees after a write to h: at h the state written, nothing at another
\* generation of the slot, no difference at any other slot.
LEMMA PeekAfterSet ==
  ASSUME NEW q \in IpcQueues, NEW h \in SlotId, NEW s \in EndpointState, NEW g \in SlotId
  PROVE  peek_state(set_state(q, h, s), g) =
           IF g = h THEN s ELSE IF g.index = h.index THEN Idle ELSE peek_state(q, g)
<1> DEFINE u == set_state(q, h, s)
<1>1. /\ u \in IpcQueues
      /\ u.states[h.index] = s
      /\ u.slot_generations = [q.slot_generations EXCEPT ![h.index] = h.generation]
      /\ \A i \in SlotIndex \ {h.index} : u.states[i] = q.states[i]
  BY SetFields
<1> HIDE DEF u
<1>2. /\ peek_state(u, g) =
           IF u.slot_generations[g.index] = g.generation THEN u.states[g.index] ELSE Idle
      /\ peek_state(q, g) =
           IF q.slot_generations[g.index] = g.generation THEN q.states[g.index] ELSE Idle
  BY <1>1, PeekType
<1>3. g = h <=> g.index = h.index /\ g.generation = h.generation
  BY DEF SlotId
<1>4. /\ g.index \in SlotIndex /\ h.index \in SlotIndex
      /\ q.slot_generations \in [SlotIndex -> SlotGeneration]
  BY DEF SlotId, IpcQueues
<1>5. /\ u.slot_generations[h.index] = h.generation
      /\ g.index # h.index => u.slot_generations[g.index] = q.slot_generations[g.index]
  BY <1>1, <1>4
<1>6. peek_state(u, g) =
        IF g = h THEN s ELSE IF g.index = h.index THEN Idle ELSE peek_state(q, g)
  BY <1>1, <1>2, <1>3, <1>4, <1>5
<1>7. QED
  BY <1>6 DEF u

\* The same for an access that writes nothing but the generation.
LEMMA PeekAfterReset ==
  ASSUME NEW q \in IpcQueues, NEW h \in SlotId, NEW g \in SlotId
  PROVE  peek_state(reset_if_stale_generation(q, h), g) =
           IF g = h THEN peek_state(q, h)
           ELSE IF g.index = h.index THEN Idle ELSE peek_state(q, g)
<1> DEFINE u == reset_if_stale_generation(q, h)
<1>1. /\ u \in IpcQueues
      /\ u.states[h.index] = peek_state(q, h)
      /\ u.slot_generations = [q.slot_generations EXCEPT ![h.index] = h.generation]
      /\ \A i \in SlotIndex \ {h.index} : u.states[i] = q.states[i]
  BY ResetFields, PeekType
<1> HIDE DEF u
<1>2. /\ peek_state(u, g) =
           IF u.slot_generations[g.index] = g.generation THEN u.states[g.index] ELSE Idle
      /\ peek_state(q, g) =
           IF q.slot_generations[g.index] = g.generation THEN q.states[g.index] ELSE Idle
  BY <1>1, PeekType
<1>3. g = h <=> g.index = h.index /\ g.generation = h.generation
  BY DEF SlotId
<1>4. /\ g.index \in SlotIndex /\ h.index \in SlotIndex
      /\ q.slot_generations \in [SlotIndex -> SlotGeneration]
  BY DEF SlotId, IpcQueues
<1>5. /\ u.slot_generations[h.index] = h.generation
      /\ g.index # h.index => u.slot_generations[g.index] = q.slot_generations[g.index]
  BY <1>1, <1>4
<1>6. peek_state(u, g) =
        IF g = h THEN peek_state(q, h)
        ELSE IF g.index = h.index THEN Idle ELSE peek_state(q, g)
  BY <1>1, <1>2, <1>3, <1>4, <1>5
<1>7. QED
  BY <1>6 DEF u

-----------------------------------------------------------------------------
(* Capability checks.                                                      *)

\* A capability that passed validate_ep_cap names an endpoint.
LEMMA ValidEndpoint ==
  ASSUME NEW t \in CapabilityTable, NEW c \in CapHandle, NEW r,
         validate_ep_cap(t, c, r) = "Ok"
  PROVE  /\ c.index \in Live(t)
         /\ handle_of(t, c) \in SlotId
         /\ t.entry[c.index].object = EndpointObject(handle_of(t, c))
         /\ r \in t.entry[c.index].rights
<1>1. /\ resolves(t, c)
      /\ t.entry[c.index].object.kind = "Endpoint"
      /\ r \in t.entry[c.index].rights
  BY DEF validate_ep_cap, validate_cap, entry_of
<1>2. c.index \in Live(t) /\ t.entry[c.index] \in Entry
  BY <1>1, ResolvedIsLive
<1>3. t.entry[c.index].object \in Objects
  BY <1>2 DEF Entry
<1>4. PICK h \in SlotId : t.entry[c.index].object = EndpointObject(h)
  BY <1>1, <1>3, IpcAssumption
<1>5. handle_of(t, c) = h
  BY <1>4 DEF handle_of, entry_of, EndpointObject
<1>6. QED
  BY <1>1, <1>2, <1>4, <1>5

\* A capability of t that passed validate_ep_cap over a live endpoint.
Grip(a, t, c, r) ==
  /\ validate_ep_cap(t, c, r) = "Ok"
  /\ handle_of(t, c) \in SlotId
  /\ contains(a, handle_of(t, c))

-----------------------------------------------------------------------------
(* ipc_send.                                                               *)

\* cap leaves table t through the handle xfer, and u is what remains.
Sent(t, xfer, cap, u) ==
  \/ xfer = None /\ cap = None /\ u = t
  \/ /\ xfer \in CapHandle /\ xfer.index \in Live(t)
     /\ "TRANSFER" \in t.entry[xfer.index].rights
     /\ cap = lookup(t, xfer) /\ cap \in Capability
     /\ Dropped(t, u, xfer.index)

\* The calls that change nothing but, perhaps, a stale generation.
Untouched(a, q, t, c, right, r) ==
  /\ r.table = t
  /\ \/ r.queues = q
     \/ Grip(a, t, c, right) /\ r.queues = reset_if_stale_generation(q, handle_of(t, c))

\* Every outcome of ipc_send: refused, delivered to a waiting receiver, or
\* parked in an idle endpoint.
SendOutcome(a, q, t, c, msg, xfer, r) ==
  LET h == handle_of(t, c)
  IN \/ /\ r.result \notin {"Delivered", "Enqueued"}
        /\ Untouched(a, q, t, c, "SEND", r)
     \/ /\ Grip(a, t, c, "SEND")
        /\ \E cap \in Capability \union {None} :
             /\ Sent(t, xfer, cap, r.table)
             /\ \/ /\ r.result = "Delivered" /\ peek_state(q, h) = RecvWaiting
                   /\ r.queues = set_state(q, h, RecvComplete(msg, cap))
                \/ /\ r.result = "Enqueued" /\ peek_state(q, h) = Idle
                   /\ r.queues = set_state(q, h, SendPending(msg, cap))

LEMMA SendCases ==
  ASSUME NEW a, NEW q \in IpcQueues, NEW t \in CapabilityTable, WellFormed(t),
         NEW c \in CapHandle, NEW msg \in Message, NEW xfer \in CapHandle \union {None}
  PROVE  LET r == ipc_send(a, q, t, c, msg, xfer)
         IN /\ r.table \in CapabilityTable /\ WellFormed(r.table)
            /\ r.queues \in IpcQueues
            /\ SendOutcome(a, q, t, c, msg, xfer, r)
<1> DEFINE r == ipc_send(a, q, t, c, msg, xfer)
           h == handle_of(t, c)
           pre == send_preflight(a, t, c, xfer)
           res == send_result(q, t, h, xfer)
           cap == taken(t, xfer)
<1>1. CASE pre # "Ok"
  <2>1. r.result = pre /\ r.queues = q /\ r.table = t
    BY <1>1 DEF ipc_send, Outcome
  <2>2. pre \notin {"Delivered", "Enqueued"}
    BY DEF send_preflight, validate_ep_cap, validate_cap
  <2>3. QED
    BY <2>1, <2>2 DEF SendOutcome, Untouched
<1>2. CASE pre = "Ok"
  <2>1. /\ r.result = res
        /\ r.queues = send_queues(q, h, res, msg, cap)
        /\ r.table = IF res \in {"Delivered", "Enqueued"} THEN take_cap_if_some(t, xfer) ELSE t
    BY <1>2 DEF ipc_send, Outcome
  <2>2. validate_ep_cap(t, c, "SEND") = "Ok" /\ contains(a, h)
        /\ (xfer # None => transferable(t, xfer))
    BY <1>2 DEF send_preflight
  <2>3. Grip(a, t, c, "SEND") /\ h \in SlotId
    BY <2>2, ValidEndpoint DEF Grip
  <2>4. peek_state(q, h) \in EndpointState
    BY <2>3, PeekType
  <2>5. CASE res \notin {"Delivered", "Enqueued"}
    <3>1. r.queues = reset_if_stale_generation(q, h) /\ r.table = t
      BY <2>1, <2>5 DEF send_queues
    <3>2. r.queues \in IpcQueues
      BY <2>3, <3>1, ResetFields
    <3>3. QED
      BY <2>1, <2>3, <2>5, <3>1, <3>2 DEF SendOutcome, Untouched
  <2>6. CASE res \in {"Delivered", "Enqueued"}
    <3>1. /\ xfer # None => cap_drop_result(t, xfer) = "Ok"
          /\ ~Holding(peek_state(q, h))
          /\ res = "Delivered" <=> peek_state(q, h) = RecvWaiting
      BY <2>6 DEF send_result
    <3>2. res = "Enqueued" => peek_state(q, h) = Idle
      BY <2>4, <3>1, StateFacts
    <3>3. /\ r.table \in CapabilityTable /\ WellFormed(r.table)
          /\ cap \in Capability \union {None}
          /\ Sent(t, xfer, cap, r.table)
      <4>1. r.table = take_cap_if_some(t, xfer)
        BY <2>1, <2>6
      <4>2. CASE xfer = None
        BY <4>1, <4>2 DEF take_cap_if_some, taken, Sent
      <4>3. CASE xfer # None
        <5>1. xfer \in CapHandle /\ r.table = cap_take(t, xfer) /\ cap = lookup(t, xfer)
          BY <4>1, <4>3 DEF take_cap_if_some, taken
        <5>2. /\ r.table \in CapabilityTable /\ WellFormed(r.table)
              /\ Dropped(t, r.table, xfer.index) /\ xfer.index \in Live(t)
          BY <3>1, <4>3, <5>1, TakePreserves
        <5>3. "TRANSFER" \in t.entry[xfer.index].rights
          BY <2>2, <4>3 DEF transferable, entry_of
        <5>4. cap \in Capability
          BY <5>1, <5>2, TableFields DEF lookup, entry_of, Entry, Capability
        <5>5. QED
          BY <5>1, <5>2, <5>3, <5>4 DEF Sent
      <4>4. QED
        BY <4>2, <4>3
    <3>4. /\ res = "Delivered" => r.queues = set_state(q, h, RecvComplete(msg, cap))
          /\ res = "Enqueued" => r.queues = set_state(q, h, SendPending(msg, cap))
      BY <2>1 DEF send_queues
    <3>5. r.queues \in IpcQueues
      BY <2>3, <2>6, <3>3, <3>4, QueueTypes
    <3> HIDE DEF r, h, cap, res
    <3>6. SendOutcome(a, q, t, c, msg, xfer, r)
      BY <2>1, <2>3, <2>6, <3>1, <3>2, <3>3, <3>4 DEF SendOutcome, h
    <3>7. QED
      BY <3>3, <3>5, <3>6 DEF r
  <2>7. QED
    BY <2>5, <2>6
<1>3. QED
  BY <1>1, <1>2

-----------------------------------------------------------------------------
(* ipc_recv and ipc_cancel_recv.                                           *)

\* Table u is t with the capability cap installed, if there is one.
Got(t, cap, u) ==
  \/ cap = None /\ u = t
  \/ /\ cap \in Capability /\ cap # None
     /\ u.generation = t.generation
     /\ NewLinks(t, cap, None, 0, u, t.free_head)

\* Every outcome of ipc_recv: refused, a message collected, or registered.
RecvOutcome(a, q, t, c, r) ==
  LET h == handle_of(t, c)
  IN \/ /\ r.result \notin {"Received", "Pending"}
        /\ Untouched(a, q, t, c, "RECV", r)
     \/ /\ Grip(a, t, c, "RECV")
        /\ \/ /\ r.result = "Received" /\ Holding(peek_state(q, h))
              /\ r.queues = set_state(q, h, Idle)
              /\ Got(t, peek_state(q, h).cap, r.table)
           \/ /\ r.result = "Pending" /\ peek_state(q, h) = Idle
              /\ r.queues = set_state(q, h, RecvWaiting)
              /\ r.table = t

LEMMA RecvCases ==
  ASSUME NEW a, NEW q \in IpcQueues, NEW t \in CapabilityTable, WellFormed(t),
         NEW c \in CapHandle
  PROVE  LET r == ipc_recv(a, q, t, c)
         IN /\ r.table \in CapabilityTable /\ WellFormed(r.table)
            /\ r.queues \in IpcQueues
            /\ RecvOutcome(a, q, t, c, r)
<1> DEFINE r == ipc_recv(a, q, t, c)
           h == handle_of(t, c)
           pre == recv_preflight(a, t, c)
           res == recv_result(q, t, h)
           s == peek_state(q, h)
<1>1. CASE pre # "Ok"
  <2>1. r.result = pre /\ r.queues = q /\ r.table = t
    BY <1>1 DEF ipc_recv, Outcome
  <2>2. pre \notin {"Received", "Pending"}
    BY DEF recv_preflight, validate_ep_cap, validate_cap
  <2>3. QED
    BY <2>1, <2>2 DEF RecvOutcome, Untouched
<1>2. CASE pre = "Ok"
  <2>1. /\ r.result = res
        /\ r.queues = recv_queues(q, h, res)
        /\ r.table = IF res = "Received" THEN install_cap_if_some(t, s.cap) ELSE t
    BY <1>2 DEF ipc_recv, Outcome
  <2>2. validate_ep_cap(t, c, "RECV") = "Ok" /\ contains(a, h)
    BY <1>2 DEF recv_preflight
  <2>3. Grip(a, t, c, "RECV") /\ h \in SlotId
    BY <2>2, ValidEndpoint DEF Grip
  <2>4. s \in EndpointState
    BY <2>3, PeekType
  <2>5. CASE res \notin {"Received", "Pending"}
    <3>1. r.queues = reset_if_stale_generation(q, h) /\ r.table = t
      BY <2>1, <2>5 DEF recv_queues
    <3>2. r.queues \in IpcQueues
      BY <2>3, <3>1, ResetFields
    <3>3. QED
      BY <2>1, <2>3, <2>5, <3>1, <3>2 DEF RecvOutcome, Untouched
  <2>6. CASE res = "Received"
    <3>1. Holding(s) /\ (s.cap # None => ~is_full(t))
      BY <2>6 DEF recv_result
    <3>2. s.cap \in Capability \union {None}
      BY <2>4, <3>1, StateFacts
    <3>3. r.queues = set_state(q, h, Idle) /\ r.table = install_cap_if_some(t, s.cap)
      BY <2>1, <2>6 DEF recv_queues
    <3>4. r.queues \in IpcQueues
      BY <2>3, <3>3, QueueTypes
    <3> HIDE DEF r, h, s, res
    <3>5. r.table \in CapabilityTable /\ WellFormed(r.table) /\ Got(t, s.cap, r.table)
      <4>1. CASE s.cap = None
        BY <3>3, <4>1 DEF install_cap_if_some, Got
      <4>2. CASE s.cap # None
        <5>1. r.table = insert_root(t, s.cap) /\ s.cap \in Capability /\ ~is_full(t)
          BY <3>1, <3>2, <3>3, <4>2 DEF install_cap_if_some
        <5>2. QED
          BY <4>2, <5>1, InsertRootPreserves DEF Got
      <4>3. QED
        BY <4>1, <4>2
    <3>6. RecvOutcome(a, q, t, c, r)
      BY <2>1, <2>3, <2>6, <3>1, <3>3, <3>5 DEF RecvOutcome, h, s
    <3>7. QED
      BY <3>4, <3>5, <3>6 DEF r
  <2>7. CASE res = "Pending"
    <3>1. s = Idle
      BY <2>7 DEF recv_result
    <3>2. r.queues = set_state(q, h, RecvWaiting) /\ r.table = t
      BY <2>1, <2>7 DEF recv_queues
    <3>3. r.queues \in IpcQueues
      BY <2>3, <3>2, QueueTypes
    <3>4. QED
      BY <2>1, <2>3, <2>7, <3>1, <3>2, <3>3 DEF RecvOutcome
  <2>8. QED
    BY <2>5, <2>6, <2>7
<1>3. QED
  BY <1>1, <1>2

\* ipc_cancel_recv turns a registration into Idle and touches nothing else.
CancelOutcome(a, q, t, c, r) ==
  LET h == handle_of(t, c)
  IN \/ r.queues = q
     \/ Grip(a, t, c, "RECV") /\ r.queues = reset_if_stale_generation(q, h)
     \/ /\ Grip(a, t, c, "RECV") /\ peek_state(q, h) = RecvWaiting
        /\ r.queues = set_state(q, h, Idle)

LEMMA CancelCases ==
  ASSUME NEW a, NEW q \in IpcQueues, NEW t \in CapabilityTable, NEW c \in CapHandle
  PROVE  LET r == ipc_cancel_recv(a, q, t, c)
         IN /\ r.queues \in IpcQueues
            /\ CancelOutcome(a, q, t, c, r)
<1> DEFINE r == ipc_cancel_recv(a, q, t, c)
           h == handle_of(t, c)
<1>1. CASE recv_preflight(a, t, c) # "Ok"
  BY <1>1 DEF ipc_cancel_recv, Outcome, CancelOutcome
<1>2. CASE recv_preflight(a, t, c) = "Ok"
  <2>1. validate_ep_cap(t, c, "RECV") = "Ok" /\ contains(a, h)
    BY <1>2 DEF recv_preflight
  <2>2. Grip(a, t, c, "RECV") /\ h \in SlotId
    BY <2>1, ValidEndpoint DEF Grip
  <2>3. r.queues = IF peek_state(q, h) = RecvWaiting THEN set_state(q, h, Idle)
                   ELSE reset_if_stale_generation(q, h)
    BY <1>2 DEF ipc_cancel_recv, Outcome
  <2>4. r.queues \in IpcQueues
    BY <2>2, <2>3, QueueTypes
  <2> HIDE DEF r
  <2>5. CancelOutcome(a, q, t, c, r)
    BY <2>2, <2>3 DEF CancelOutcome
  <2>6. QED
    BY <2>4, <2>5 DEF r
<1>3. QED
  BY <1>1, <1>2

-----------------------------------------------------------------------------
(* Division.                                                               *)

LEMMA DivMod ==
  ASSUME NEW a \in Nat, NEW b \in Nat, b > 0
  PROVE  /\ a \div b \in Nat /\ a % b \in 0 .. (b - 1)
         /\ a = b * (a \div b) + (a % b)
<1>1. a \div b \in Nat
  BY SMT
<1>2. a % b \in 0 .. (b - 1)
  BY SMT
<1>3. a = b * (a \div b) + (a % b)
  BY SMT
<1>4. QED
  BY <1>1, <1>2, <1>3

LEMMA DivUnique ==
  ASSUME NEW b \in Nat, b > 0, NEW q \in Nat, NEW r \in 0 .. (b - 1)
  PROVE  (b * q + r) \div b = q /\ (b * q + r) % b = r
<1> DEFINE x == b * q + r
           p == x \div b
           s == x % b
<1>1. x \in Nat /\ b * q \in Nat
  BY SMT
<1>2. p \in Nat /\ s \in 0 .. (b - 1) /\ x = b * p + s
  <2> HIDE DEF x
  <2>1. QED
    BY <1>1, DivMod
<1>3. x = b * q + r
  OBVIOUS
<1> HIDE DEF x, p, s
<1>4. CASE p < q
  <2>1. PICK k \in Nat : q = p + 1 + k
    BY <1>2, <1>4, SMT
  <2>2. b * q = b * p + b + b * k /\ b * k \in Nat /\ b * p \in Nat
    BY <1>2, <2>1, SMT
  <2>3. QED
    BY <1>1, <1>2, <1>3, <2>2, SMT
<1>5. CASE q < p
  <2>1. PICK k \in Nat : p = q + 1 + k
    BY <1>2, <1>5, SMT
  <2>2. b * p = b * q + b + b * k /\ b * k \in Nat /\ b * q \in Nat
    BY <1>2, <2>1, SMT
  <2>3. QED
    BY <1>1, <1>2, <1>3, <2>2, SMT
<1>6. CASE p = q
  BY <1>2, <1>3, <1>6 DEF x, p, s
<1>7. QED
  BY <1>2, <1>4, <1>5, <1>6
=============================================================================
