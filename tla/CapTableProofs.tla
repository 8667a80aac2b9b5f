--------------------------- MODULE CapTableProofs ---------------------------
(***************************************************************************)
(* Proofs about the machine of CapTableSpec, for every value of the        *)
(* constants: first what cap_revoke does to a well-formed table, then the  *)
(* lemmas of KernelLemmas lifted to the machine.                           *)
(***************************************************************************)
EXTENDS CapTableSpec, KernelLemmas

-----------------------------------------------------------------------------
(* cap_revoke.                                                             *)

\* The set the breadth-first walk collects is closed under the walk.
LEMMA DescendantsClosed ==
  ASSUME NEW t \in CapabilityTable, NEW s \in Index
  PROVE  /\ Descendants(t, s) \in SUBSET Index
         /\ FirstChild(t, s) \in Descendants(t, s) \union {None}
         /\ TreeClosed(t, Descendants(t, s))
<1>1. \A c \in Index : NextSibling(t, c) \in Link /\ FirstChild(t, c) \in Link
  BY TableFields DEF NextSibling, FirstChild, Entry, Link, Live
<1>2. FirstChild(t, s) \in Descendants(t, s) \union {None}
  BY <1>1 DEF Descendants, Link
<1>3. TreeClosed(t, Descendants(t, s))
  <2>1. SUFFICES ASSUME NEW c \in Descendants(t, s)
                 PROVE  /\ NextSibling(t, c) \in Descendants(t, s) \union {None}
                        /\ FirstChild(t, c) \in Descendants(t, s) \union {None}
    BY DEF TreeClosed
  <2>2. c \in Index /\ NextSibling(t, c) \in Link /\ FirstChild(t, c) \in Link
    BY <1>1 DEF Descendants
  <2>3. ASSUME NEW S \in SUBSET Index, FirstChild(t, s) \in S \union {None}, TreeClosed(t, S)
        PROVE  NextSibling(t, c) \in S \union {None} /\ FirstChild(t, c) \in S \union {None}
    BY <2>1, <2>3 DEF Descendants, TreeClosed
  <2>4. QED
    BY <2>2, <2>3 DEF Descendants, Link
<1>4. QED
  BY <1>2, <1>3 DEF Descendants

\* The subtree by parent links is closed under "parent in the subtree or s".
LEMMA BelowClosed ==
  ASSUME NEW t \in CapabilityTable, NEW s \in Index
  PROVE  /\ Below(t, s) \in SUBSET Index
         /\ Below(t, s) \subseteq Live(t)
         /\ ParentClosed(t, Below(t, s), s)
<1>1. Below(t, s) \subseteq Live(t) /\ Live(t) \subseteq Index
  BY DEF Below, Live
<1>2. ParentClosed(t, Below(t, s), s)
  <2>1. SUFFICES ASSUME NEW c \in Live(t), t.entry[c].parent \in Below(t, s) \union {s}
                 PROVE  c \in Below(t, s)
    BY DEF ParentClosed
  <2>2. ASSUME NEW S \in SUBSET Index, ParentClosed(t, S, s)
        PROVE  c \in S
    BY <2>1, <2>2 DEF Below, ParentClosed
  <2>3. QED
    BY <2>2 DEF Below
<1>3. QED
  BY <1>1, <1>2

\* Downward walk and upward ancestry agree: what cap_revoke collects through
\* first_child and next_sibling is what names s as an ancestor, and s is not
\* its own descendant.
LEMMA DescendantsAreBelow ==
  ASSUME NEW t \in CapabilityTable, LinksAgree(t), ChildListComplete(t), Narrowed(t),
         NEW s \in Live(t)
  PROVE  /\ Descendants(t, s) = Below(t, s)
         /\ s \notin Below(t, s)
         /\ \A c \in Live(t) :
              c \in Below(t, s) <=> t.entry[c].parent \in Below(t, s) \union {s}
<1> DEFINE D == Descendants(t, s)
           B == Below(t, s)
<1>1. s \in Index /\ None \notin Index /\ Live(t) \subseteq Index
  BY TableFields, LinkFacts
<1>2. D \in SUBSET Index /\ FirstChild(t, s) \in D \union {None} /\ TreeClosed(t, D)
  BY <1>1, DescendantsClosed
<1>3. B \in SUBSET Index /\ B \subseteq Live(t) /\ ParentClosed(t, B, s)
  BY <1>1, BelowClosed
<1>4. \A c \in Live(t) : c \in B => t.entry[c].parent \in B \union {s}
  <2> DEFINE S == {c \in B : t.entry[c].parent \in B \union {s}}
  <2>1. S \in SUBSET Index /\ ParentClosed(t, S, s)
    BY <1>3 DEF ParentClosed
  <2>2. B \subseteq S
    BY <2>1 DEF Below
  <2>3. QED
    BY <2>2
<1>5. D \subseteq B
  <2>1. FirstChild(t, s) \in B \union {None}
    BY <1>3, WalkReads DEF LinksAgree, ParentClosed
  <2>2. TreeClosed(t, B)
    <3>1. SUFFICES ASSUME NEW c \in B
                   PROVE  /\ NextSibling(t, c) \in B \union {None}
                          /\ FirstChild(t, c) \in B \union {None}
      BY DEF TreeClosed
    <3>2. c \in Live(t) /\ t.entry[c].parent \in B \union {s}
      BY <1>3, <1>4
    <3>3. FirstChild(t, c) \in B \union {None}
      BY <1>3, <3>1, <3>2, WalkReads DEF LinksAgree, ParentClosed
    <3>4. NextSibling(t, c) \in B \union {None}
      BY <1>3, <3>2, WalkReads DEF LinksAgree, ParentClosed
    <3>5. QED
      BY <3>3, <3>4
  <2>3. QED
    BY <1>3, <2>1, <2>2 DEF Descendants
<1>6. B \subseteq D
  <2>1. ParentClosed(t, D, s)
    <3>1. SUFFICES ASSUME NEW c \in Live(t), t.entry[c].parent \in D \union {s}
                   PROVE  c \in D
      BY DEF ParentClosed
    <3> DEFINE p == t.entry[c].parent
    <3>2. p \in Live(t)
      BY <1>1, <1>2, <3>1 DEF LinksAgree
    <3>3. FirstChild(t, p) \in D \union {None} /\ SiblingClosed(t, D)
      BY <1>2, <3>1 DEF TreeClosed, SiblingClosed
    <3>4. QED
      BY <1>2, <3>2, <3>3 DEF ChildListComplete
  <2>2. QED
    BY <1>2, <2>1 DEF Below
<1>7. s \notin B
  <2> DEFINE S == {c \in Live(t) : t.entry[c].depth > t.entry[s].depth}
  <2>1. \A c \in Live(t) : t.entry[c].depth \in Nat
    BY TableFields DEF Entry
  <2>2. \A c \in Live(t) : t.entry[c].parent \in Live(t) =>
           t.entry[c].depth = t.entry[t.entry[c].parent].depth + 1
    BY <1>1 DEF Narrowed
  <2>3. ParentClosed(t, S, s)
    <3>1. SUFFICES ASSUME NEW c \in Live(t), t.entry[c].parent \in S \union {s}
                   PROVE  t.entry[c].depth > t.entry[s].depth
      BY DEF ParentClosed
    <3> DEFINE p == t.entry[c].parent
    <3>2. p \in Live(t) /\ (p = s \/ t.entry[p].depth > t.entry[s].depth)
      BY <3>1
    <3> HIDE DEF p
    <3>3. t.entry[c].depth = t.entry[p].depth + 1
      BY <2>2, <3>2 DEF p
    <3>4. QED
      BY <2>1, <3>2, <3>3
  <2>4. S \in SUBSET Index /\ s \notin S
    BY <1>1, <2>1
  <2>5. QED
    BY <2>3, <2>4 DEF Below
<1>8. QED
  BY <1>3, <1>4, <1>5, <1>6, <1>7 DEF ParentClosed

\* What revoking s leaves: the slots of D are free, stacked on the free list in
\* queue order, s has no children, and nothing else changes.
Revoked(t, u, s, D, order) ==
  /\ Live(u) = Live(t) \ D
  /\ \A j \in Live(u) :
       /\ SameCapability(t.entry[j], u.entry[j])
       /\ u.entry[j].first_child = IF j = s THEN None ELSE t.entry[j].first_child
       /\ u.entry[j].next_sibling = t.entry[j].next_sibling
  /\ \A j \in Index : u.generation[j] =
       IF j \in D THEN (t.generation[j] + 1) % GenModulus ELSE t.generation[j]
  /\ \A j \in Index \ D : u.next_free[j] = t.next_free[j]
  /\ \A k \in 1 .. Cardinality(D) :
       u.next_free[order[k]] = IF k = 1 THEN t.free_head ELSE order[k - 1]
  /\ u.free_head = IF D = {} THEN t.free_head ELSE order[Cardinality(D)]

\* The enumeration of D that the queue is.
Enumerates(order, D) ==
  /\ order \in [1 .. Cardinality(D) -> D]
  /\ \A j, k \in 1 .. Cardinality(D) : order[j] = order[k] => j = k
  /\ \A d \in D : \E k \in 1 .. Cardinality(D) : order[k] = d

LEMMA NonEmptyCardinality ==
  ASSUME NEW D \in SUBSET Index, D # {}
  PROVE  Cardinality(D) \in Nat \ {0}
  BY LinkFacts, FS_EmptySet

LEMMA RevokeFields ==
  ASSUME NEW t \in CapabilityTable, NEW src \in CapHandle, src.index \in Live(t),
         src.index \notin Descendants(t, src.index),
         Descendants(t, src.index) \subseteq Live(t),
         NEW order, Enumerates(order, Descendants(t, src.index))
  PROVE  LET u == cap_revoke(t, src, order)
         IN /\ u \in CapabilityTable
            /\ Revoked(t, u, src.index, Descendants(t, src.index), order)
<1> DEFINE s == src.index
           D == Descendants(t, s)
           N == Cardinality(D)
           PosOf(d) == CHOOSE k \in 1 .. N : order[k] = d
           f == [i \in Index |-> IF i \in D THEN None
                                 ELSE IF i = s THEN SetFirstChild(t.entry[s], None)
                                 ELSE t.entry[i]]
           g == [i \in Index |-> IF i \in D THEN (t.generation[i] + 1) % GenModulus
                                 ELSE t.generation[i]]
           nf == [i \in Index |-> IF i \notin D THEN t.next_free[i]
                                  ELSE IF PosOf(i) = 1 THEN t.free_head
                                  ELSE order[PosOf(i) - 1]]
           h == IF D = {} THEN t.free_head ELSE order[N]
           u == cap_revoke(t, src, order)
<1>1. u = [entry |-> f, generation |-> g, next_free |-> nf, free_head |-> h]
  BY DEF cap_revoke
<1>2. /\ s \in Index /\ D \in SUBSET Index /\ N \in Nat
      /\ None \notin Entry /\ None \notin Index
  BY LinkFacts, TableFields DEF Descendants
<1>3. /\ order \in [1 .. N -> D]
      /\ \A j, k \in 1 .. N : order[j] = order[k] => j = k
      /\ \A d \in D : \E k \in 1 .. N : order[k] = d
  BY DEF Enumerates
<1>4. \A d \in D : PosOf(d) \in 1 .. N /\ order[PosOf(d)] = d
  BY <1>3
<1> HIDE DEF PosOf, D, N
<1>5. \A k \in 1 .. N : order[k] \in D /\ PosOf(order[k]) = k
  BY <1>3, <1>4
<1>6. f \in [Index -> Entry \union {None}]
  <2>1. SetFirstChild(t.entry[s], None) \in Entry
    BY TableFields DEF SetFirstChild, Entry, Link
  <2>2. \A i \in Index : t.entry[i] \in Entry \union {None}
    BY TableFields
  <2>3. QED
    BY <2>1, <2>2
<1>7. g \in [Index -> Generation]
  <2>1. \A i \in Index : t.generation[i] \in 0 .. (GenModulus - 1)
    BY TableFields DEF Generation
  <2>2. \A i \in Index : (t.generation[i] + 1) % GenModulus \in 0 .. (GenModulus - 1)
    BY <2>1, CapTableAssumption
  <2>3. QED
    BY <2>1, <2>2 DEF Generation
<1>8. nf \in [Index -> Link]
  <2>1. \A k \in 1 .. N : k # 1 => k - 1 \in 1 .. N
    BY <1>2
  <2>2. \A i \in D : PosOf(i) # 1 => order[PosOf(i) - 1] \in D
    BY <1>3, <1>4, <2>1
  <2>3. D \subseteq Link /\ t.free_head \in Link /\ \A i \in Index : t.next_free[i] \in Link
    BY <1>2, TableFields DEF Link
  <2>4. QED
    BY <2>2, <2>3
<1>9. h \in Link
  <2>1. CASE D = {}
    BY <2>1, TableFields
  <2>2. CASE D # {}
    <3>1. N \in 1 .. N
      BY <1>2, <2>2, NonEmptyCardinality DEF N
    <3>2. QED
      BY <1>2, <1>3, <2>2, <3>1 DEF Link
  <2>3. QED
    BY <2>1, <2>2
<1>10. /\ \A j \in Index : f[j] # None <=> j \in Live(t) \ D
       /\ f[s] = SetFirstChild(t.entry[s], None)
       /\ \A j \in Index \ D : j # s => f[j] = t.entry[j]
  <2>1. s \notin D
    BY DEF D
  <2>2. SetFirstChild(t.entry[s], None) \in Entry
    BY TableFields DEF SetFirstChild, Entry, Link
  <2>3. QED
    BY <1>2, <2>1, <2>2, TableFields
<1>11. /\ \A j \in Index : g[j] = IF j \in D THEN (t.generation[j] + 1) % GenModulus ELSE t.generation[j]
       /\ \A j \in Index \ D : nf[j] = t.next_free[j]
       /\ \A k \in 1 .. N : nf[order[k]] = IF k = 1 THEN t.free_head ELSE order[k - 1]
  BY <1>2, <1>5
<1> HIDE DEF f, g, nf, u
<1>12. /\ u \in CapabilityTable
       /\ u.entry = f
       /\ u.generation = g
       /\ u.next_free = nf
       /\ u.free_head = h
       /\ Live(u) = {i \in Index : f[i] # None}
  BY <1>1, <1>6, <1>7, <1>8, <1>9, TableValue
<1>13. Live(u) = Live(t) \ D
  BY <1>10, <1>12, TableFields
<1>14. \A j \in Live(u) :
       /\ SameCapability(t.entry[j], u.entry[j])
       /\ u.entry[j].first_child = IF j = s THEN None ELSE t.entry[j].first_child
       /\ u.entry[j].next_sibling = t.entry[j].next_sibling
  <2>1. SUFFICES ASSUME NEW j \in Live(u)
                 PROVE  /\ SameCapability(t.entry[j], u.entry[j])
                        /\ u.entry[j].first_child = IF j = s THEN None ELSE t.entry[j].first_child
                        /\ u.entry[j].next_sibling = t.entry[j].next_sibling
    OBVIOUS
  <2>2. j \in Index \ D
    BY <1>13, TableFields
  <2>3. CASE j = s
    BY <1>10, <1>12, <2>3 DEF SetFirstChild, SameCapability
  <2>4. CASE j # s
    BY <1>10, <1>12, <2>2, <2>4 DEF SameCapability
  <2>5. QED
    BY <2>3, <2>4
<1>15. Revoked(t, u, s, D, order)
  BY <1>11, <1>12, <1>13, <1>14 DEF Revoked, N
<1>16. QED
  BY <1>12, <1>15 DEF u, D

\* Following next_free from the last freed slot meets every slot of the queue
\* and then the old head: a descent by least counterexample.
LEMMA QueueIsChained ==
  ASSUME NEW t, NEW u, NEW s, NEW D \in SUBSET Index, NEW order,
         Enumerates(order, D), Revoked(t, u, s, D, order), D # {},
         NEW S \in SUBSET Index, u.free_head \in S, NextFreeClosed(u, S)
  PROVE  D \subseteq S /\ t.free_head \in S \union {None}
<1> DEFINE N == Cardinality(D)
           Missed == {m \in Nat : m < N /\ order[N - m] \notin S}
<1>1. /\ N \in Nat \ {0}
      /\ None \notin Index
      /\ order \in [1 .. N -> D]
      /\ \A d \in D : \E k \in 1 .. N : order[k] = d
      /\ \A k \in 1 .. N : u.next_free[order[k]] = IF k = 1 THEN t.free_head ELSE order[k - 1]
      /\ u.free_head = order[N]
  BY LinkFacts, NonEmptyCardinality DEF Enumerates, Revoked
<1> HIDE DEF N
<1>2. Missed = {}
  <2>1. SUFFICES ASSUME Missed # {} PROVE FALSE
    OBVIOUS
  <2>2. PICK m \in Missed : \A k \in Missed : m <= k
    BY <2>1, LeastNatural
  <2>3. m \in Nat /\ m < N /\ order[N - m] \notin S
    BY <2>2
  <2>4. m # 0
    BY <1>1, <2>3
  <2>5. m - 1 \in Nat /\ m - 1 < N /\ ~(m <= m - 1)
    BY <1>1, <2>3, <2>4
  <2>6. order[N - (m - 1)] \in S
    BY <2>2, <2>5
  <2>7. /\ N - (m - 1) \in 1 .. N
        /\ N - (m - 1) # 1
        /\ (N - (m - 1)) - 1 = N - m
        /\ N - m \in 1 .. N
    BY <1>1, <2>3, <2>4
  <2>8. u.next_free[order[N - (m - 1)]] = order[N - m]
    BY <1>1, <2>7
  <2>9. order[N - m] \in S \union {None}
    BY <2>6, <2>8 DEF NextFreeClosed
  <2>10. order[N - m] \in Index
    BY <1>1, <2>7
  <2>11. QED
    BY <1>1, <2>3, <2>9, <2>10
<1>3. \A k \in 1 .. N : order[k] \in S
  <2>1. SUFFICES ASSUME NEW k \in 1 .. N PROVE order[k] \in S
    OBVIOUS
  <2>2. N - k \in Nat /\ N - k < N /\ N - (N - k) = k
    BY <1>1
  <2>3. N - k \notin Missed
    BY <1>2
  <2>4. QED
    BY <2>2, <2>3
<1>4. D \subseteq S
  BY <1>1, <1>3
<1>5. 1 \in 1 .. N
  BY <1>1
<1>6. u.next_free[order[1]] = t.free_head /\ order[1] \in S
  BY <1>1, <1>3, <1>5
<1>7. QED
  BY <1>4, <1>6 DEF NextFreeClosed

LEMMA RevokeFreeList ==
  ASSUME NEW t \in CapabilityTable, NEW u \in CapabilityTable, NEW s \in Live(t),
         NEW D \in SUBSET Live(t), NEW order,
         Enumerates(order, D), Revoked(t, u, s, D, order),
         FreeListSound(t), FreeListComplete(t)
  PROVE  FreeListSound(u) /\ FreeListComplete(u)
<1> DEFINE N == Cardinality(D)
<1>1. /\ D \in SUBSET Index
      /\ N \in Nat
      /\ D # {} => N \in 1 .. N
      /\ None \notin Index
  BY LinkFacts, TableFields, NonEmptyCardinality
<1>2. /\ order \in [1 .. N -> D]
      /\ \A j, k \in 1 .. N : order[j] = order[k] => j = k
      /\ \A d \in D : \E k \in 1 .. N : order[k] = d
      /\ \A j \in Index \ D : u.next_free[j] = t.next_free[j]
      /\ \A k \in 1 .. N : u.next_free[order[k]] = IF k = 1 THEN t.free_head ELSE order[k - 1]
      /\ D = {} => u.free_head = t.free_head
      /\ D # {} => u.free_head = order[N]
      /\ Live(u) = Live(t) \ D
  BY DEF Enumerates, Revoked
<1>3. /\ FreeSlots(u) = FreeSlots(t) \union D
      /\ \A j \in FreeSlots(t) : j \in Index /\ j \notin Live(t) /\ j \notin D
      /\ \A j \in Index : j \in FreeSlots(t) \/ j \in Live(t)
  BY <1>1, <1>2, TableFields DEF FreeSlots
<1> HIDE DEF N
<1>4. \A k \in 1 .. N : k # 1 => k - 1 \in 1 .. N /\ k - 1 # N
  BY <1>1
<1>5. \A k \in 1 .. N :
        IF k = 1 THEN u.next_free[order[k]] = t.free_head
        ELSE /\ u.next_free[order[k]] = order[k - 1]
             /\ k - 1 \in 1 .. N /\ k - 1 # N
             /\ order[k - 1] \in D /\ order[k - 1] # order[N]
  <2>1. SUFFICES ASSUME NEW k \in 1 .. N, k # 1
                 PROVE  /\ u.next_free[order[k]] = order[k - 1]
                        /\ k - 1 \in 1 .. N /\ k - 1 # N
                        /\ order[k - 1] \in D /\ order[k - 1] # order[N]
    BY <1>2
  <2>2. k - 1 \in 1 .. N /\ k - 1 # N /\ N \in 1 .. N
    BY <1>1, <2>1
  <2>3. QED
    BY <1>2, <2>1, <2>2
<1>6. \A i \in D : u.next_free[i] = t.free_head \/ (u.next_free[i] \in D /\ u.next_free[i] # order[N])
  BY <1>2, <1>5
<1>7. ASSUME NEW i \in Index, NEW j \in Index,
             u.next_free[i] = u.next_free[j], u.next_free[i] # None
      PROVE  i = j
  <2>1. CASE i \notin D /\ j \notin D
    BY <1>2, <1>7, <2>1 DEF FreeListSound
  <2>2. \A a, b \in Index : ~(/\ a \in D /\ b \notin D
                             /\ u.next_free[a] = u.next_free[b] /\ u.next_free[a] # None)
    <3>1. SUFFICES ASSUME NEW a \in D, NEW b \in Index \ D,
                          u.next_free[a] = u.next_free[b], u.next_free[a] # None
                   PROVE  FALSE
      BY <1>1
    <3>2. u.next_free[b] = t.next_free[b]
      BY <1>2
    <3>3. t.next_free[b] \notin D /\ t.next_free[b] # t.free_head
      BY <1>1, <1>3, <3>1, <3>2 DEF FreeListSound
    <3>4. QED
      BY <1>6, <3>1, <3>2, <3>3
  <2>3. CASE i \in D /\ j \in D
    <3>1. PICK a \in 1 .. N : order[a] = i
      BY <1>2, <2>3
    <3>2. PICK b \in 1 .. N : order[b] = j
      BY <1>2, <2>3
    <3>3. t.free_head \notin D
      BY <1>1, <1>3 DEF FreeListSound
    <3>4. CASE a = 1 /\ b = 1
      BY <3>1, <3>2, <3>4
    <3>5. CASE a # 1 /\ b # 1
      <4>1. order[a - 1] = order[b - 1] /\ a - 1 \in 1 .. N /\ b - 1 \in 1 .. N
        BY <1>5, <1>7, <3>1, <3>2, <3>5
      <4>2. a - 1 = b - 1
        BY <1>2, <4>1
      <4>3. a = b
        BY <1>1, <4>2
      <4>4. QED
        BY <3>1, <3>2, <4>3
    <3>6. CASE ~(a = 1 <=> b = 1)
      BY <1>5, <1>7, <3>1, <3>2, <3>3, <3>6
    <3>7. QED
      BY <3>4, <3>5, <3>6
  <2>4. QED
    BY <1>7, <2>1, <2>2, <2>3
<1>8. \A i \in Index : u.next_free[i] # None => u.next_free[i] # u.free_head
  <2>1. SUFFICES ASSUME NEW i \in Index, u.next_free[i] # None, u.next_free[i] = u.free_head
                 PROVE  FALSE
    OBVIOUS
  <2>2. CASE D = {}
    BY <1>2, <2>1, <2>2 DEF FreeListSound
  <2>3. CASE D # {}
    <3>1. order[N] \in D /\ u.free_head = order[N]
      BY <1>1, <1>2, <2>3
    <3>2. t.free_head \notin D /\ \A j \in Index \ D : u.next_free[j] \notin D
      <4>1. t.free_head \notin D /\ \A j \in Index : t.next_free[j] \notin D
        BY <1>1, <1>3 DEF FreeListSound
      <4>2. QED
        BY <1>2, <4>1
    <3>3. QED
      BY <1>6, <2>1, <3>1, <3>2
  <2>4. QED
    BY <2>2, <2>3
<1>9. u.free_head \in FreeSlots(u) \union {None}
  BY <1>1, <1>2, <1>3 DEF FreeListSound
<1>10. \A i \in FreeSlots(u) : u.next_free[i] \in FreeSlots(u) \union {None}
  BY <1>2, <1>3, <1>6 DEF FreeListSound
<1>11. \A i \in Live(u) : u.next_free[i] = None
  BY <1>1, <1>2, TableFields DEF FreeListSound
<1>12. FreeListSound(u)
  BY <1>7, <1>8, <1>9, <1>10, <1>11 DEF FreeListSound
<1>13. FreeListComplete(u)
  <2>1. SUFFICES ASSUME NEW S \in SUBSET Index, u.free_head \in S \union {None},
                        NextFreeClosed(u, S)
                 PROVE  FreeSlots(u) \subseteq S
    BY DEF FreeListComplete
  <2>2. D \subseteq S /\ t.free_head \in S \union {None}
    <3>1. CASE D = {}
      BY <1>2, <2>1, <3>1
    <3>2. CASE D # {}
      <4>1. u.free_head \in S
        BY <1>1, <1>2, <2>1, <3>2
      <4>2. QED
        BY <1>1, <2>1, <3>2, <4>1, QueueIsChained
    <3>3. QED
      BY <3>1, <3>2
  <2>3. \A j \in Index : t.next_free[j] \notin D
    BY <1>1, <1>3 DEF FreeListSound
  <2>4. t.free_head \notin D
    BY <1>1, <1>3 DEF FreeListSound
  <2>5. NextFreeClosed(t, S \ D) /\ t.free_head \in (S \ D) \union {None}
    BY <1>2, <2>1, <2>2, <2>3, <2>4 DEF NextFreeClosed
  <2>6. FreeSlots(t) \subseteq S \ D
    BY <2>5 DEF FreeListComplete
  <2>7. QED
    BY <1>3, <2>2, <2>6
<1>14. QED
  BY <1>12, <1>13

\* D holds exactly the slots that hang below s.
IsSubtree(t, s, D) ==
  /\ s \notin D
  /\ \A c \in Live(t) : c \in D <=> t.entry[c].parent \in D \union {s}

\* Removing a whole subtree keeps the forest exact: no surviving list holds a
\* slot of the subtree.
LEMMA RevokeForest ==
  ASSUME NEW t \in CapabilityTable, NEW u \in CapabilityTable, NEW s \in Live(t),
         NEW D \in SUBSET Live(t), NEW order, Revoked(t, u, s, D, order), IsSubtree(t, s, D),
         LinksAgree(t), OnePredecessor(t), ChildListComplete(t)
  PROVE  LinksAgree(u) /\ OnePredecessor(u) /\ ChildListComplete(u)
<1>1. Live(u) = Live(t) \ D /\ Live(t) \subseteq Index /\ None \notin Index /\ s \in Live(u)
  BY TableFields, LinkFacts DEF Revoked, IsSubtree
<1>2. \A j \in Live(u) :
        /\ u.entry[j].parent = t.entry[j].parent
        /\ u.entry[j].first_child = IF j = s THEN None ELSE t.entry[j].first_child
        /\ u.entry[j].next_sibling = t.entry[j].next_sibling
  BY DEF Revoked, SameCapability
<1>3. \A j \in Live(u) : j \in Live(t) /\ t.entry[j].parent \notin D /\ t.entry[j].parent # s
  BY <1>1 DEF IsSubtree
<1>4. ASSUME NEW j \in Live(u)
      PROVE  /\ t.entry[j].parent # None => t.entry[j].parent \in Live(u)
             /\ t.entry[j].next_sibling # None =>
                  /\ t.entry[j].next_sibling \in Live(u)
                  /\ t.entry[j].parent # None
                  /\ t.entry[t.entry[j].next_sibling].parent = t.entry[j].parent
             /\ j # s /\ t.entry[j].first_child # None =>
                  /\ t.entry[j].first_child \in Live(u)
                  /\ t.entry[t.entry[j].first_child].parent = j
  BY <1>1, <1>3 DEF LinksAgree, IsSubtree
<1>5. LinksAgree(u)
  BY <1>2, <1>4 DEF LinksAgree
<1>6. /\ \A j \in Live(u) :
           /\ NextSibling(u, j) = NextSibling(t, j)
           /\ FirstChild(u, j) = IF j = s THEN None ELSE FirstChild(t, j)
           /\ NextSibling(t, j) \in Live(u) \union {None}
           /\ j # s => FirstChild(t, j) \in Live(u) \union {None}
      /\ \A j \in Index \ Live(t) : NextSibling(t, j) = None
  <2>1. \A j \in Index \ Live(t) : NextSibling(t, j) = None
    BY WalkReads
  <2>2. ASSUME NEW j \in Live(u)
        PROVE  /\ NextSibling(u, j) = NextSibling(t, j)
               /\ FirstChild(u, j) = IF j = s THEN None ELSE FirstChild(t, j)
               /\ NextSibling(t, j) \in Live(u) \union {None}
               /\ j # s => FirstChild(t, j) \in Live(u) \union {None}
    <3>1. /\ NextSibling(u, j) = u.entry[j].next_sibling
          /\ FirstChild(u, j) = u.entry[j].first_child
      BY WalkReads
    <3>2. /\ NextSibling(t, j) = t.entry[j].next_sibling
          /\ FirstChild(t, j) = t.entry[j].first_child
      BY <1>1, WalkReads
    <3>3. QED
      BY <1>2, <1>4, <3>1, <3>2
  <2>3. QED
    BY <2>1, <2>2
<1>7. OnePredecessor(u)
  <2>1. \A i, j \in Live(u) :
          /\ NextSibling(t, i) = NextSibling(t, j) /\ NextSibling(t, i) # None => i = j
          /\ NextSibling(t, i) # None => NextSibling(t, i) # FirstChild(t, j)
    BY <1>1 DEF OnePredecessor
  <2>2. QED
    BY <1>6, <2>1 DEF OnePredecessor
<1>8. ChildListComplete(u)
  <2>1. SUFFICES ASSUME NEW S \in SUBSET Index, NEW q \in Live(u),
                        FirstChild(u, q) \in S \union {None}, SiblingClosed(u, S),
                        NEW c \in Live(u), u.entry[c].parent = q
                 PROVE  c \in S
    BY DEF ChildListComplete
  <2>2. c \in Live(t) /\ t.entry[c].parent = q /\ q \in Live(t) /\ q # s /\ c \notin D
    BY <1>1, <1>2, <1>3, <2>1
  <2>3. SiblingClosed(t, S \ D)
    <3>1. SUFFICES ASSUME NEW k \in S \ D PROVE NextSibling(t, k) \in (S \ D) \union {None}
      BY DEF SiblingClosed
    <3>2. CASE k \in Live(t)
      BY <1>1, <1>6, <2>1, <3>1, <3>2 DEF SiblingClosed
    <3>3. CASE k \notin Live(t)
      BY <1>6, <2>1, <3>1, <3>3
    <3>4. QED
      BY <3>2, <3>3
  <2>4. FirstChild(t, q) \in (S \ D) \union {None} /\ S \ D \in SUBSET Index
    BY <1>1, <1>6, <2>1, <2>2
  <2>5. QED
    BY <2>2, <2>3, <2>4 DEF ChildListComplete
<1>9. QED
  BY <1>5, <1>7, <1>8

LEMMA RevokeNarrowed ==
  ASSUME NEW t \in CapabilityTable, NEW u \in CapabilityTable, NEW s,
         NEW D, NEW order, Revoked(t, u, s, D, order), LinksAgree(u), Narrowed(t)
  PROVE  Narrowed(u)
<1>1. Live(u) = Live(t) \ D
  BY DEF Revoked
<1>2. \A j \in Live(u) :
        /\ u.entry[j].parent = t.entry[j].parent
        /\ u.entry[j].rights = t.entry[j].rights
        /\ u.entry[j].depth = t.entry[j].depth
  BY DEF Revoked, SameCapability
<1>3. \A j \in Live(u) : u.entry[j].parent # None => u.entry[j].parent \in Live(u)
  BY DEF LinksAgree
<1>4. QED
  BY <1>1, <1>2, <1>3 DEF Narrowed

\* cap_revoke, all in one, for any order the scratch queue may hold.
LEMMA RevokePreserves ==
  ASSUME NEW t \in CapabilityTable, WellFormed(t),
         NEW src \in CapHandle, src.index \in Live(t),
         NEW order, IsQueueOrder(t, src.index, order)
  PROVE  LET u == cap_revoke(t, src, order)
             s == src.index
         IN /\ u \in CapabilityTable
            /\ WellFormed(u)
            /\ Revoked(t, u, s, Below(t, s), order)
            /\ Descendants(t, s) = Below(t, s)
            /\ s \notin Below(t, s)
            /\ Below(t, s) \subseteq Live(t)
<1> DEFINE u == cap_revoke(t, src, order)
           s == src.index
           D == Descendants(t, s)
<1>1. /\ D = Below(t, s) /\ s \notin D /\ D \subseteq Live(t)
      /\ \A c \in Live(t) : c \in D <=> t.entry[c].parent \in D \union {s}
  <2>1. s \in Index
    BY TableFields
  <2>2. QED
    BY <2>1, DescendantsAreBelow, BelowClosed DEF WellFormed
<1>2. Enumerates(order, D)
  BY DEF Enumerates, IsQueueOrder
<1>3. u \in CapabilityTable /\ Revoked(t, u, s, D, order)
  BY <1>1, <1>2, RevokeFields
<1> HIDE DEF u, D
<1>4. FreeListSound(u) /\ FreeListComplete(u)
  BY <1>1, <1>2, <1>3, RevokeFreeList DEF WellFormed
<1>5. LinksAgree(u) /\ OnePredecessor(u) /\ ChildListComplete(u)
  <2>1. IsSubtree(t, s, D)
    BY <1>1 DEF IsSubtree
  <2>2. QED
    BY <1>1, <1>3, <2>1, RevokeForest DEF WellFormed
<1>6. Narrowed(u)
  BY <1>3, <1>5, RevokeNarrowed DEF WellFormed
<1>7. QED
  BY <1>1, <1>3, <1>4, <1>5, <1>6 DEF WellFormed, u, D

-----------------------------------------------------------------------------
(* The machine of CapTableSpec.                                            *)

\* The inductive invariant.  The free list is needed because install writes
\* the slot it pops; the forest because revoke and drop follow its links; the
\* depths because they are what keeps the forest without cycles.
IInv == TypeOK /\ WellFormed(table)

LEMMA InitIInv == Init => IInv
  BY NewTableType, NewTableWellFormed DEF Init, IInv, TypeOK

\* The handles Bury records are handles.
LEMMA HandlesAreHandles ==
  ASSUME NEW t \in CapabilityTable, NEW i \in Index
  PROVE  HandleOf(t, i) \in CapHandle
  BY TableFields DEF HandleOf, CapHandle

\* One step of each operation, in terms of the relations above.
LEMMA InsertRootStep ==
  ASSUME IInv, NEW r \in RightsChoices, NEW o \in Objects,
         InsertRoot([rights |-> r, object |-> o])
  PROVE  /\ table' \in CapabilityTable /\ WellFormed(table')
         /\ table'.generation = table.generation
         /\ NewLinks(table, [rights |-> r, object |-> o], None, 0, table', table.free_head)
         /\ dead' = dead
<1>1. [rights |-> r, object |-> o] \in Capability
  BY CapTableSpecAssumption DEF Capability
<1>2. ~is_full(table) /\ table' = install(table, [rights |-> r, object |-> o], None, 0) /\ dead' = dead
  BY DEF InsertRoot, insert_root, insert_root_result
<1>3. FitsUnder(table, [rights |-> r, object |-> o], None, 0) /\ 0 \in 0 .. MaxDepth
  BY CapTableAssumption DEF FitsUnder
<1>4. QED
  BY <1>1, <1>2, <1>3, InstallPreserves DEF IInv, TypeOK

LEMMA CopyStep ==
  ASSUME IInv, NEW src \in CapHandle, NEW r \in RightsChoices, Copy(src, r)
  PROVE  LET e == table.entry[src.index]
         IN /\ table' \in CapabilityTable /\ WellFormed(table')
            /\ table'.generation = table.generation
            /\ NewLinks(table, [rights |-> r, object |-> e.object], e.parent, e.depth,
                        table', table.free_head)
            /\ dead' = dead
<1> DEFINE e == table.entry[src.index]
           cap == [rights |-> r, object |-> e.object]
<1>1. resolves(table, src) /\ r \subseteq e.rights /\ ~is_full(table)
  BY DEF Copy, cap_copy_result, entry_of
<1>2. src.index \in Live(table) /\ e \in Entry
  BY <1>1, ResolvedIsLive DEF IInv, TypeOK
<1>3. cap \in Capability /\ e.depth \in 0 .. MaxDepth
  BY <1>2, CapTableSpecAssumption DEF Capability, Entry
<1>4. e.parent \in Live(table) \union {None}
  BY <1>2 DEF IInv, WellFormed, LinksAgree
<1>5. FitsUnder(table, cap, e.parent, e.depth)
  BY <1>1, <1>2 DEF FitsUnder, IInv, WellFormed, Narrowed
<1>6. table' = install(table, cap, e.parent, e.depth) /\ dead' = dead
  BY DEF Copy, cap_copy, entry_of
<1>7. QED
  BY <1>1, <1>3, <1>4, <1>5, <1>6, InstallPreserves DEF IInv, TypeOK

LEMMA DeriveStep ==
  ASSUME IInv, NEW src \in CapHandle, NEW r \in RightsChoices, NEW o \in Objects,
         Derive(src, r, o)
  PROVE  LET e == table.entry[src.index]
         IN /\ table' \in CapabilityTable /\ WellFormed(table')
            /\ table'.generation = table.generation
            /\ NewLinks(table, [rights |-> r, object |-> o], src.index, e.depth + 1,
                        table', table.free_head)
            /\ dead' = dead
<1> DEFINE e == table.entry[src.index]
           cap == [rights |-> r, object |-> o]
<1>1. resolves(table, src) /\ r \subseteq e.rights /\ ~is_full(table) /\ ~(e.depth + 1 > MaxDepth)
  BY DEF Derive, cap_derive_result, entry_of
<1>2. src.index \in Live(table) /\ e \in Entry /\ src.index # None
  BY <1>1, ResolvedIsLive, TableFields, LinkFacts DEF IInv, TypeOK
<1>3. cap \in Capability
  BY CapTableSpecAssumption DEF Capability
<1>4. e.depth + 1 \in 0 .. MaxDepth
  <2>1. e.depth \in 0 .. MaxDepth
    BY <1>2 DEF Entry
  <2> HIDE DEF e
  <2>2. QED
    BY <1>1, <2>1, CapTableAssumption
<1>5. FitsUnder(table, cap, src.index, e.depth + 1)
  BY <1>1, <1>2 DEF FitsUnder
<1>6. table' = install(table, cap, src.index, e.depth + 1) /\ dead' = dead
  BY DEF Derive, cap_derive, entry_of
<1> HIDE DEF e, cap
<1>7. table \in CapabilityTable /\ WellFormed(table) /\ src.index \in Live(table) \union {None}
  BY <1>2 DEF IInv, TypeOK
<1>8. QED
  BY <1>1, <1>3, <1>4, <1>5, <1>6, <1>7, InstallPreserves DEF e, cap

\* Drop and Take free one childless slot and remember its handle.
DropLike(h) ==
  /\ resolves(table, h)
  /\ table' \in CapabilityTable
  /\ WellFormed(table')
  /\ Dropped(table, table', h.index)
  /\ MayFree({h.index})
  /\ Bury({h.index})

LEMMA DropStep ==
  ASSUME IInv, NEW h \in CapHandle, Drop(h) \/ Take(h)
  PROVE  DropLike(h)
<1>1. resolves(table, h) /\ table.entry[h.index].first_child = None
  BY DEF Drop, Take, cap_drop_result, entry_of
<1>2. h.index \in Live(table)
  BY <1>1, ResolvedIsLive DEF IInv, TypeOK
<1>3. table' = cap_drop(table, h) /\ MayFree({h.index}) /\ Bury({h.index})
  BY DEF Drop, Take, cap_take
<1>4. QED
  BY <1>1, <1>2, <1>3, DropPreserves DEF IInv, TypeOK, DropLike

RevokeLike(src) ==
  LET B == Below(table, src.index)
  IN /\ resolves(table, src)
     /\ table' \in CapabilityTable
     /\ WellFormed(table')
     /\ \E order : Revoked(table, table', src.index, B, order)
     /\ src.index \notin B
     /\ B \subseteq Live(table)
     /\ MayFree(B)
     /\ Bury(B)

LEMMA RevokeStep ==
  ASSUME IInv, NEW src \in CapHandle, Revoke(src)
  PROVE  RevokeLike(src)
<1> DEFINE D == Descendants(table, src.index)
<1>1. resolves(table, src)
  BY DEF Revoke, cap_revoke_result
<1>2. src.index \in Live(table)
  BY <1>1, ResolvedIsLive DEF IInv, TypeOK
<1>3. PICK order : /\ IsQueueOrder(table, src.index, order)
                   /\ table' = cap_revoke(table, src, order)
  BY DEF Revoke
<1>4. MayFree(D) /\ Bury(D)
  BY DEF Revoke
<1>5. /\ table' \in CapabilityTable
      /\ WellFormed(table')
      /\ Revoked(table, table', src.index, Below(table, src.index), order)
      /\ D = Below(table, src.index)
      /\ src.index \notin Below(table, src.index)
      /\ Below(table, src.index) \subseteq Live(table)
  BY <1>2, <1>3, RevokePreserves DEF IInv, TypeOK
<1> HIDE DEF D
<1>6. MayFree(Below(table, src.index)) /\ Bury(Below(table, src.index))
  BY <1>4, <1>5
<1>7. QED
  BY <1>1, <1>5, <1>6 DEF RevokeLike

\* Burying slots keeps dead a set of handles.
LEMMA BuryType ==
  ASSUME IInv, NEW S \in SUBSET Index, Bury(S)
  PROVE  dead' \in SUBSET CapHandle
  BY HandlesAreHandles DEF IInv, TypeOK, Bury

LEMMA NextIInv == IInv /\ [Next]_vars => IInv'
<1> SUFFICES ASSUME IInv, [Next]_vars PROVE IInv'
  OBVIOUS
<1>0. SUFFICES table' \in CapabilityTable /\ WellFormed(table') /\ dead' \in SUBSET CapHandle
  BY DEF IInv, TypeOK, WellFormed, FreeListSound, FreeListComplete, FreeSlots, NextFreeClosed,
         LinksAgree, OnePredecessor, ChildListComplete, Narrowed, Live, NextSibling, FirstChild,
         SiblingClosed
<1>1. table \in CapabilityTable /\ WellFormed(table) /\ dead \in SUBSET CapHandle
  BY DEF IInv, TypeOK
<1>2. ASSUME NEW r \in RightsChoices, NEW o \in Objects, InsertRoot([rights |-> r, object |-> o])
      PROVE  table' \in CapabilityTable /\ WellFormed(table') /\ dead' \in SUBSET CapHandle
  BY <1>1, <1>2, InsertRootStep
<1>3. ASSUME NEW src \in CapHandle, NEW r \in RightsChoices, Copy(src, r)
      PROVE  table' \in CapabilityTable /\ WellFormed(table') /\ dead' \in SUBSET CapHandle
  BY <1>1, <1>3, CopyStep
<1>4. ASSUME NEW src \in CapHandle, NEW r \in RightsChoices, NEW o \in Objects, Derive(src, r, o)
      PROVE  table' \in CapabilityTable /\ WellFormed(table') /\ dead' \in SUBSET CapHandle
  BY <1>1, <1>4, DeriveStep
<1>5. ASSUME NEW src \in CapHandle, Revoke(src)
      PROVE  table' \in CapabilityTable /\ WellFormed(table') /\ dead' \in SUBSET CapHandle
  <2>1. RevokeLike(src)
    BY <1>5, RevokeStep
  <2>2. Below(table, src.index) \in SUBSET Index
    BY <1>1, <2>1, TableFields DEF RevokeLike
  <2>3. QED
    BY <2>1, <2>2, BuryType DEF RevokeLike
<1>6. ASSUME NEW h \in CapHandle, Drop(h) \/ Take(h)
      PROVE  table' \in CapabilityTable /\ WellFormed(table') /\ dead' \in SUBSET CapHandle
  <2>1. DropLike(h)
    BY <1>6, DropStep
  <2>2. {h.index} \in SUBSET Index
    BY <1>1, <2>1, ResolvedIsLive, TableFields DEF DropLike
  <2>3. QED
    BY <2>1, <2>2, BuryType DEF DropLike
<1>7. CASE Refused \/ UNCHANGED vars
  BY <1>1, <1>7 DEF Refused, vars
<1>8. QED
  BY <1>2, <1>3, <1>4, <1>5, <1>6, <1>7 DEF Next

\* Every reachable table is well typed and well formed, for every capacity,
\* depth limit and generation width: the invariant behind all of cap/table.rs.
THEOREM TableInvariant == Spec => []IInv
  BY InitIInv, NextIInv, PTL DEF Spec

\* Every slot, link, generation and depth stays in its range.
THEOREM TypeCorrect == Spec => []TypeOK
<1>1. IInv => TypeOK
  BY DEF IInv
<1>2. QED
  BY <1>1, TableInvariant, PTL

\* The free list holds every free slot exactly once and nothing else.
THEOREM FreeListCorrect == Spec => []FreeListExact
<1>1. IInv => FreeListExact
  BY DEF IInv, WellFormed, FreeListExact
<1>2. QED
  BY <1>1, TableInvariant, PTL

\* Every capability is on its parent's child list, once, and the walk of
\* unlink_from_siblings finds it there.
THEOREM ForestCorrect == Spec => []ForestExact
<1>1. IInv => ForestExact
  BY UnlinkFinds DEF IInv, WellFormed, ForestExact, TypeOK
<1>2. QED
  BY <1>1, TableInvariant, PTL

\* No capability holds a right that its parent lacks.
THEOREM NarrowingCorrect == Spec => []Narrowing
<1>1. IInv => Narrowing
  BY DEF IInv, WellFormed, Narrowing
<1>2. QED
  BY <1>1, TableInvariant, PTL

\* cap_revoke frees exactly what was derived from its argument.
THEOREM RevokeCorrect == Spec => RevokeExact
<1> DEFINE A == \A src \in CapHandle : Revoke(src) =>
                  /\ src.index \notin Below(table, src.index)
                  /\ Live(table)' = Live(table) \ Below(table, src.index)
                  /\ \A i \in Live(table)' : HandleOf(table, i)' = HandleOf(table, i)
<1>1. IInv => A
  <2>1. SUFFICES ASSUME IInv, NEW src \in CapHandle, Revoke(src)
                 PROVE  /\ src.index \notin Below(table, src.index)
                        /\ Live(table') = Live(table) \ Below(table, src.index)
                        /\ \A i \in Live(table') : HandleOf(table', i) = HandleOf(table, i)
    BY DEF Live, HandleOf
  <2> DEFINE B == Below(table, src.index)
  <2>2. RevokeLike(src)
    BY <2>1, RevokeStep
  <2>3. PICK order : Revoked(table, table', src.index, B, order)
    BY <2>2 DEF RevokeLike
  <2>4. src.index \notin B /\ Live(table') = Live(table) \ B
    BY <2>2, <2>3 DEF RevokeLike, Revoked
  <2>5. \A i \in Index \ B : table'.generation[i] = table.generation[i]
    BY <2>3 DEF Revoked
  <2>6. Live(table') \subseteq Index \ B
    BY <2>4 DEF Live
  <2>7. \A i \in Live(table') : HandleOf(table', i) = HandleOf(table, i)
    BY <2>5, <2>6 DEF HandleOf
  <2>8. QED
    BY <2>4, <2>7
<1>2. QED
  BY <1>1, TableInvariant, PTL DEF RevokeExact

\* No operation changes what a surviving capability grants.
THEOREM ImmutableCorrect == Spec => CapabilitiesImmutable
<1> DEFINE A == \A i \in Live(table) \intersect Live(table)' :
                  SameCapability(table.entry[i], table'.entry[i])
<1>1. IInv /\ [Next]_vars => A \/ UNCHANGED vars
  <2>1. SUFFICES ASSUME IInv, Next
                 PROVE  \A i \in Live(table) \intersect Live(table') :
                          SameCapability(table.entry[i], table'.entry[i])
    BY DEF Live
  <2>2. ASSUME NEW cap, NEW q, NEW d, NewLinks(table, cap, q, d, table', table.free_head)
        PROVE  \A i \in Live(table) : SameCapability(table.entry[i], table'.entry[i])
    BY <2>2 DEF NewLinks
  <2>3. ASSUME NEW r \in RightsChoices, NEW o \in Objects, InsertRoot([rights |-> r, object |-> o])
        PROVE  \A i \in Live(table) : SameCapability(table.entry[i], table'.entry[i])
    BY <2>1, <2>2, <2>3, InsertRootStep
  <2>4. ASSUME NEW src \in CapHandle, NEW r \in RightsChoices, Copy(src, r)
        PROVE  \A i \in Live(table) : SameCapability(table.entry[i], table'.entry[i])
    BY <2>1, <2>2, <2>4, CopyStep
  <2>5. ASSUME NEW src \in CapHandle, NEW r \in RightsChoices, NEW o \in Objects, Derive(src, r, o)
        PROVE  \A i \in Live(table) : SameCapability(table.entry[i], table'.entry[i])
    BY <2>1, <2>2, <2>5, DeriveStep
  <2>6. ASSUME NEW src \in CapHandle, Revoke(src)
        PROVE  \A i \in Live(table') : SameCapability(table.entry[i], table'.entry[i])
    BY <2>1, <2>6, RevokeStep DEF RevokeLike, Revoked
  <2>7. ASSUME NEW h \in CapHandle, Drop(h) \/ Take(h)
        PROVE  \A i \in Live(table') : SameCapability(table.entry[i], table'.entry[i])
    BY <2>1, <2>7, DropStep DEF DropLike, Dropped
  <2>8. ASSUME Refused
        PROVE  \A i \in Live(table) : SameCapability(table.entry[i], table'.entry[i])
    BY <2>8 DEF Refused, vars, SameCapability
  <2>9. QED
    BY <2>1, <2>3, <2>4, <2>5, <2>6, <2>7, <2>8 DEF Next
<1>2. QED
  BY <1>1, TableInvariant, PTL DEF CapabilitiesImmutable, Spec

-----------------------------------------------------------------------------
(* Stale handles, as long as no generation wraps.                          *)

\* A freed handle's generation is behind its slot's.
BehindDead(t, S) == \A h \in S : h.generation < t.generation[h.index]

SInv == IInv /\ BehindDead(table, dead)

\* Freeing the slots of F one generation on keeps every dead handle behind.
LEMMA BuriedBehind ==
  ASSUME IInv, BehindDead(table, dead), MaxGeneration + 1 < GenModulus,
         NEW F \in SUBSET Index, MayFree(F), Bury(F),
         \A j \in Index : table'.generation[j] =
            IF j \in F THEN (table.generation[j] + 1) % GenModulus ELSE table.generation[j]
  PROVE  BehindDead(table', dead')
<1>1. \A j \in Index : table.generation[j] \in Nat
  BY TableFields DEF IInv, TypeOK, Generation
<1>2. MaxGeneration \in Nat /\ GenModulus \in Nat
  BY CapTableAssumption, CapTableSpecAssumption DEF Generation
<1>3. \A j \in F : table'.generation[j] = table.generation[j] + 1
  <2>1. SUFFICES ASSUME NEW j \in F
                 PROVE  (table.generation[j] + 1) % GenModulus = table.generation[j] + 1
    OBVIOUS
  <2>2. table.generation[j] <= MaxGeneration /\ table.generation[j] \in Nat
    BY <1>1 DEF MayFree
  <2>3. table.generation[j] + 1 \in Nat /\ table.generation[j] + 1 < GenModulus
    BY <1>2, <2>2
  <2>4. QED
    BY <1>2, <2>3
<1>4. \A j \in Index : table.generation[j] <= table'.generation[j] /\ table'.generation[j] \in Nat
  BY <1>1, <1>3
<1>5. ASSUME NEW h \in dead'
      PROVE  h.generation < table'.generation[h.index]
  <2>1. CASE h \in dead
    <3>1. h.generation < table.generation[h.index] /\ h.index \in Index /\ h.generation \in Nat
      BY <2>1 DEF BehindDead, IInv, TypeOK, CapHandle, Generation
    <3>2. QED
      BY <1>1, <1>4, <3>1
  <2>2. CASE \E i \in F : h = HandleOf(table, i)
    BY <1>1, <1>3, <2>2 DEF HandleOf
  <2>3. QED
    BY <2>1, <2>2, <1>5 DEF Bury
<1>6. QED
  BY <1>5 DEF BehindDead

\* A handle whose slot was freed never resolves again, provided that no slot
\* is freed often enough for its u32 generation to wrap.
THEOREM StaleCorrect ==
  ASSUME MaxGeneration + 1 < GenModulus
  PROVE  Spec => []StaleHandlesDead
<1>1. Init => SInv
  BY InitIInv DEF SInv, BehindDead, Init
<1>2. SInv /\ [Next]_vars => SInv'
  <2> SUFFICES ASSUME SInv, [Next]_vars PROVE SInv'
    OBVIOUS
  <2>1. IInv /\ IInv' /\ BehindDead(table, dead)
    BY NextIInv DEF SInv
  <2>2. SUFFICES BehindDead(table', dead')
    BY <2>1 DEF SInv, BehindDead
  <2>3. CASE table'.generation = table.generation /\ dead' = dead
    BY <2>1, <2>3 DEF BehindDead
  <2>4. ASSUME NEW src \in CapHandle, Revoke(src)
        PROVE  BehindDead(table', dead')
    <3> DEFINE B == Below(table, src.index)
    <3>1. RevokeLike(src)
      BY <2>1, <2>4, RevokeStep
    <3>2. B \in SUBSET Index /\ MayFree(B) /\ Bury(B)
      BY <2>1, <3>1, TableFields DEF RevokeLike, IInv, TypeOK
    <3>3. \A j \in Index : table'.generation[j] =
             IF j \in B THEN (table.generation[j] + 1) % GenModulus ELSE table.generation[j]
      BY <3>1 DEF RevokeLike, Revoked
    <3> HIDE DEF B
    <3>4. QED
      BY <2>1, <3>2, <3>3, BuriedBehind
  <2>5. ASSUME NEW h \in CapHandle, Drop(h) \/ Take(h)
        PROVE  BehindDead(table', dead')
    <3> DEFINE F == {h.index}
    <3>1. DropLike(h)
      BY <2>1, <2>5, DropStep
    <3>2. F \in SUBSET Index /\ MayFree(F) /\ Bury(F)
      BY <2>1, <3>1, ResolvedIsLive, TableFields DEF DropLike, IInv, TypeOK
    <3>3. table.generation \in [Index -> Generation]
      BY <2>1, TableFields DEF IInv, TypeOK
    <3>4. \A j \in Index : table'.generation[j] =
             IF j \in F THEN (table.generation[j] + 1) % GenModulus ELSE table.generation[j]
      BY <3>1, <3>3 DEF DropLike, Dropped
    <3> HIDE DEF F
    <3>5. QED
      BY <2>1, <3>2, <3>4, BuriedBehind
  <2>6. ASSUME NEW r \in RightsChoices, NEW o \in Objects, InsertRoot([rights |-> r, object |-> o])
        PROVE  table'.generation = table.generation /\ dead' = dead
    BY <2>1, <2>6, InsertRootStep
  <2>7. ASSUME NEW src \in CapHandle, NEW r \in RightsChoices, Copy(src, r)
        PROVE  table'.generation = table.generation /\ dead' = dead
    BY <2>1, <2>7, CopyStep
  <2>8. ASSUME NEW src \in CapHandle, NEW r \in RightsChoices, NEW o \in Objects, Derive(src, r, o)
        PROVE  table'.generation = table.generation /\ dead' = dead
    BY <2>1, <2>8, DeriveStep
  <2>9. CASE Refused \/ UNCHANGED vars
    BY <2>3, <2>9 DEF Refused, vars
  <2>10. QED
    BY <2>3, <2>4, <2>5, <2>6, <2>7, <2>8, <2>9 DEF Next
<1>3. SInv => StaleHandlesDead
  <2>1. SUFFICES ASSUME SInv, NEW h \in dead, resolves(table, h) PROVE FALSE
    BY DEF StaleHandlesDead
  <2>2. h.generation < table.generation[h.index] /\ table.generation[h.index] = h.generation
    BY <2>1 DEF SInv, BehindDead, resolves
  <2>3. h.generation \in Nat
    BY <2>1 DEF SInv, IInv, TypeOK, CapHandle, Generation
  <2>4. QED
    BY <2>2, <2>3
<1>4. QED
  BY <1>1, <1>2, <1>3, PTL DEF Spec
=============================================================================
