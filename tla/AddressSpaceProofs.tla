-------------------------- MODULE AddressSpaceProofs --------------------------
(***************************************************************************)
(* Proofs of the properties of AddressSpaceSpec, for every page size,      *)
(* number of frames, table capacity and set of addresses: table trees      *)
(* never share a frame, an address translates to exactly what was mapped,  *)
(* no cached translation is stale, a map fails for cause only, and the     *)
(* host doubles give the answers of the board.  The lemmas about addresses,*)
(* trees, walks and the allocator come first; they mention no variable.    *)
(***************************************************************************)
EXTENDS AddressSpaceSpec, KernelLemmas

-----------------------------------------------------------------------------
(* Addresses and their indices.                                            *)

\* Shifting twice is shifting once by the sum.
LEMMA DivDiv ==
  ASSUME NEW x \in Nat, NEW a \in Nat, a > 0, NEW b \in Nat, b > 0
  PROVE  x \div (b * a) = (x \div a) \div b
<1> DEFINE q == x \div a
           r == x % a
           q2 == q \div b
           r2 == q % b
<1>1. q \in Nat /\ r \in 0 .. (a - 1) /\ x = a * q + r
  BY DivMod
<1>2. q2 \in Nat /\ r2 \in 0 .. (b - 1) /\ q = b * q2 + r2
  <2> HIDE DEF q
  <2>1. QED
    BY <1>1, DivMod
<1> HIDE DEF q, r, q2, r2
<1>3. x = (b * a) * q2 + (a * r2 + r)
  BY <1>1, <1>2, SMT
<1>4. b * a \in Nat /\ b * a > 0
  BY SMT
<1>5. a * r2 + r \in 0 .. (b * a - 1)
  <2>1. PICK k \in Nat : b = r2 + 1 + k
    BY <1>2, SMT
  <2>2. b * a = a * r2 + a + a * k /\ a * k \in Nat /\ a * r2 \in Nat
    BY <1>2, <2>1, SMT
  <2>3. QED
    BY <1>1, <2>2, SMT
<1> DEFINE c == b * a
           s == a * r2 + r
<1>6. c \in Nat /\ c > 0 /\ s \in 0 .. (c - 1) /\ x = c * q2 + s
  BY <1>3, <1>4, <1>5
<1> HIDE DEF c, s
<1>7. x \div c = q2
  BY <1>2, <1>6, DivUnique
<1>8. QED
  BY <1>7 DEF c, q, q2

LEMMA Spans ==
  /\ PageSize \in Nat /\ PageSize > 1
  /\ EntrySpan[1] = PageSize
  /\ EntrySpan[2] = PageSize * EntrySpan[1]
  /\ EntrySpan[3] = PageSize * EntrySpan[2]
  /\ EntrySpan[4] = PageSize * EntrySpan[3]
  /\ USERSPACE_VA_LIMIT = PageSize * EntrySpan[4]
  /\ \A s \in 1 .. 4 : EntrySpan[s] \in Nat /\ EntrySpan[s] > 0
<1>1. PageSize \in Nat /\ PageSize > 1
  BY PmmAssumption, AddressSpaceAssumption
<1> DEFINE l2 == PageSize * PageSize
           l1 == PageSize * l2
           l0 == PageSize * l1
<1>2. /\ EntrySpan[1] = PageSize /\ EntrySpan[2] = l2
      /\ EntrySpan[3] = l1 /\ EntrySpan[4] = l0
  BY DEF EntrySpan
<1>3. l2 \in Nat /\ l2 > 0
  BY <1>1, SMT
<1>4. l1 \in Nat /\ l1 > 0
  <2> HIDE DEF l2
  <2>1. QED
    BY <1>1, <1>3, SMT
<1>5. l0 \in Nat /\ l0 > 0
  <2> HIDE DEF l1
  <2>1. QED
    BY <1>1, <1>4, SMT
<1> HIDE DEF l0
<1>6. \A s \in 1 .. 4 : EntrySpan[s] \in Nat /\ EntrySpan[s] > 0
  <2>1. \A s \in 1 .. 4 : s = 1 \/ s = 2 \/ s = 3 \/ s = 4
    OBVIOUS
  <2> HIDE DEF l2, l1
  <2>2. QED
    BY <1>1, <1>2, <1>3, <1>4, <1>5, <2>1
<1>7. QED
  BY <1>1, <1>2, <1>6 DEF USERSPACE_VA_LIMIT, l0

\* The indices of an address are the digits of its page number.
LEMMA Digits ==
  ASSUME NEW va \in Nat
  PROVE  /\ \A s \in 1 .. 4 : va_index(va, s) \in WordIndex
         /\ \A s \in 1 .. 4 : va \div EntrySpan[s] \in Nat
         /\ \A s \in 1 .. 3 : /\ va \div EntrySpan[s + 1] = (va \div EntrySpan[s]) \div PageSize
                              /\ va \div EntrySpan[s] =
                                   PageSize * (va \div EntrySpan[s + 1]) + va_index(va, s)
         /\ va < USERSPACE_VA_LIMIT => va_index(va, 4) = va \div EntrySpan[4]
<1>1. \A s \in 1 .. 4 : va \div EntrySpan[s] \in Nat
  BY Spans, DivMod
<1>2. ASSUME NEW s \in 1 .. 4
      PROVE  va_index(va, s) \in WordIndex
  <2> DEFINE q == va \div EntrySpan[s]
  <2>1. q \in Nat
    BY <1>1
  <2>2. va_index(va, s) = q % PageSize
    BY DEF va_index
  <2> HIDE DEF q
  <2>3. QED
    BY <2>1, <2>2, Spans, DivMod DEF WordIndex
<1>3. ASSUME NEW s \in 1 .. 3
      PROVE  /\ va \div EntrySpan[s + 1] = (va \div EntrySpan[s]) \div PageSize
             /\ va \div EntrySpan[s] = PageSize * (va \div EntrySpan[s + 1]) + va_index(va, s)
  <2> DEFINE a == EntrySpan[s]
             q == va \div a
  <2>1. s = 1 \/ s = 2 \/ s = 3
    OBVIOUS
  <2>2. a \in Nat /\ a > 0 /\ EntrySpan[s + 1] = PageSize * a
    BY <2>1, Spans
  <2> HIDE DEF a
  <2>3. va \div (PageSize * a) = q \div PageSize
    BY <2>2, Spans, DivDiv
  <2>4. q \in Nat /\ va_index(va, s) = q % PageSize
    BY <1>1 DEF va_index, a
  <2> HIDE DEF q
  <2>5. q = PageSize * (q \div PageSize) + (q % PageSize)
    BY <2>4, Spans, DivMod
  <2>6. QED
    BY <2>2, <2>3, <2>4, <2>5 DEF q, a
<1>4. ASSUME va < USERSPACE_VA_LIMIT
      PROVE  va_index(va, 4) = va \div EntrySpan[4]
  <2> DEFINE a == EntrySpan[4]
             q == va \div a
             r == va % a
  <2>1. a \in Nat /\ a > 0 /\ va < PageSize * a
    BY <1>4, Spans
  <2> HIDE DEF a
  <2>2. q \in Nat /\ r \in Nat /\ va = a * q + r
    BY <2>1, DivMod
  <2>3. va_index(va, 4) = q % PageSize
    BY DEF va_index, a
  <2> HIDE DEF q, r
  <2>4. q < PageSize
    <3> SUFFICES ASSUME q >= PageSize PROVE FALSE
      BY <2>2, Spans
    <3>1. PICK k \in Nat : q = PageSize + k
      BY <2>2, Spans
    <3>2. a * q = PageSize * a + a * k /\ a * k \in Nat /\ PageSize * a \in Nat
      BY <2>1, <3>1, Spans, SMT
    <3>3. QED
      BY <2>1, <2>2, <3>2, SMT
  <2>5. q % PageSize = q
    BY <2>2, <2>4, Spans, SMT
  <2>6. QED
    BY <2>3, <2>5 DEF q, a
<1>5. QED
  BY <1>1, <1>2, <1>3, <1>4

Indices(va) == <<va_index(va, 4), va_index(va, 3), va_index(va, 2), va_index(va, 1)>>

\* Two addresses have the same indices exactly when they lie in one page.
LEMMA SamePage ==
  ASSUME NEW va \in 0 .. (USERSPACE_VA_LIMIT - 1), NEW vb \in 0 .. (USERSPACE_VA_LIMIT - 1)
  PROVE  Indices(va) = Indices(vb) <=> va \div PageSize = vb \div PageSize
<1>1. va \in Nat /\ vb \in Nat /\ va < USERSPACE_VA_LIMIT /\ vb < USERSPACE_VA_LIMIT
  <2>1. USERSPACE_VA_LIMIT \in Nat
    BY Spans, SMT
  <2>2. QED
    BY <2>1
<1> DEFINE Q(x, s) == x \div EntrySpan[s]
<1>2. \A s \in 1 .. 3 : /\ Q(va, s) = PageSize * Q(va, s + 1) + va_index(va, s)
                        /\ Q(vb, s) = PageSize * Q(vb, s + 1) + va_index(vb, s)
                        /\ Q(va, s + 1) = Q(va, s) \div PageSize
                        /\ Q(vb, s + 1) = Q(vb, s) \div PageSize
  BY <1>1, Digits
<1>3. Q(va, 4) = va_index(va, 4) /\ Q(vb, 4) = va_index(vb, 4)
  BY <1>1, Digits
<1>4. Q(va, 1) = va \div PageSize /\ Q(vb, 1) = vb \div PageSize
  BY Spans
<1>5. \A s \in 1 .. 4 : va_index(va, s) = Q(va, s) % PageSize /\ va_index(vb, s) = Q(vb, s) % PageSize
  BY DEF va_index
<1> HIDE DEF Q
<1>6. ASSUME Indices(va) = Indices(vb)
      PROVE  Q(va, 1) = Q(vb, 1)
  <2>1. \A s \in 1 .. 4 : va_index(va, s) = va_index(vb, s)
    <3>1. \A s \in 1 .. 4 : s = 1 \/ s = 2 \/ s = 3 \/ s = 4
      OBVIOUS
    <3>2. QED
      BY <1>6, <3>1 DEF Indices
  <2>2. Q(va, 4) = Q(vb, 4)
    BY <1>3, <2>1
  <2>3. Q(va, 3) = Q(vb, 3)
    BY <1>2, <2>1, <2>2
  <2>4. Q(va, 2) = Q(vb, 2)
    BY <1>2, <2>1, <2>3
  <2>5. QED
    BY <1>2, <2>1, <2>4
<1>7. ASSUME Q(va, 1) = Q(vb, 1)
      PROVE  Indices(va) = Indices(vb)
  <2>1. Q(va, 2) = Q(vb, 2)
    BY <1>2, <1>7
  <2>2. Q(va, 3) = Q(vb, 3)
    BY <1>2, <2>1
  <2>3. Q(va, 4) = Q(vb, 4)
    BY <1>2, <2>2
  <2>4. QED
    BY <1>5, <1>7, <2>1, <2>2, <2>3 DEF Indices
<1>8. QED
  BY <1>4, <1>6, <1>7

LEMMA PageBase ==
  ASSUME NEW va \in Nat
  PROVE  LET base == va - (va % PageSize)
         IN /\ base \in Nat /\ base <= va /\ base % PageSize = 0
            /\ base \div PageSize = va \div PageSize
            /\ va % PageSize = 0 => base = va
            /\ va = PageSize * (va \div PageSize) + (va % PageSize)
            /\ va \div PageSize \in Nat
<1> DEFINE q == va \div PageSize
           r == va % PageSize
<1>1. q \in Nat /\ r \in 0 .. (PageSize - 1) /\ va = PageSize * q + r
  BY Spans, DivMod
<1> HIDE DEF q, r
<1>2. va - r = PageSize * q + 0 /\ va - r \in Nat /\ va - r <= va /\ (r = 0 => va - r = va)
  BY <1>1, Spans, SMT
<1>3. (PageSize * q + 0) \div PageSize = q /\ (PageSize * q + 0) % PageSize = 0
  BY <1>1, Spans, DivUnique
<1>4. QED
  BY <1>1, <1>2, <1>3 DEF q, r

\* A multiple of the page size is the address of its page.
LEMMA PageAddress ==
  ASSUME NEW page \in Nat
  PROVE  /\ page * PageSize \in Nat
         /\ (page * PageSize) \div PageSize = page
         /\ (page * PageSize) % PageSize = 0
<1>1. page * PageSize = PageSize * page + 0 /\ page * PageSize \in Nat
  BY Spans, SMT
<1>2. (PageSize * page + 0) \div PageSize = page /\ (PageSize * page + 0) % PageSize = 0
  BY Spans, DivUnique
<1>3. QED
  BY <1>1, <1>2

\* The addresses below the first L2 entry.
LEMMA FirstEntry ==
  ASSUME NEW va \in 0 .. (USERSPACE_VA_LIMIT - 1)
  PROVE  va < EntrySpan[2] <=> va_index(va, 4) = 0 /\ va_index(va, 3) = 0 /\ va_index(va, 2) = 0
<1>1. va \in Nat /\ va < USERSPACE_VA_LIMIT
  <2>1. USERSPACE_VA_LIMIT \in Nat
    BY Spans, SMT
  <2>2. QED
    BY <2>1
<1> DEFINE Q(s) == va \div EntrySpan[s]
           i(s) == va_index(va, s)
<1>2. /\ Q(2) = PageSize * Q(3) + i(2)
      /\ Q(3) = PageSize * Q(4) + i(3)
      /\ Q(4) = i(4)
      /\ Q(2) \in Nat /\ Q(3) \in Nat /\ Q(4) \in Nat
      /\ i(2) \in Nat /\ i(3) \in Nat /\ i(4) \in Nat
  BY <1>1, Digits DEF WordIndex
<1>3. va < EntrySpan[2] <=> Q(2) = 0
  <2> DEFINE a == EntrySpan[2]
             q == va \div a
             r == va % a
  <2>1. a \in Nat /\ a > 0
    BY Spans
  <2> HIDE DEF a
  <2>2. q \in Nat /\ r \in 0 .. (a - 1) /\ va = a * q + r
    BY <1>1, <2>1, DivMod
  <2> HIDE DEF q, r
  <2>3. CASE q = 0
    <3>1. a * q = 0
      BY <2>1, <2>3, SMT
    <3>2. va < a
      BY <2>1, <2>2, <3>1
    <3>3. QED
      BY <2>3, <3>2 DEF q, a
  <2>4. CASE q # 0
    <3>1. PICK k \in Nat : q = 1 + k
      BY <2>2, <2>4, SMT
    <3>2. a * q = a + a * k /\ a * k \in Nat
      BY <2>1, <3>1, SMT
    <3>3. ~(va < a)
      BY <2>1, <2>2, <3>2
    <3>4. QED
      BY <2>4, <3>3 DEF q, a
  <2>5. QED
    BY <2>3, <2>4
<1> HIDE DEF Q, i
<1>4. ASSUME NEW a \in Nat, NEW b \in Nat
      PROVE  PageSize * a + b = 0 <=> a = 0 /\ b = 0
  <2>1. a = 0 => PageSize * a = 0
    BY Spans, SMT
  <2>2. a > 0 => PageSize * a > 0
    BY Spans, SMT
  <2>3. PageSize * a \in Nat
    BY Spans, SMT
  <2>4. QED
    BY <2>1, <2>2, <2>3
<1>5. /\ Q(3) = 0 <=> i(4) = 0 /\ i(3) = 0
      /\ Q(2) = 0 <=> Q(3) = 0 /\ i(2) = 0
  BY <1>2, <1>4
<1>6. QED
  BY <1>3, <1>5 DEF i

-----------------------------------------------------------------------------
(* Trees.                                                                  *)

\* Memory is an array of pages.
IsMemory(m) == m = [f \in Frame |-> [i \in WordIndex |-> m[f][i]]]

\* A descriptor that names a frame.
Points(word) == word.kind \in {"table", "page"}

\* What a frame is used for: a table of level 0 to 3, a mapped page (4), nothing
\* (5: it is free), or something outside the trees (6).
Level == 0 .. 6

TablesPoint(lvl, m) ==
  \A f \in Frame : lvl[f] <= 2 => \A i \in WordIndex :
    /\ m[f][i].kind \in {"zero", "block", "table"}
    /\ m[f][i].kind = "zero" => m[f][i] = ZeroWord
    /\ m[f][i].kind = "table" => m[f][i].pa \in Frame /\ lvl[m[f][i].pa] = lvl[f] + 1

LeavesPoint(lvl, m) ==
  \A f \in Frame : lvl[f] = 3 => \A i \in WordIndex :
    /\ m[f][i].kind \in {"zero", "page"}
    /\ m[f][i].kind = "zero" => m[f][i] = ZeroWord
    /\ m[f][i].kind = "page" => m[f][i].pa \in Frame /\ lvl[m[f][i].pa] = 4

OnePlace(lvl, m) ==
  \A f, g \in Frame : \A i, j \in WordIndex :
    (/\ lvl[f] <= 3 /\ lvl[g] <= 3 /\ Points(m[f][i]) /\ Points(m[g][j])
     /\ m[f][i].pa = m[g][j].pa) => f = g /\ i = j

SomePlace(lvl, m) ==
  \A g \in Frame : lvl[g] \in 1 .. 4 =>
    \E f \in Frame : \E i \in WordIndex :
      lvl[f] = lvl[g] - 1 /\ Points(m[f][i]) /\ m[f][i].pa = g

Tree(lvl, m, bitmap) ==
  /\ lvl \in [Frame -> Level]
  /\ IsMemory(m)
  /\ bitmap = {f \in Frame : lvl[f] # 5}
  /\ TablesPoint(lvl, m)
  /\ LeavesPoint(lvl, m)
  /\ OnePlace(lvl, m)
  /\ SomePlace(lvl, m)

\* Frame f holds page q, and nothing else changed.
PageSet(m, f, q, n) ==
  /\ IsMemory(n)
  /\ \A i \in WordIndex : n[f][i] = q[i]
  /\ \A g \in Frame \ {f} : \A i \in WordIndex : n[g][i] = m[g][i]

\* Word i of frame f is w, and nothing else changed.
WordSet(m, f, i, w, n) ==
  /\ IsMemory(n)
  /\ n[f][i] = w
  /\ \A g \in Frame : \A j \in WordIndex : (g # f \/ j # i) => n[g][j] = m[g][j]

LEMMA FrameFacts == Frame \subseteq Nat /\ None \notin Frame /\ {0, 1, 2, 3} \subseteq Frame /\ IsFiniteSet(Frame)
<1>1. NumFrames \in Nat /\ NumFrames > 3
  BY AddressSpaceAssumption
<1>2. Frame \subseteq Nat /\ {0, 1, 2, 3} \subseteq Frame
  BY <1>1 DEF Frame
<1>3. IsFiniteSet(Frame)
  BY <1>1, FS_Interval DEF Frame
<1>4. QED
  BY <1>2, <1>3, PmmAssumption

LEMMA MemoryDomain ==
  ASSUME NEW m, IsMemory(m)
  PROVE  DOMAIN m = Frame /\ \A f \in Frame : DOMAIN m[f] = WordIndex
<1> DEFINE n == [f \in Frame |-> [i \in WordIndex |-> m[f][i]]]
<1>1. m = n
  BY DEF IsMemory
<1>2. DOMAIN n = Frame /\ \A f \in Frame : DOMAIN n[f] = WordIndex
  OBVIOUS
<1> HIDE DEF n
<1>3. QED
  BY <1>1, <1>2

LEMMA SetPage ==
  ASSUME NEW m, IsMemory(m), NEW f \in Frame, NEW q, q = [i \in WordIndex |-> q[i]]
  PROVE  PageSet(m, f, q, [m EXCEPT ![f] = q])
<1> DEFINE n == [m EXCEPT ![f] = q]
<1>1. DOMAIN m = Frame /\ \A g \in Frame : DOMAIN m[g] = WordIndex
  BY MemoryDomain
<1>2. n[f] = q /\ \A g \in Frame \ {f} : n[g] = m[g]
  BY <1>1
<1>3. \A g \in Frame : m[g] = [i \in WordIndex |-> m[g][i]]
  BY DEF IsMemory
<1>4. \A g \in Frame : n[g] = [i \in WordIndex |-> n[g][i]]
  BY <1>2, <1>3
<1>5. n = [g \in Frame |-> n[g]]
  BY <1>1
<1> HIDE DEF n
<1>6. n = [g \in Frame |-> [i \in WordIndex |-> n[g][i]]]
  BY <1>4, <1>5
<1>7. PageSet(m, f, q, n)
  BY <1>2, <1>6 DEF PageSet, IsMemory
<1>8. QED
  BY <1>7 DEF n

LEMMA SetWord ==
  ASSUME NEW m, IsMemory(m), NEW f \in Frame, NEW i \in WordIndex, NEW w
  PROVE  WordSet(m, f, i, w, [m EXCEPT ![f][i] = w])
<1> DEFINE q == [m[f] EXCEPT ![i] = w]
           n == [m EXCEPT ![f] = q]
<1>1. DOMAIN m[f] = WordIndex
  BY MemoryDomain
<1>2. q = [j \in WordIndex |-> q[j]] /\ q[i] = w /\ \A j \in WordIndex \ {i} : q[j] = m[f][j]
  BY <1>1
<1>3. [m EXCEPT ![f][i] = w] = n
  OBVIOUS
<1> HIDE DEF q
<1>4. PageSet(m, f, q, n)
  BY <1>2, SetPage
<1> HIDE DEF n
<1>5. WordSet(m, f, i, w, n)
  BY <1>2, <1>4 DEF PageSet, WordSet
<1>6. QED
  BY <1>3, <1>5

\* The words of the trees that the operations write.
LEMMA Kinds ==
  /\ ZeroWord.kind = "zero"
  /\ \A f : table_descriptor(f).kind = "table" /\ table_descriptor(f).pa = f
  /\ \A f, b : /\ page_descriptor(f, b).kind = "page" /\ page_descriptor(f, b).pa = f
               /\ page_descriptor(f, b).bits = b
  BY DEF ZeroWord, table_descriptor, page_descriptor

\* walk_or_alloc_table hangs the zeroed frame n into entry i of table f.
Hung(m, f, i, n, u) ==
  /\ IsMemory(u)
  /\ u[f][i] = table_descriptor(n)
  /\ \A j \in WordIndex : u[n][j] = ZeroWord
  /\ \A g \in Frame \ {n} : \A j \in WordIndex : (g # f \/ j # i) => u[g][j] = m[g][j]

LEMMA Hang ==
  ASSUME NEW m, IsMemory(m), NEW f \in Frame, NEW i \in WordIndex, NEW n \in Frame, n # f
  PROVE  Hung(m, f, i, n, [m EXCEPT ![n] = ZeroPage, ![f][i] = table_descriptor(n)])
<1> DEFINE v == [m EXCEPT ![n] = ZeroPage]
           u == [v EXCEPT ![f][i] = table_descriptor(n)]
<1>1. ZeroPage = [j \in WordIndex |-> ZeroPage[j]] /\ \A j \in WordIndex : ZeroPage[j] = ZeroWord
  BY DEF ZeroPage
<1>2. PageSet(m, n, ZeroPage, v)
  BY <1>1, SetPage
<1>3. [m EXCEPT ![n] = ZeroPage, ![f][i] = table_descriptor(n)] = u
  OBVIOUS
<1> HIDE DEF v
<1>4. WordSet(v, f, i, table_descriptor(n), u)
  BY <1>2, SetWord DEF PageSet
<1> HIDE DEF u
<1>5. Hung(m, f, i, n, u)
  BY <1>1, <1>2, <1>4 DEF PageSet, WordSet, Hung
<1>6. QED
  BY <1>3, <1>5

\* The same tree with more in it: frames in use keep their use, and pointers
\* and pages their value.
Grown(lvl, m, lvl2, m2) ==
  /\ \A f \in Frame : IF lvl[f] # 5 THEN lvl2[f] = lvl[f] ELSE lvl2[f] \in {1, 2, 3, 5}
  /\ \A f \in Frame : \A i \in WordIndex :
       (lvl[f] <= 3 /\ m[f][i].kind # "zero") => m2[f][i] = m[f][i]
  /\ \A f \in Frame : lvl[f] \in {4, 6} => \A i \in WordIndex : m2[f][i] = m[f][i]

LEMMA HungTree ==
  ASSUME NEW lvl, NEW m, NEW B, Tree(lvl, m, B),
         NEW f \in Frame, lvl[f] <= 2, NEW i \in WordIndex, m[f][i].kind = "zero",
         NEW n \in Frame, lvl[n] = 5, NEW u, Hung(m, f, i, n, u)
  PROVE  LET l == [lvl EXCEPT ![n] = lvl[f] + 1]
         IN Tree(l, u, B \union {n}) /\ Grown(lvl, m, l, u)
<1> DEFINE l == [lvl EXCEPT ![n] = lvl[f] + 1]
<1>1. /\ lvl \in [Frame -> Level] /\ lvl[f] \in 0 .. 2
      /\ l \in [Frame -> Level] /\ l[n] = lvl[f] + 1 /\ l[n] \in 1 .. 3
      /\ \A g \in Frame \ {n} : l[g] = lvl[g]
      /\ f # n
  BY DEF Tree, Level
<1> HIDE DEF l
<1>2. IsMemory(u) /\ B \union {n} = {g \in Frame : l[g] # 5}
  BY <1>1 DEF Tree, Hung
<1>3. \A g \in Frame : lvl[g] <= 3 => \A j \in WordIndex : Points(m[g][j]) => m[g][j].pa # n
  BY <1>1 DEF Tree, TablesPoint, LeavesPoint, Points, Level
<1>4. TablesPoint(l, u)
  <2> SUFFICES ASSUME NEW g \in Frame, l[g] <= 2, NEW j \in WordIndex
               PROVE  /\ u[g][j].kind \in {"zero", "block", "table"}
                      /\ u[g][j].kind = "zero" => u[g][j] = ZeroWord
                      /\ u[g][j].kind = "table" => u[g][j].pa \in Frame /\ l[u[g][j].pa] = l[g] + 1
    BY DEF TablesPoint
  <2>1. CASE g = n
    BY <2>1, Kinds DEF Hung
  <2>2. CASE g = f /\ j = i
    BY <1>1, <2>2, Kinds DEF Hung
  <2>3. CASE g # n /\ ~(g = f /\ j = i)
    <3>1. u[g][j] = m[g][j] /\ l[g] = lvl[g]
      BY <1>1, <2>3 DEF Hung
    <3>2. /\ m[g][j].kind \in {"zero", "block", "table"}
          /\ m[g][j].kind = "zero" => m[g][j] = ZeroWord
          /\ m[g][j].kind = "table" => m[g][j].pa \in Frame /\ lvl[m[g][j].pa] = lvl[g] + 1
      BY <3>1 DEF Tree, TablesPoint
    <3>3. m[g][j].kind = "table" => m[g][j].pa # n
      BY <1>1, <1>3, <3>1 DEF Points, Level
    <3>4. QED
      BY <1>1, <3>1, <3>2, <3>3
  <2>4. QED
    BY <2>1, <2>2, <2>3
<1>5. LeavesPoint(l, u)
  BY <1>1, <1>3, Kinds DEF Tree, LeavesPoint, Hung, Points
<1>6. \A g \in Frame : \A j \in WordIndex :
        (l[g] <= 3 /\ Points(u[g][j])) =>
          \/ g = f /\ j = i /\ u[g][j].pa = n
          \/ lvl[g] <= 3 /\ u[g][j] = m[g][j] /\ (g # f \/ j # i)
  BY <1>1, Kinds DEF Hung, Points
<1>7. OnePlace(l, u)
  BY <1>3, <1>6 DEF Tree, OnePlace
<1>8. SomePlace(l, u)
  <2> SUFFICES ASSUME NEW g \in Frame, l[g] \in 1 .. 4
               PROVE  \E h \in Frame : \E j \in WordIndex :
                        l[h] = l[g] - 1 /\ Points(u[h][j]) /\ u[h][j].pa = g
    BY DEF SomePlace
  <2>1. CASE g = n
    <3>1. l[f] = l[g] - 1 /\ Points(u[f][i]) /\ u[f][i].pa = g
      BY <1>1, <2>1, Kinds DEF Hung, Points
    <3>2. QED
      BY <3>1
  <2>2. CASE g # n
    <3>1. PICK h \in Frame, j \in WordIndex : lvl[h] = lvl[g] - 1 /\ Points(m[h][j]) /\ m[h][j].pa = g
      BY <1>1, <2>2 DEF Tree, SomePlace
    <3>2. h # n
      BY <1>1, <2>2, <3>1
    <3>3. h # f \/ j # i
      BY <3>1 DEF Points
    <3>4. u[h][j] = m[h][j] /\ l[h] = l[g] - 1
      BY <1>1, <2>2, <3>1, <3>2, <3>3 DEF Hung
    <3>5. QED
      BY <3>1, <3>4
  <2>3. QED
    BY <2>1, <2>2
<1>9. Grown(lvl, m, l, u)
  BY <1>1 DEF Hung, Grown
<1>10. QED
  BY <1>1, <1>2, <1>4, <1>5, <1>7, <1>8, <1>9 DEF Tree, l

\* map writes a leaf that names a frame outside the trees.
LEMMA LeafTree ==
  ASSUME NEW lvl, NEW m, NEW B, Tree(lvl, m, B),
         NEW t \in Frame, lvl[t] = 3, NEW i \in WordIndex, m[t][i].kind = "zero",
         NEW pa \in Frame, lvl[pa] = 6, NEW w, w.kind = "page", w.pa = pa,
         NEW u, WordSet(m, t, i, w, u)
  PROVE  Tree([lvl EXCEPT ![pa] = 4], u, B)
<1> DEFINE l == [lvl EXCEPT ![pa] = 4]
<1>1. /\ lvl \in [Frame -> Level]
      /\ l \in [Frame -> Level] /\ l[pa] = 4 /\ t # pa
      /\ \A g \in Frame \ {pa} : l[g] = lvl[g]
  BY DEF Tree, Level
<1> HIDE DEF l
<1>2. IsMemory(u) /\ B = {g \in Frame : l[g] # 5}
  BY <1>1 DEF Tree, WordSet
<1>3. \A g \in Frame : lvl[g] <= 3 => \A j \in WordIndex : Points(m[g][j]) => m[g][j].pa # pa
  BY <1>1 DEF Tree, TablesPoint, LeavesPoint, Points, Level
<1>4. TablesPoint(l, u)
  <2> SUFFICES ASSUME NEW g \in Frame, l[g] <= 2, NEW j \in WordIndex
               PROVE  /\ u[g][j].kind \in {"zero", "block", "table"}
                      /\ u[g][j].kind = "zero" => u[g][j] = ZeroWord
                      /\ u[g][j].kind = "table" => u[g][j].pa \in Frame /\ l[u[g][j].pa] = l[g] + 1
    BY DEF TablesPoint
  <2>1. g # pa /\ g # t /\ u[g][j] = m[g][j] /\ l[g] = lvl[g]
    BY <1>1 DEF WordSet
  <2>2. /\ m[g][j].kind \in {"zero", "block", "table"}
        /\ m[g][j].kind = "zero" => m[g][j] = ZeroWord
        /\ m[g][j].kind = "table" => m[g][j].pa \in Frame /\ lvl[m[g][j].pa] = lvl[g] + 1
    BY <2>1 DEF Tree, TablesPoint
  <2>3. m[g][j].kind = "table" => m[g][j].pa # pa
    BY <1>1, <2>1, <2>2 DEF Level
  <2>4. QED
    BY <1>1, <2>1, <2>2, <2>3
<1>5. LeavesPoint(l, u)
  BY <1>1, <1>3 DEF Tree, LeavesPoint, WordSet, Points
<1>6. \A g \in Frame : \A j \in WordIndex :
        (l[g] <= 3 /\ Points(u[g][j])) =>
          \/ g = t /\ j = i /\ u[g][j].pa = pa
          \/ lvl[g] <= 3 /\ u[g][j] = m[g][j] /\ (g # t \/ j # i)
  BY <1>1 DEF WordSet, Points
<1>7. OnePlace(l, u)
  BY <1>3, <1>6 DEF Tree, OnePlace
<1>8. SomePlace(l, u)
  <2> SUFFICES ASSUME NEW g \in Frame, l[g] \in 1 .. 4
               PROVE  \E h \in Frame : \E j \in WordIndex :
                        l[h] = l[g] - 1 /\ Points(u[h][j]) /\ u[h][j].pa = g
    BY DEF SomePlace
  <2>1. CASE g = pa
    <3>1. l[t] = l[g] - 1 /\ Points(u[t][i]) /\ u[t][i].pa = g
      BY <1>1, <2>1 DEF WordSet, Points
    <3>2. QED
      BY <3>1
  <2>2. CASE g # pa
    <3>1. PICK h \in Frame, j \in WordIndex : lvl[h] = lvl[g] - 1 /\ Points(m[h][j]) /\ m[h][j].pa = g
      BY <1>1, <2>2 DEF Tree, SomePlace
    <3>2. h # pa
      BY <1>1, <2>2, <3>1
    <3>3. h # t \/ j # i
      BY <3>1 DEF Points
    <3>4. u[h][j] = m[h][j] /\ l[h] = l[g] - 1
      BY <1>1, <2>2, <3>1, <3>2, <3>3 DEF WordSet
    <3>5. QED
      BY <3>1, <3>4
  <2>3. QED
    BY <2>1, <2>2
<1>9. QED
  BY <1>1, <1>2, <1>4, <1>5, <1>7, <1>8 DEF Tree, l

\* unmap zeroes a leaf; its frame is outside the trees then.
LEMMA ClearedTree ==
  ASSUME NEW lvl, NEW m, NEW B, Tree(lvl, m, B),
         NEW t \in Frame, lvl[t] = 3, NEW i \in WordIndex, m[t][i].kind = "page",
         NEW u, WordSet(m, t, i, ZeroWord, u)
  PROVE  /\ m[t][i].pa \in Frame /\ lvl[m[t][i].pa] = 4
         /\ Tree([lvl EXCEPT ![m[t][i].pa] = 6], u, B)
<1> DEFINE pa == m[t][i].pa
           l == [lvl EXCEPT ![pa] = 6]
<1>1. pa \in Frame /\ lvl[pa] = 4
  BY DEF Tree, LeavesPoint
<1>2. /\ lvl \in [Frame -> Level]
      /\ l \in [Frame -> Level] /\ l[pa] = 6 /\ t # pa
      /\ \A g \in Frame \ {pa} : l[g] = lvl[g]
  BY <1>1 DEF Tree, Level
<1> HIDE DEF l
<1>3. IsMemory(u) /\ B = {g \in Frame : l[g] # 5}
  BY <1>1, <1>2 DEF Tree, WordSet
<1>4. \A g \in Frame : lvl[g] <= 3 => \A j \in WordIndex :
        (Points(m[g][j]) /\ m[g][j].pa = pa) => g = t /\ j = i
  BY <1>1 DEF Tree, OnePlace, Points
<1>5. \A g \in Frame : \A j \in WordIndex :
        (l[g] <= 3 /\ Points(u[g][j])) =>
          lvl[g] <= 3 /\ u[g][j] = m[g][j] /\ m[g][j].pa # pa
  BY <1>2, <1>4, Kinds DEF WordSet, Points
<1>6. TablesPoint(l, u)
  <2> SUFFICES ASSUME NEW g \in Frame, l[g] <= 2, NEW j \in WordIndex
               PROVE  /\ u[g][j].kind \in {"zero", "block", "table"}
                      /\ u[g][j].kind = "zero" => u[g][j] = ZeroWord
                      /\ u[g][j].kind = "table" => u[g][j].pa \in Frame /\ l[u[g][j].pa] = l[g] + 1
    BY DEF TablesPoint
  <2>1. g # pa /\ g # t /\ u[g][j] = m[g][j] /\ l[g] = lvl[g]
    BY <1>2 DEF WordSet
  <2>2. /\ m[g][j].kind \in {"zero", "block", "table"}
        /\ m[g][j].kind = "zero" => m[g][j] = ZeroWord
        /\ m[g][j].kind = "table" => m[g][j].pa \in Frame /\ lvl[m[g][j].pa] = lvl[g] + 1
    BY <2>1 DEF Tree, TablesPoint
  <2>3. m[g][j].kind = "table" => m[g][j].pa # pa
    BY <1>1, <1>2, <2>1, <2>2 DEF Level
  <2>4. QED
    BY <1>2, <2>1, <2>2, <2>3
<1>7. LeavesPoint(l, u)
  BY <1>2, <1>4, Kinds DEF Tree, LeavesPoint, WordSet, Points
<1>8. OnePlace(l, u)
  BY <1>5 DEF Tree, OnePlace
<1>9. SomePlace(l, u)
  <2> SUFFICES ASSUME NEW g \in Frame, l[g] \in 1 .. 4
               PROVE  \E h \in Frame : \E j \in WordIndex :
                        l[h] = l[g] - 1 /\ Points(u[h][j]) /\ u[h][j].pa = g
    BY DEF SomePlace
  <2>1. g # pa
    BY <1>2
  <2>2. PICK h \in Frame, j \in WordIndex : lvl[h] = lvl[g] - 1 /\ Points(m[h][j]) /\ m[h][j].pa = g
    BY <1>2, <2>1 DEF Tree, SomePlace
  <2>3. h # pa
    BY <1>1, <1>2, <2>1, <2>2
  <2>4. h # t \/ j # i
    BY <2>1, <2>2
  <2>5. u[h][j] = m[h][j] /\ l[h] = l[g] - 1
    BY <1>2, <2>1, <2>2, <2>3, <2>4 DEF WordSet
  <2>6. QED
    BY <2>2, <2>5
<1>10. QED
  BY <1>1, <1>2, <1>3, <1>6, <1>7, <1>8, <1>9 DEF Tree, l

\* A frame outside the trees is taken, written, given back or made a root.
Relabel(lvl, B, n, use, q, l, C) ==
  /\ lvl[n] \in {5, 6} /\ use \in {0, 5, 6}
  /\ use = 0 => q = ZeroPage
  /\ l = [lvl EXCEPT ![n] = use]
  /\ C = IF use = 5 THEN B \ {n} ELSE B \union {n}

LEMMA RelabelledTree ==
  ASSUME NEW lvl, NEW m, NEW B, Tree(lvl, m, B), NEW n \in Frame,
         NEW q, NEW u, PageSet(m, n, q, u),
         NEW use, NEW l, NEW C, Relabel(lvl, B, n, use, q, l, C)
  PROVE  /\ Tree(l, u, C)
         /\ l[n] = use /\ \A g \in Frame \ {n} : l[g] = lvl[g]
<1> USE DEF Relabel
<1>1. /\ lvl \in [Frame -> Level]
      /\ l \in [Frame -> Level] /\ l[n] = use
      /\ \A g \in Frame \ {n} : l[g] = lvl[g]
  BY DEF Tree, Level
<1>2. IsMemory(u) /\ C = {g \in Frame : l[g] # 5}
  BY <1>1 DEF Tree, PageSet
<1>3. \A g \in Frame : lvl[g] <= 3 => \A j \in WordIndex : Points(m[g][j]) => m[g][j].pa # n
  BY <1>1 DEF Tree, TablesPoint, LeavesPoint, Points, Level
<1>4. \A g \in Frame \ {n} : \A j \in WordIndex : u[g][j] = m[g][j]
  BY DEF PageSet
<1>5. use = 0 => \A j \in WordIndex : u[n][j] = ZeroWord
  BY DEF PageSet, ZeroPage
<1>6. \A g \in Frame : \A j \in WordIndex :
        (l[g] <= 3 /\ Points(u[g][j])) => g # n /\ lvl[g] <= 3 /\ u[g][j] = m[g][j]
  BY <1>1, <1>4, <1>5, Kinds DEF Points
<1>7. TablesPoint(l, u)
  <2> SUFFICES ASSUME NEW g \in Frame, l[g] <= 2, NEW j \in WordIndex
               PROVE  /\ u[g][j].kind \in {"zero", "block", "table"}
                      /\ u[g][j].kind = "zero" => u[g][j] = ZeroWord
                      /\ u[g][j].kind = "table" => u[g][j].pa \in Frame /\ l[u[g][j].pa] = l[g] + 1
    BY DEF TablesPoint
  <2>1. CASE g = n
    BY <1>1, <1>5, <2>1, Kinds
  <2>2. CASE g # n
    <3>1. u[g][j] = m[g][j] /\ l[g] = lvl[g]
      BY <1>1, <1>4, <2>2
    <3>2. /\ m[g][j].kind \in {"zero", "block", "table"}
          /\ m[g][j].kind = "zero" => m[g][j] = ZeroWord
          /\ m[g][j].kind = "table" => m[g][j].pa \in Frame /\ lvl[m[g][j].pa] = lvl[g] + 1
      BY <3>1 DEF Tree, TablesPoint
    <3>3. m[g][j].kind = "table" => m[g][j].pa # n
      BY <1>1, <1>3, <3>1 DEF Points, Level
    <3>4. QED
      BY <1>1, <3>1, <3>2, <3>3
  <2>3. QED
    BY <2>1, <2>2
<1>8. LeavesPoint(l, u)
  BY <1>1, <1>3, <1>4 DEF Tree, LeavesPoint, Points
<1>9. OnePlace(l, u)
  BY <1>6 DEF Tree, OnePlace
<1>10. SomePlace(l, u)
  <2> SUFFICES ASSUME NEW g \in Frame, l[g] \in 1 .. 4
               PROVE  \E h \in Frame : \E j \in WordIndex :
                        l[h] = l[g] - 1 /\ Points(u[h][j]) /\ u[h][j].pa = g
    BY DEF SomePlace
  <2>1. g # n /\ l[g] = lvl[g]
    BY <1>1
  <2>2. PICK h \in Frame, j \in WordIndex : lvl[h] = lvl[g] - 1 /\ Points(m[h][j]) /\ m[h][j].pa = g
    BY <2>1 DEF Tree, SomePlace
  <2>3. h # n
    BY <2>1, <2>2
  <2>4. QED
    BY <1>1, <1>4, <2>1, <2>2, <2>3
<1>11. QED
  BY <1>1, <1>2, <1>7, <1>8, <1>9, <1>10 DEF Tree

LEMMA FreedTree ==
  ASSUME NEW lvl, NEW m, NEW B, Tree(lvl, m, B), NEW n \in Frame, lvl[n] = 6
  PROVE  LET l == [lvl EXCEPT ![n] = 5]
         IN Tree(l, m, B \ {n}) /\ l[n] = 5 /\ \A g \in Frame \ {n} : l[g] = lvl[g]
<1> DEFINE l == [lvl EXCEPT ![n] = 5]
           C == B \ {n}
           q0 == m[n]
<1>1. PageSet(m, n, q0, m)
  BY DEF Tree, PageSet
<1>2. Relabel(lvl, B, n, 5, q0, l, C)
  BY DEF Relabel
<1> HIDE DEF l, C, q0
<1>3. Tree(l, m, C) /\ l[n] = 5 /\ \A g \in Frame \ {n} : l[g] = lvl[g]
  BY <1>1, <1>2, RelabelledTree
<1>4. QED
  BY <1>3 DEF l, C

LEMMA TakenTree ==
  ASSUME NEW lvl, NEW m, NEW B, Tree(lvl, m, B), NEW n \in Frame, lvl[n] = 5,
         NEW q, NEW u, PageSet(m, n, q, u)
  PROVE  LET l == [lvl EXCEPT ![n] = 6]
         IN Tree(l, u, B \union {n}) /\ l[n] = 6 /\ \A g \in Frame \ {n} : l[g] = lvl[g]
<1> DEFINE l == [lvl EXCEPT ![n] = 6]
           C == B \union {n}
           q0 == q
<1>2. Relabel(lvl, B, n, 6, q0, l, C)
  BY DEF Relabel
<1> HIDE DEF l, C, q0
<1>3. Tree(l, u, C) /\ l[n] = 6 /\ \A g \in Frame \ {n} : l[g] = lvl[g]
  BY <1>2, RelabelledTree DEF q0
<1>4. QED
  BY <1>3 DEF l, C

LEMMA RootedTree ==
  ASSUME NEW lvl, NEW m, NEW B, Tree(lvl, m, B), NEW n \in Frame, lvl[n] = 5,
         NEW u, PageSet(m, n, ZeroPage, u)
  PROVE  LET l == [lvl EXCEPT ![n] = 0]
         IN Tree(l, u, B \union {n}) /\ l[n] = 0 /\ \A g \in Frame \ {n} : l[g] = lvl[g]
<1> DEFINE l == [lvl EXCEPT ![n] = 0]
           C == B \union {n}
           q0 == ZeroPage
<1>2. Relabel(lvl, B, n, 0, q0, l, C)
  BY DEF Relabel
<1> HIDE DEF l, C, q0
<1>3. Tree(l, u, C) /\ l[n] = 0 /\ \A g \in Frame \ {n} : l[g] = lvl[g]
  BY <1>2, RelabelledTree DEF q0
<1>4. QED
  BY <1>3 DEF l, C

-----------------------------------------------------------------------------
(* What a walk reaches.                                                    *)

\* The word at which a walk from a table of level 3, 2, 1, 0 ends.
At3(m, t, va) == m[t][va_index(va, 1)]

At2(m, t, va) == LET e == m[t][va_index(va, 2)] IN IF e.kind = "table" THEN At3(m, e.pa, va) ELSE e

At1(m, t, va) == LET e == m[t][va_index(va, 3)] IN IF e.kind = "table" THEN At2(m, e.pa, va) ELSE e

Reached(m, t, va) == LET e == m[t][va_index(va, 4)] IN IF e.kind = "table" THEN At1(m, e.pa, va) ELSE e

\* A walk that finds a table at every level ends in table t of level 3.
Path(m, root, va, t1, t2, t) ==
  /\ m[root][va_index(va, 4)].kind = "table" /\ m[root][va_index(va, 4)].pa = t1
  /\ m[t1][va_index(va, 3)].kind = "table" /\ m[t1][va_index(va, 3)].pa = t2
  /\ m[t2][va_index(va, 2)].kind = "table" /\ m[t2][va_index(va, 2)].pa = t

\* Writes outside the tables do not matter.
LEMMA ReachedOutside ==
  ASSUME NEW lvl, NEW m, NEW B, Tree(lvl, m, B), NEW u,
         \A g \in Frame : lvl[g] <= 3 => \A j \in WordIndex : u[g][j] = m[g][j],
         NEW root \in Frame, lvl[root] = 0, NEW va \in Nat
  PROVE  Reached(u, root, va) = Reached(m, root, va)
<1>1. \A s \in 1 .. 4 : va_index(va, s) \in WordIndex
  BY Digits
<1>2. \A t \in Frame : lvl[t] = 3 => At3(u, t, va) = At3(m, t, va)
  BY <1>1 DEF At3
<1>3. \A t \in Frame : lvl[t] = 2 => At2(u, t, va) = At2(m, t, va)
  BY <1>1, <1>2 DEF At2, Tree, TablesPoint
<1>4. \A t \in Frame : lvl[t] = 1 => At1(u, t, va) = At1(m, t, va)
  BY <1>1, <1>3 DEF At1, Tree, TablesPoint
<1>5. QED
  BY <1>1, <1>4 DEF Reached, Tree, TablesPoint

\* A new table adds no translation.
LEMMA ReachedHung ==
  ASSUME NEW lvl, NEW m, NEW B, Tree(lvl, m, B),
         NEW f \in Frame, lvl[f] <= 2, NEW i \in WordIndex, m[f][i].kind = "zero",
         NEW n \in Frame, lvl[n] = 5, NEW u, Hung(m, f, i, n, u),
         NEW root \in Frame, lvl[root] = 0, NEW va \in Nat
  PROVE  Reached(u, root, va) = Reached(m, root, va)
<1>1. \A s \in 1 .. 4 : va_index(va, s) \in WordIndex
  BY Digits
<1>2. /\ \A t \in Frame : lvl[t] <= 3 => \A j \in WordIndex : t # n /\ (u[t][j] = m[t][j] \/ (t = f /\ j = i))
      /\ u[f][i].kind = "table" /\ u[f][i].pa = n /\ m[f][i].kind # "table" /\ m[f][i] = ZeroWord
      /\ \A j \in WordIndex : u[n][j] = ZeroWord /\ ZeroWord.kind # "table"
  BY Kinds DEF Hung, Tree, TablesPoint
<1>3. \A t \in Frame : lvl[t] = 3 => At3(u, t, va) = At3(m, t, va)
  BY <1>1, <1>2 DEF At3
<1>4. At3(u, n, va) = ZeroWord /\ At2(u, n, va) = ZeroWord /\ At1(u, n, va) = ZeroWord
  BY <1>1, <1>2 DEF At3, At2, At1
<1>5. \A t \in Frame : lvl[t] = 2 => At2(u, t, va) = At2(m, t, va)
  BY <1>1, <1>2, <1>3, <1>4 DEF At2, Tree, TablesPoint
<1>6. \A t \in Frame : lvl[t] = 1 => At1(u, t, va) = At1(m, t, va)
  BY <1>1, <1>2, <1>4, <1>5 DEF At1, Tree, TablesPoint
<1>7. QED
  BY <1>1, <1>2, <1>4, <1>6 DEF Reached, Tree, TablesPoint

\* A leaf entry is reached by one root and one page.
LEMMA ReachedLeaf ==
  ASSUME NEW lvl, NEW m, NEW B, Tree(lvl, m, B),
         NEW root \in Frame, lvl[root] = 0, NEW va \in Nat,
         NEW t1 \in Frame, NEW t2 \in Frame, NEW t \in Frame, Path(m, root, va, t1, t2, t),
         NEW w, NEW u, WordSet(m, t, va_index(va, 1), w, u),
         NEW r \in Frame, lvl[r] = 0, NEW vb \in Nat
  PROVE  Reached(u, r, vb) =
           IF r = root /\ Indices(vb) = Indices(va) THEN w ELSE Reached(m, r, vb)
<1>1. \A s \in 1 .. 4 : va_index(va, s) \in WordIndex /\ va_index(vb, s) \in WordIndex
  BY Digits
<1>2. lvl[t1] = 1 /\ lvl[t2] = 2 /\ lvl[t] = 3
  BY <1>1 DEF Path, Tree, TablesPoint
<1>3. /\ \A g \in Frame : lvl[g] <= 2 => \A j \in WordIndex : u[g][j] = m[g][j]
      /\ \A g \in Frame : \A j \in WordIndex : (g # t \/ j # va_index(va, 1)) => u[g][j] = m[g][j]
      /\ u[t][va_index(va, 1)] = w
  BY <1>2 DEF WordSet
<1>4. \A g, h \in Frame : \A i, j \in WordIndex :
        (/\ lvl[g] <= 2 /\ lvl[h] <= 2 /\ m[g][i].kind = "table" /\ m[h][j].kind = "table"
         /\ m[g][i].pa = m[h][j].pa) => g = h /\ i = j
  BY DEF Tree, Level, OnePlace, Points
<1>5. ASSUME NEW g \in Frame, lvl[g] = 3
      PROVE  At3(u, g, vb) = IF g = t /\ va_index(vb, 1) = va_index(va, 1) THEN w ELSE At3(m, g, vb)
  BY <1>1, <1>3 DEF At3
<1> DEFINE D2 == va_index(vb, 1) = va_index(va, 1) /\ va_index(vb, 2) = va_index(va, 2)
           D1 == D2 /\ va_index(vb, 3) = va_index(va, 3)
<1>6. ASSUME NEW g \in Frame, lvl[g] = 2
      PROVE  At2(u, g, vb) = IF g = t2 /\ D2 THEN w ELSE At2(m, g, vb)
  <2> DEFINE e == m[g][va_index(vb, 2)]
  <2>1. u[g][va_index(vb, 2)] = e
    BY <1>1, <1>3, <1>6
  <2>2. e.kind = "table" => e.pa \in Frame /\ lvl[e.pa] = 3
    BY <1>1, <1>6 DEF Tree, TablesPoint
  <2>3. e.kind = "table" /\ e.pa = t <=> g = t2 /\ va_index(vb, 2) = va_index(va, 2)
    BY <1>1, <1>2, <1>4, <1>6 DEF Path
  <2>4. QED
    BY <1>5, <2>1, <2>2, <2>3 DEF At2
<1>7. ASSUME NEW g \in Frame, lvl[g] = 1
      PROVE  At1(u, g, vb) = IF g = t1 /\ D1 THEN w ELSE At1(m, g, vb)
  <2> DEFINE e == m[g][va_index(vb, 3)]
  <2>1. u[g][va_index(vb, 3)] = e
    BY <1>1, <1>3, <1>7
  <2>2. e.kind = "table" => e.pa \in Frame /\ lvl[e.pa] = 2
    BY <1>1, <1>7 DEF Tree, TablesPoint
  <2>3. e.kind = "table" /\ e.pa = t2 <=> g = t1 /\ va_index(vb, 3) = va_index(va, 3)
    BY <1>1, <1>2, <1>4, <1>7 DEF Path
  <2>4. QED
    BY <1>6, <2>1, <2>2, <2>3 DEF At1
<1>8. Indices(vb) = Indices(va) <=> D1 /\ va_index(vb, 4) = va_index(va, 4)
  BY DEF Indices
<1> DEFINE e == m[r][va_index(vb, 4)]
<1>9. u[r][va_index(vb, 4)] = e
  BY <1>1, <1>3
<1>10. e.kind = "table" => e.pa \in Frame /\ lvl[e.pa] = 1
  BY <1>1 DEF Tree, TablesPoint
<1>11. e.kind = "table" /\ e.pa = t1 <=> r = root /\ va_index(vb, 4) = va_index(va, 4)
  BY <1>1, <1>2, <1>4 DEF Path
<1> HIDE DEF D1, D2, e
<1>12. Reached(u, r, vb) = IF e.kind = "table" THEN At1(u, e.pa, vb) ELSE e
  BY <1>9 DEF Reached
<1>13. Reached(m, r, vb) = IF e.kind = "table" THEN At1(m, e.pa, vb) ELSE e
  BY DEF Reached, e
<1>14. e.kind = "table" => At1(u, e.pa, vb) = IF e.pa = t1 /\ D1 THEN w ELSE At1(m, e.pa, vb)
  BY <1>7, <1>10
<1>15. QED
  BY <1>8, <1>11, <1>12, <1>13, <1>14

-----------------------------------------------------------------------------
(* The allocator.                                                          *)

\* The extent is Frame, and no range below which frames are reserved reaches
\* frame lim.
PmmOk(p, lim) ==
  /\ p.extent = [start |-> 0, end |-> NumFrames * PageSize]
  /\ p.hint \in 0 .. NumFrames
  /\ \A i \in DOMAIN p.reserved_ranges :
       p.reserved_ranges[i].end \in Nat /\ p.reserved_ranges[i].end <= lim * PageSize

LEMMA LowestOf ==
  ASSUME NEW S \in SUBSET Nat, S # {}
  PROVE  Lowest(S) \in S
  BY LeastNatural DEF Lowest

LEMMA Extent ==
  ASSUME NEW e, e = [start |-> 0, end |-> NumFrames * PageSize]
  PROVE  /\ frame_count(e) = NumFrames
         /\ \A f \in Frame : /\ frame_addr(e, f) = f * PageSize
                             /\ range_contains(e, f * PageSize)
                             /\ frame_index(e, f * PageSize) = f
<1>1. NumFrames \in Nat /\ PageSize \in Nat /\ PageSize > 1
  BY AddressSpaceAssumption, PmmAssumption
<1>2. ASSUME NEW x \in Nat
      PROVE  x * PageSize \in Nat /\ saturating_sub(x * PageSize, 0) = x * PageSize
             /\ (x * PageSize) \div PageSize = x
  <2>1. x * PageSize \in Nat
    BY <1>1, SMT
  <2>2. (x * PageSize) \div PageSize = x
    BY PageAddress
  <2>3. saturating_sub(x * PageSize, 0) = x * PageSize
    <3> DEFINE y == x * PageSize
    <3>1. y \in Nat
      BY <2>1
    <3> HIDE DEF y
    <3>2. saturating_sub(y, 0) = y
      BY <3>1 DEF saturating_sub
    <3>3. QED
      BY <3>2 DEF y
  <2>4. QED
    BY <2>1, <2>2, <2>3
<1>3. e.start = 0 /\ e.end = NumFrames * PageSize
  OBVIOUS
<1>4. frame_count(e) = NumFrames
  BY <1>1, <1>2, <1>3 DEF frame_count
<1>5. ASSUME NEW f \in Frame
      PROVE  /\ frame_addr(e, f) = f * PageSize
             /\ range_contains(e, f * PageSize)
             /\ frame_index(e, f * PageSize) = f
  <2>1. f \in Nat /\ f < NumFrames
    BY <1>1 DEF Frame
  <2>2. frame_addr(e, f) = f * PageSize
    BY <1>2, <1>3, <2>1 DEF frame_addr
  <2>3. frame_index(e, f * PageSize) = f
    BY <1>2, <1>3, <2>1 DEF frame_index
  <2>4. f * PageSize < NumFrames * PageSize
    <3>1. PICK k \in Nat : NumFrames = f + 1 + k
      BY <1>1, <2>1, SMT
    <3>2. NumFrames * PageSize = f * PageSize + PageSize + k * PageSize /\ k * PageSize \in Nat /\ f * PageSize \in Nat
      BY <1>1, <2>1, <3>1, SMT
    <3>3. QED
      BY <1>1, <3>2, SMT
  <2>5. range_contains(e, f * PageSize)
    BY <1>2, <1>3, <2>1, <2>4 DEF range_contains
  <2>6. QED
    BY <2>2, <2>3, <2>5
<1>6. QED
  BY <1>4, <1>5

LEMMA AllocIndex ==
  ASSUME NEW p, NEW lim, PmmOk(p, lim)
  PROVE  LET n == alloc_index(p)
         IN /\ n = None => Frame \subseteq p.bitmap
            /\ n # None => /\ n \in Frame \ p.bitmap
                           /\ alloc_frame(p, n).bitmap = p.bitmap \union {n}
                           /\ PmmOk(alloc_frame(p, n), lim)
<1> DEFINE n == alloc_index(p)
           forward == ClearFrom(p, p.hint, frame_count(p.extent))
           wrapped == ClearFrom(p, 0, p.hint)
<1>1. NumFrames \in Nat /\ p.hint \in 0 .. NumFrames /\ frame_count(p.extent) = NumFrames
  BY AddressSpaceAssumption, Extent DEF PmmOk
<1>2. /\ forward \subseteq Frame /\ wrapped \subseteq Frame
      /\ forward \intersect p.bitmap = {} /\ wrapped \intersect p.bitmap = {}
      /\ Frame \subseteq p.bitmap \union forward \union wrapped
  BY <1>1 DEF ClearFrom, Frame
<1>3. n = IF forward # {} THEN Lowest(forward) ELSE IF wrapped # {} THEN Lowest(wrapped) ELSE None
  BY DEF alloc_index
<1> HIDE DEF n, forward, wrapped
<1>4. /\ forward # {} => Lowest(forward) \in forward
      /\ wrapped # {} => Lowest(wrapped) \in wrapped
  BY <1>2, LowestOf, FrameFacts
<1>5. /\ n = None => Frame \subseteq p.bitmap
      /\ n # None => n \in Frame \ p.bitmap
  BY <1>2, <1>3, <1>4, FrameFacts
<1>6. n # None => /\ alloc_frame(p, n).bitmap = p.bitmap \union {n}
                  /\ PmmOk(alloc_frame(p, n), lim)
  BY <1>1, <1>5 DEF alloc_frame, PmmOk, Frame
<1>7. QED
  BY <1>5, <1>6 DEF n

LEMMA FreeFrame ==
  ASSUME NEW p, NEW lim \in Nat, PmmOk(p, lim), NEW f \in Frame, f \in p.bitmap, f >= lim
  PROVE  /\ free_frame_result(p, frame_addr(p.extent, f)) = "Ok"
         /\ free_frame(p, f).bitmap = p.bitmap \ {f}
         /\ PmmOk(free_frame(p, f), lim)
<1>1. /\ frame_addr(p.extent, f) = f * PageSize /\ range_contains(p.extent, f * PageSize)
      /\ frame_index(p.extent, f * PageSize) = f
  BY Extent DEF PmmOk
<1>2. ASSUME NEW i \in DOMAIN p.reserved_ranges
      PROVE  ~range_contains(p.reserved_ranges[i], f * PageSize)
  <2>1. PICK k \in Nat : f = lim + k
    <3>1. f \in Nat
      BY FrameFacts
    <3>2. f - lim \in Nat /\ f = lim + (f - lim)
      BY <3>1
    <3>3. QED
      BY <3>2
  <2>2. f * PageSize = lim * PageSize + k * PageSize /\ k * PageSize \in Nat /\ lim * PageSize \in Nat
    BY <2>1, PmmAssumption, SMT
  <2>3. p.reserved_ranges[i].end \in Nat /\ p.reserved_ranges[i].end <= lim * PageSize
    BY DEF PmmOk
  <2> DEFINE a == f * PageSize
             b == lim * PageSize
             c == k * PageSize
             x == p.reserved_ranges[i].end
  <2>4. a = b + c /\ b \in Nat /\ c \in Nat /\ x \in Nat /\ x <= b
    BY <2>2, <2>3
  <2> HIDE DEF a, b, c
  <2>5. QED
    BY <2>4 DEF range_contains, a
<1>3. free_frame_result(p, frame_addr(p.extent, f)) = "Ok"
  BY <1>1, <1>2 DEF free_frame_result
<1>4. free_frame(p, f).bitmap = p.bitmap \ {f} /\ PmmOk(free_frame(p, f), lim)
  BY AddressSpaceAssumption DEF free_frame, PmmOk, Frame
<1>5. QED
  BY <1>3, <1>4

-----------------------------------------------------------------------------
(* The walk of map.                                                        *)

\* Frames that are not in a set of used ones.
FreeCount(B) == NumFrames - Cardinality(B)

LEMMA Counting ==
  ASSUME NEW B \in SUBSET Frame
  PROVE  /\ FreeCount(B) \in Nat
         /\ FreeCount(B) = 0 <=> Frame \subseteq B
         /\ \A n \in Frame \ B : FreeCount(B \union {n}) = FreeCount(B) - 1
<1>1. IsFiniteSet(Frame) /\ Cardinality(Frame) = NumFrames /\ NumFrames \in Nat
  BY AddressSpaceAssumption, FS_Interval DEF Frame
<1>2. IsFiniteSet(B) /\ Cardinality(B) <= NumFrames /\ (NumFrames = Cardinality(B) => Frame = B)
  BY <1>1, FS_Subset
<1>3. Cardinality(B) \in Nat
  BY <1>2, FS_CardinalityType
<1>4. \A n \in Frame \ B : Cardinality(B \union {n}) = Cardinality(B) + 1
  BY <1>2, FS_AddElement
<1>5. Frame \subseteq B => Cardinality(B) = NumFrames
  BY <1>1
<1>6. QED
  BY <1>1, <1>2, <1>3, <1>4, <1>5 DEF FreeCount

\* Every address translates as before.
SameReach(lvl, m, m2) ==
  \A root \in Frame : lvl[root] = 0 =>
    \A va \in Nat : Reached(m2, root, va) = Reached(m, root, va)

\* A walk record, and a walk that went on from memory m and allocator p.
Walk(r, t, m, p) == [result |-> r, table |-> t, mem |-> m, pmm |-> p]

Further(lvl, m, p, lim, l2, m2, p2) ==
  /\ Tree(l2, m2, p2.bitmap)
  /\ PmmOk(p2, lim)
  /\ Grown(lvl, m, l2, m2)
  /\ SameReach(lvl, m, m2)

\* The four outcomes of walk_or_alloc_table at entry i of table f.
Stepped(lvl, m, p, f, i, l2, r, t, m2, p2) ==
  \/ /\ m[f][i].kind = "table" /\ r = "Ok" /\ t = m[f][i].pa
     /\ l2 = lvl /\ m2 = m /\ p2 = p
  \/ /\ m[f][i].kind = "block" /\ r = "AlreadyMapped"
     /\ l2 = lvl /\ m2 = m /\ p2 = p
  \/ /\ m[f][i].kind = "zero" /\ r = "OutOfFrames" /\ FreeCount(p.bitmap) = 0
     /\ l2 = lvl /\ m2 = m /\ p2 = p
  \/ /\ m[f][i].kind = "zero" /\ r = "Ok"
     /\ FreeCount(p.bitmap) > 0 /\ FreeCount(p2.bitmap) = FreeCount(p.bitmap) - 1
     /\ \A j \in WordIndex : m2[t][j].kind = "zero"

StepOk(lvl, m, p, lim, f, i, l2, r, t, m2, p2) ==
  /\ walk_or_alloc_table(Walk("Ok", f, m, p), i) = Walk(r, t, m2, p2)
  /\ Further(lvl, m, p, lim, l2, m2, p2)
  /\ Stepped(lvl, m, p, f, i, l2, r, t, m2, p2)
  /\ r = "Ok" => /\ t \in Frame /\ l2[t] = lvl[f] + 1
                 /\ m2[f][i].kind = "table" /\ m2[f][i].pa = t

LEMMA WalkStep ==
  ASSUME NEW lvl, NEW m, NEW p, Tree(lvl, m, p.bitmap), NEW lim, PmmOk(p, lim),
         NEW f \in Frame, lvl[f] <= 2, NEW i \in WordIndex
  PROVE  \E l2, r, t, m2, p2 : StepOk(lvl, m, p, lim, f, i, l2, r, t, m2, p2)
<1> DEFINE e == m[f][i]
           n == alloc_index(p)
           u == [m EXCEPT ![n] = ZeroPage, ![f][i] = table_descriptor(n)]
           v == walk_or_alloc_table(Walk("Ok", f, m, p), i)
<1>1. v = IF is_table(e) THEN Walk("Ok", e.pa, m, p)
          ELSE IF valid(e) THEN Walk("AlreadyMapped", f, m, p)
          ELSE IF n = None THEN Walk("OutOfFrames", f, m, p)
          ELSE Walk("Ok", n, u, alloc_frame(p, n))
  BY DEF walk_or_alloc_table, Walk, Failed
<1>2. /\ e.kind \in {"zero", "block", "table"}
      /\ e.kind = "table" => e.pa \in Frame /\ lvl[e.pa] = lvl[f] + 1
  BY DEF Tree, TablesPoint
<1>3. Further(lvl, m, p, lim, lvl, m, p)
  BY DEF Further, Grown, SameReach
<1>4. p.bitmap \in SUBSET Frame /\ IsMemory(m)
  BY DEF Tree
<1> HIDE DEF v
<1>5. CASE e.kind = "table"
  <2>1. v = Walk("Ok", e.pa, m, p)
    BY <1>1, <1>5 DEF is_table
  <2>2. Stepped(lvl, m, p, f, i, lvl, "Ok", e.pa, m, p)
    BY <1>5 DEF Stepped
  <2>3. QED
    BY <1>2, <1>3, <1>5, <2>1, <2>2 DEF v, StepOk
<1>6. CASE e.kind = "block"
  <2>1. v = Walk("AlreadyMapped", f, m, p)
    BY <1>1, <1>6 DEF is_table, valid
  <2>2. Stepped(lvl, m, p, f, i, lvl, "AlreadyMapped", f, m, p)
    BY <1>6 DEF Stepped
  <2>3. "AlreadyMapped" # "Ok"
    OBVIOUS
  <2>4. QED
    BY <1>3, <2>1, <2>2, <2>3 DEF v, StepOk
<1>7. CASE e.kind = "zero" /\ n = None
  <2>1. v = Walk("OutOfFrames", f, m, p)
    BY <1>1, <1>7 DEF is_table, valid
  <2>2. FreeCount(p.bitmap) = 0
    BY <1>4, <1>7, AllocIndex, Counting
  <2>3. Stepped(lvl, m, p, f, i, lvl, "OutOfFrames", f, m, p)
    BY <1>7, <2>2 DEF Stepped
  <2>4. "OutOfFrames" # "Ok"
    OBVIOUS
  <2>5. QED
    BY <1>3, <2>1, <2>3, <2>4 DEF v, StepOk
<1>8. CASE e.kind = "zero" /\ n # None
  <2> DEFINE q == alloc_frame(p, n)
             l == [lvl EXCEPT ![n] = lvl[f] + 1]
  <2>1. v = Walk("Ok", n, u, q)
    BY <1>1, <1>8 DEF is_table, valid
  <2>2. n \in Frame \ p.bitmap /\ q.bitmap = p.bitmap \union {n} /\ PmmOk(q, lim)
    BY <1>8, AllocIndex
  <2>3. lvl[n] = 5 /\ n # f /\ lvl \in [Frame -> Level] /\ lvl[f] \in 0 .. 2
    BY <2>2 DEF Tree, Level
  <2>4. Hung(m, f, i, n, u)
    BY <1>4, <2>2, <2>3, Hang
  <2> HIDE DEF n, u, q
  <2>5. Tree(l, u, q.bitmap) /\ Grown(lvl, m, l, u)
    <3>1. Tree(l, u, p.bitmap \union {n}) /\ Grown(lvl, m, l, u)
      BY <1>8, <2>2, <2>3, <2>4, HungTree
    <3>2. QED
      BY <2>2, <3>1
  <2>6. SameReach(lvl, m, u)
    BY <1>8, <2>2, <2>3, <2>4, ReachedHung DEF SameReach
  <2>7. l[n] = lvl[f] + 1
    BY <2>2, <2>3
  <2> HIDE DEF l
  <2>8. Further(lvl, m, p, lim, l, u, q)
    BY <2>2, <2>5, <2>6 DEF Further
  <2>9. FreeCount(p.bitmap) > 0 /\ FreeCount(q.bitmap) = FreeCount(p.bitmap) - 1
    BY <1>4, <2>2, Counting
  <2>10. Stepped(lvl, m, p, f, i, l, "Ok", n, u, q)
    BY <1>8, <2>4, <2>9, Kinds DEF Stepped, Hung
  <2>11. u[f][i].kind = "table" /\ u[f][i].pa = n
    BY <2>4, Kinds DEF Hung
  <2>12. QED
    BY <2>1, <2>2, <2>7, <2>8, <2>10, <2>11 DEF v, StepOk
<1>9. QED
  BY <1>2, <1>5, <1>6, <1>7, <1>8

LEMMA FurtherTrans ==
  ASSUME NEW lvl, NEW m, NEW p, NEW lim, NEW l2, NEW m2, NEW p2, NEW l3, NEW m3, NEW p3,
         Further(lvl, m, p, lim, l2, m2, p2), Further(l2, m2, p2, lim, l3, m3, p3)
  PROVE  Further(lvl, m, p, lim, l3, m3, p3)
<1>1. Grown(lvl, m, l2, m2) /\ Grown(l2, m2, l3, m3)
  BY DEF Further
<1>2. \A f \in Frame : IF lvl[f] # 5 THEN l3[f] = lvl[f] ELSE l3[f] \in {1, 2, 3, 5}
  BY <1>1 DEF Grown
<1>3. \A f \in Frame : \A i \in WordIndex :
        (lvl[f] <= 3 /\ m[f][i].kind # "zero") => m3[f][i] = m[f][i]
  <2> SUFFICES ASSUME NEW f \in Frame, NEW i \in WordIndex, lvl[f] <= 3, m[f][i].kind # "zero"
               PROVE  m3[f][i] = m[f][i]
    OBVIOUS
  <2>1. m2[f][i] = m[f][i] /\ l2[f] = lvl[f]
    BY <1>1 DEF Grown
  <2>2. QED
    BY <1>1, <2>1 DEF Grown
<1>4. \A f \in Frame : lvl[f] \in {4, 6} => \A i \in WordIndex : m3[f][i] = m[f][i]
  BY <1>1 DEF Grown
<1>5. SameReach(lvl, m, m3)
  <2> SUFFICES ASSUME NEW root \in Frame, lvl[root] = 0, NEW va \in Nat
               PROVE  Reached(m3, root, va) = Reached(m, root, va)
    BY DEF SameReach
  <2>1. l2[root] = 0
    BY <1>1 DEF Grown
  <2>2. QED
    BY <2>1 DEF Further, SameReach
<1>6. QED
  BY <1>2, <1>3, <1>4, <1>5 DEF Further, Grown

\* The tables a walk from a table of level 2, 1, 0 does not find.
MissingAt2(m, t, va) == IF m[t][va_index(va, 2)].kind = "zero" THEN 1 ELSE 0

MissingAt1(m, t, va) ==
  LET e == m[t][va_index(va, 3)] IN IF e.kind = "zero" THEN 2 ELSE MissingAt2(m, e.pa, va)

Missing(m, t, va) ==
  LET e == m[t][va_index(va, 4)] IN IF e.kind = "zero" THEN 3 ELSE MissingAt1(m, e.pa, va)

\* What the walk of map leaves, in terms of what the address reached before.
Walked(lvl, m, p, lim, root, va, l2, r, t, m2, p2) ==
  LET e == Reached(m, root, va)
  IN /\ Further(lvl, m, p, lim, l2, m2, p2)
     /\ \/ r = "AlreadyMapped" /\ e.kind = "block"
        \/ r = "OutOfFrames" /\ e.kind = "zero" /\ FreeCount(p.bitmap) < Missing(m, root, va)
        \/ /\ r = "Ok" /\ FreeCount(p.bitmap) >= Missing(m, root, va)
           /\ t \in Frame /\ l2[t] = 3
           /\ m2[t][va_index(va, 1)] = e
           /\ \E t1, t2 \in Frame : Path(m2, root, va, t1, t2, t)

LEMMA WalkOutcome ==
  ASSUME NEW lvl, NEW m, NEW p, Tree(lvl, m, p.bitmap), NEW lim, PmmOk(p, lim),
         NEW root \in Frame, lvl[root] = 0, NEW va \in Nat
  PROVE  \E l2, r, t, m2, p2 : /\ walk(root, m, p, va) = Walk(r, t, m2, p2)
                               /\ Walked(lvl, m, p, lim, root, va, l2, r, t, m2, p2)
<1> DEFINE i4 == va_index(va, 4)
           i3 == va_index(va, 3)
           i2 == va_index(va, 2)
           i1 == va_index(va, 1)
           e == Reached(m, root, va)
           F(q) == FreeCount(q.bitmap)
<1>1. i4 \in WordIndex /\ i3 \in WordIndex /\ i2 \in WordIndex /\ i1 \in WordIndex
  BY Digits
<1>2. PICK l1, r1, t1, m1, p1 : StepOk(lvl, m, p, lim, root, i4, l1, r1, t1, m1, p1)
  <2> HIDE DEF i4
  <2>1. lvl[root] <= 2
    OBVIOUS
  <2>2. QED
    BY <1>1, <2>1, WalkStep
<1>2a. /\ walk_or_alloc_table(Walk("Ok", root, m, p), i4) = Walk(r1, t1, m1, p1)
       /\ Further(lvl, m, p, lim, l1, m1, p1)
       /\ Stepped(lvl, m, p, root, i4, l1, r1, t1, m1, p1)
       /\ r1 = "Ok" => /\ t1 \in Frame /\ l1[t1] = lvl[root] + 1
                       /\ m1[root][i4].kind = "table" /\ m1[root][i4].pa = t1
  BY <1>2 DEF StepOk
<1>3. walk(root, m, p, va) = walk_or_alloc_table(walk_or_alloc_table(Walk(r1, t1, m1, p1), i3), i2)
  BY <1>2a DEF walk, WalkFrom, Walk
<1>4. ASSUME NEW r, NEW t, NEW u, NEW q, NEW i, r # "Ok"
      PROVE  walk_or_alloc_table(Walk(r, t, u, q), i) = Walk(r, t, u, q)
  BY <1>4 DEF walk_or_alloc_table, Walk
<1>5. \A u, t : /\ MissingAt2(u, t, va) \in 0 .. 1 /\ MissingAt1(u, t, va) \in 0 .. 2
                /\ Missing(u, t, va) \in 0 .. 3
  BY DEF MissingAt2, MissingAt1, Missing
<1>6. F(p) \in Nat /\ F(p1) \in Nat
  <2>1. p.bitmap \in SUBSET Frame /\ p1.bitmap \in SUBSET Frame
    BY <1>2a DEF Further, Tree
  <2>2. QED
    BY <2>1, Counting
<1>7. CASE r1 # "Ok"
  <2>1. walk(root, m, p, va) = Walk(r1, t1, m1, p1)
    BY <1>3, <1>4, <1>7
  <2>2. \/ r1 = "AlreadyMapped" /\ e.kind = "block"
        \/ r1 = "OutOfFrames" /\ e.kind = "zero" /\ F(p) < Missing(m, root, va)
    BY <1>2a, <1>7 DEF Stepped, Reached, Missing
  <2>3. Walked(lvl, m, p, lim, root, va, l1, r1, t1, m1, p1)
    BY <1>2a, <2>2 DEF Walked
  <2>4. QED
    BY <2>1, <2>3
<1>8. CASE r1 = "Ok"
  <2>1. t1 \in Frame /\ l1[t1] = 1 /\ m1[root][i4].kind = "table" /\ m1[root][i4].pa = t1
    BY <1>2a, <1>8
  <2>2. Missing(m, root, va) - F(p) = MissingAt1(m1, t1, va) - F(p1)
    BY <1>1, <1>2a, <1>5, <1>6, <1>8 DEF Stepped, Missing, MissingAt1
  <2>3. e = Reached(m1, root, va)
    BY <1>2a DEF Further, SameReach
  <2>4. e = At1(m1, t1, va)
    BY <2>1, <2>3 DEF Reached
  <2>5. Tree(l1, m1, p1.bitmap) /\ PmmOk(p1, lim)
    BY <1>2a DEF Further
  <2>6. PICK l2, r2, t2, m2, p2 : StepOk(l1, m1, p1, lim, t1, i3, l2, r2, t2, m2, p2)
    <3> HIDE DEF i3
    <3>1. l1[t1] <= 2
      BY <2>1
    <3>2. QED
      BY <1>1, <2>1, <2>5, <3>1, WalkStep
  <2>6a. /\ walk_or_alloc_table(Walk("Ok", t1, m1, p1), i3) = Walk(r2, t2, m2, p2)
         /\ Further(l1, m1, p1, lim, l2, m2, p2)
         /\ Stepped(l1, m1, p1, t1, i3, l2, r2, t2, m2, p2)
         /\ r2 = "Ok" => /\ t2 \in Frame /\ l2[t2] = l1[t1] + 1
                         /\ m2[t1][i3].kind = "table" /\ m2[t1][i3].pa = t2
    BY <2>6 DEF StepOk
  <2>7. walk(root, m, p, va) = walk_or_alloc_table(Walk(r2, t2, m2, p2), i2)
    BY <1>3, <1>8, <2>6a
  <2>8. Further(lvl, m, p, lim, l2, m2, p2)
    BY <1>2a, <2>6a, FurtherTrans
  <2>9. F(p2) \in Nat
    <3>1. p2.bitmap \in SUBSET Frame
      BY <2>6a DEF Further, Tree
    <3>2. QED
      BY <3>1, Counting
  <2>10. CASE r2 # "Ok"
    <3>1. walk(root, m, p, va) = Walk(r2, t2, m2, p2)
      BY <1>4, <2>7, <2>10
    <3>2. \/ r2 = "AlreadyMapped" /\ e.kind = "block"
          \/ r2 = "OutOfFrames" /\ e.kind = "zero" /\ F(p1) < MissingAt1(m1, t1, va)
      BY <2>4, <2>6a, <2>10 DEF Stepped, At1, MissingAt1
    <3>3. F(p1) < MissingAt1(m1, t1, va) => F(p) < Missing(m, root, va)
      BY <1>5, <1>6, <2>2
    <3>4. Walked(lvl, m, p, lim, root, va, l2, r2, t2, m2, p2)
      BY <2>8, <3>2, <3>3 DEF Walked
    <3>5. QED
      BY <3>1, <3>4
  <2>11. CASE r2 = "Ok"
    <3>1. t2 \in Frame /\ l2[t2] = 2 /\ m2[t1][i3].kind = "table" /\ m2[t1][i3].pa = t2
      BY <2>1, <2>6a, <2>11
    <3>2. MissingAt1(m1, t1, va) - F(p1) = MissingAt2(m2, t2, va) - F(p2)
      BY <1>1, <2>6a, <1>5, <1>6, <2>9, <2>11 DEF Stepped, MissingAt1, MissingAt2
    <3>3. m2[root][i4].kind = "table" /\ m2[root][i4].pa = t1
      BY <1>1, <2>1, <1>2a, <2>6a DEF Further, Grown
    <3>4. e = At2(m2, t2, va)
      <4>1. e = Reached(m2, root, va)
        BY <2>8 DEF Further, SameReach
      <4>2. QED
        BY <3>1, <3>3, <4>1 DEF Reached, At1
    <3>5. Tree(l2, m2, p2.bitmap) /\ PmmOk(p2, lim)
      BY <2>6a DEF Further
    <3>6. PICK l3, r3, t3, m3, p3 : StepOk(l2, m2, p2, lim, t2, i2, l3, r3, t3, m3, p3)
      <4> HIDE DEF i2
      <4>1. l2[t2] <= 2
        BY <3>1
      <4>2. QED
        BY <1>1, <3>1, <3>5, <4>1, WalkStep
    <3>6a. /\ walk_or_alloc_table(Walk("Ok", t2, m2, p2), i2) = Walk(r3, t3, m3, p3)
           /\ Further(l2, m2, p2, lim, l3, m3, p3)
           /\ Stepped(l2, m2, p2, t2, i2, l3, r3, t3, m3, p3)
           /\ r3 = "Ok" => /\ t3 \in Frame /\ l3[t3] = l2[t2] + 1
                           /\ m3[t2][i2].kind = "table" /\ m3[t2][i2].pa = t3
      BY <3>6 DEF StepOk
    <3>7. walk(root, m, p, va) = Walk(r3, t3, m3, p3)
      BY <2>7, <2>11, <3>6a
    <3>8. Further(lvl, m, p, lim, l3, m3, p3)
      BY <2>8, <3>6a, FurtherTrans
    <3>9. F(p3) \in Nat
      <4>1. p3.bitmap \in SUBSET Frame
        BY <3>6a DEF Further, Tree
      <4>2. QED
        BY <4>1, Counting
    <3>10. CASE r3 # "Ok"
      <4>1. \/ r3 = "AlreadyMapped" /\ e.kind = "block"
            \/ r3 = "OutOfFrames" /\ e.kind = "zero" /\ F(p2) < MissingAt2(m2, t2, va)
        BY <3>4, <3>6a, <3>10 DEF Stepped, At2, MissingAt2
      <4>2. F(p2) < MissingAt2(m2, t2, va) => F(p) < Missing(m, root, va)
        BY <1>5, <1>6, <2>2, <2>9, <3>2
      <4>3. Walked(lvl, m, p, lim, root, va, l3, r3, t3, m3, p3)
        BY <3>8, <4>1, <4>2 DEF Walked
      <4>4. QED
        BY <3>7, <4>3
    <3>11. CASE r3 = "Ok"
      <4>1. t3 \in Frame /\ l3[t3] = 3 /\ m3[t2][i2].kind = "table" /\ m3[t2][i2].pa = t3
        BY <3>1, <3>6a, <3>11
      <4>2. MissingAt2(m2, t2, va) - F(p2) <= 0
        BY <1>5, <2>9, <3>6a, <3>9, <3>11 DEF Stepped, MissingAt2
      <4>3. F(p) >= Missing(m, root, va)
        BY <1>5, <1>6, <2>2, <2>9, <3>2, <4>2
      <4>4. /\ m3[root][i4].kind = "table" /\ m3[root][i4].pa = t1
            /\ m3[t1][i3].kind = "table" /\ m3[t1][i3].pa = t2
        <5>1. l2[root] <= 3 /\ l2[t1] <= 3
          BY <2>1, <1>2a, <2>6a DEF Further, Grown
        <5>2. QED
          BY <1>1, <2>1, <3>1, <3>3, <3>6a, <5>1 DEF Further, Grown
      <4>5. Path(m3, root, va, t1, t2, t3)
        BY <4>1, <4>4 DEF Path
      <4>6. m3[t3][i1] = e
        <5>1. e = Reached(m3, root, va)
          BY <3>8 DEF Further, SameReach
        <5>2. QED
          BY <4>1, <4>4, <5>1 DEF Reached, At1, At2, At3
      <4>7. Walked(lvl, m, p, lim, root, va, l3, r3, t3, m3, p3)
        BY <2>1, <3>1, <3>8, <3>11, <4>1, <4>3, <4>5, <4>6 DEF Walked
      <4>8. QED
        BY <3>7, <4>7
    <3>12. QED
      BY <3>10, <3>11
  <2>12. QED
    BY <2>10, <2>11
<1>9. QED
  BY <1>7, <1>8

-----------------------------------------------------------------------------
(* map, unmap and translate in terms of what an address reaches.           *)

LEMMA LeafOf ==
  ASSUME NEW lvl, NEW m, NEW B, Tree(lvl, m, B), NEW root \in Frame, lvl[root] = 0, NEW va \in Nat
  PROVE  LET e == Reached(m, root, va)
             leaf == leaf_of(root, m, va)
         IN /\ e.kind \in {"zero", "block", "page"}
            /\ e.kind = "zero" => leaf.result \in {"Ok", "NotMapped"} /\ leaf.word = ZeroWord
            /\ e.kind = "block" => leaf.result = "BlockMapped" /\ leaf.word = ZeroWord
            /\ e.kind = "page" =>
                 /\ leaf.result = "Ok" /\ leaf.word = e
                 /\ leaf.table \in Frame /\ lvl[leaf.table] = 3
                 /\ m[leaf.table][va_index(va, 1)] = e
                 /\ leaf.table = read_walk(root, m, va).table
                 /\ \E t1, t2 \in Frame : Path(m, root, va, t1, t2, leaf.table)
<1> DEFINE i4 == va_index(va, 4)
           i3 == va_index(va, 3)
           i2 == va_index(va, 2)
           i1 == va_index(va, 1)
           e == Reached(m, root, va)
           R(r, t) == [result |-> r, table |-> t]
           w == read_walk(root, m, va)
           leaf == leaf_of(root, m, va)
           Err(x) == IF x.kind = "zero" THEN "NotMapped" ELSE "BlockMapped"
<1>1. i4 \in WordIndex /\ i3 \in WordIndex /\ i2 \in WordIndex /\ i1 \in WordIndex
  BY Digits
<1>2. \A t, i : read_table(m, R("Ok", t), i) =
                  IF is_table(m[t][i]) THEN R("Ok", m[t][i].pa)
                  ELSE R(IF valid(m[t][i]) THEN "BlockMapped" ELSE "NotMapped", t)
  BY DEF read_table, Failed
<1>3. ASSUME NEW t \in Frame, lvl[t] <= 2, NEW i \in WordIndex
      PROVE  /\ m[t][i].kind \in {"zero", "block", "table"}
             /\ m[t][i].kind = "zero" => m[t][i] = ZeroWord
             /\ m[t][i].kind = "table" => m[t][i].pa \in Frame /\ lvl[m[t][i].pa] = lvl[t] + 1
             /\ read_table(m, R("Ok", t), i) =
                  IF m[t][i].kind = "table" THEN R("Ok", m[t][i].pa) ELSE R(Err(m[t][i]), t)
  <2>1. /\ m[t][i].kind \in {"zero", "block", "table"}
        /\ m[t][i].kind = "zero" => m[t][i] = ZeroWord
        /\ m[t][i].kind = "table" => m[t][i].pa \in Frame /\ lvl[m[t][i].pa] = lvl[t] + 1
    BY <1>3 DEF Tree, TablesPoint
  <2>2. QED
    BY <1>2, <2>1 DEF is_table, valid
<1>4. \A r, t, i : r # "Ok" => read_table(m, R(r, t), i) = R(r, t)
  BY DEF read_table
<1>5. w = read_table(m, read_table(m, read_table(m, R("Ok", root), i4), i3), i2)
  BY DEF read_walk
<1>6. \A x : Err(x) # "Ok"
  OBVIOUS
<1>7. \A r, t : R(r, t).result = r /\ R(r, t).table = t
  OBVIOUS
<1>8. /\ leaf.result = w.result /\ leaf.table = w.table
      /\ leaf.word = IF w.result = "Ok" THEN m[w.table][i1] ELSE ZeroWord
  BY DEF leaf_of
<1> HIDE DEF w, leaf, R, i4, i3, i2, i1
<1> DEFINE Done(t) == w = R("Ok", t) /\ m[t][i1] = e /\ t \in Frame /\ lvl[t] = 3
                      /\ \E t1, t2 \in Frame : Path(m, root, va, t1, t2, t)
<1>9. \/ \E t : w = R(Err(e), t) /\ e.kind \in {"zero", "block"}
      \/ \E t : Done(t)
  <2> DEFINE e4 == m[root][i4]
  <2>1. CASE e4.kind # "table"
    <3>1. read_table(m, R("Ok", root), i4) = R(Err(e4), root) /\ e4.kind \in {"zero", "block"}
      BY <1>1, <1>3, <2>1
    <3>2. w = R(Err(e4), root)
      BY <1>4, <1>5, <1>6, <3>1
    <3>3. e = e4
      BY <2>1 DEF Reached, i4
    <3>4. QED
      BY <3>1, <3>2, <3>3
  <2>2. CASE e4.kind = "table"
    <3> DEFINE t1 == e4.pa
               e3 == m[t1][i3]
    <3>1. t1 \in Frame /\ lvl[t1] = 1 /\ read_table(m, R("Ok", root), i4) = R("Ok", t1)
      BY <1>1, <1>3, <2>2
    <3>2. w = read_table(m, read_table(m, R("Ok", t1), i3), i2)
      BY <1>5, <3>1
    <3>3. e = At1(m, t1, va)
      BY <2>2 DEF Reached, i4
    <3> HIDE DEF t1
    <3>4. CASE e3.kind # "table"
      <4>1. read_table(m, R("Ok", t1), i3) = R(Err(e3), t1) /\ e3.kind \in {"zero", "block"}
        BY <1>1, <1>3, <3>1, <3>4
      <4>2. w = R(Err(e3), t1)
        BY <1>4, <1>6, <3>2, <4>1
      <4>3. e = e3
        BY <3>3, <3>4 DEF At1, i3
      <4>4. QED
        BY <4>1, <4>2, <4>3
    <3>5. CASE e3.kind = "table"
      <4> DEFINE t2 == e3.pa
                 e2 == m[t2][i2]
      <4>1. t2 \in Frame /\ lvl[t2] = 2 /\ read_table(m, R("Ok", t1), i3) = R("Ok", t2)
        BY <1>1, <1>3, <3>1, <3>5
      <4>2. w = read_table(m, R("Ok", t2), i2)
        BY <3>2, <4>1
      <4>3. e = At2(m, t2, va)
        BY <3>3, <3>5 DEF At1, i3
      <4>4. m[t1][i3].kind = "table" /\ m[t1][i3].pa = t2
        BY <3>5
      <4> HIDE DEF t2
      <4>5. CASE e2.kind # "table"
        <5>1. w = R(Err(e2), t2) /\ e2.kind \in {"zero", "block"}
          BY <1>1, <1>3, <4>1, <4>2, <4>5
        <5>2. e = e2
          BY <4>3, <4>5 DEF At2, i2
        <5>3. QED
          BY <5>1, <5>2
      <4>6. CASE e2.kind = "table"
        <5> DEFINE t == e2.pa
        <5>1. t \in Frame /\ lvl[t] = 3 /\ w = R("Ok", t)
          BY <1>1, <1>3, <4>1, <4>2, <4>6
        <5>2. e = m[t][i1]
          BY <4>3, <4>6 DEF At2, At3, i2, i1
        <5>3. Path(m, root, va, t1, t2, t)
          BY <2>2, <4>4, <4>6 DEF Path, t1, i4, i3, i2
        <5>4. Done(t)
          BY <3>1, <4>1, <5>1, <5>2, <5>3
        <5>5. QED
          BY <5>4
      <4>7. QED
        BY <4>5, <4>6
    <3>6. QED
      BY <3>4, <3>5
  <2>3. QED
    BY <2>1, <2>2
<1>10. CASE \E t : w = R(Err(e), t) /\ e.kind \in {"zero", "block"}
  <2>1. w.result = Err(e) /\ w.result # "Ok" /\ e.kind \in {"zero", "block"}
    BY <1>6, <1>7, <1>10
  <2>2. leaf.result = Err(e) /\ leaf.word = ZeroWord
    BY <1>8, <2>1
  <2>3. QED
    BY <2>1, <2>2 DEF leaf
<1>11. CASE \E t : Done(t)
  <2>1. PICK t : Done(t)
    BY <1>11
  <2>2. w.result = "Ok" /\ w.table = t
    BY <1>7, <2>1
  <2>3. leaf.result = "Ok" /\ leaf.table = t /\ leaf.word = e
    BY <1>8, <2>1, <2>2
  <2>4. e.kind \in {"zero", "page"} /\ (e.kind = "zero" => e = ZeroWord)
    BY <1>1, <2>1 DEF Tree, LeavesPoint
  <2>5. leaf.table \in Frame /\ lvl[leaf.table] = 3 /\ m[leaf.table][va_index(va, 1)] = e
        /\ leaf.table = read_walk(root, m, va).table
        /\ \E t1, t2 \in Frame : Path(m, root, va, t1, t2, leaf.table)
    BY <2>1, <2>2, <2>3 DEF w, i1
  <2>6. QED
    BY <2>3, <2>4, <2>5 DEF leaf
<1>12. QED
  BY <1>9, <1>10, <1>11

\* translate and the Result of unmap.
LEMMA ReadOutcome ==
  ASSUME NEW lvl, NEW m, NEW B, Tree(lvl, m, B), NEW root \in Frame, lvl[root] = 0, NEW va \in Nat
  PROVE  LET e == Reached(m, root, va)
         IN /\ translate(root, m, va) =
                 IF e.kind = "page" THEN [frame |-> e.pa, flags |-> descriptor_bits_to_flags(e.bits)]
                 ELSE None
            /\ unmap_result(root, m, va) =
                 IF va % PageSize # 0 THEN "MisalignedAddress"
                 ELSE IF e.kind = "page" THEN "Ok"
                 ELSE IF e.kind = "block" THEN "BlockMapped"
                 ELSE "NotMapped"
            /\ e.kind = "page" => unmapped_frame(root, m, va) = e.pa
<1> DEFINE e == Reached(m, root, va)
           leaf == leaf_of(root, m, va)
<1>1. /\ e.kind \in {"zero", "block", "page"}
      /\ e.kind = "zero" => leaf.result \in {"Ok", "NotMapped"} /\ leaf.word = ZeroWord
      /\ e.kind = "block" => leaf.result = "BlockMapped" /\ leaf.word = ZeroWord
      /\ e.kind = "page" => leaf.result = "Ok" /\ leaf.word = e
  BY LeafOf
<1>2. translate(root, m, va) =
        IF leaf.word.kind = "page" THEN [frame |-> leaf.word.pa, flags |-> descriptor_bits_to_flags(leaf.word.bits)]
        ELSE None
  BY DEF translate
<1>3. unmap_result(root, m, va) =
        IF va % PageSize # 0 THEN "MisalignedAddress"
        ELSE IF leaf.result # "Ok" THEN leaf.result
        ELSE IF leaf.word.kind = "zero" THEN "NotMapped"
        ELSE "Ok"
  BY DEF unmap_result, valid
<1>4. unmapped_frame(root, m, va) = leaf.word.pa
  BY DEF unmapped_frame
<1> HIDE DEF e, leaf
<1>5. QED
  BY <1>1, <1>2, <1>3, <1>4, Kinds DEF e

\* What map leaves: the tables of its walk, and the leaf if it succeeds.
Mapped(lvl, m, p, lim, root, va, pa, flags, l2, m2, r, t, m3, p2) ==
  LET e == Reached(m, root, va)
      w == page_descriptor(pa, flags_to_descriptor_bits(flags))
  IN /\ Further(lvl, m, p, lim, l2, m2, p2)
     /\ \/ r = "AlreadyMapped" /\ e.kind \in {"block", "page"} /\ m3 = m2
        \/ r = "OutOfFrames" /\ e.kind = "zero" /\ FreeCount(p.bitmap) < Missing(m, root, va) /\ m3 = m2
        \/ /\ r = "Ok" /\ e.kind = "zero" /\ FreeCount(p.bitmap) >= Missing(m, root, va)
           /\ t \in Frame /\ l2[t] = 3
           /\ m2[t][va_index(va, 1)].kind = "zero"
           /\ WordSet(m2, t, va_index(va, 1), w, m3)
           /\ \E t1, t2 \in Frame : Path(m2, root, va, t1, t2, t)

LEMMA MapOutcome ==
  ASSUME NEW lvl, NEW m, NEW p, Tree(lvl, m, p.bitmap), NEW lim, PmmOk(p, lim),
         NEW root \in Frame, lvl[root] = 0, NEW va \in Nat, NEW pa, NEW flags,
         va % PageSize = 0, ~({"DEVICE", "EXECUTE"} \subseteq flags)
  PROVE  \E l2, m2, r, t, m3, p2 :
           /\ map(root, m, p, va, pa, flags) = Walk(r, t, m3, p2)
           /\ Mapped(lvl, m, p, lim, root, va, pa, flags, l2, m2, r, t, m3, p2)
<1> DEFINE e == Reached(m, root, va)
           i1 == va_index(va, 1)
           d == page_descriptor(pa, flags_to_descriptor_bits(flags))
           o == map(root, m, p, va, pa, flags)
<1>1. PICK l2, r, t, m2, p2 : /\ walk(root, m, p, va) = Walk(r, t, m2, p2)
                              /\ Walked(lvl, m, p, lim, root, va, l2, r, t, m2, p2)
  BY WalkOutcome
<1>2. o = IF r # "Ok" THEN Walk(r, t, m2, p2)
          ELSE IF valid(m2[t][i1]) THEN Walk("AlreadyMapped", t, m2, p2)
          ELSE Walk("Ok", t, [m2 EXCEPT ![t][i1] = d], p2)
  <2>1. o = LET w == Walk(r, t, m2, p2)
            IN IF w.result # "Ok" THEN w
               ELSE IF valid(w.mem[w.table][i1]) THEN Failed(w, "AlreadyMapped")
               ELSE [w EXCEPT !.mem[w.table][i1] = d]
    BY <1>1 DEF map
  <2> HIDE DEF o
  <2>2. QED
    BY <2>1 DEF Walk, Failed
<1> HIDE DEF o, d
<1>3. Further(lvl, m, p, lim, l2, m2, p2) /\ e.kind \in {"zero", "block", "page"} /\ i1 \in WordIndex
  BY <1>1, LeafOf, Digits DEF Walked
<1>4. CASE r # "Ok"
  <2>1. o = Walk(r, t, m2, p2)
    BY <1>2, <1>4
  <2>2. Mapped(lvl, m, p, lim, root, va, pa, flags, l2, m2, r, t, m2, p2)
    BY <1>1, <1>4 DEF Walked, Mapped
  <2>3. QED
    BY <2>1, <2>2 DEF o
<1>5. CASE r = "Ok"
  <2>1. /\ FreeCount(p.bitmap) >= Missing(m, root, va) /\ t \in Frame /\ l2[t] = 3 /\ m2[t][i1] = e
        /\ \E t1, t2 \in Frame : Path(m2, root, va, t1, t2, t)
    BY <1>1, <1>5 DEF Walked
  <2>2. e.kind \in {"zero", "page"}
    <3>1. LeavesPoint(l2, m2)
      BY <1>3 DEF Further, Tree
    <3>2. QED
      BY <1>3, <2>1, <3>1 DEF LeavesPoint
  <2>3. CASE e.kind = "page"
    <3>1. o = Walk("AlreadyMapped", t, m2, p2)
      BY <1>2, <1>5, <2>1, <2>3 DEF valid
    <3>2. Mapped(lvl, m, p, lim, root, va, pa, flags, l2, m2, "AlreadyMapped", t, m2, p2)
      BY <1>3, <2>3 DEF Mapped
    <3>3. QED
      BY <3>1, <3>2 DEF o
  <2>4. CASE e.kind = "zero"
    <3> DEFINE m3 == [m2 EXCEPT ![t][i1] = d]
    <3>1. o = Walk("Ok", t, m3, p2)
      BY <1>2, <1>5, <2>1, <2>4 DEF valid
    <3>2. WordSet(m2, t, i1, d, m3)
      <4>1. IsMemory(m2)
        BY <1>3 DEF Further, Tree
      <4>2. QED
        BY <1>3, <2>1, <4>1, SetWord
    <3> HIDE DEF m3
    <3>3. Mapped(lvl, m, p, lim, root, va, pa, flags, l2, m2, "Ok", t, m3, p2)
      BY <1>3, <2>1, <2>4, <3>2 DEF Mapped, d
    <3>4. QED
      BY <3>1, <3>3 DEF o
  <2>5. QED
    BY <2>2, <2>3, <2>4
<1>6. QED
  BY <1>4, <1>5

\* The encoding loses nothing of the flags map accepts.
LEMMA FlagsRoundTrip ==
  ASSUME NEW flags \in SUBSET MappingFlags, ~({"DEVICE", "EXECUTE"} \subseteq flags)
  PROVE  descriptor_bits_to_flags(flags_to_descriptor_bits(flags)) = flags
<1> DEFINE ap == (IF "USER" \in flags THEN 1 ELSE 0) + (IF "WRITE" \in flags THEN 0 ELSE 2)
           b == flags_to_descriptor_bits(flags)
<1>1. /\ ap \in {1, 3} <=> "USER" \in flags
      /\ ap \in {0, 1} <=> "WRITE" \in flags
  OBVIOUS
<1>2. /\ b.ap = ap
      /\ b.attr_idx = 0 <=> "DEVICE" \in flags
      /\ b.pxn = ~("EXECUTE" \in flags /\ "USER" \notin flags /\ "DEVICE" \notin flags)
      /\ b.uxn = ~("EXECUTE" \in flags /\ "USER" \in flags /\ "DEVICE" \notin flags)
      /\ b.ng = ("GLOBAL" \notin flags)
  BY DEF flags_to_descriptor_bits
<1> HIDE DEF ap, b
<1>3. \A f \in MappingFlags : f \in descriptor_bits_to_flags(b) <=> f \in flags
  <2>1. \A f \in MappingFlags : f = "WRITE" \/ f = "EXECUTE" \/ f = "USER" \/ f = "DEVICE" \/ f = "GLOBAL"
    BY DEF MappingFlags
  <2>2. "WRITE" \in descriptor_bits_to_flags(b) <=> "WRITE" \in flags
    BY <1>1, <1>2 DEF descriptor_bits_to_flags, MappingFlags
  <2>3. "EXECUTE" \in descriptor_bits_to_flags(b) <=> "EXECUTE" \in flags
    BY <1>1, <1>2 DEF descriptor_bits_to_flags, MappingFlags
  <2>4. "USER" \in descriptor_bits_to_flags(b) <=> "USER" \in flags
    BY <1>1, <1>2 DEF descriptor_bits_to_flags, MappingFlags
  <2>5. "DEVICE" \in descriptor_bits_to_flags(b) <=> "DEVICE" \in flags
    BY <1>1, <1>2 DEF descriptor_bits_to_flags, MappingFlags
  <2>6. "GLOBAL" \in descriptor_bits_to_flags(b) <=> "GLOBAL" \in flags
    BY <1>1, <1>2 DEF descriptor_bits_to_flags, MappingFlags
  <2>7. QED
    BY <2>1, <2>2, <2>3, <2>4, <2>5, <2>6
<1>4. descriptor_bits_to_flags(b) \subseteq MappingFlags
  BY DEF descriptor_bits_to_flags
<1>5. descriptor_bits_to_flags(b) = flags
  BY <1>3, <1>4
<1>6. QED
  BY <1>5 DEF b

-----------------------------------------------------------------------------
(* The invariant.                                                          *)

\* No address space is ever freed: the occupied slots are those below the head
\* of the free list, which runs through the others in order.
ArenaOk(a) ==
  /\ a \in ArenaOf(Frame)
  /\ \A i \in SlotIndex :
       /\ a.entry[i] = None <=> (a.free_head # None /\ i >= a.free_head)
       /\ a.entry[i] = None => a.next_free[i] = IF i + 1 < ArenaCapacity THEN i + 1 ELSE None
  /\ \A i, j \in SlotIndex : (a.entry[i] = a.entry[j] /\ a.entry[i] # None) => i = j

\* Every frame has one use: the roots are the arena's, boot's three tables keep
\* theirs.
KernelOk(k, lvl) ==
  /\ Tree(lvl, k.mem, k.pmm.bitmap)
  /\ PmmOk(k.pmm, 3)
  /\ lvl[0] = 0 /\ lvl[1] = 1 /\ lvl[2] = 2
  /\ \A f \in Frame : lvl[f] = 0 <=> f \in Roots(k)
  /\ ArenaOk(k.arena)
  /\ k.table \in CapabilityTable
  /\ WellFormed(k.table)

\* Between operations no frame in use is outside the trees.
AtRest(k) == \E lvl : KernelOk(k, lvl) /\ \A f \in Frame : lvl[f] # 6

Pages == {va \in 0 .. (USERSPACE_VA_LIMIT - 1) : va % PageSize = 0}

\* The word an address of root r reaches is the one its flat map stands for.
ReachOk(e, r, va, as) ==
  IF InBlock(r, va) THEN e.kind = "block"
  ELSE IF va \in DOMAIN as
    THEN e = page_descriptor(as[va].frame, flags_to_descriptor_bits(as[va].flags))
  ELSE e.kind = "zero"

FlatMap(r, as) ==
  /\ as = [va \in DOMAIN as |-> as[va]]
  /\ \A va \in DOMAIN as :
       /\ va \in Pages /\ ~InBlock(r, va)
       /\ as[va] \in [frame : Frame, flags : SUBSET MappingFlags]
       /\ ~({"DEVICE", "EXECUTE"} \subseteq as[va].flags)

HostOk(k, h) ==
  /\ h = [f \in Frame |-> h[f]]
  /\ \A r \in Roots(k) : /\ FlatMap(r, h[r])
                         /\ \A va \in Pages : ReachOk(Reached(k.mem, r, va), r, va, h[r])

ActiveOk(k, a) == a # None => a \in SlotId /\ contains(k.arena, a)

TlbOk ==
  /\ tlb # {} => active # None
  /\ \A e \in tlb : e.page \in Nat /\ e.page * PageSize < USERSPACE_VA_LIMIT
  /\ NoStaleTlb

IInv == AtRest(kernel) /\ HostOk(kernel, host) /\ ActiveOk(kernel, active) /\ TlbOk

-----------------------------------------------------------------------------
(* Consequences.                                                           *)

LEMMA PageFacts ==
  /\ USERSPACE_VA_LIMIT \in Nat
  /\ \A va \in Pages : va \in Nat /\ va \in 0 .. (USERSPACE_VA_LIMIT - 1) /\ va % PageSize = 0
<1>1. USERSPACE_VA_LIMIT \in Nat
  BY Spans, SMT
<1>2. QED
  BY <1>1 DEF Pages

LEMMA ArenaRoots ==
  ASSUME NEW k, ArenaOk(k.arena)
  PROVE  /\ Roots(k) \subseteq Frame
         /\ \A h \in SlotId : contains(k.arena, h) => root_frame(k.arena, h) \in Roots(k)
<1>1. k.arena.entry \in [SlotIndex -> Frame \union {None}]
  BY DEF ArenaOk, ArenaOf
<1>2. QED
  BY <1>1 DEF Roots, root_frame, get, contains, SlotId

LEMMA RootFacts ==
  ASSUME NEW k, NEW lvl, KernelOk(k, lvl), NEW r \in Roots(k)
  PROVE  r \in Frame /\ lvl[r] = 0
  BY ArenaRoots DEF KernelOk

\* What the wrappers rely on.
LEMMA Resolved ==
  ASSUME NEW k, NEW lvl, KernelOk(k, lvl), NEW cap \in CapHandle,
         resolve_address_space_cap(k, cap) = "Ok"
  PROVE  root_of(k, cap) \in Roots(k) /\ root_of(k, cap) \in Frame /\ lvl[root_of(k, cap)] = 0
<1>1. /\ resolves(k.table, cap) /\ entry_of(k.table, cap).object.kind = "AddressSpace"
      /\ contains(k.arena, entry_of(k.table, cap).object.slot)
  BY DEF resolve_address_space_cap
<1>2. entry_of(k.table, cap).object \in Objects
  BY <1>1, ResolvedIsLive DEF KernelOk, entry_of, Entry
<1>3. PICK h \in SlotId : entry_of(k.table, cap).object = AddressSpaceObject(h)
  BY <1>1, <1>2, AddressSpaceAssumption
<1>4. entry_of(k.table, cap).object.slot = h
  BY <1>3 DEF AddressSpaceObject
<1>5. root_of(k, cap) \in Roots(k)
  BY <1>1, <1>4, ArenaRoots DEF root_of, KernelOk
<1>6. QED
  BY <1>5, RootFacts

\* An address and its page reach the same word.
LEMMA ReachedPage ==
  ASSUME NEW va \in 0 .. (USERSPACE_VA_LIMIT - 1), NEW vb \in 0 .. (USERSPACE_VA_LIMIT - 1),
         va \div PageSize = vb \div PageSize, NEW m, NEW r
  PROVE  Reached(m, r, va) = Reached(m, r, vb)
<1>1. Indices(va) = Indices(vb)
  BY SamePage
<1>2. /\ va_index(va, 4) = va_index(vb, 4) /\ va_index(va, 3) = va_index(vb, 3)
      /\ va_index(va, 2) = va_index(vb, 2) /\ va_index(va, 1) = va_index(vb, 1)
  BY <1>1 DEF Indices
<1>3. QED
  BY <1>2 DEF Reached, At1, At2, At3

\* The page of an address.
LEMMA BaseOf ==
  ASSUME NEW va \in 0 .. (USERSPACE_VA_LIMIT - 1)
  PROVE  LET base == va - (va % PageSize)
         IN base \in Pages /\ base \div PageSize = va \div PageSize /\ (va % PageSize = 0 => base = va)
<1>1. USERSPACE_VA_LIMIT \in Nat /\ va \in Nat /\ va < USERSPACE_VA_LIMIT
  BY PageFacts
<1> DEFINE base == va - (va % PageSize)
<1>2. /\ base \in Nat /\ base <= va /\ base % PageSize = 0
      /\ base \div PageSize = va \div PageSize /\ (va % PageSize = 0 => base = va)
  BY <1>1, PageBase
<1> HIDE DEF base
<1>3. base \in Pages
  BY <1>1, <1>2 DEF Pages
<1>4. QED
  BY <1>2, <1>3 DEF base

\* What an address translates to, from the flat map.
LEMMA TranslateAt ==
  ASSUME NEW k, NEW h, AtRest(k), HostOk(k, h), NEW r \in Roots(k),
         NEW va \in 0 .. (USERSPACE_VA_LIMIT - 1)
  PROVE  LET base == va - (va % PageSize)
         IN translate(r, k.mem, va) = IF ~InBlock(r, base) /\ base \in DOMAIN h[r] THEN h[r][base] ELSE None
<1> DEFINE base == va - (va % PageSize)
           e == Reached(k.mem, r, base)
           as == h[r]
<1>1. PICK lvl : KernelOk(k, lvl)
  BY DEF AtRest
<1>2. base \in Pages /\ base \div PageSize = va \div PageSize
  BY BaseOf
<1> HIDE DEF base
<1>3. base \in 0 .. (USERSPACE_VA_LIMIT - 1) /\ va \in Nat
  BY <1>2, PageFacts
<1>4. Reached(k.mem, r, va) = e
  BY <1>2, <1>3, ReachedPage
<1>5. r \in Frame /\ lvl[r] = 0 /\ Tree(lvl, k.mem, k.pmm.bitmap)
  BY <1>1, RootFacts DEF KernelOk
<1>6. translate(r, k.mem, va) =
        IF e.kind = "page" THEN [frame |-> e.pa, flags |-> descriptor_bits_to_flags(e.bits)] ELSE None
  BY <1>3, <1>4, <1>5, ReadOutcome
<1>7. FlatMap(r, as) /\ ReachOk(e, r, base, as)
  BY <1>2 DEF HostOk
<1>8. CASE InBlock(r, base)
  BY <1>6, <1>7, <1>8 DEF ReachOk, base
<1>9. CASE ~InBlock(r, base) /\ base \notin DOMAIN as
  BY <1>6, <1>7, <1>9 DEF ReachOk, base
<1>10. CASE ~InBlock(r, base) /\ base \in DOMAIN as
  <2> DEFINE x == as[base]
  <2>1. /\ x \in [frame : Frame, flags : SUBSET MappingFlags]
        /\ ~({"DEVICE", "EXECUTE"} \subseteq x.flags)
    BY <1>7, <1>10 DEF FlatMap
  <2>2. e = page_descriptor(x.frame, flags_to_descriptor_bits(x.flags))
    BY <1>7, <1>10 DEF ReachOk
  <2> HIDE DEF x, e
  <2>3. e.kind = "page" /\ e.pa = x.frame /\ e.bits = flags_to_descriptor_bits(x.flags)
    BY <2>2, Kinds
  <2>4. descriptor_bits_to_flags(e.bits) = x.flags
    BY <2>1, <2>3, FlagsRoundTrip
  <2>5. x = [frame |-> x.frame, flags |-> x.flags]
    BY <2>1
  <2>6. translate(r, k.mem, va) = x
    BY <1>6, <2>3, <2>4, <2>5
  <2>7. QED
    BY <1>10, <2>6 DEF x, base
<1>11. QED
  BY <1>8, <1>9, <1>10

LEMMA TranslationFromInv == IInv => TranslationExact
<1> SUFFICES ASSUME IInv, NEW r \in Roots(kernel),
                    NEW va \in Vas \union {page * PageSize : page \in 0 .. (USERSPACE_VA_LIMIT \div PageSize - 1)}
             PROVE  TranslateIn(r, va) = block_translate(host[r], Blocked(r), va)
  BY DEF TranslationExact
<1>1. va \in 0 .. (USERSPACE_VA_LIMIT - 1)
  <2>1. CASE va \in Vas
    BY <2>1, AddressSpaceSpecAssumption
  <2>2. CASE va \in {page * PageSize : page \in 0 .. (USERSPACE_VA_LIMIT \div PageSize - 1)}
    <3> DEFINE q == USERSPACE_VA_LIMIT \div PageSize
    <3>1. q \in Nat /\ USERSPACE_VA_LIMIT = PageSize * q + (USERSPACE_VA_LIMIT % PageSize)
          /\ USERSPACE_VA_LIMIT % PageSize \in Nat
      BY PageFacts, Spans, DivMod
    <3>2. PICK page \in 0 .. (q - 1) : va = page * PageSize
      BY <2>2
    <3> HIDE DEF q
    <3>3. PICK x \in Nat : q = page + 1 + x
      <4>1. q - page - 1 \in Nat /\ q = page + 1 + (q - page - 1)
        BY <3>1, <3>2
      <4>2. QED
        BY <4>1
    <3>4. PageSize * q = page * PageSize + PageSize + PageSize * x /\ PageSize * x \in Nat
          /\ page * PageSize \in Nat
      BY <3>2, <3>3, Spans, SMT
    <3>5. QED
      BY <3>1, <3>2, <3>4, Spans, PageFacts
  <2>3. QED
    BY <2>1, <2>2
<1> DEFINE base == va - (va % PageSize)
<1>2. TranslateIn(r, va) = IF ~InBlock(r, base) /\ base \in DOMAIN host[r] THEN host[r][base] ELSE None
  BY <1>1, TranslateAt DEF IInv, TranslateIn
<1>3. base \in DOMAIN host[r] => ~InBlock(r, base)
  BY DEF IInv, HostOk, FlatMap
<1>4. QED
  BY <1>2, <1>3 DEF block_translate, fake_translate, Blocked

LEMMA NoStaleFromInv == IInv => NoStaleTlb
  BY DEF IInv, TlbOk

\* Every frame in use below level 3 is in a tree of a root, and every pointer
\* of the trees is one of Refs.
LEMMA TreesAre ==
  ASSUME NEW k, NEW lvl, KernelOk(k, lvl)
  PROVE  TreeOf(k, Roots(k)) = {f \in Frame : lvl[f] <= 3}
<1> DEFINE L(n) == {f \in Frame : lvl[f] = n}
<1>1. lvl \in [Frame -> Level] /\ Roots(k) = L(0)
  BY RootFacts DEF KernelOk, Tree
<1>2. ASSUME NEW n \in 0 .. 2
      PROVE  Below(k, L(n)) = L(n + 1)
  <2>1. ASSUME NEW g \in Below(k, L(n)) PROVE g \in L(n + 1)
    <3>1. PICK f \in L(n), i \in WordIndex : k.mem[f][i].kind = "table" /\ g = k.mem[f][i].pa
      BY <2>1 DEF Below
    <3>2. QED
      BY <1>1, <3>1 DEF KernelOk, Tree, TablesPoint
  <2>2. ASSUME NEW g \in L(n + 1) PROVE g \in Below(k, L(n))
    <3>1. PICK f \in Frame, i \in WordIndex : lvl[f] = lvl[g] - 1 /\ Points(k.mem[f][i]) /\ k.mem[f][i].pa = g
      BY <2>2 DEF KernelOk, Tree, SomePlace
    <3>2. f \in L(n) /\ lvl[f] <= 2
      BY <2>2, <3>1
    <3>3. k.mem[f][i].kind = "table"
      BY <3>1, <3>2 DEF KernelOk, Tree, TablesPoint, Points
    <3>4. <<f, i>> \in {y \in L(n) \X WordIndex : k.mem[y[1]][y[2]].kind = "table"}
      BY <3>2, <3>3
    <3>5. QED
      BY <3>1, <3>4 DEF Below
  <2>3. QED
    BY <2>1, <2>2
<1>3. TreeOf(k, L(0)) = L(0) \union L(1) \union L(2) \union L(3)
  <2>1. Below(k, L(0)) = L(1) /\ Below(k, L(1)) = L(2) /\ Below(k, L(2)) = L(3)
    <3>1. Below(k, L(0)) = L(0 + 1) /\ Below(k, L(1)) = L(1 + 1) /\ Below(k, L(2)) = L(2 + 1)
      <4> HIDE DEF L
      <4>1. QED
        BY <1>2
    <3>2. QED
      BY <3>1
  <2> HIDE DEF L
  <2>2. QED
    BY <2>1 DEF TreeOf
<1>4. L(0) \union L(1) \union L(2) \union L(3) = {f \in Frame : lvl[f] <= 3}
  BY <1>1 DEF Level
<1>5. QED
  BY <1>1, <1>3, <1>4

LEMMA AccountedFromInv ==
  ASSUME NEW k, NEW lvl, KernelOk(k, lvl)
  PROVE  /\ ExclusivelyOwned(k)
         /\ \A f \in k.pmm.bitmap : f \in Roots(k) \union Referenced(k) \/ lvl[f] = 6
<1> DEFINE T == {f \in Frame : lvl[f] <= 3}
           P(f, i) == Points(k.mem[f][i])
<1>1. TreeOf(k, Roots(k)) = T /\ lvl \in [Frame -> Level] /\ k.pmm.bitmap = {f \in Frame : lvl[f] # 5}
  BY TreesAre DEF KernelOk, Tree
<1>2. Refs(k, Roots(k)) = {x \in T \X WordIndex : P(x[1], x[2])}
  BY <1>1 DEF Refs, Points
<1>3. \A f \in T : \A i \in WordIndex : P(f, i) => k.mem[f][i].pa \in Frame /\ lvl[k.mem[f][i].pa] = lvl[f] + 1
  <2> SUFFICES ASSUME NEW f \in T, NEW i \in WordIndex, P(f, i)
               PROVE  k.mem[f][i].pa \in Frame /\ lvl[k.mem[f][i].pa] = lvl[f] + 1
    OBVIOUS
  <2>1. lvl[f] \in 0 .. 3
    BY <1>1 DEF Level
  <2>2. CASE lvl[f] <= 2
    BY <2>2 DEF KernelOk, Tree, TablesPoint, Points
  <2>3. CASE lvl[f] = 3
    BY <2>3 DEF KernelOk, Tree, LeavesPoint, Points
  <2>4. QED
    BY <2>1, <2>2, <2>3
<1>4. \A g \in Referenced(k) : \E f \in T : \E i \in WordIndex : P(f, i) /\ g = k.mem[f][i].pa
  BY <1>2 DEF Referenced, PaOf
<1>5. \A f \in T : \A i \in WordIndex : P(f, i) => k.mem[f][i].pa \in Referenced(k)
  <2> SUFFICES ASSUME NEW f \in T, NEW i \in WordIndex, P(f, i) PROVE k.mem[f][i].pa \in Referenced(k)
    OBVIOUS
  <2>1. <<f, i>> \in Refs(k, Roots(k))
    BY <1>2
  <2>2. QED
    BY <2>1 DEF Referenced, PaOf
<1>6. \A g \in Referenced(k) : g \in Frame /\ lvl[g] \in 1 .. 4
  BY <1>1, <1>3, <1>4 DEF Level
<1>7. \A f \in Frame : lvl[f] = 0 <=> f \in Roots(k)
  BY DEF KernelOk
<1>8. Roots(k) \intersect Referenced(k) = {}
  BY <1>6, <1>7
<1>9. Roots(k) \union Referenced(k) \subseteq k.pmm.bitmap
  BY <1>1, <1>6, RootFacts
<1>10. \A x, y \in Refs(k, Roots(k)) : PaOf(k, x) = PaOf(k, y) => x = y
  <2> SUFFICES ASSUME NEW x \in T \X WordIndex, NEW y \in T \X WordIndex,
                      P(x[1], x[2]), P(y[1], y[2]), k.mem[x[1]][x[2]].pa = k.mem[y[1]][y[2]].pa
               PROVE  x = y
    BY <1>2 DEF PaOf
  <2>1. OnePlace(lvl, k.mem)
    BY DEF KernelOk, Tree
  <2>2. x[1] = y[1] /\ x[2] = y[2]
    BY <2>1 DEF OnePlace
  <2>3. QED
    BY <2>2
<1>11. ExclusivelyOwned(k)
  BY <1>8, <1>9, <1>10 DEF ExclusivelyOwned, KernelOk, ArenaOk
<1>12. ASSUME NEW f \in k.pmm.bitmap, lvl[f] # 6
       PROVE  f \in Roots(k) \union Referenced(k)
  <2>1. f \in Frame /\ (lvl[f] = 0 \/ lvl[f] \in 1 .. 4)
    BY <1>1, <1>12 DEF Level
  <2>2. CASE lvl[f] = 0
    BY <1>7, <2>1, <2>2
  <2>3. CASE lvl[f] \in 1 .. 4
    <3>1. PICK g \in Frame, i \in WordIndex : lvl[g] = lvl[f] - 1 /\ P(g, i) /\ k.mem[g][i].pa = f
      BY <2>1, <2>3 DEF KernelOk, Tree, SomePlace
    <3>2. g \in T
      BY <2>3, <3>1
    <3>3. QED
      BY <1>5, <3>1, <3>2
  <2>4. QED
    BY <2>1, <2>2, <2>3
<1>13. QED
  BY <1>11, <1>12

LEMMA FramesFromInv == IInv => FramesAccounted
<1> SUFFICES ASSUME IInv PROVE FramesAccounted
  OBVIOUS
<1>1. PICK lvl : KernelOk(kernel, lvl) /\ \A f \in Frame : lvl[f] # 6
  BY DEF IInv, AtRest
<1>2. \A f \in kernel.pmm.bitmap : f \in Frame
  BY <1>1 DEF KernelOk, Tree
<1>3. QED
  BY <1>1, <1>2, AccountedFromInv DEF FramesAccounted

\* The Result of a map, from the flat map.
LEMMA MapResult ==
  ASSUME IInv, NEW r \in Roots(kernel), NEW va \in 0 .. (USERSPACE_VA_LIMIT - 1),
         NEW flags, NEW pa
  PROVE  map(r, kernel.mem, kernel.pmm, va, pa, flags).result =
           IF va % PageSize # 0 THEN "MisalignedAddress"
           ELSE IF {"DEVICE", "EXECUTE"} \subseteq flags THEN "InvalidFlags"
           ELSE IF InBlock(r, va) \/ va \in DOMAIN host[r] THEN "AlreadyMapped"
           ELSE IF FreeCount(kernel.pmm.bitmap) < Missing(kernel.mem, r, va) THEN "OutOfFrames"
           ELSE "Ok"
<1> DEFINE o == map(r, kernel.mem, kernel.pmm, va, pa, flags)
           e == Reached(kernel.mem, r, va)
<1>1. CASE va % PageSize # 0
  BY <1>1 DEF map, Failed, WalkFrom
<1>2. CASE va % PageSize = 0 /\ {"DEVICE", "EXECUTE"} \subseteq flags
  BY <1>2 DEF map, Failed, WalkFrom
<1>3. CASE va % PageSize = 0 /\ ~({"DEVICE", "EXECUTE"} \subseteq flags)
  <2>1. PICK lvl : KernelOk(kernel, lvl)
    BY DEF IInv, AtRest
  <2>2. /\ r \in Frame /\ lvl[r] = 0 /\ Tree(lvl, kernel.mem, kernel.pmm.bitmap) /\ PmmOk(kernel.pmm, 3)
        /\ va \in Nat /\ va \in Pages
    BY <1>3, <2>1, RootFacts, PageFacts DEF KernelOk, Pages
  <2>3. PICK l2, m2, x, t, m3, p2 :
          /\ o = Walk(x, t, m3, p2)
          /\ Mapped(lvl, kernel.mem, kernel.pmm, 3, r, va, pa, flags, l2, m2, x, t, m3, p2)
    BY <1>3, <2>2, MapOutcome
  <2>4. o.result = x
    BY <2>3 DEF Walk
  <2>5. IF InBlock(r, va) THEN e.kind = "block" ELSE IF va \in DOMAIN host[r] THEN e.kind = "page" ELSE e.kind = "zero"
    <3>1. ReachOk(e, r, va, host[r])
      BY <2>2 DEF IInv, HostOk
    <3>2. QED
      BY <3>1, Kinds DEF ReachOk
  <2>6. \/ x = "AlreadyMapped" /\ e.kind \in {"block", "page"}
        \/ x = "OutOfFrames" /\ e.kind = "zero" /\ FreeCount(kernel.pmm.bitmap) < Missing(kernel.mem, r, va)
        \/ x = "Ok" /\ e.kind = "zero" /\ FreeCount(kernel.pmm.bitmap) >= Missing(kernel.mem, r, va)
    BY <2>3 DEF Mapped
  <2>7. FreeCount(kernel.pmm.bitmap) \in Nat /\ Missing(kernel.mem, r, va) \in Nat
    <3>1. kernel.pmm.bitmap \in SUBSET Frame
      BY <2>2 DEF Tree
    <3>2. QED
      BY <3>1, Counting DEF Missing, MissingAt1, MissingAt2
  <2> HIDE DEF o, e
  <2>8. QED
    BY <1>3, <2>4, <2>5, <2>6, <2>7 DEF o
<1>4. QED
  BY <1>1, <1>2, <1>3

LEMMA MapCauseFromInv == IInv => MapFailsForCause
<1> SUFFICES ASSUME IInv, NEW r \in Roots(kernel), NEW va \in Vas, NEW flags \in FlagChoices,
                    va % PageSize = 0, ~({"DEVICE", "EXECUTE"} \subseteq flags)
             PROVE  map(r, kernel.mem, kernel.pmm, va, 0, flags).result =
                      IF InBlock(r, va) \/ va \in DOMAIN host[r] THEN "AlreadyMapped"
                      ELSE IF NumFrames - Cardinality(kernel.pmm.bitmap) < MissingTables(r, va) THEN "OutOfFrames"
                      ELSE "Ok"
  BY DEF MapFailsForCause
<1>1. va \in 0 .. (USERSPACE_VA_LIMIT - 1)
  BY AddressSpaceSpecAssumption
<1>2. MissingTables(r, va) = Missing(kernel.mem, r, va)
  BY DEF MissingTables, Missing, MissingAt1, MissingAt2, valid
<1>3. FreeCount(kernel.pmm.bitmap) = NumFrames - Cardinality(kernel.pmm.bitmap)
  BY DEF FreeCount
<1>4. QED
  BY <1>1, <1>2, <1>3, MapResult

\* A map on the double, on a page that is not blocked.
LEMMA FakeMap ==
  ASSUME NEW as, as = [x \in DOMAIN as |-> as[x]], NEW va, NEW pa, NEW flags, va \notin DOMAIN as
  PROVE  LET nmap == [x \in DOMAIN as \union {va} |-> IF x = va THEN [frame |-> pa, flags |-> flags] ELSE as[x]]
         IN /\ va % PageSize = 0 => fake_unmap(nmap, va).mappings = as
            /\ (va % PageSize = 0 /\ ~({"DEVICE", "EXECUTE"} \subseteq flags)) =>
                 fake_map(as, va, pa, flags) = FakeOutcome("Ok", nmap)
<1> DEFINE nmap == [x \in DOMAIN as \union {va} |-> IF x = va THEN [frame |-> pa, flags |-> flags] ELSE as[x]]
<1>1. DOMAIN nmap = DOMAIN as \union {va} /\ DOMAIN nmap \ {va} = DOMAIN as
  OBVIOUS
<1>2. \A x \in DOMAIN as : nmap[x] = as[x]
  OBVIOUS
<1>3. va % PageSize = 0 => fake_unmap(nmap, va).mappings = [x \in DOMAIN as |-> nmap[x]]
  <2> HIDE DEF nmap
  <2>1. QED
    BY <1>1 DEF fake_unmap, FakeOutcome, Restrict
<1>4. [x \in DOMAIN as |-> nmap[x]] = as
  <2> HIDE DEF nmap
  <2>1. QED
    BY <1>2
<1>5. (va % PageSize = 0 /\ ~({"DEVICE", "EXECUTE"} \subseteq flags)) =>
        fake_map(as, va, pa, flags) = FakeOutcome("Ok", nmap)
  BY DEF fake_map
<1>6. QED
  BY <1>3, <1>4, <1>5

LEMMA DoublesFromInv == IInv => DoublesAgree
<1> SUFFICES ASSUME IInv, NEW r \in Roots(kernel), NEW va \in Vas
             PROVE  /\ \A flags \in FlagChoices :
                         LET real == map(r, kernel.mem, kernel.pmm, va, 0, flags).result
                             double == HostMap(r, va, 0, flags, real = "OutOfFrames")
                         IN /\ IF InBlock(r, va) THEN "Ok" \notin {real, double.result}
                               ELSE real = double.result \/ (r = 0 /\ real = "OutOfFrames")
                            /\ double.result # "Ok" => double.mappings = host[r]
                    /\ LET double == block_unmap(host[r], Blocked(r), va)
                       IN /\ double.result = unmap_result(r, kernel.mem, va)
                          /\ double.result = "Ok" => unmapped_frame(r, kernel.mem, va) = host[r][va].frame
  BY DEF DoublesAgree
<1> DEFINE as == host[r]
<1>1. va \in 0 .. (USERSPACE_VA_LIMIT - 1) /\ va \in Nat
  BY AddressSpaceSpecAssumption, PageFacts
<1>2. FlatMap(r, as) /\ as = [x \in DOMAIN as |-> as[x]]
  BY DEF IInv, HostOk, FlatMap
<1>3. /\ va \in Blocked(r) <=> va % PageSize = 0 /\ InBlock(r, va)
      /\ Blocked(r) # {} => r = 0
      /\ va \in DOMAIN as => ~InBlock(r, va) /\ va % PageSize = 0
  BY <1>2 DEF Blocked, InBlock, FlatMap, Pages
<1>4. ASSUME NEW flags \in FlagChoices
      PROVE  LET real == map(r, kernel.mem, kernel.pmm, va, 0, flags).result
                 double == HostMap(r, va, 0, flags, real = "OutOfFrames")
             IN /\ IF InBlock(r, va) THEN "Ok" \notin {real, double.result}
                   ELSE real = double.result \/ (r = 0 /\ real = "OutOfFrames")
                /\ double.result # "Ok" => double.mappings = as
  <2> DEFINE real == map(r, kernel.mem, kernel.pmm, va, 0, flags).result
             double == HostMap(r, va, 0, flags, real = "OutOfFrames")
             Bad == {"DEVICE", "EXECUTE"} \subseteq flags
             fm == fake_map(as, va, 0, flags)
  <2>1. real = IF va % PageSize # 0 THEN "MisalignedAddress"
               ELSE IF Bad THEN "InvalidFlags"
               ELSE IF InBlock(r, va) \/ va \in DOMAIN as THEN "AlreadyMapped"
               ELSE IF FreeCount(kernel.pmm.bitmap) < Missing(kernel.mem, r, va) THEN "OutOfFrames"
               ELSE "Ok"
    BY <1>1, MapResult
  <2>2. /\ fm.result = IF va % PageSize # 0 THEN "MisalignedAddress"
                       ELSE IF Bad THEN "InvalidFlags"
                       ELSE IF va \in DOMAIN as THEN "AlreadyMapped"
                       ELSE "Ok"
        /\ fm.result # "Ok" => fm.mappings = as
    BY DEF fake_map, FakeOutcome
  <2>3. fm.result = "Ok" => fake_unmap(fm.mappings, va).mappings = as
    <3> SUFFICES ASSUME fm.result = "Ok" PROVE fake_unmap(fm.mappings, va).mappings = as
      OBVIOUS
    <3> DEFINE nmap == [x \in DOMAIN as \union {va} |-> IF x = va THEN [frame |-> 0, flags |-> flags] ELSE as[x]]
    <3>1. va % PageSize = 0 /\ ~Bad /\ va \notin DOMAIN as
      BY <2>2
    <3>2. fm = FakeOutcome("Ok", nmap) /\ fake_unmap(nmap, va).mappings = as
      BY <1>2, <3>1, FakeMap
    <3> HIDE DEF nmap, fm
    <3>3. fm.mappings = nmap
      BY <3>2 DEF FakeOutcome
    <3>4. QED
      BY <3>2, <3>3
  <2>4. vec_alloc_frame(<<>>) = None /\ vec_alloc_frame(<<0>>) = 0 /\ None # 0
    BY PmmAssumption DEF vec_alloc_frame
  <2>5. double = IF Blocked(r) # {}
                 THEN IF va \in Blocked(r) THEN FakeOutcome("BlockMapped", as) ELSE fm
                 ELSE IF fm.result # "Ok" THEN fm
                 ELSE IF real = "OutOfFrames" THEN FakeOutcome("OutOfFrames", fake_unmap(fm.mappings, va).mappings)
                 ELSE fm
    <3> HIDE DEF real, fm
    <3>1. out_of_frames_map(as, va, 0, flags, IF real = "OutOfFrames" THEN <<>> ELSE <<0>>) =
            IF fm.result # "Ok" THEN fm
            ELSE IF real = "OutOfFrames" THEN FakeOutcome("OutOfFrames", fake_unmap(fm.mappings, va).mappings)
            ELSE fm
      <4>1. CASE real = "OutOfFrames"
        BY <2>4, <4>1 DEF out_of_frames_map, fm
      <4>2. CASE real # "OutOfFrames"
        BY <2>4, <4>2 DEF out_of_frames_map, fm
      <4>3. QED
        BY <4>1, <4>2
    <3>2. QED
      BY <3>1 DEF HostMap, block_map, fm
  <2> HIDE DEF real, fm, double, Bad
  <2>6. \A x, y : FakeOutcome(x, y).result = x /\ FakeOutcome(x, y).mappings = y
    BY DEF FakeOutcome
  <2>7. IF InBlock(r, va) THEN real # "Ok" /\ double.result # "Ok"
        ELSE real = double.result \/ (r = 0 /\ real = "OutOfFrames")
    BY <1>3, <2>1, <2>2, <2>5, <2>6
  <2>8. double.result # "Ok" => double.mappings = as
    BY <2>2, <2>3, <2>5, <2>6
  <2>9. QED
    BY <2>7, <2>8 DEF real, double
<1>5. LET double == block_unmap(as, Blocked(r), va)
      IN /\ double.result = unmap_result(r, kernel.mem, va)
         /\ double.result = "Ok" => unmapped_frame(r, kernel.mem, va) = as[va].frame
  <2> DEFINE double == block_unmap(as, Blocked(r), va)
             e == Reached(kernel.mem, r, va)
  <2>1. PICK lvl : KernelOk(kernel, lvl)
    BY DEF IInv, AtRest
  <2>2. /\ unmap_result(r, kernel.mem, va) =
             IF va % PageSize # 0 THEN "MisalignedAddress"
             ELSE IF e.kind = "page" THEN "Ok"
             ELSE IF e.kind = "block" THEN "BlockMapped"
             ELSE "NotMapped"
        /\ e.kind = "page" => unmapped_frame(r, kernel.mem, va) = e.pa
    <3>1. r \in Frame /\ lvl[r] = 0 /\ Tree(lvl, kernel.mem, kernel.pmm.bitmap)
      BY <2>1, RootFacts DEF KernelOk
    <3>2. QED
      BY <1>1, <3>1, ReadOutcome
  <2>3. va % PageSize = 0 => ReachOk(e, r, va, as)
    <3>1. va % PageSize = 0 => va \in Pages
      BY <1>1 DEF Pages
    <3>2. QED
      BY <3>1 DEF IInv, HostOk
  <2>4. va % PageSize = 0 =>
          IF InBlock(r, va) THEN e.kind = "block"
          ELSE IF va \in DOMAIN as THEN e.kind = "page" /\ e.pa = as[va].frame
          ELSE e.kind = "zero"
    BY <2>3, Kinds DEF ReachOk
  <2>5. double.result = IF va \in Blocked(r) THEN "BlockMapped"
                        ELSE IF va % PageSize # 0 THEN "MisalignedAddress"
                        ELSE IF va \notin DOMAIN as THEN "NotMapped"
                        ELSE "Ok"
    BY DEF block_unmap, fake_unmap, FakeOutcome
  <2> HIDE DEF e, double
  <2>6. QED
    BY <1>3, <2>2, <2>4, <2>5 DEF double
<1>6. QED
  BY <1>4, <1>5

-----------------------------------------------------------------------------
(* Init.                                                                   *)

LEMMA BootPmmOk == PmmOk(BootPmm, 3) /\ BootPmm.bitmap = {0, 1, 2}
<1> DEFINE e == [start |-> 0, end |-> NumFrames * PageSize]
           x == [start |-> 0, end |-> 3 * PageSize]
           bits == ReservedFrames(e, <<x>>)
<1>1. NumFrames \in Nat /\ NumFrames > 3 /\ PageSize \in Nat /\ PageSize > 1
  BY AddressSpaceAssumption, Spans
<1>2. frame_count(e) = NumFrames
  BY Extent
<1>3. frame_index(e, 0) = 0
  <2>1. 0 \div PageSize = 0
    BY <1>1
  <2>2. QED
    BY <2>1 DEF frame_index, saturating_sub
<1>4. frame_count(x) = 3
  <2>1. (3 * PageSize) \div PageSize = 3 /\ 3 * PageSize \in Nat
    BY PageAddress
  <2>2. saturating_sub(3 * PageSize, 0) = 3 * PageSize
    BY <1>1 DEF saturating_sub
  <2>3. QED
    BY <2>1, <2>2 DEF frame_count
<1>5. CoveredFrames(e, x) = {0, 1, 2}
  <2>1. CoveredFrames(e, x) = {frame_index(e, 0) + off : off \in 0 .. (frame_count(x) - 1)}
    BY DEF CoveredFrames
  <2> HIDE DEF e, x
  <2>2. CoveredFrames(e, x) = {0 + off : off \in 0 .. 2}
    BY <1>3, <1>4, <2>1
  <2>3. QED
    BY <2>2
<1>6. bits = {0, 1, 2}
  <2> HIDE DEF e, x
  <2>1. DOMAIN <<x>> = {1} /\ <<x>>[1] = x
    OBVIOUS
  <2>2. QED
    BY <1>5, <2>1 DEF ReservedFrames
<1>7. first_zero_bit(bits, NumFrames) \in 0 .. NumFrames
  <2>1. 3 \in 0 .. NumFrames /\ 3 \notin bits /\ \A j \in 0 .. (3 - 1) : j \in bits
    BY <1>1, <1>6
  <2> HIDE DEF bits
  <2>2. QED
    BY <1>1, <2>1 DEF first_zero_bit
<1>8. /\ BootPmm.bitmap = bits /\ BootPmm.extent = e /\ BootPmm.reserved_ranges = <<x>>
      /\ BootPmm.hint = first_zero_bit(bits, NumFrames)
  <2>1. BootPmm = new(e, <<x>>)
    BY DEF BootPmm
  <2> HIDE DEF e, x
  <2>2. QED
    BY <1>2, <2>1 DEF new
<1>9. \A i \in DOMAIN <<x>> : <<x>>[i].end \in Nat /\ <<x>>[i].end <= 3 * PageSize
  <2>1. x.end = 3 * PageSize /\ 3 * PageSize \in Nat
    BY <1>1
  <2> HIDE DEF x
  <2>2. QED
    BY <2>1
<1>10. QED
  BY <1>6, <1>7, <1>8, <1>9 DEF PmmOk

BootLevel == [f \in Frame |-> IF f \in {0, 1, 2} THEN f ELSE 5]

LEMMA BootWords ==
  /\ IsMemory(BootMemory)
  /\ BootMemory[0][0] = table_descriptor(1) /\ BootMemory[1][0] = table_descriptor(2)
  /\ BootMemory[2][0].kind = "block"
  /\ \A f \in {0, 1, 2} : \A i \in WordIndex \ {0} : BootMemory[f][i] = ZeroWord
  /\ 0 \in WordIndex
<1>1. 0 \in WordIndex /\ {0, 1, 2} \subseteq Frame
  BY Spans, FrameFacts DEF WordIndex
<1>2. \A f \in Frame : BootMemory[f] = [i \in WordIndex |-> BootMemory[f][i]]
  BY DEF BootMemory, ZeroPage
<1>3. BootMemory = [f \in Frame |-> BootMemory[f]]
  BY DEF BootMemory
<1>4. BootMemory = [f \in Frame |-> [i \in WordIndex |-> BootMemory[f][i]]]
  BY <1>2, <1>3
<1>5. IsMemory(BootMemory)
  BY <1>4 DEF IsMemory
<1>6. /\ BootMemory[0] = [ZeroPage EXCEPT ![0] = table_descriptor(1)]
      /\ BootMemory[1] = [ZeroPage EXCEPT ![0] = table_descriptor(2)]
      /\ BootMemory[2] = [ZeroPage EXCEPT ![0] = Block]
  BY <1>1 DEF BootMemory
<1>7. Block.kind = "block"
  BY DEF Block
<1>8. QED
  BY <1>1, <1>5, <1>6, <1>7 DEF ZeroPage

LEMMA BootTree == Tree(BootLevel, BootMemory, {0, 1, 2})
<1>1. {0, 1, 2, 3} \subseteq Frame
  BY FrameFacts
<1>2. /\ BootLevel \in [Frame -> Level] /\ BootLevel[0] = 0 /\ BootLevel[1] = 1 /\ BootLevel[2] = 2
      /\ \A f \in Frame : f \notin {0, 1, 2} => BootLevel[f] = 5
  BY <1>1 DEF BootLevel, Level
<1>3. {0, 1, 2} = {f \in Frame : BootLevel[f] # 5}
  BY <1>1, <1>2
<1>4. \A f \in Frame : BootLevel[f] <= 3 => f \in {0, 1, 2}
  BY <1>2
<1>5. \A f \in {0, 1, 2} : \A i \in WordIndex :
        \/ BootMemory[f][i] = ZeroWord
        \/ f = 0 /\ i = 0 /\ BootMemory[f][i] = table_descriptor(1)
        \/ f = 1 /\ i = 0 /\ BootMemory[f][i] = table_descriptor(2)
        \/ f = 2 /\ i = 0 /\ BootMemory[f][i].kind = "block"
  BY BootWords
<1>6. TablesPoint(BootLevel, BootMemory)
  <2> SUFFICES ASSUME NEW f \in {0, 1, 2}, NEW i \in WordIndex
               PROVE  /\ BootMemory[f][i].kind \in {"zero", "block", "table"}
                      /\ BootMemory[f][i].kind = "zero" => BootMemory[f][i] = ZeroWord
                      /\ BootMemory[f][i].kind = "table" =>
                           BootMemory[f][i].pa \in Frame /\ BootLevel[BootMemory[f][i].pa] = BootLevel[f] + 1
    BY <1>4, <1>2 DEF TablesPoint
  <2>1. QED
    BY <1>1, <1>2, <1>5, Kinds
<1>7. LeavesPoint(BootLevel, BootMemory)
  BY <1>2, <1>4 DEF LeavesPoint
<1>8. OnePlace(BootLevel, BootMemory)
  BY <1>4, <1>5, Kinds DEF OnePlace, Points
<1>9. SomePlace(BootLevel, BootMemory)
  <2> SUFFICES ASSUME NEW g \in Frame, BootLevel[g] \in 1 .. 4
               PROVE  \E f \in Frame : \E i \in WordIndex :
                        BootLevel[f] = BootLevel[g] - 1 /\ Points(BootMemory[f][i]) /\ BootMemory[f][i].pa = g
    BY DEF SomePlace
  <2>1. g = 1 \/ g = 2
    BY <1>2
  <2>2. /\ Points(BootMemory[0][0]) /\ BootMemory[0][0].pa = 1
        /\ Points(BootMemory[1][0]) /\ BootMemory[1][0].pa = 2
    BY BootWords, Kinds DEF Points
  <2>3. QED
    BY <1>1, <1>2, <2>1, <2>2, BootWords
<1>10. QED
  BY <1>2, <1>3, <1>6, <1>7, <1>8, <1>9, BootWords DEF Tree

LEMMA BootArena ==
  LET a == allocate(NewArena, 0)
  IN ArenaOk(a) /\ a.entry[0] = 0 /\ \A i \in SlotIndex \ {0} : a.entry[i] = None
<1> DEFINE a == allocate(NewArena, 0)
<1>1. ArenaCapacity \in Nat /\ ArenaCapacity > 0 /\ ArenaGenModulus \in Nat /\ ArenaGenModulus > 0
  BY ArenaAssumption
<1>2. 0 \in SlotIndex /\ SlotIndex \subseteq Nat /\ None \notin Nat /\ 0 \in Frame /\ None \notin Frame
  BY <1>1, FrameFacts, PmmAssumption DEF SlotIndex
<1>3. /\ a.entry = [[i \in SlotIndex |-> None] EXCEPT ![0] = 0]
      /\ a.generation = [i \in SlotIndex |-> 0]
      /\ a.next_free = [[i \in SlotIndex |-> IF i + 1 < ArenaCapacity THEN i + 1 ELSE None] EXCEPT ![0] = None]
      /\ a.free_head = [i \in SlotIndex |-> IF i + 1 < ArenaCapacity THEN i + 1 ELSE None][0]
      /\ a = [entry |-> a.entry, generation |-> a.generation, next_free |-> a.next_free, free_head |-> a.free_head]
  BY DEF allocate, NewArena
<1> HIDE DEF a
<1>4. /\ a.entry[0] = 0 /\ \A i \in SlotIndex \ {0} : a.entry[i] = None
      /\ \A i \in SlotIndex \ {0} : a.next_free[i] = IF i + 1 < ArenaCapacity THEN i + 1 ELSE None
      /\ a.free_head = IF 1 < ArenaCapacity THEN 1 ELSE None
  BY <1>2, <1>3
<1>5. /\ a.entry \in [SlotIndex -> Frame \union {None}]
      /\ a.generation \in [SlotIndex -> SlotGeneration]
      /\ a.next_free \in [SlotIndex -> SlotIndex \union {None}]
      /\ a.free_head \in SlotIndex \union {None}
  BY <1>1, <1>2, <1>3, <1>4 DEF SlotIndex, SlotGeneration
<1>6. a \in ArenaOf(Frame)
  BY <1>3, <1>5 DEF ArenaOf
<1>7. \A i \in SlotIndex :
        /\ a.entry[i] = None <=> (a.free_head # None /\ i >= a.free_head)
        /\ a.entry[i] = None => a.next_free[i] = IF i + 1 < ArenaCapacity THEN i + 1 ELSE None
  BY <1>1, <1>2, <1>4 DEF SlotIndex
<1>8. ArenaOk(a)
  BY <1>2, <1>4, <1>6, <1>7 DEF ArenaOk
<1>9. QED
  BY <1>4, <1>8 DEF a

LEMMA BootTable == BootKernel.table \in CapabilityTable /\ WellFormed(BootKernel.table)
<1> DEFINE c1 == [rights |-> Rights, object |-> AddressSpaceObject(BootHandle)]
           c2 == [rights |-> Rights, object |-> [kind |-> "DebugConsole"]]
           t == insert_root(NewTable, c1)
<1>1. BootKernel.table = insert_root(t, c2)
  BY DEF BootKernel, Kernel
<1>2. BootHandle \in SlotId
  BY ArenaAssumption DEF BootHandle, SlotId, SlotIndex, SlotGeneration
<1>3. c1 \in Capability /\ c2 \in Capability
  BY <1>2, AddressSpaceAssumption DEF Capability
<1>4. NewTable \in CapabilityTable /\ WellFormed(NewTable)
  BY NewTableType, NewTableWellFormed
<1>5. /\ NewTable.free_head = 0 /\ 0 \in Index /\ 1 \in Index /\ None \notin Index
      /\ NewTable.next_free[0] = 1 /\ Live(NewTable) = {} /\ ~is_full(NewTable)
  <2>1. 0 \in Index /\ 1 \in Index /\ None \notin Index /\ 1 < Capacity
    BY CapTableAssumption, AddressSpaceAssumption, LinkFacts DEF Index
  <2>2. QED
    BY <2>1 DEF NewTable, Live, is_full
<1> HIDE DEF c1, c2
<1>6. t \in CapabilityTable /\ WellFormed(t)
  BY <1>3, <1>4, <1>5, InsertRootPreserves
<1>7. t.free_head = 1
  <2>1. Installed(NewTable, c1, None, 0, install(NewTable, c1, None, 0))
    BY <1>3, <1>4, <1>5, InstallFields, CapTableAssumption
  <2>2. QED
    BY <1>5, <2>1 DEF Installed, insert_root
<1>8. ~is_full(t)
  BY <1>5, <1>7 DEF is_full
<1> HIDE DEF t
<1>9. QED
  BY <1>1, <1>3, <1>6, <1>8, InsertRootPreserves

LEMMA InitInv == Init => IInv
<1> SUFFICES ASSUME Init PROVE IInv
  OBVIOUS
<1>1. /\ kernel = BootKernel /\ active = None /\ tlb = {} /\ host = [f \in Frame |-> <<>>]
  BY DEF Init, fake_create
<1>2. /\ kernel.arena = allocate(NewArena, 0) /\ kernel.pmm = BootPmm /\ kernel.mem = BootMemory
  BY <1>1 DEF BootKernel, Kernel
<1>3. Roots(kernel) = {0}
  <2>1. 0 \in SlotIndex /\ 0 # None
    BY ArenaAssumption, PmmAssumption DEF SlotIndex
  <2>2. kernel.arena.entry[0] = 0 /\ \A i \in SlotIndex \ {0} : kernel.arena.entry[i] = None
    BY <1>2, BootArena
  <2>3. QED
    BY <2>1, <2>2 DEF Roots
<1>4. {0, 1, 2, 3} \subseteq Frame
  BY FrameFacts
<1>5. KernelOk(kernel, BootLevel) /\ \A f \in Frame : BootLevel[f] # 6
  <2>1. Tree(BootLevel, kernel.mem, kernel.pmm.bitmap) /\ PmmOk(kernel.pmm, 3)
    BY <1>2, BootTree, BootPmmOk
  <2>2. /\ BootLevel[0] = 0 /\ BootLevel[1] = 1 /\ BootLevel[2] = 2
        /\ \A f \in Frame : BootLevel[f] # 6 /\ (BootLevel[f] = 0 <=> f \in Roots(kernel))
    BY <1>3, <1>4 DEF BootLevel
  <2>3. ArenaOk(kernel.arena) /\ kernel.table \in CapabilityTable /\ WellFormed(kernel.table)
    BY <1>1, <1>2, BootArena, BootTable
  <2>4. QED
    BY <2>1, <2>2, <2>3 DEF KernelOk
<1>6. AtRest(kernel)
  BY <1>5 DEF AtRest
<1>7. HostOk(kernel, host)
  <2>1. host = [f \in Frame |-> host[f]] /\ host[0] = <<>> /\ DOMAIN host[0] = {}
    BY <1>1, <1>4
  <2>2. FlatMap(0, host[0])
    <3>1. host[0] = [va \in DOMAIN host[0] |-> host[0][va]]
      BY <2>1
    <3>2. QED
      BY <2>1, <3>1 DEF FlatMap
  <2>3. ASSUME NEW va \in Pages
        PROVE  ReachOk(Reached(BootMemory, 0, va), 0, va, host[0])
    <3> DEFINE i4 == va_index(va, 4)
               i3 == va_index(va, 3)
               i2 == va_index(va, 2)
               e == Reached(BootMemory, 0, va)
    <3>1. i4 \in WordIndex /\ i3 \in WordIndex /\ i2 \in WordIndex
      BY PageFacts, Digits
    <3>2. InBlock(0, va) <=> i4 = 0 /\ i3 = 0 /\ i2 = 0
      BY PageFacts, FirstEntry DEF InBlock
    <3>3. /\ i4 # 0 => e = ZeroWord
          /\ i4 = 0 => e = At1(BootMemory, 1, va)
      BY <3>1, BootWords, Kinds DEF Reached
    <3>4. /\ i3 # 0 => At1(BootMemory, 1, va) = ZeroWord
          /\ i3 = 0 => At1(BootMemory, 1, va) = At2(BootMemory, 2, va)
      BY <3>1, BootWords, Kinds DEF At1
    <3>5. /\ i2 # 0 => At2(BootMemory, 2, va) = ZeroWord
          /\ i2 = 0 => At2(BootMemory, 2, va).kind = "block"
      BY <3>1, BootWords, Kinds DEF At2
    <3> HIDE DEF e, i4, i3, i2
    <3>6. IF InBlock(0, va) THEN e.kind = "block" ELSE e.kind = "zero"
      BY <3>2, <3>3, <3>4, <3>5, Kinds
    <3>7. QED
      BY <2>1, <3>6 DEF ReachOk, e
  <2>4. QED
    BY <1>2, <1>3, <2>1, <2>2, <2>3 DEF HostOk
<1>8. ActiveOk(kernel, active) /\ TlbOk
  BY <1>1 DEF ActiveOk, TlbOk, NoStaleTlb
<1>9. QED
  BY <1>6, <1>7, <1>8 DEF IInv

-----------------------------------------------------------------------------
(* What the steps do to the kernel state.                                  *)

LEMMA KernelFields ==
  ASSUME NEW t, NEW a, NEW p, NEW m
  PROVE  /\ Kernel(t, a, p, m).table = t /\ Kernel(t, a, p, m).arena = a
         /\ Kernel(t, a, p, m).pmm = p /\ Kernel(t, a, p, m).mem = m
  BY DEF Kernel

\* The same roots reach the same words: the flat maps still describe them.
LEMMA HostSame ==
  ASSUME NEW k, NEW h, HostOk(k, h), NEW k2, Roots(k2) = Roots(k),
         \A r \in Roots(k) : \A va \in Nat : Reached(k2.mem, r, va) = Reached(k.mem, r, va)
  PROVE  HostOk(k2, h)
  BY PageFacts DEF HostOk

\* A translation of the active tables survives a step that leaves its page alone.
LEMMA TranslationKept ==
  ASSUME NEW k, NEW h, AtRest(k), HostOk(k, h), NEW k2, NEW h2, AtRest(k2), HostOk(k2, h2),
         NEW r \in Roots(k), r \in Roots(k2),
         NEW page \in Nat, page * PageSize < USERSPACE_VA_LIMIT,
         LET va == page * PageSize
         IN /\ va \in DOMAIN h2[r] <=> va \in DOMAIN h[r]
            /\ va \in DOMAIN h[r] => h2[r][va] = h[r][va]
  PROVE  translate(r, k2.mem, page * PageSize) = translate(r, k.mem, page * PageSize)
<1> DEFINE va == page * PageSize
           base == va - (va % PageSize)
<1>1. va \in Nat /\ va % PageSize = 0
  BY PageAddress
<1>2. va \in 0 .. (USERSPACE_VA_LIMIT - 1)
  BY <1>1, PageFacts
<1>3. base = va
  <2> HIDE DEF va
  <2>1. QED
    BY <1>1
<1> HIDE DEF va
<1>4. /\ translate(r, k.mem, va) = IF ~InBlock(r, base) /\ base \in DOMAIN h[r] THEN h[r][base] ELSE None
      /\ translate(r, k2.mem, va) = IF ~InBlock(r, base) /\ base \in DOMAIN h2[r] THEN h2[r][base] ELSE None
  BY <1>2, TranslateAt
<1> HIDE DEF base
<1>5. QED
  BY <1>3, <1>4 DEF va

\* The TLB keeps the entries of the pages a step leaves alone.
LEMMA TlbKept ==
  ASSUME IInv, AtRest(kernel'), HostOk(kernel', host'),
         active' = active, tlb' \subseteq tlb,
         \A h \in SlotId : contains(kernel.arena, h) =>
           contains(kernel'.arena, h) /\ root_frame(kernel'.arena, h) = root_frame(kernel.arena, h),
         \A r \in Roots(kernel) : \A e \in tlb' :
           LET va == e.page * PageSize
           IN /\ va \in DOMAIN host'[r] <=> va \in DOMAIN host[r]
              /\ va \in DOMAIN host[r] => host'[r][va] = host[r][va]
  PROVE  IInv'
<1>1. ActiveOk(kernel', active')
  BY DEF IInv, ActiveOk
<1>2. ASSUME NEW e \in tlb'
      PROVE  TranslateIn(root_frame(kernel.arena, active), e.page * PageSize)' =
               [frame |-> e.frame, flags |-> e.flags]
  <2> DEFINE r == root_frame(kernel.arena, active)
  <2>1. active \in SlotId /\ contains(kernel.arena, active) /\ e \in tlb
    BY <1>2 DEF IInv, TlbOk, ActiveOk
  <2>2. e.page \in Nat /\ e.page * PageSize < USERSPACE_VA_LIMIT
    BY <2>1 DEF IInv, TlbOk
  <2>3. root_frame(kernel'.arena, active') = r /\ contains(kernel'.arena, active)
    BY <2>1
  <2>4. r \in Roots(kernel) /\ r \in Roots(kernel')
    <3>1. ArenaOk(kernel.arena) /\ ArenaOk(kernel'.arena)
      BY DEF IInv, AtRest, KernelOk
    <3>2. QED
      BY <2>1, <2>3, <3>1, ArenaRoots
  <2> HIDE DEF r
  <2>5. translate(r, kernel'.mem, e.page * PageSize) = translate(r, kernel.mem, e.page * PageSize)
    BY <1>2, <2>2, <2>4, TranslationKept DEF IInv
  <2>6. translate(r, kernel.mem, e.page * PageSize) = [frame |-> e.frame, flags |-> e.flags]
    BY <2>1 DEF IInv, TlbOk, NoStaleTlb, TranslateIn, r
  <2>7. QED
    BY <2>3, <2>5, <2>6 DEF TranslateIn
<1>3. TlbOk'
  <2>1. NoStaleTlb'
    BY <1>2 DEF NoStaleTlb
  <2>2. QED
    BY <2>1 DEF IInv, TlbOk
<1>4. QED
  BY <1>1, <1>3 DEF IInv

\* free_frame of a frame outside the trees.
LEMMA Given ==
  ASSUME NEW k, NEW lvl, KernelOk(k, lvl), NEW f \in Frame, lvl[f] = 6,
         \A g \in Frame \ {f} : lvl[g] # 6
  PROVE  LET k2 == give_frame(k, f)
         IN /\ AtRest(k2)
            /\ k2.mem = k.mem /\ k2.arena = k.arena /\ k2.table = k.table
<1> DEFINE k2 == give_frame(k, f)
           l == [lvl EXCEPT ![f] = 5]
<1>1. f >= 3 /\ f \in Nat
  BY FrameFacts DEF KernelOk
<1>2. f \in k.pmm.bitmap /\ PmmOk(k.pmm, 3)
  BY DEF KernelOk, Tree
<1>3. /\ free_frame_result(k.pmm, frame_addr(k.pmm.extent, f)) = "Ok"
      /\ free_frame(k.pmm, f).bitmap = k.pmm.bitmap \ {f} /\ PmmOk(free_frame(k.pmm, f), 3)
  BY <1>1, <1>2, FreeFrame
<1>4. k2 = Kernel(k.table, k.arena, free_frame(k.pmm, f), k.mem)
  BY <1>3 DEF give_frame
<1> HIDE DEF k2
<1>5. k2.table = k.table /\ k2.arena = k.arena /\ k2.pmm = free_frame(k.pmm, f) /\ k2.mem = k.mem
  BY <1>4, KernelFields
<1>6. Tree(lvl, k.mem, k.pmm.bitmap)
  BY DEF KernelOk
<1>7. Tree(l, k.mem, k.pmm.bitmap \ {f}) /\ l[f] = 5 /\ \A g \in Frame \ {f} : l[g] = lvl[g]
  BY <1>6, FreedTree
<1> HIDE DEF l
<1>8. KernelOk(k2, l)
  <2>1. Roots(k2) = Roots(k)
    BY <1>5 DEF Roots
  <2>2. {0, 1, 2} \subseteq Frame /\ f \notin {0, 1, 2}
    BY <1>1, FrameFacts
  <2>3. \A g \in Frame : l[g] = 0 <=> g \in Roots(k2)
    BY <1>7, <2>1 DEF KernelOk
  <2>4. Tree(l, k2.mem, k2.pmm.bitmap) /\ PmmOk(k2.pmm, 3)
    BY <1>3, <1>5, <1>7
  <2>5. QED
    BY <1>5, <1>7, <2>2, <2>3, <2>4 DEF KernelOk
<1>9. QED
  BY <1>5, <1>7, <1>8 DEF AtRest, k2

\* The frame a caller takes and writes.
LEMMA Taken ==
  ASSUME NEW k, NEW lvl, KernelOk(k, lvl), \A f \in Frame : lvl[f] # 6, alloc_index(k.pmm) # None
  PROVE  LET pa == alloc_index(k.pmm)
             k2 == written(take_frame(k), pa)
         IN /\ pa \in Frame /\ lvl[pa] = 5
            /\ k2.arena = k.arena /\ k2.table = k.table
            /\ \E l : /\ KernelOk(k2, l) /\ l[pa] = 6 /\ \A g \in Frame \ {pa} : l[g] = lvl[g]
            /\ SameReach(lvl, k.mem, k2.mem)
<1> DEFINE pa == alloc_index(k.pmm)
           k1 == take_frame(k)
           q == [i \in WordIndex |-> Data("left")]
           k2 == written(k1, pa)
           m1 == [k.mem EXCEPT ![pa] = ZeroPage]
           m2 == [m1 EXCEPT ![pa] = q]
           p2 == alloc_frame(k.pmm, pa)
<1>1. PmmOk(k.pmm, 3) /\ Tree(lvl, k.mem, k.pmm.bitmap)
  BY DEF KernelOk
<1>2. pa \in Frame \ k.pmm.bitmap /\ p2.bitmap = k.pmm.bitmap \union {pa} /\ PmmOk(p2, 3)
  BY <1>1, AllocIndex
<1>3. lvl[pa] = 5 /\ IsMemory(k.mem)
  BY <1>1, <1>2 DEF Tree
<1>4. k1 = Kernel(k.table, k.arena, p2, m1)
  BY DEF take_frame
<1>5. k2 = Kernel(k.table, k.arena, p2, m2)
  <2> HIDE DEF k1, m1, p2, pa
  <2>1. k1.table = k.table /\ k1.arena = k.arena /\ k1.pmm = p2 /\ k1.mem = m1
    BY <1>4, KernelFields
  <2>2. QED
    BY <2>1 DEF written
<1> HIDE DEF k2, pa
<1>6. k2.table = k.table /\ k2.arena = k.arena /\ k2.pmm = p2 /\ k2.mem = m2
  <2> HIDE DEF m2, p2
  <2>1. QED
    BY <1>5, KernelFields
<1>7. PageSet(k.mem, pa, q, m2)
  <2>1. m2 = [k.mem EXCEPT ![pa] = q]
    BY <1>2, <1>3, MemoryDomain
  <2>2. q = [i \in WordIndex |-> q[i]]
    OBVIOUS
  <2> HIDE DEF q, m2
  <2>3. PageSet(k.mem, pa, q, [k.mem EXCEPT ![pa] = q])
    BY <1>2, <1>3, <2>2, SetPage
  <2>4. QED
    BY <2>1, <2>3
<1> HIDE DEF q, m2, p2
<1> DEFINE l == [lvl EXCEPT ![pa] = 6]
<1>8. Tree(l, m2, k.pmm.bitmap \union {pa}) /\ l[pa] = 6 /\ \A g \in Frame \ {pa} : l[g] = lvl[g]
  BY <1>1, <1>2, <1>3, <1>7, TakenTree
<1> HIDE DEF l
<1>9. KernelOk(k2, l)
  <2>1. Roots(k2) = Roots(k)
    BY <1>6 DEF Roots
  <2>2. {0, 1, 2} \subseteq Frame /\ pa \notin {0, 1, 2}
    BY <1>3, FrameFacts DEF KernelOk
  <2>3. \A g \in Frame : l[g] = 0 <=> g \in Roots(k2)
    BY <1>3, <1>8, <2>1 DEF KernelOk
  <2>4. Tree(l, k2.mem, k2.pmm.bitmap) /\ PmmOk(k2.pmm, 3)
    BY <1>2, <1>6, <1>8
  <2>5. QED
    BY <1>6, <1>8, <2>2, <2>3, <2>4 DEF KernelOk
<1>10. SameReach(lvl, k.mem, k2.mem)
  <2>1. \A g \in Frame : lvl[g] <= 3 => \A j \in WordIndex : m2[g][j] = k.mem[g][j]
    BY <1>3, <1>7 DEF PageSet
  <2>2. QED
    BY <1>1, <1>6, <2>1, ReachedOutside DEF SameReach
<1>11. QED
  BY <1>2, <1>3, <1>6, <1>8, <1>9, <1>10 DEF k2, pa

-----------------------------------------------------------------------------
(* The steps.                                                              *)

\* A step that changes neither the trees nor the arena.
LEMMA TableOnly ==
  ASSUME NEW k, NEW h, AtRest(k), HostOk(k, h), NEW t \in CapabilityTable, WellFormed(t)
  PROVE  LET k2 == Kernel(t, k.arena, k.pmm, k.mem)
         IN AtRest(k2) /\ HostOk(k2, h) /\ k2.arena = k.arena
<1> DEFINE k2 == Kernel(t, k.arena, k.pmm, k.mem)
<1>1. k2.table = t /\ k2.arena = k.arena /\ k2.pmm = k.pmm /\ k2.mem = k.mem
  BY KernelFields
<1> HIDE DEF k2
<1>2. Roots(k2) = Roots(k)
  BY <1>1 DEF Roots
<1>3. AtRest(k2)
  BY <1>1, <1>2 DEF AtRest, KernelOk
<1>4. HostOk(k2, h)
  BY <1>1, <1>2, HostSame
<1>5. QED
  BY <1>1, <1>3, <1>4 DEF k2

LEMMA DropStep ==
  ASSUME IInv, NEW cap \in CapHandle, DropCap(cap)
  PROVE  IInv'
<1> DEFINE t == cap_drop(kernel.table, cap)
<1>1. /\ cap_drop_result(kernel.table, cap) = "Ok"
      /\ kernel' = Kernel(t, kernel.arena, kernel.pmm, kernel.mem)
      /\ active' = active /\ tlb' = tlb /\ host' = host
  BY DEF DropCap
<1>2. kernel.table \in CapabilityTable /\ WellFormed(kernel.table)
  BY DEF IInv, AtRest, KernelOk
<1>3. t \in CapabilityTable /\ WellFormed(t)
  BY <1>1, <1>2, TakePreserves DEF cap_take
<1> HIDE DEF t
<1>4. AtRest(kernel') /\ HostOk(kernel', host') /\ kernel'.arena = kernel.arena
  BY <1>1, <1>3, TableOnly DEF IInv
<1>5. QED
  BY <1>1, <1>4, TlbKept

LEMMA ActivateStep ==
  ASSUME IInv, NEW h \in SlotId, Activate(h)
  PROVE  IInv'
<1>1. contains(kernel.arena, h) /\ active' = h /\ tlb' = {} /\ kernel' = kernel /\ host' = host
  BY DEF Activate
<1>2. ActiveOk(kernel', active')
  BY <1>1 DEF ActiveOk
<1>3. TlbOk'
  BY <1>1 DEF TlbOk, NoStaleTlb
<1>4. QED
  BY <1>1, <1>2, <1>3 DEF IInv

LEMMA TlbFillStep ==
  ASSUME IInv, NEW va \in Vas, TlbFill(va)
  PROVE  IInv'
<1> DEFINE r == root_frame(kernel.arena, active)
           t == translate(r, kernel.mem, va)
           page == va \div PageSize
           base == va - (va % PageSize)
           e == [page |-> page, frame |-> t.frame, flags |-> t.flags]
<1>1. /\ active # None /\ t # None /\ tlb' = tlb \union {e}
      /\ kernel' = kernel /\ active' = active /\ host' = host
  BY DEF TlbFill, TranslateIn
<1>2. va \in 0 .. (USERSPACE_VA_LIMIT - 1) /\ va \in Nat
  BY AddressSpaceSpecAssumption, PageFacts
<1>3. r \in Roots(kernel)
  <2>1. active \in SlotId /\ contains(kernel.arena, active) /\ ArenaOk(kernel.arena)
    BY <1>1 DEF IInv, ActiveOk, AtRest, KernelOk
  <2>2. QED
    BY <2>1, ArenaRoots
<1>4. /\ base \in Pages /\ base \in 0 .. (USERSPACE_VA_LIMIT - 1) /\ page \in Nat
      /\ base = page * PageSize
  <2>1. base \in Pages /\ page \in Nat /\ va = PageSize * page + (va % PageSize)
    BY <1>2, BaseOf, PageBase
  <2>2. va % PageSize \in Nat /\ PageSize * page \in Nat /\ page * PageSize = PageSize * page
    BY <1>2, <2>1, DivMod, Spans
  <2> HIDE DEF page
  <2>3. base = PageSize * page
    BY <1>2, <2>1, <2>2
  <2> HIDE DEF base
  <2>4. QED
    BY <2>1, <2>2, <2>3, PageFacts
<1>5. t = IF ~InBlock(r, base) /\ base \in DOMAIN host[r] THEN host[r][base] ELSE None
  BY <1>2, <1>3, TranslateAt DEF IInv
<1>6. translate(r, kernel.mem, base) = t
  <2>1. base - (base % PageSize) = base
    <3> HIDE DEF base
    <3>1. base % PageSize = 0 /\ base \in Nat
      BY <1>4, PageFacts
    <3>2. QED
      BY <3>1
  <2> DEFINE b == base - (base % PageSize)
  <2>2. translate(r, kernel.mem, base) = IF ~InBlock(r, b) /\ b \in DOMAIN host[r] THEN host[r][b] ELSE None
    <3> HIDE DEF base
    <3>1. QED
      BY <1>3, <1>4, TranslateAt DEF IInv
  <2> HIDE DEF base, b, t
  <2>3. QED
    BY <1>5, <2>1, <2>2 DEF b
<1>7. t = [frame |-> t.frame, flags |-> t.flags]
  <2>1. base \in DOMAIN host[r] /\ t = host[r][base]
    <3> HIDE DEF base, t
    <3>1. QED
      BY <1>1, <1>5
  <2>2. host[r][base] \in [frame : Frame, flags : SUBSET MappingFlags]
    <3> HIDE DEF base
    <3>1. QED
      BY <1>3, <2>1 DEF IInv, HostOk, FlatMap
  <2> HIDE DEF t, base
  <2>3. QED
    BY <2>1, <2>2
<1>8. e.page = page /\ e.frame = t.frame /\ e.flags = t.flags
  <2> HIDE DEF page, t
  <2>1. QED
    OBVIOUS
<1> HIDE DEF e, t, page, base
<1>9. ASSUME NEW x \in tlb'
      PROVE  /\ x.page \in Nat /\ x.page * PageSize < USERSPACE_VA_LIMIT
             /\ translate(r, kernel.mem, x.page * PageSize) = [frame |-> x.frame, flags |-> x.flags]
  <2>1. CASE x \in tlb
    BY <2>1 DEF IInv, TlbOk, NoStaleTlb, TranslateIn
  <2>2. CASE x = e
    <3>1. x.page * PageSize = base /\ base < USERSPACE_VA_LIMIT
      BY <1>4, <1>8, <2>2, PageFacts
    <3>2. QED
      BY <1>4, <1>6, <1>7, <1>8, <2>2, <3>1
  <2>3. QED
    BY <1>1, <2>1, <2>2
<1>10. TlbOk'
  <2>1. NoStaleTlb'
    BY <1>1, <1>9 DEF NoStaleTlb, TranslateIn
  <2>2. QED
    BY <1>1, <1>9, <2>1 DEF TlbOk
<1>11. QED
  BY <1>1, <1>10 DEF IInv

\* allocate fills the lowest free slot.
LEMMA ArenaAllocate ==
  ASSUME NEW a, ArenaOk(a), a.free_head # None, NEW f \in Frame, \A i \in SlotIndex : a.entry[i] # f
  PROVE  LET b == allocate(a, f)
         IN /\ ArenaOk(b)
            /\ a.free_head \in SlotIndex /\ a.entry[a.free_head] = None /\ b.entry[a.free_head] = f
            /\ \A i \in SlotIndex \ {a.free_head} : b.entry[i] = a.entry[i]
            /\ b.generation = a.generation
<1> DEFINE b == allocate(a, f)
           fh == a.free_head
<1>1. /\ a.entry \in [SlotIndex -> Frame \union {None}]
      /\ a.generation \in [SlotIndex -> SlotGeneration]
      /\ a.next_free \in [SlotIndex -> SlotIndex \union {None}]
      /\ fh \in SlotIndex
  BY DEF ArenaOk, ArenaOf
<1>2. ArenaCapacity \in Nat /\ SlotIndex \subseteq Nat /\ None \notin Nat /\ None \notin Frame
  BY ArenaAssumption, FrameFacts, PmmAssumption DEF SlotIndex
<1>3. /\ b.entry = [a.entry EXCEPT ![fh] = f] /\ b.generation = a.generation
      /\ b.next_free = [a.next_free EXCEPT ![fh] = None] /\ b.free_head = a.next_free[fh]
      /\ b = [entry |-> b.entry, generation |-> b.generation, next_free |-> b.next_free, free_head |-> b.free_head]
  BY DEF allocate
<1> HIDE DEF b
<1>4. /\ a.entry[fh] = None
      /\ a.next_free[fh] = IF fh + 1 < ArenaCapacity THEN fh + 1 ELSE None
      /\ \A i \in SlotIndex : a.entry[i] = None <=> i >= fh
      /\ \A i \in SlotIndex : a.entry[i] = None => a.next_free[i] = IF i + 1 < ArenaCapacity THEN i + 1 ELSE None
      /\ \A i, j \in SlotIndex : (a.entry[i] = a.entry[j] /\ a.entry[i] # None) => i = j
  <2>1. \A i \in SlotIndex : a.entry[i] = None <=> (fh # None /\ i >= fh)
    BY DEF ArenaOk
  <2>2. \A i \in SlotIndex : a.entry[i] = None => a.next_free[i] = IF i + 1 < ArenaCapacity THEN i + 1 ELSE None
    BY DEF ArenaOk
  <2>3. \A i, j \in SlotIndex : (a.entry[i] = a.entry[j] /\ a.entry[i] # None) => i = j
    BY DEF ArenaOk
  <2> HIDE DEF fh
  <2>4. fh # None /\ fh \in Nat /\ fh >= fh
    BY <1>1, <1>2 DEF fh
  <2>5. a.entry[fh] = None
    BY <1>1, <2>1, <2>4
  <2>6. a.next_free[fh] = IF fh + 1 < ArenaCapacity THEN fh + 1 ELSE None
    BY <1>1, <2>2, <2>5
  <2>7. \A i \in SlotIndex : a.entry[i] = None <=> i >= fh
    BY <2>1, <2>4
  <2>8. QED
    BY <2>2, <2>3, <2>5, <2>6, <2>7
<1> HIDE DEF fh
<1>5. /\ b.entry[fh] = f /\ \A i \in SlotIndex \ {fh} : b.entry[i] = a.entry[i]
      /\ \A i \in SlotIndex \ {fh} : b.next_free[i] = a.next_free[i]
      /\ b.free_head = IF fh + 1 < ArenaCapacity THEN fh + 1 ELSE None
  BY <1>1, <1>3, <1>4
<1>6. b \in ArenaOf(Frame)
  <2>1. /\ b.entry \in [SlotIndex -> Frame \union {None}]
        /\ b.generation \in [SlotIndex -> SlotGeneration]
        /\ b.next_free \in [SlotIndex -> SlotIndex \union {None}]
        /\ b.free_head \in SlotIndex \union {None}
    BY <1>1, <1>3
  <2>2. QED
    BY <1>3, <2>1 DEF ArenaOf
<1>7. \A i \in SlotIndex :
        /\ b.entry[i] = None <=> (b.free_head # None /\ i >= b.free_head)
        /\ b.entry[i] = None => b.next_free[i] = IF i + 1 < ArenaCapacity THEN i + 1 ELSE None
  <2> SUFFICES ASSUME NEW i \in SlotIndex
               PROVE  /\ b.entry[i] = None <=> (b.free_head # None /\ i >= b.free_head)
                      /\ b.entry[i] = None => b.next_free[i] = IF i + 1 < ArenaCapacity THEN i + 1 ELSE None
    OBVIOUS
  <2>1. i \in Nat /\ i < ArenaCapacity /\ fh \in Nat /\ fh < ArenaCapacity
    BY <1>1, <1>2 DEF SlotIndex
  <2>2. b.free_head # None /\ i >= b.free_head <=> i >= fh + 1
    BY <1>2, <1>5, <2>1
  <2>3. CASE i = fh
    BY <1>2, <1>5, <2>1, <2>2, <2>3
  <2>4. CASE i # fh
    BY <1>4, <1>5, <2>1, <2>2, <2>4
  <2>5. QED
    BY <2>3, <2>4
<1>8. \A i, j \in SlotIndex : (b.entry[i] = b.entry[j] /\ b.entry[i] # None) => i = j
  BY <1>4, <1>5
<1>9. QED
  BY <1>1, <1>3, <1>4, <1>5, <1>6, <1>7, <1>8 DEF ArenaOk, b, fh

\* The derived capability of a new address space.
LEMMA Derived ==
  ASSUME NEW t \in CapabilityTable, WellFormed(t), NEW src \in CapHandle, NEW rights \in SUBSET Rights,
         NEW o \in Objects, cap_derive_result(t, src, rights) = "Ok"
  PROVE  LET u == cap_derive(t, src, rights, o) IN u \in CapabilityTable /\ WellFormed(u)
<1> DEFINE c == [rights |-> rights, object |-> o]
           d == t.entry[src.index].depth + 1
<1>1. /\ resolves(t, src) /\ rights \subseteq t.entry[src.index].rights /\ ~(d > MaxDepth) /\ ~is_full(t)
  BY DEF cap_derive_result, entry_of
<1>2. src.index \in Live(t) /\ t.entry[src.index] \in Entry
  BY <1>1, ResolvedIsLive
<1>3. c \in Capability
  BY DEF Capability
<1>4. d \in 0 .. MaxDepth
  BY <1>1, <1>2, CapTableAssumption DEF Entry
<1>5. FitsUnder(t, c, src.index, d)
  <2>1. src.index # None
    BY <1>2, LinkFacts DEF Live
  <2>2. QED
    BY <1>1, <2>1 DEF FitsUnder
<1>6. cap_derive(t, src, rights, o) = install(t, c, src.index, d)
  BY DEF cap_derive, entry_of
<1> HIDE DEF c, d
<1>7. QED
  BY <1>1, <1>2, <1>3, <1>4, <1>5, <1>6, InstallPreserves

LEMMA CreateStep ==
  ASSUME IInv, NEW parent \in CapHandle, NEW rights \in RightsChoices, Create(parent, rights)
  PROVE  IInv'
<1> DEFINE k == kernel
           k2 == kernel'
           root == alloc_index(k.pmm)
           fh == k.arena.free_head
           slot == [index |-> fh, generation |-> k.arena.generation[fh]]
           a2 == allocate(k.arena, root)
           t2 == cap_derive(k.table, parent, rights, AddressSpaceObject(slot))
           m2 == [k.mem EXCEPT ![root] = ZeroPage]
           p2 == alloc_frame(k.pmm, root)
<1>1. /\ create_preflight(k, parent, rights) = "Ok"
      /\ k2 = cap_create_address_space(k, parent, rights).kernel
      /\ host' = [host EXCEPT ![root] = <<>>] /\ active' = active /\ tlb' = tlb
  BY DEF Create, fake_create
<1>2. PICK lvl : KernelOk(k, lvl) /\ \A f \in Frame : lvl[f] # 6
  BY DEF IInv, AtRest
<1>3. rights \in SUBSET Rights
  BY AddressSpaceSpecAssumption
<1>4. cap_derive_result(k.table, parent, rights) = "Ok" /\ fh # None /\ root # None
  BY <1>1 DEF create_preflight, cap_derive_result, arena_is_full
<1>5. k2 = Kernel(t2, a2, p2, m2)
  BY <1>1, <1>4 DEF cap_create_address_space
<1>6. PmmOk(k.pmm, 3) /\ Tree(lvl, k.mem, k.pmm.bitmap) /\ ArenaOk(k.arena)
  BY <1>2 DEF KernelOk
<1>7. /\ root \in Frame /\ root \notin k.pmm.bitmap
      /\ p2.bitmap = k.pmm.bitmap \union {root} /\ PmmOk(p2, 3)
  BY <1>4, <1>6, AllocIndex
<1>8. lvl[root] = 5 /\ IsMemory(k.mem)
  BY <1>6, <1>7 DEF Tree
<1>9. root \notin Roots(k)
  BY <1>2, <1>7, <1>8 DEF KernelOk
<1> HIDE DEF k2, root
<1>10. /\ ArenaOk(a2) /\ fh \in SlotIndex /\ k.arena.entry[fh] = None /\ a2.entry[fh] = root
       /\ \A i \in SlotIndex \ {fh} : a2.entry[i] = k.arena.entry[i]
       /\ a2.generation = k.arena.generation
  <2>1. \A i \in SlotIndex : k.arena.entry[i] # root
    BY <1>7, <1>9, FrameFacts DEF Roots
  <2>2. QED
    BY <1>4, <1>6, <1>7, <2>1, ArenaAllocate
<1>11. t2 \in CapabilityTable /\ WellFormed(t2)
  <2>1. slot \in SlotId
    BY <1>6, <1>10 DEF ArenaOk, ArenaOf, SlotId
  <2> HIDE DEF slot
  <2>2. AddressSpaceObject(slot) \in Objects
    BY <2>1, AddressSpaceAssumption
  <2>3. QED
    BY <1>2, <1>3, <1>4, <2>2, Derived DEF KernelOk
<1> HIDE DEF t2, a2, p2, m2, fh
<1>12. k2.table = t2 /\ k2.arena = a2 /\ k2.pmm = p2 /\ k2.mem = m2
  BY <1>5, KernelFields
<1>13. Roots(k2) = Roots(k) \union {root}
  <2>1. root # None
    BY <1>7, FrameFacts
  <2>2. QED
    BY <1>10, <1>12, <2>1 DEF Roots
<1>14. PageSet(k.mem, root, ZeroPage, m2)
  <2>1. ZeroPage = [i \in WordIndex |-> ZeroPage[i]]
    BY DEF ZeroPage
  <2>2. QED
    BY <1>7, <1>8, <2>1, SetPage DEF m2
<1> DEFINE l == [lvl EXCEPT ![root] = 0]
<1>15. Tree(l, m2, k.pmm.bitmap \union {root}) /\ l[root] = 0 /\ \A g \in Frame \ {root} : l[g] = lvl[g]
  BY <1>6, <1>7, <1>8, <1>14, RootedTree
<1> HIDE DEF l
<1>16. KernelOk(k2, l) /\ \A f \in Frame : l[f] # 6
  <2>1. {0, 1, 2} \subseteq Frame /\ root \notin {0, 1, 2}
    BY <1>2, <1>8, FrameFacts DEF KernelOk
  <2>2. \A g \in Frame : l[g] = 0 <=> g \in Roots(k2)
    BY <1>2, <1>13, <1>15 DEF KernelOk
  <2>3. l[0] = 0 /\ l[1] = 1 /\ l[2] = 2
    BY <1>2, <1>15, <2>1 DEF KernelOk
  <2>4. Tree(l, k2.mem, k2.pmm.bitmap) /\ PmmOk(k2.pmm, 3)
    BY <1>7, <1>12, <1>15
  <2>5. KernelOk(k2, l)
    BY <1>10, <1>11, <1>12, <2>2, <2>3, <2>4 DEF KernelOk
  <2>6. QED
    BY <1>2, <1>15, <2>5
<1>17. AtRest(k2)
  BY <1>16 DEF AtRest
<1>18. /\ host' = [f \in Frame |-> host'[f]] /\ host'[root] = <<>>
       /\ \A f \in Frame \ {root} : host'[f] = host[f]
  <2>1. host = [f \in Frame |-> host[f]]
    BY DEF IInv, HostOk
  <2>2. QED
    BY <1>1, <1>7, <2>1
<1>19. HostOk(k2, host')
  <2>1. ASSUME NEW r \in Roots(k)
        PROVE  /\ FlatMap(r, host'[r])
               /\ \A va \in Pages : ReachOk(Reached(k2.mem, r, va), r, va, host'[r])
    <3>1. r \in Frame /\ lvl[r] = 0 /\ r # root
      BY <1>2, <1>9, RootFacts
    <3>2. \A va \in Nat : Reached(m2, r, va) = Reached(k.mem, r, va)
      <4>1. \A g \in Frame : lvl[g] <= 3 => \A j \in WordIndex : m2[g][j] = k.mem[g][j]
        BY <1>8, <1>14 DEF PageSet
      <4>2. QED
        BY <1>6, <3>1, <4>1, ReachedOutside
    <3>3. /\ FlatMap(r, host[r])
          /\ \A va \in Pages : ReachOk(Reached(k.mem, r, va), r, va, host[r])
      BY DEF IInv, HostOk
    <3>4. QED
      BY <1>12, <1>18, <3>1, <3>2, <3>3, PageFacts
  <2>2. FlatMap(root, host'[root])
    <3>1. DOMAIN host'[root] = {} /\ host'[root] = [va \in DOMAIN host'[root] |-> host'[root][va]]
      BY <1>18
    <3>2. QED
      BY <3>1 DEF FlatMap
  <2>3. ASSUME NEW va \in Pages PROVE ReachOk(Reached(k2.mem, root, va), root, va, host'[root])
    <3>1. ~InBlock(root, va)
      BY <1>2, <1>7, <1>8 DEF InBlock, KernelOk
    <3>2. va_index(va, 4) \in WordIndex
      BY PageFacts, Digits
    <3>3. m2[root][va_index(va, 4)] = ZeroWord
      BY <1>14, <3>2 DEF PageSet, ZeroPage
    <3>4. Reached(m2, root, va).kind = "zero"
      BY <3>3, Kinds DEF Reached
    <3>5. DOMAIN host'[root] = {}
      BY <1>18
    <3>6. QED
      BY <1>12, <3>1, <3>4, <3>5 DEF ReachOk
  <2>4. QED
    BY <1>13, <1>18, <2>1, <2>2, <2>3 DEF HostOk
<1>20. \A h \in SlotId : contains(k.arena, h) =>
         contains(k2.arena, h) /\ root_frame(k2.arena, h) = root_frame(k.arena, h)
  BY <1>10, <1>12 DEF contains, root_frame, get, SlotId
<1>21. \A r \in Roots(k) : host'[r] = host[r]
  BY <1>2, <1>9, <1>18, RootFacts
<1>22. QED
  BY <1>1, <1>17, <1>19, <1>20, <1>21, TlbKept DEF k2

\* A map that is refused, and the frame given back.
LEMMA RefusedStep ==
  ASSUME IInv, NEW lvl, KernelOk(kernel, lvl),
         NEW k2, NEW l2, KernelOk(k2, l2), NEW pa \in Frame, l2[pa] = 6, \A g \in Frame \ {pa} : l2[g] # 6,
         k2.arena = kernel.arena, SameReach(lvl, kernel.mem, k2.mem),
         kernel' = give_frame(k2, pa), UNCHANGED <<active, tlb, host>>
  PROVE  IInv'
<1>1. AtRest(kernel') /\ kernel'.mem = k2.mem /\ kernel'.arena = kernel.arena
  BY Given
<1>2. Roots(kernel') = Roots(kernel)
  BY <1>1 DEF Roots
<1>3. \A r \in Roots(kernel) : \A va \in Nat : Reached(kernel'.mem, r, va) = Reached(kernel.mem, r, va)
  BY <1>1, RootFacts DEF SameReach
<1>4. HostOk(kernel', host)
  BY <1>2, <1>3, HostSame DEF IInv
<1>5. QED
  BY <1>1, <1>4, TlbKept

\* The tables a walk hangs leave the rest of the kernel state as it was.
SameRootsAndRest(lvl, l2) ==
  \A f \in Frame : (l2[f] = 6 <=> lvl[f] = 6) /\ (l2[f] = 0 <=> lvl[f] = 0)

LEMMA WalkedKernel ==
  ASSUME NEW k, NEW lvl, KernelOk(k, lvl), NEW l2, NEW m2, NEW p2, Further(lvl, k.mem, k.pmm, 3, l2, m2, p2)
  PROVE  KernelOk(Kernel(k.table, k.arena, p2, m2), l2) /\ SameRootsAndRest(lvl, l2)
<1> DEFINE k2 == Kernel(k.table, k.arena, p2, m2)
<1>1. k2.table = k.table /\ k2.arena = k.arena /\ k2.pmm = p2 /\ k2.mem = m2
  BY KernelFields
<1> HIDE DEF k2
<1>2. \A f \in Frame : IF lvl[f] # 5 THEN l2[f] = lvl[f] ELSE l2[f] \in {1, 2, 3, 5}
  BY DEF Further, Grown
<1>3. /\ \A f \in Frame : l2[f] = 6 <=> lvl[f] = 6
      /\ \A f \in Frame : l2[f] = 0 <=> lvl[f] = 0
  BY <1>2
<1>4. l2[0] = 0 /\ l2[1] = 1 /\ l2[2] = 2
  BY <1>2, FrameFacts DEF KernelOk
<1>5. Roots(k2) = Roots(k)
  BY <1>1 DEF Roots
<1>6. Tree(l2, m2, p2.bitmap) /\ PmmOk(p2, 3)
  BY DEF Further
<1>7. \A f \in Frame : l2[f] = 0 <=> f \in Roots(k2)
  BY <1>3, <1>5 DEF KernelOk
<1>8. KernelOk(k2, l2)
  BY <1>1, <1>4, <1>6, <1>7 DEF KernelOk
<1>9. QED
  BY <1>3, <1>8 DEF k2, SameRootsAndRest

\* The flat map after a map on the double that accepts it.
With(as, va, pa, flags) ==
  [x \in DOMAIN as \union {va} |-> IF x = va THEN [frame |-> pa, flags |-> flags] ELSE as[x]]

Accepted(r, va, pa, flags, nmap) ==
  /\ HostMap(r, va, pa, flags, FALSE).mappings = nmap
  /\ FlatMap(r, nmap)
  /\ DOMAIN nmap = DOMAIN host[r] \union {va}
  /\ nmap[va].frame = pa /\ nmap[va].flags = flags
  /\ \A x \in DOMAIN host[r] : nmap[x] = host[r][x]

LEMMA HostMapped ==
  ASSUME NEW r, FlatMap(r, host[r]), NEW va \in Pages, ~InBlock(r, va), va \notin DOMAIN host[r],
         NEW pa \in Frame, NEW flags \in SUBSET MappingFlags, ~({"DEVICE", "EXECUTE"} \subseteq flags)
  PROVE  Accepted(r, va, pa, flags, With(host[r], va, pa, flags))
<1> DEFINE as == host[r]
           nmap == With(as, va, pa, flags)
<1>1. as = [x \in DOMAIN as |-> as[x]] /\ va % PageSize = 0
  BY PageFacts DEF FlatMap
<1>2. fake_map(as, va, pa, flags) = FakeOutcome("Ok", nmap)
  BY <1>1, FakeMap DEF With
<1>3. FakeOutcome("Ok", nmap).result = "Ok" /\ FakeOutcome("Ok", nmap).mappings = nmap
  <2> HIDE DEF nmap
  <2>1. QED
    BY DEF FakeOutcome
<1>4. vec_alloc_frame(<<pa>>) # None
  <2>1. <<pa>> # <<>> /\ Len(<<pa>>) = 1 /\ <<pa>>[1] = pa /\ pa # None
    BY FrameFacts
  <2>2. QED
    BY <2>1 DEF vec_alloc_frame
<1>5. va \notin Blocked(r)
  BY DEF Blocked
<1>6. HostMap(r, va, pa, flags, FALSE) = FakeOutcome("Ok", nmap)
  <2> HIDE DEF nmap
  <2>1. CASE Blocked(r) # {}
    BY <1>2, <1>5, <2>1 DEF HostMap, block_map
  <2>2. CASE Blocked(r) = {}
    <3>1. HostMap(r, va, pa, flags, FALSE) = out_of_frames_map(as, va, pa, flags, <<pa>>)
      BY <2>2 DEF HostMap
    <3>2. QED
      BY <1>2, <1>3, <1>4, <3>1 DEF out_of_frames_map
  <2>3. QED
    BY <2>1, <2>2
<1>7. /\ DOMAIN nmap = DOMAIN as \union {va} /\ nmap = [x \in DOMAIN nmap |-> nmap[x]]
      /\ nmap[va] = [frame |-> pa, flags |-> flags]
      /\ \A x \in DOMAIN as : nmap[x] = as[x]
  BY DEF With
<1> HIDE DEF nmap
<1>8. FlatMap(r, nmap)
  <2>1. ASSUME NEW x \in DOMAIN nmap
        PROVE  /\ x \in Pages /\ ~InBlock(r, x)
               /\ nmap[x] \in [frame : Frame, flags : SUBSET MappingFlags]
               /\ ~({"DEVICE", "EXECUTE"} \subseteq nmap[x].flags)
    <3>1. CASE x \in DOMAIN as
      BY <1>7, <3>1 DEF FlatMap
    <3>2. CASE x = va
      BY <1>7, <3>2
    <3>3. QED
      BY <1>7, <3>1, <3>2
  <2>2. QED
    BY <1>7, <2>1 DEF FlatMap
<1>9. HostMap(r, va, pa, flags, FALSE).mappings = nmap
  BY <1>3, <1>6
<1>10. nmap[va].frame = pa /\ nmap[va].flags = flags
  BY <1>7
<1>11. Accepted(r, va, pa, flags, nmap)
  BY <1>7, <1>8, <1>9, <1>10 DEF Accepted
<1>12. QED
  BY <1>11 DEF nmap

\* Page addresses with the same indices are the same.
LEMMA PageIndices ==
  ASSUME NEW va \in Pages, NEW vb \in Pages
  PROVE  Indices(va) = Indices(vb) <=> va = vb
<1>1. /\ va \in 0 .. (USERSPACE_VA_LIMIT - 1) /\ vb \in 0 .. (USERSPACE_VA_LIMIT - 1)
      /\ va \in Nat /\ vb \in Nat /\ va % PageSize = 0 /\ vb % PageSize = 0
  BY PageFacts
<1>2. Indices(va) = Indices(vb) <=> va \div PageSize = vb \div PageSize
  BY <1>1, SamePage
<1>3. va = PageSize * (va \div PageSize) /\ vb = PageSize * (vb \div PageSize)
  <2>1. va = PageSize * (va \div PageSize) + (va % PageSize) /\ vb = PageSize * (vb \div PageSize) + (vb % PageSize)
    BY <1>1, PageBase
  <2>2. va \div PageSize \in Nat /\ vb \div PageSize \in Nat /\ PageSize \in Nat
    BY <1>1, PageBase, Spans
  <2> DEFINE q == va \div PageSize
             s == vb \div PageSize
  <2>3. PageSize * q \in Nat /\ PageSize * s \in Nat
    <3> HIDE DEF q, s
    <3>1. q \in Nat /\ s \in Nat
      BY <2>2 DEF q, s
    <3>2. QED
      BY <2>2, <3>1
  <2>4. QED
    BY <1>1, <2>1, <2>3
<1>4. QED
  BY <1>2, <1>3

\* The flush of va's page leaves no entry for it.
LEMMA FlushedPage ==
  ASSUME IInv, NEW va
  PROVE  /\ invalidate_tlb_address(va) \subseteq tlb
         /\ \A e \in invalidate_tlb_address(va) : e.page * PageSize # va
<1> SUFFICES ASSUME NEW e \in invalidate_tlb_address(va) PROVE e \in tlb /\ e.page * PageSize # va
  OBVIOUS
<1>1. e \in tlb /\ e.page # va \div PageSize
  BY DEF invalidate_tlb_address
<1>2. e.page \in Nat
  BY <1>1 DEF IInv, TlbOk
<1>3. (e.page * PageSize) \div PageSize = e.page
  BY <1>2, PageAddress
<1>4. QED
  BY <1>1, <1>3

\* What a map finds before it writes the leaf, and the step that writes it.
MapReady(k2, l2, lvl, pa, root, va, flags, t1, t2, t) ==
  /\ KernelOk(k2, l2) /\ k2.arena = kernel.arena /\ SameReach(lvl, kernel.mem, k2.mem)
  /\ pa \in Frame /\ l2[pa] = 6 /\ \A g \in Frame \ {pa} : l2[g] # 6
  /\ root \in Roots(kernel) /\ va \in Pages
  /\ flags \in SUBSET MappingFlags /\ ~({"DEVICE", "EXECUTE"} \subseteq flags)
  /\ t1 \in Frame /\ t2 \in Frame /\ t \in Frame /\ l2[t] = 3
  /\ k2.mem[t][va_index(va, 1)].kind = "zero"
  /\ Path(k2.mem, root, va, t1, t2, t)
  /\ Reached(kernel.mem, root, va).kind = "zero"

LEMMA MappedStep ==
  ASSUME IInv, NEW lvl, KernelOk(kernel, lvl),
         NEW k2, NEW l2, NEW pa, NEW root, NEW va, NEW flags, NEW t1, NEW t2, NEW t,
         MapReady(k2, l2, lvl, pa, root, va, flags, t1, t2, t), NEW m3,
         WordSet(k2.mem, t, va_index(va, 1), page_descriptor(pa, flags_to_descriptor_bits(flags)), m3),
         kernel' = Kernel(k2.table, k2.arena, k2.pmm, m3), active' = active,
         tlb' = invalidate_tlb_address(va),
         host' = [host EXCEPT ![root] = HostMap(root, va, pa, flags, FALSE).mappings]
  PROVE  IInv'
<1> DEFINE w == page_descriptor(pa, flags_to_descriptor_bits(flags))
           l3 == [l2 EXCEPT ![pa] = 4]
           k3 == kernel'
           nmap == With(host[root], va, pa, flags)
<1>1. /\ KernelOk(k2, l2) /\ k2.arena = kernel.arena /\ SameReach(lvl, kernel.mem, k2.mem)
      /\ pa \in Frame /\ l2[pa] = 6 /\ \A g \in Frame \ {pa} : l2[g] # 6
      /\ root \in Roots(kernel) /\ va \in Pages
      /\ flags \in SUBSET MappingFlags /\ ~({"DEVICE", "EXECUTE"} \subseteq flags)
  BY DEF MapReady
<1>2. /\ t1 \in Frame /\ t2 \in Frame /\ t \in Frame /\ l2[t] = 3
      /\ k2.mem[t][va_index(va, 1)].kind = "zero"
      /\ Path(k2.mem, root, va, t1, t2, t)
      /\ Reached(kernel.mem, root, va).kind = "zero"
  BY DEF MapReady
<1>3. va \in Nat /\ va_index(va, 1) \in WordIndex /\ va % PageSize = 0 /\ va \in 0 .. (USERSPACE_VA_LIMIT - 1)
  BY <1>1, PageFacts, Digits
<1>4. Tree(l2, k2.mem, k2.pmm.bitmap) /\ l2 \in [Frame -> Level]
  BY <1>1 DEF KernelOk, Tree
<1>5. w.kind = "page" /\ w.pa = pa /\ WordSet(k2.mem, t, va_index(va, 1), w, m3)
  BY Kinds
<1> HIDE DEF w
<1>6. Tree(l3, m3, k2.pmm.bitmap)
  BY <1>1, <1>2, <1>3, <1>4, <1>5, LeafTree
<1>7. l3[pa] = 4 /\ \A g \in Frame \ {pa} : l3[g] = l2[g]
  BY <1>1, <1>4
<1> HIDE DEF l3, k3
<1>8. k3.table = k2.table /\ k3.arena = kernel.arena /\ k3.pmm = k2.pmm /\ k3.mem = m3
  BY <1>1, KernelFields DEF k3
<1>9. Roots(k3) = Roots(kernel) /\ Roots(k2) = Roots(kernel)
  BY <1>1, <1>8 DEF Roots
<1>10. AtRest(k3)
  <2>1. l3[0] = 0 /\ l3[1] = 1 /\ l3[2] = 2
    <3>1. {0, 1, 2} \subseteq Frame /\ pa \notin {0, 1, 2}
      BY <1>1, FrameFacts DEF KernelOk
    <3>2. QED
      BY <1>1, <1>7, <3>1 DEF KernelOk
  <2>2. \A f \in Frame : l3[f] = 0 <=> f \in Roots(k3)
    BY <1>1, <1>7, <1>9 DEF KernelOk
  <2>3. Tree(l3, k3.mem, k3.pmm.bitmap) /\ PmmOk(k3.pmm, 3)
    BY <1>1, <1>6, <1>8 DEF KernelOk
  <2>4. KernelOk(k3, l3)
    BY <1>1, <1>8, <2>1, <2>2, <2>3 DEF KernelOk
  <2>5. \A f \in Frame : l3[f] # 6
    BY <1>1, <1>7
  <2>6. QED
    BY <2>4, <2>5 DEF AtRest
<1>11. /\ FlatMap(root, host[root]) /\ ~InBlock(root, va) /\ va \notin DOMAIN host[root]
  <2>1. FlatMap(root, host[root]) /\ ReachOk(Reached(kernel.mem, root, va), root, va, host[root])
    BY <1>1 DEF IInv, HostOk
  <2>2. QED
    BY <1>2, <2>1, Kinds DEF ReachOk
<1>12. /\ HostMap(root, va, pa, flags, FALSE).mappings = nmap
       /\ FlatMap(root, nmap)
       /\ DOMAIN nmap = DOMAIN host[root] \union {va}
       /\ nmap[va].frame = pa /\ nmap[va].flags = flags
       /\ \A x \in DOMAIN host[root] : nmap[x] = host[root][x]
  <2>1. va \in Pages /\ pa \in Frame /\ flags \in SUBSET MappingFlags
    BY <1>1
  <2>2. ~({"DEVICE", "EXECUTE"} \subseteq flags)
    BY <1>1
  <2>3. Accepted(root, va, pa, flags, nmap)
    BY <1>11, <2>1, <2>2, HostMapped
  <2> HIDE DEF nmap
  <2>4. QED
    BY <2>3 DEF Accepted
<1> HIDE DEF nmap
<1>13. root \in Frame /\ lvl[root] = 0 /\ l2[root] = 0
  BY <1>1, <1>9, RootFacts
<1>14. /\ host' = [f \in Frame |-> host'[f]] /\ host'[root] = nmap
       /\ \A f \in Frame \ {root} : host'[f] = host[f]
  <2>1. host = [f \in Frame |-> host[f]]
    BY DEF IInv, HostOk
  <2>2. QED
    BY <1>12, <1>13, <2>1
<1>15. ASSUME NEW r \in Roots(kernel), NEW vb \in Pages
       PROVE  Reached(m3, r, vb) = IF r = root /\ vb = va THEN w ELSE Reached(kernel.mem, r, vb)
  <2>1. r \in Frame /\ lvl[r] = 0 /\ l2[r] = 0 /\ vb \in Nat
    BY <1>1, <1>9, RootFacts, PageFacts
  <2>2. Reached(m3, r, vb) = IF r = root /\ Indices(vb) = Indices(va) THEN w ELSE Reached(k2.mem, r, vb)
    BY <1>2, <1>3, <1>4, <1>5, <1>13, <2>1, ReachedLeaf
  <2>3. Reached(k2.mem, r, vb) = Reached(kernel.mem, r, vb)
    BY <1>1, <2>1 DEF SameReach
  <2>4. QED
    BY <1>1, <2>2, <2>3, PageIndices
<1>16. HostOk(k3, host')
  <2>1. ASSUME NEW r \in Roots(kernel)
        PROVE  /\ FlatMap(r, host'[r])
               /\ \A vb \in Pages : ReachOk(Reached(m3, r, vb), r, vb, host'[r])
    <3>1. /\ FlatMap(r, host[r]) /\ r \in Frame
          /\ \A vb \in Pages : ReachOk(Reached(kernel.mem, r, vb), r, vb, host[r])
      BY RootFacts DEF IInv, HostOk
    <3>2. CASE r # root
      BY <1>14, <1>15, <3>1, <3>2
    <3>3. CASE r = root
      <4>1. ASSUME NEW vb \in Pages PROVE ReachOk(Reached(m3, r, vb), r, vb, nmap)
        <5>1. CASE vb = va
          <6>1. Reached(m3, r, vb) = w
            BY <1>15, <3>3, <5>1
          <6>2. QED
            BY <1>11, <1>12, <3>3, <5>1, <6>1 DEF ReachOk, w
        <5>2. CASE vb # va
          <6>1. Reached(m3, r, vb) = Reached(kernel.mem, r, vb)
            BY <1>15, <5>2
          <6>2. ReachOk(Reached(kernel.mem, r, vb), r, vb, host[r])
            BY <3>1
          <6>3. vb \in DOMAIN nmap <=> vb \in DOMAIN host[r]
            BY <1>12, <3>3, <5>2
          <6>4. vb \in DOMAIN host[r] => nmap[vb] = host[r][vb]
            BY <1>12, <3>3
          <6>5. QED
            BY <6>1, <6>2, <6>3, <6>4 DEF ReachOk
        <5>3. QED
          BY <5>1, <5>2
      <4>2. QED
        BY <1>12, <1>14, <3>3, <4>1
    <3>4. QED
      BY <3>2, <3>3
  <2>2. QED
    BY <1>8, <1>9, <1>14, <2>1 DEF HostOk
<1>17. tlb' \subseteq tlb /\ \A e \in tlb' : e.page * PageSize # va
  BY FlushedPage
<1>18. \A r \in Roots(kernel) : \A e \in tlb' :
         LET x == e.page * PageSize
         IN /\ x \in DOMAIN host'[r] <=> x \in DOMAIN host[r]
            /\ x \in DOMAIN host[r] => host'[r][x] = host[r][x]
  BY <1>12, <1>14, <1>17, RootFacts
<1>19. QED
  BY <1>8, <1>10, <1>16, <1>17, <1>18, TlbKept DEF k3

LEMMA MapStep ==
  ASSUME IInv, NEW cap \in CapHandle, NEW va \in Vas, NEW flags \in FlagChoices, MapPage(cap, va, flags)
  PROVE  IInv'
<1> DEFINE pa == alloc_index(kernel.pmm)
           k1 == written(take_frame(kernel), pa)
           m == cap_map(k1, cap, va, pa, flags)
           root == root_of(kernel, cap)
           o == map(root, k1.mem, k1.pmm, va, pa, flags)
<1>1. /\ pa # None /\ active' = active
      /\ m.result = "Ok" => /\ kernel' = m.kernel /\ tlb' = invalidate_tlb_address(va)
                            /\ host' = [host EXCEPT ![root] = HostMap(root, va, pa, flags, FALSE).mappings]
      /\ m.result # "Ok" => kernel' = give_frame(m.kernel, pa) /\ tlb' = tlb /\ host' = host
  BY DEF MapPage
<1>2. PICK lvl : KernelOk(kernel, lvl) /\ \A f \in Frame : lvl[f] # 6
  BY DEF IInv, AtRest
<1>3. /\ pa \in Frame /\ lvl[pa] = 5 /\ k1.arena = kernel.arena /\ k1.table = kernel.table
      /\ SameReach(lvl, kernel.mem, k1.mem)
      /\ \E l : KernelOk(k1, l) /\ l[pa] = 6 /\ \A g \in Frame \ {pa} : l[g] = lvl[g]
  BY <1>1, <1>2, Taken
<1> HIDE DEF pa, k1
<1>4. PICK l1 : KernelOk(k1, l1) /\ l1[pa] = 6 /\ \A g \in Frame \ {pa} : l1[g] = lvl[g]
  BY <1>3
<1>5. (\A g \in Frame \ {pa} : l1[g] # 6) /\ Roots(k1) = Roots(kernel)
  BY <1>2, <1>3, <1>4 DEF Roots
<1>6. /\ flags \in SUBSET MappingFlags /\ va \in 0 .. (USERSPACE_VA_LIMIT - 1) /\ va \in Nat
      /\ (va % PageSize = 0 => va \in Pages)
  BY AddressSpaceSpecAssumption, PageFacts DEF Pages
<1>7. CASE resolve_address_space_cap(k1, cap) # "Ok"
  <2>1. m.result # "Ok" /\ m.kernel = k1
    BY <1>7 DEF cap_map
  <2> HIDE DEF m
  <2>2. kernel' = give_frame(k1, pa) /\ UNCHANGED <<active, tlb, host>>
    BY <1>1, <2>1
  <2>3. QED
    BY <1>2, <1>3, <1>4, <1>5, <2>2, RefusedStep
<1>8. CASE resolve_address_space_cap(k1, cap) = "Ok"
  <2>1. root_of(k1, cap) = root
    BY <1>3 DEF root_of
  <2>2. root \in Roots(kernel) /\ root \in Frame /\ l1[root] = 0
    BY <1>4, <1>5, <1>8, <2>1, Resolved
  <2> HIDE DEF root
  <2>3. m.result = o.result /\ m.kernel = Kernel(k1.table, k1.arena, o.pmm, o.mem)
    BY <1>8, <2>1 DEF cap_map
  <2> HIDE DEF m, o
  <2>4. ASSUME NEW l2, KernelOk(m.kernel, l2), l2[pa] = 6, \A g \in Frame \ {pa} : l2[g] # 6,
               m.result # "Ok", SameReach(lvl, kernel.mem, m.kernel.mem)
        PROVE  IInv'
    <3>1. m.kernel.arena = kernel.arena
      BY <1>3, <2>3, KernelFields
    <3>2. kernel' = give_frame(m.kernel, pa) /\ UNCHANGED <<active, tlb, host>>
      BY <1>1, <2>4
    <3>3. QED
      BY <1>2, <1>3, <2>4, <3>1, <3>2, RefusedStep
  <2>5. CASE va % PageSize # 0 \/ {"DEVICE", "EXECUTE"} \subseteq flags
    <3>1. o.result # "Ok" /\ o.pmm = k1.pmm /\ o.mem = k1.mem
      BY <2>5 DEF o, map, Failed, WalkFrom
    <3>2. /\ m.kernel.table = k1.table /\ m.kernel.arena = k1.arena
          /\ m.kernel.pmm = k1.pmm /\ m.kernel.mem = k1.mem
      BY <2>3, <3>1, KernelFields
    <3>3. Roots(m.kernel) = Roots(k1)
      BY <3>2 DEF Roots
    <3>4. KernelOk(m.kernel, l1)
      BY <1>4, <3>2, <3>3 DEF KernelOk
    <3>5. QED
      BY <1>3, <1>4, <1>5, <2>3, <2>4, <3>1, <3>2, <3>4
  <2>6. CASE va % PageSize = 0 /\ ~({"DEVICE", "EXECUTE"} \subseteq flags)
    <3>1. Tree(l1, k1.mem, k1.pmm.bitmap) /\ PmmOk(k1.pmm, 3)
      BY <1>4 DEF KernelOk
    <3>2. PICK l2, m2, x, t, m3, p2 :
            /\ o = Walk(x, t, m3, p2)
            /\ Mapped(l1, k1.mem, k1.pmm, 3, root, va, pa, flags, l2, m2, x, t, m3, p2)
      BY <1>6, <2>2, <2>6, <3>1, MapOutcome DEF o
    <3>3. o.result = x /\ o.mem = m3 /\ o.pmm = p2
      BY <3>2 DEF Walk
    <3>4. Further(l1, k1.mem, k1.pmm, 3, l2, m2, p2)
      BY <3>2 DEF Mapped
    <3> DEFINE k2 == Kernel(k1.table, k1.arena, p2, m2)
    <3>5. KernelOk(k2, l2) /\ SameRootsAndRest(l1, l2)
      BY <1>4, <3>4, WalkedKernel
    <3>6. k2.table = k1.table /\ k2.arena = kernel.arena /\ k2.pmm = p2 /\ k2.mem = m2
      <4>1. k2.table = k1.table /\ k2.arena = k1.arena /\ k2.pmm = p2 /\ k2.mem = m2
        BY KernelFields
      <4> HIDE DEF k2
      <4>2. QED
        BY <1>3, <4>1
    <3>7. SameReach(lvl, kernel.mem, k2.mem)
      <4>1. SameReach(l1, k1.mem, m2)
        BY <3>4 DEF Further
      <4>2. \A f \in Frame : lvl[f] = 0 => l1[f] = 0
        BY <1>3, <1>4
      <4> HIDE DEF k2
      <4>3. QED
        BY <1>3, <3>6, <4>1, <4>2 DEF SameReach
    <3>8. l2[pa] = 6 /\ \A g \in Frame \ {pa} : l2[g] # 6
      BY <1>3, <1>4, <1>5, <3>5 DEF SameRootsAndRest
    <3>9. CASE x # "Ok"
      <4>1. m3 = m2
        BY <3>2, <3>9 DEF Mapped
      <4>2. m.kernel = k2 /\ m.result # "Ok"
        BY <2>3, <3>3, <3>9, <4>1
      <4> HIDE DEF k2
      <4>3. QED
        BY <2>4, <3>5, <3>7, <3>8, <4>2
    <3>10. CASE x = "Ok"
      <4> DEFINE w == page_descriptor(pa, flags_to_descriptor_bits(flags))
      <4>1. /\ t \in Frame /\ l2[t] = 3
            /\ m2[t][va_index(va, 1)].kind = "zero"
            /\ WordSet(m2, t, va_index(va, 1), w, m3)
            /\ Reached(k1.mem, root, va).kind = "zero"
            /\ \E t1, t2 \in Frame : Path(m2, root, va, t1, t2, t)
        BY <3>2, <3>10 DEF Mapped
      <4>2. PICK t1 \in Frame, t2 \in Frame : Path(m2, root, va, t1, t2, t)
        BY <4>1
      <4>3. Reached(kernel.mem, root, va).kind = "zero"
        <5>1. lvl[root] = 0
          BY <1>2, <2>2, RootFacts
        <5>2. QED
          BY <1>3, <1>6, <2>2, <4>1, <5>1 DEF SameReach
      <4> HIDE DEF w, k2
      <4>4. MapReady(k2, l2, lvl, pa, root, va, flags, t1, t2, t)
        BY <1>3, <1>6, <2>2, <2>6, <3>5, <3>6, <3>7, <3>8, <4>1, <4>2, <4>3 DEF MapReady
      <4>5. kernel' = Kernel(k2.table, k2.arena, k2.pmm, m3)
        BY <1>1, <1>3, <2>3, <3>3, <3>6, <3>10
      <4>6. /\ tlb' = invalidate_tlb_address(va)
            /\ host' = [host EXCEPT ![root] = HostMap(root, va, pa, flags, FALSE).mappings]
        BY <1>1, <2>3, <3>3, <3>10
      <4>7. WordSet(k2.mem, t, va_index(va, 1), page_descriptor(pa, flags_to_descriptor_bits(flags)), m3)
        BY <3>6, <4>1 DEF w
      <4>8. QED
        BY <1>1, <1>2, <4>4, <4>5, <4>6, <4>7, MappedStep
    <3>11. QED
      BY <3>9, <3>10
  <2>7. QED
    BY <2>5, <2>6
<1>9. QED
  BY <1>7, <1>8

LEMMA UnmapStep ==
  ASSUME IInv, NEW cap \in CapHandle, NEW va \in Vas, UnmapPage(cap, va)
  PROVE  IInv'
<1> DEFINE k == kernel
           root == root_of(k, cap)
           e == Reached(k.mem, root, va)
           i == va_index(va, 1)
           t == read_walk(root, k.mem, va).table
           u == unmap(root, k.mem, va)
           k1 == Kernel(k.table, k.arena, k.pmm, u)
           k2 == kernel'
           f == unmapped_frame(root, k.mem, va)
           as == host[root]
           nmap == block_unmap(as, Blocked(root), va).mappings
<1>1. /\ cap_unmap_result(k, cap, va) = "Ok" /\ active' = active
      /\ k2 = give_frame(k1, f) /\ tlb' = invalidate_tlb_address(va)
      /\ host' = [host EXCEPT ![root] = nmap]
  BY DEF UnmapPage, cap_unmap, cap_unmap_frame
<1>2. PICK lvl : KernelOk(k, lvl) /\ \A g \in Frame : lvl[g] # 6
  BY DEF IInv, AtRest
<1>3. resolve_address_space_cap(k, cap) = "Ok" /\ unmap_result(root, k.mem, va) = "Ok"
  BY <1>1 DEF cap_unmap_result
<1>4. root \in Roots(k) /\ root \in Frame /\ lvl[root] = 0 /\ Tree(lvl, k.mem, k.pmm.bitmap)
  BY <1>2, <1>3, Resolved DEF KernelOk
<1>5. va \in 0 .. (USERSPACE_VA_LIMIT - 1) /\ va \in Nat /\ i \in WordIndex
  BY AddressSpaceSpecAssumption, PageFacts, Digits
<1> HIDE DEF root, k2
<1>6. va % PageSize = 0 /\ e.kind = "page" /\ f = e.pa
  <2>1. /\ unmap_result(root, k.mem, va) =
             IF va % PageSize # 0 THEN "MisalignedAddress"
             ELSE IF e.kind = "page" THEN "Ok"
             ELSE IF e.kind = "block" THEN "BlockMapped"
             ELSE "NotMapped"
        /\ e.kind = "page" => f = e.pa
    BY <1>4, <1>5, ReadOutcome
  <2> HIDE DEF e, f
  <2>2. QED
    BY <1>3, <2>1
<1>7. va \in Pages
  BY <1>5, <1>6 DEF Pages
<1>8. /\ t \in Frame /\ lvl[t] = 3 /\ k.mem[t][i] = e
      /\ \E t1, t2 \in Frame : Path(k.mem, root, va, t1, t2, t)
  <2>1. LET leaf == leaf_of(root, k.mem, va)
        IN /\ leaf.table \in Frame /\ lvl[leaf.table] = 3
           /\ k.mem[leaf.table][i] = e
           /\ leaf.table = t
           /\ \E t1, t2 \in Frame : Path(k.mem, root, va, t1, t2, leaf.table)
    BY <1>4, <1>5, <1>6, LeafOf
  <2> HIDE DEF t, e, i
  <2>2. QED
    BY <2>1
<1>9. PICK t1 \in Frame, t2 \in Frame : Path(k.mem, root, va, t1, t2, t)
  BY <1>8
<1>10. WordSet(k.mem, t, i, ZeroWord, u)
  <2>1. u = [k.mem EXCEPT ![t][i] = ZeroWord]
    BY DEF unmap
  <2>2. IsMemory(k.mem)
    BY <1>4 DEF Tree
  <2> HIDE DEF t, i, u
  <2>3. QED
    BY <1>5, <1>8, <2>1, <2>2, SetWord
<1> HIDE DEF e, f, t, u, k1
<1> DEFINE l1 == [lvl EXCEPT ![f] = 6]
<1>11. f \in Frame /\ lvl[f] = 4 /\ Tree(l1, u, k.pmm.bitmap)
  <2>1. k.mem[t][i].kind = "page" /\ k.mem[t][i].pa = f
    BY <1>6, <1>8
  <2> HIDE DEF i
  <2>2. /\ k.mem[t][i].pa \in Frame /\ lvl[k.mem[t][i].pa] = 4
        /\ Tree([lvl EXCEPT ![k.mem[t][i].pa] = 6], u, k.pmm.bitmap)
    BY <1>4, <1>5, <1>8, <1>10, <2>1, ClearedTree DEF i
  <2>3. QED
    BY <2>1, <2>2
<1>12. l1[f] = 6 /\ \A g \in Frame \ {f} : l1[g] = lvl[g]
  BY <1>4, <1>11 DEF Tree
<1> HIDE DEF l1
<1>13. k1.table = k.table /\ k1.arena = k.arena /\ k1.pmm = k.pmm /\ k1.mem = u
  BY KernelFields DEF k1
<1>14. KernelOk(k1, l1)
  <2>1. Roots(k1) = Roots(k)
    BY <1>13 DEF Roots
  <2>2. {0, 1, 2} \subseteq Frame /\ f \notin {0, 1, 2}
    BY <1>2, <1>11, FrameFacts DEF KernelOk
  <2>3. \A g \in Frame : l1[g] = 0 <=> g \in Roots(k1)
    BY <1>2, <1>11, <1>12, <2>1 DEF KernelOk
  <2>4. l1[0] = 0 /\ l1[1] = 1 /\ l1[2] = 2
    BY <1>2, <1>12, <2>2 DEF KernelOk
  <2>5. Tree(l1, k1.mem, k1.pmm.bitmap)
    BY <1>11, <1>13
  <2>6. QED
    BY <1>2, <1>13, <2>3, <2>4, <2>5 DEF KernelOk
<1>15. AtRest(k2) /\ k2.mem = u /\ k2.arena = k.arena
  <2>1. \A g \in Frame \ {f} : l1[g] # 6
    BY <1>2, <1>12
  <2>2. QED
    BY <1>1, <1>11, <1>12, <1>13, <1>14, <2>1, Given
<1>16. Roots(k2) = Roots(k)
  BY <1>15 DEF Roots
<1>17. FlatMap(root, as) /\ ~InBlock(root, va) /\ va \in DOMAIN as
  <2>1. FlatMap(root, as) /\ ReachOk(e, root, va, as)
    BY <1>4, <1>7 DEF IInv, HostOk, e
  <2>2. QED
    BY <1>6, <2>1 DEF ReachOk
<1>18. nmap = [x \in DOMAIN as \ {va} |-> as[x]]
  <2>1. va \notin Blocked(root)
    BY <1>17 DEF Blocked
  <2>2. QED
    BY <1>6, <1>17, <2>1 DEF block_unmap, fake_unmap, FakeOutcome, Restrict
<1> HIDE DEF nmap
<1>19. /\ DOMAIN nmap = DOMAIN as \ {va} /\ nmap = [x \in DOMAIN nmap |-> nmap[x]]
       /\ \A x \in DOMAIN nmap : nmap[x] = as[x]
  BY <1>18
<1>20. FlatMap(root, nmap)
  BY <1>17, <1>19 DEF FlatMap
<1>21. /\ host' = [g \in Frame |-> host'[g]] /\ host'[root] = nmap
       /\ \A g \in Frame \ {root} : host'[g] = host[g]
  <2>1. host = [g \in Frame |-> host[g]]
    BY DEF IInv, HostOk
  <2>2. QED
    BY <1>1, <1>4, <2>1
<1>22. ASSUME NEW r \in Roots(k), NEW vb \in Pages
       PROVE  Reached(u, r, vb) = IF r = root /\ vb = va THEN ZeroWord ELSE Reached(k.mem, r, vb)
  <2>1. r \in Frame /\ lvl[r] = 0 /\ vb \in Nat
    BY <1>2, RootFacts, PageFacts
  <2>2. Reached(u, r, vb) = IF r = root /\ Indices(vb) = Indices(va) THEN ZeroWord ELSE Reached(k.mem, r, vb)
    BY <1>4, <1>5, <1>8, <1>9, <1>10, <2>1, ReachedLeaf
  <2>3. QED
    BY <1>7, <2>2, PageIndices
<1>23. HostOk(k2, host')
  <2>1. ASSUME NEW r \in Roots(k)
        PROVE  /\ FlatMap(r, host'[r])
               /\ \A vb \in Pages : ReachOk(Reached(u, r, vb), r, vb, host'[r])
    <3>1. /\ FlatMap(r, host[r]) /\ r \in Frame
          /\ \A vb \in Pages : ReachOk(Reached(k.mem, r, vb), r, vb, host[r])
      BY <1>2, RootFacts DEF IInv, HostOk
    <3>2. CASE r # root
      BY <1>21, <1>22, <3>1, <3>2
    <3>3. CASE r = root
      <4>1. ASSUME NEW vb \in Pages PROVE ReachOk(Reached(u, r, vb), r, vb, nmap)
        <5>1. CASE vb = va
          <6>1. Reached(u, r, vb).kind = "zero"
            BY <1>22, <3>3, <5>1, Kinds
          <6>2. QED
            BY <1>17, <1>19, <3>3, <5>1, <6>1 DEF ReachOk
        <5>2. CASE vb # va
          <6>1. Reached(u, r, vb) = Reached(k.mem, r, vb)
            BY <1>22, <5>2
          <6>2. ReachOk(Reached(k.mem, r, vb), r, vb, host[r])
            BY <3>1
          <6>3. vb \in DOMAIN nmap <=> vb \in DOMAIN host[r]
            BY <1>19, <3>3, <5>2
          <6>4. vb \in DOMAIN host[r] => nmap[vb] = host[r][vb]
            BY <1>19, <3>3, <6>3
          <6>5. QED
            BY <6>1, <6>2, <6>3, <6>4 DEF ReachOk
        <5>3. QED
          BY <5>1, <5>2
      <4>2. QED
        BY <1>20, <1>21, <3>3, <4>1
    <3>4. QED
      BY <3>2, <3>3
  <2>2. QED
    BY <1>15, <1>16, <1>21, <2>1 DEF HostOk
<1>24. tlb' \subseteq tlb /\ \A x \in tlb' : x.page * PageSize # va
  BY <1>1, FlushedPage
<1>25. \A r \in Roots(k) : \A y \in tlb' :
         LET x == y.page * PageSize
         IN /\ x \in DOMAIN host'[r] <=> x \in DOMAIN host[r]
            /\ x \in DOMAIN host[r] => host'[r][x] = host[r][x]
  BY <1>2, <1>19, <1>21, <1>24, RootFacts
<1>26. QED
  BY <1>1, <1>15, <1>23, <1>24, <1>25, TlbKept DEF k2

-----------------------------------------------------------------------------
(* The theorems.                                                           *)

LEMMA NextInv == IInv /\ [Next]_vars => IInv'
<1> SUFFICES ASSUME IInv, [Next]_vars PROVE IInv'
  OBVIOUS
<1>1. CASE \E parent \in CapHandle, r \in RightsChoices : Create(parent, r)
  BY <1>1, CreateStep
<1>2. CASE \E cap \in CapHandle, va \in Vas, flags \in FlagChoices : MapPage(cap, va, flags)
  BY <1>2, MapStep
<1>3. CASE \E cap \in CapHandle, va \in Vas : UnmapPage(cap, va)
  BY <1>3, UnmapStep
<1>4. CASE \E cap \in CapHandle : DropCap(cap)
  BY <1>4, DropStep
<1>5. CASE \E h \in SlotId : Activate(h)
  BY <1>5, ActivateStep
<1>6. CASE \E va \in Vas : TlbFill(va)
  BY <1>6, TlbFillStep
<1>7. CASE UNCHANGED vars
  BY <1>7 DEF vars, IInv, AtRest, KernelOk, Roots, HostOk, ActiveOk, TlbOk, NoStaleTlb, TranslateIn
<1>8. QED
  BY <1>1, <1>2, <1>3, <1>4, <1>5, <1>6, <1>7 DEF Next

\* The invariant holds in every reachable state of the address spaces: every
\* frame has one use in the trees, and what each tree reaches is its flat map.
THEOREM AddressSpaceInvariant == Spec => []IInv
  BY InitInv, NextInv, PTL DEF Spec

\* create_address_space, map and unmap keep the trees exclusively owned, and no
\* refused creation or map strands a frame, for every number of frames.
THEOREM FramesAccountedCorrect == Spec => []FramesAccounted
  BY AddressSpaceInvariant, FramesFromInv, PTL

\* An address translates to the frame and flags of the cap_map in force, for
\* every page size, every address and whatever recycled tables held.
THEOREM TranslationCorrect == Spec => []TranslationExact
  BY AddressSpaceInvariant, TranslationFromInv, PTL

\* The flushes of MapperFlush and activate leave no stale translation.
THEOREM NoStaleTlbCorrect == Spec => []NoStaleTlb
  BY AddressSpaceInvariant, NoStaleFromInv, PTL

\* A well-formed map is refused only for a mapped page or missing frames.
THEOREM MapCauseCorrect == Spec => []MapFailsForCause
  BY AddressSpaceInvariant, MapCauseFromInv, PTL

\* The host doubles of test-hal answer map and unmap as QemuVirtMmu does.
THEOREM DoublesCorrect == Spec => []DoublesAgree
  BY AddressSpaceInvariant, DoublesFromInv, PTL
=============================================================================
