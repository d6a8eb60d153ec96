-------------------------- MODULE StoreBuffers_proofs --------------------------
(* What a processor reads, for every number of processors, cells and stores    *)
(* under way: lemmas the proofs about the programs on StoreBuffers rest on.    *)
EXTENDS StoreBuffers, TLAPS, WellFoundedInduction

\* The memory holds a value of V for each cell of C, and the processors of P have
\* stores of such values under way.
Stores(C, V) == [cell : C, value : V]
MemoryOK(P, C, V) == mem \in [C -> V] /\ buffer \in [P -> Seq(Stores(C, V))]

\* Cell x has a store in the buffer s.
InBuffer(s, x) == \E k \in 1 .. Len(s) : s[k].cell = x
Pending(t, x) == InBuffer(buffer[t], x)

\* The buffer s has at most one store of x; and after each store of x a store of y.
Once(s, x) == \A j, k \in 1 .. Len(s) : s[j].cell = x /\ s[k].cell = x => j = k
Before(s, x, y) ==
    \A j \in 1 .. Len(s) : s[j].cell = x => \E k \in 1 .. Len(s) : k > j /\ s[k].cell = y

\* The store k of s is its last one of cell x.
IsLast(s, x, k) ==
    /\ k \in 1 .. Len(s)
    /\ s[k].cell = x
    /\ \A j \in 1 .. Len(s) : j > k => s[j].cell # x

\* What is read of x with the buffer s and the memory m.
Lookup(s, m, x) ==
    LET own == {k \in 1 .. Len(s) : s[k].cell = x}
    IN  IF own = {} THEN m[x] ELSE s[Max(own)].value

-----------------------------------------------------------------------------
(* The last store of a cell in a buffer.                                     *)

\* Every set of natural numbers that is not empty has a least element.
LEMMA NatMin ==
    ASSUME NEW T \in SUBSET Nat, T # {}
    PROVE  \E x \in T : \A y \in T : x =< y
<1>1. \E R : /\ IsWellFoundedOn(R, Nat)
             /\ \A y, x \in Nat : y < x => <<y, x>> \in R
  <2>1. \A y, x \in Nat : y < x => <<y, x>> \in OpToRel(<, Nat)
    BY Zenon DEF OpToRel
  <2> QED BY <2>1, NatLessThanWellFounded
<1>2. PICK R : /\ IsWellFoundedOn(R, Nat)
               /\ \A y, x \in Nat : y < x => <<y, x>> \in R
  BY <1>1
<1>3. T \subseteq Nat /\ IsWellFoundedOn(R, Nat)
  BY <1>2
<1>4. \E x \in T : \A y \in T : ~ (<<y, x>> \in R)
  BY <1>3, WFMin
<1>5. PICK x \in T : \A y \in T : ~ (<<y, x>> \in R)
  BY <1>4
<1>6. \A y \in T : ~ (y < x)
  BY <1>2, <1>3, <1>5
<1> QED BY <1>3, <1>6

\* Max of a set of indices is the largest of them.
LEMMA MaxFacts ==
    ASSUME NEW n \in Nat, NEW I \in SUBSET (1 .. n), I # {}
    PROVE  Max(I) \in I /\ \A y \in I : Max(I) >= y
<1> DEFINE T == {n - y : y \in I}
<1>1. \E x \in T : \A y \in T : x =< y
  <2>1. T \in SUBSET Nat
    <3> SUFFICES ASSUME NEW y \in I PROVE n - y \in Nat
      OBVIOUS
    <3>1. y \in 1 .. n
      OBVIOUS
    <3> QED BY <3>1
  <2>2. T # {}
    OBVIOUS
  <2> HIDE DEF T
  <2> QED BY <2>1, <2>2, NatMin
<1>2. PICK m \in I : \A y \in I : n - m =< n - y
  BY <1>1
<1>3. \A y \in I : m >= y
  BY <1>2
<1> QED BY <1>3 DEF Max

\* Without a store of x the memory is read.
LEMMA LookupNone ==
    ASSUME NEW s, NEW m, NEW x, ~InBuffer(s, x)
    PROVE  Lookup(s, m, x) = m[x]
BY DEF InBuffer, Lookup

\* Otherwise the last store of x is.
LEMMA LookupLast ==
    ASSUME NEW S, NEW s \in Seq(S), NEW m, NEW x, NEW k, IsLast(s, x, k)
    PROVE  Lookup(s, m, x) = s[k].value
<1> DEFINE I == {j \in 1 .. Len(s) : s[j].cell = x}
<1>1. I \in SUBSET (1 .. Len(s)) /\ k \in I /\ Len(s) \in Nat
  BY DEF IsLast
<1>2. Max(I) = k
  <2> HIDE DEF I
  <2>1. Max(I) \in I /\ Max(I) >= k
    BY <1>1, MaxFacts
  <2>2. \A j \in I : j =< k
    BY DEF I, IsLast
  <2>3. Max(I) \in 1 .. Len(s) /\ k \in 1 .. Len(s)
    BY <1>1, <2>1
  <2> QED BY <1>1, <2>1, <2>2, <2>3
<1> QED BY <1>1, <1>2 DEF Lookup

\* If there is a store of x there is a last one.
LEMMA LastStore ==
    ASSUME NEW S, NEW s \in Seq(S), NEW x, InBuffer(s, x)
    PROVE  \E k \in 1 .. Len(s) : IsLast(s, x, k)
<1> DEFINE I == {j \in 1 .. Len(s) : s[j].cell = x}
<1>1. I \in SUBSET (1 .. Len(s)) /\ I # {} /\ Len(s) \in Nat
  BY DEF InBuffer
<1>2. Max(I) \in I /\ \A y \in I : Max(I) >= y
  <2> HIDE DEF I
  <2> QED BY <1>1, MaxFacts
<1> QED BY <1>1, <1>2 DEF IsLast

-----------------------------------------------------------------------------
(* What a store, and its way to the memory, do to what is read.              *)

\* A store is one more store of its cell.
LEMMA InBufferAppend ==
    ASSUME NEW S, NEW s \in Seq(S), NEW e \in S, NEW x
    PROVE  InBuffer(Append(s, e), x) <=> InBuffer(s, x) \/ e.cell = x
<1>1. /\ Len(Append(s, e)) = Len(s) + 1
      /\ \A k \in 1 .. Len(s) : Append(s, e)[k] = s[k]
      /\ Append(s, e)[Len(s) + 1] = e
      /\ Len(s) \in Nat
  OBVIOUS
<1>2. 1 .. Len(s) + 1 = (1 .. Len(s)) \cup {Len(s) + 1}
  BY <1>1
<1> QED BY <1>1, <1>2 DEF InBuffer

\* A store that has reached the memory is one less.
LEMMA InBufferTail ==
    ASSUME NEW S, NEW s \in Seq(S), s # <<>>, NEW x
    PROVE  InBuffer(s, x) <=> Head(s).cell = x \/ InBuffer(Tail(s), x)
<1>1. /\ Len(Tail(s)) = Len(s) - 1
      /\ \A k \in 1 .. Len(s) - 1 : Tail(s)[k] = s[k + 1]
      /\ s[1] = Head(s)
      /\ Len(s) \in Nat \ {0}
  OBVIOUS
<1>2. ASSUME InBuffer(s, x), Head(s).cell # x
      PROVE  InBuffer(Tail(s), x)
  <2>1. PICK k \in 1 .. Len(s) : s[k].cell = x
    BY <1>2 DEF InBuffer
  <2>2. k - 1 \in 1 .. Len(s) - 1 /\ k = (k - 1) + 1
    BY <1>1, <1>2, <2>1
  <2>3. Tail(s)[k - 1] = s[k]
    BY <1>1, <2>2
  <2> QED BY <1>1, <2>1, <2>2, <2>3 DEF InBuffer
<1>3. ASSUME InBuffer(Tail(s), x)
      PROVE  InBuffer(s, x)
  <2>1. PICK k \in 1 .. Len(s) - 1 : Tail(s)[k].cell = x
    BY <1>1, <1>3 DEF InBuffer
  <2>2. k + 1 \in 1 .. Len(s)
    BY <1>1, <2>1
  <2> QED BY <1>1, <2>1, <2>2 DEF InBuffer
<1>4. Head(s).cell = x => InBuffer(s, x)
  <2>1. 1 \in 1 .. Len(s)
    BY <1>1
  <2> QED BY <1>1, <2>1 DEF InBuffer
<1> QED BY <1>2, <1>3, <1>4

\* A processor reads its own store at once, and nothing else changes for it.
LEMMA LookupAppend ==
    ASSUME NEW S, NEW s \in Seq(S), NEW e \in S, NEW m, NEW x
    PROVE  Lookup(Append(s, e), m, x) = IF e.cell = x THEN e.value ELSE Lookup(s, m, x)
<1>1. /\ Len(Append(s, e)) = Len(s) + 1
      /\ \A k \in 1 .. Len(s) : Append(s, e)[k] = s[k]
      /\ Append(s, e)[Len(s) + 1] = e
      /\ Len(s) \in Nat
  OBVIOUS
<1>2. Append(s, e) \in Seq(S)
  OBVIOUS
<1>3. CASE e.cell = x
  <2>1. PICK k : k = Len(s) + 1
    OBVIOUS
  <2>2. k \in 1 .. Len(Append(s, e)) /\ \A j \in 1 .. Len(Append(s, e)) : ~ (j > k)
    BY <1>1, <2>1
  <2>3. Append(s, e)[k] = e
    BY <1>1, <2>1
  <2>4. IsLast(Append(s, e), x, k)
    BY <1>3, <2>2, <2>3 DEF IsLast
  <2>5. Lookup(Append(s, e), m, x) = Append(s, e)[k].value
    BY <1>2, <2>4, LookupLast
  <2> QED BY <1>3, <2>3, <2>5
<1>4. CASE e.cell # x /\ InBuffer(s, x)
  <2>1. PICK k \in 1 .. Len(s) : IsLast(s, x, k)
    BY <1>4, LastStore
  <2>2. k \in 1 .. Len(Append(s, e)) /\ Append(s, e)[k] = s[k]
    BY <1>1
  <2>3. IsLast(Append(s, e), x, k)
    BY <1>1, <1>4, <2>1, <2>2 DEF IsLast
  <2>4. Lookup(Append(s, e), m, x) = Append(s, e)[k].value
    BY <1>2, <2>3, LookupLast
  <2>5. Append(s, e)[k].value = s[k].value
    BY <2>2
  <2>6. Lookup(s, m, x) = s[k].value
    BY <2>1, LookupLast
  <2> QED BY <1>4, <2>4, <2>6, <2>5
<1>5. CASE e.cell # x /\ ~InBuffer(s, x)
  <2>1. ~InBuffer(Append(s, e), x)
    BY <1>5, InBufferAppend
  <2> QED BY <1>5, <2>1, LookupNone
<1> QED BY <1>3, <1>4, <1>5

\* A processor reads the same before and after its oldest store has reached the memory.
LEMMA LookupFlush ==
    ASSUME NEW S, NEW s \in Seq(S), s # <<>>, NEW m, NEW x, NEW n,
           n[x] = IF Head(s).cell = x THEN Head(s).value ELSE m[x]
    PROVE  Lookup(Tail(s), n, x) = Lookup(s, m, x)
<1>1. /\ Len(Tail(s)) = Len(s) - 1
      /\ \A k \in 1 .. Len(s) - 1 : Tail(s)[k] = s[k + 1]
      /\ s[1] = Head(s)
      /\ Len(s) \in Nat \ {0}
  OBVIOUS
<1>2. Tail(s) \in Seq(S)
  OBVIOUS
<1>3. CASE InBuffer(Tail(s), x)
  <2>1. PICK k \in 1 .. Len(Tail(s)) : IsLast(Tail(s), x, k)
    BY <1>2, <1>3, LastStore
  <2>2. k + 1 \in 1 .. Len(s) /\ s[k + 1] = Tail(s)[k]
    BY <1>1, <2>1
  <2>3. ASSUME NEW j \in 1 .. Len(s), j > k + 1
        PROVE  s[j].cell # x
    <3>1. j - 1 \in 1 .. Len(Tail(s)) /\ j - 1 > k /\ (j - 1) + 1 = j /\ j - 1 \in 1 .. Len(s) - 1
      BY <1>1, <2>3
    <3>2. Tail(s)[j - 1] = s[j]
      BY <1>1, <3>1
    <3> QED BY <2>1, <3>1, <3>2 DEF IsLast
  <2>4. Lookup(Tail(s), n, x) = Tail(s)[k].value
    <3>1. PICK w : w = Tail(s)
      OBVIOUS
    <3>2. w \in Seq(S) /\ IsLast(w, x, k)
      BY <1>2, <2>1, <3>1
    <3>3. Lookup(w, n, x) = w[k].value
      BY <3>2, LookupLast
    <3> QED BY <3>1, <3>3
  <2>5. IsLast(s, x, k + 1)
    BY <2>1, <2>2, <2>3 DEF IsLast
  <2>6. Lookup(s, m, x) = s[k + 1].value
    BY <2>5, LookupLast
  <2> QED BY <2>2, <2>4, <2>6
<1>4. CASE ~InBuffer(Tail(s), x) /\ Head(s).cell = x
  <2>1. Lookup(Tail(s), n, x) = n[x]
    BY <1>4, LookupNone
  <2>2. Lookup(Tail(s), n, x) = Head(s).value
    BY <1>4, <2>1
  <2>3. \A j \in 1 .. Len(s) : j > 1 => s[j].cell # x
    <3> SUFFICES ASSUME NEW j \in 1 .. Len(s), j > 1 PROVE s[j].cell # x
      OBVIOUS
    <3>1. j - 1 \in 1 .. Len(Tail(s)) /\ (j - 1) + 1 = j /\ j - 1 \in 1 .. Len(s) - 1
      BY <1>1
    <3>2. Tail(s)[j - 1] = s[j]
      BY <1>1, <3>1
    <3> QED BY <1>4, <3>1, <3>2 DEF InBuffer
  <2>4. Lookup(s, m, x) = s[1].value
    <3>1. IsLast(s, x, 1)
      BY <1>1, <1>4, <2>3 DEF IsLast
    <3> QED BY <3>1, LookupLast
  <2> QED BY <1>1, <2>2, <2>4
<1>5. CASE ~InBuffer(Tail(s), x) /\ Head(s).cell # x
  <2>1. ~InBuffer(s, x)
    BY <1>5, InBufferTail
  <2>2. Lookup(Tail(s), n, x) = n[x] /\ Lookup(s, m, x) = m[x]
    BY <1>5, <2>1, LookupNone
  <2> QED BY <1>5, <2>2
<1> QED BY <1>3, <1>4, <1>5

\* A change of the memory is not seen in another cell, nor by a processor with a store
\* of the cell under way.
LEMMA LookupMemory ==
    ASSUME NEW S, NEW s \in Seq(S), NEW m, NEW x, NEW n, InBuffer(s, x) \/ n[x] = m[x]
    PROVE  Lookup(s, n, x) = Lookup(s, m, x)
<1>1. CASE InBuffer(s, x)
  <2>1. PICK k \in 1 .. Len(s) : IsLast(s, x, k)
    BY <1>1, LastStore
  <2>2. Lookup(s, n, x) = s[k].value /\ Lookup(s, m, x) = s[k].value
    BY <2>1, LookupLast
  <2> QED BY <2>2
<1>2. CASE ~InBuffer(s, x) /\ n[x] = m[x]
  <2>1. Lookup(s, n, x) = n[x] /\ Lookup(s, m, x) = m[x]
    BY <1>2, LookupNone
  <2> QED BY <1>2, <2>1
<1> QED BY <1>1, <1>2

-----------------------------------------------------------------------------
(* The order of the stores in a buffer.                                      *)

\* A cell that is stored once is stored once more when its store is under way no more.
LEMMA OnceAppend ==
    ASSUME NEW S, NEW s \in Seq(S), NEW e \in S, NEW x, Once(s, x),
           InBuffer(s, x) => e.cell # x
    PROVE  Once(Append(s, e), x)
<1>1. /\ Len(Append(s, e)) = Len(s) + 1
      /\ \A k \in 1 .. Len(s) : Append(s, e)[k] = s[k]
      /\ Append(s, e)[Len(s) + 1] = e
      /\ Len(s) \in Nat
  OBVIOUS
<1>2. \A k \in 1 .. Len(s) + 1 : k \in 1 .. Len(s) \/ k = Len(s) + 1
  BY <1>1
<1> QED BY <1>1, <1>2 DEF Once, InBuffer

\* It stays stored once, and not at all behind its store.
LEMMA OnceTail ==
    ASSUME NEW S, NEW s \in Seq(S), s # <<>>, NEW x, Once(s, x)
    PROVE  Once(Tail(s), x) /\ (Head(s).cell = x => ~InBuffer(Tail(s), x))
<1>1. /\ Len(Tail(s)) = Len(s) - 1
      /\ \A k \in 1 .. Len(s) - 1 : Tail(s)[k] = s[k + 1]
      /\ s[1] = Head(s)
      /\ Len(s) \in Nat \ {0}
  OBVIOUS
<1>2. \A k \in 1 .. Len(s) - 1 : k + 1 \in 1 .. Len(s) /\ k + 1 # 1
  BY <1>1
<1>3. 1 \in 1 .. Len(s)
  BY <1>1
<1>4. ASSUME NEW j \in 1 .. Len(Tail(s)), NEW k \in 1 .. Len(Tail(s)),
             Tail(s)[j].cell = x, Tail(s)[k].cell = x
      PROVE  j = k
  <2>1. j + 1 = k + 1
    BY <1>1, <1>2, <1>4 DEF Once
  <2> QED BY <1>1, <2>1
<1>5. ASSUME Head(s).cell = x, NEW k \in 1 .. Len(Tail(s)), Tail(s)[k].cell = x
      PROVE  FALSE
  <2>1. k + 1 = 1
    BY <1>1, <1>2, <1>3, <1>5 DEF Once
  <2> QED BY <1>1, <1>2, <2>1
<1> QED BY <1>4, <1>5 DEF Once, InBuffer

\* A store of y comes after all stores of x; other stores but those of x change nothing.
LEMMA BeforeAppend ==
    ASSUME NEW S, NEW s \in Seq(S), NEW e \in S, NEW x, NEW y, e.cell # x,
           e.cell = y \/ Before(s, x, y)
    PROVE  Before(Append(s, e), x, y)
<1>1. /\ Len(Append(s, e)) = Len(s) + 1
      /\ \A k \in 1 .. Len(s) : Append(s, e)[k] = s[k]
      /\ Append(s, e)[Len(s) + 1] = e
      /\ Len(s) \in Nat
  OBVIOUS
<1>2. \A k \in 1 .. Len(s) + 1 : k \in 1 .. Len(s) \/ k = Len(s) + 1
  BY <1>1
<1>3. \A k \in 1 .. Len(s) : k \in 1 .. Len(s) + 1 /\ k < Len(s) + 1
  BY <1>1
<1>4. Len(s) + 1 \in 1 .. Len(s) + 1
  BY <1>1
<1> SUFFICES ASSUME NEW j \in 1 .. Len(s), s[j].cell = x
             PROVE  \E k \in 1 .. Len(s) + 1 : k > j /\ Append(s, e)[k].cell = y
  BY <1>1, <1>2 DEF Before
<1>5. CASE e.cell = y
  BY <1>1, <1>3, <1>4, <1>5
<1>6. CASE Before(s, x, y)
  BY <1>1, <1>3, <1>6 DEF Before
<1> QED BY <1>5, <1>6

\* The order stays; when the only store of y is the oldest there is none of x.
LEMMA BeforeTail ==
    ASSUME NEW S, NEW s \in Seq(S), s # <<>>, NEW x, NEW y, Before(s, x, y)
    PROVE  /\ Before(Tail(s), x, y)
           /\ Head(s).cell = y /\ Once(s, y) => ~InBuffer(s, x)
<1>1. /\ Len(Tail(s)) = Len(s) - 1
      /\ \A k \in 1 .. Len(s) - 1 : Tail(s)[k] = s[k + 1]
      /\ s[1] = Head(s)
      /\ Len(s) \in Nat \ {0}
  OBVIOUS
<1>2. ASSUME NEW j \in 1 .. Len(s) - 1, Tail(s)[j].cell = x
      PROVE  \E k \in 1 .. Len(s) - 1 : k > j /\ Tail(s)[k].cell = y
  <2>1. j + 1 \in 1 .. Len(s) /\ s[j + 1].cell = x
    BY <1>1, <1>2
  <2>2. PICK k \in 1 .. Len(s) : k > j + 1 /\ s[k].cell = y
    BY <2>1 DEF Before
  <2>3. PICK l : l = k - 1
    OBVIOUS
  <2>4. l \in 1 .. Len(s) - 1 /\ l > j /\ l + 1 = k
    BY <1>1, <2>2, <2>3
  <2> QED BY <1>1, <2>2, <2>4
<1>3. ASSUME Head(s).cell = y, Once(s, y), NEW j \in 1 .. Len(s), s[j].cell = x
      PROVE  FALSE
  <2>1. PICK k \in 1 .. Len(s) : k > j /\ s[k].cell = y
    BY <1>3 DEF Before
  <2>2. k = 1
    BY <1>1, <1>3, <2>1 DEF Once
  <2> QED BY <1>1, <2>1, <2>2
<1> QED BY <1>1, <1>2, <1>3 DEF Before, InBuffer

\* Where nothing of x is under way, and where something is.
LEMMA BeforePending ==
    ASSUME NEW s, NEW x, NEW y
    PROVE  /\ ~InBuffer(s, x) => Before(s, x, y) /\ Once(s, x)
           /\ Before(s, x, y) /\ InBuffer(s, x) => InBuffer(s, y)
BY DEF Before, Once, InBuffer

-----------------------------------------------------------------------------
(* The operations of StoreBuffers, with these lemmas.                        *)

\* What a processor reads is what Lookup finds in its buffer.
LEMMA ReadLookup ==
    ASSUME NEW t, NEW x
    PROVE  /\ Read(t, x) = Lookup(buffer[t], mem, x)
           /\ Read(t, x)' = Lookup(buffer[t], mem, x)'
BY DEF Read, Lookup

\* With nothing under way a processor reads the memory.
LEMMA ReadDrained ==
    ASSUME NEW t, NEW x, ~Pending(t, x)
    PROVE  Read(t, x) = mem[x]
BY ReadLookup, LookupNone DEF Pending

\* What is read is one of the values.
LEMMA ReadType ==
    ASSUME NEW P, NEW C, NEW V, MemoryOK(P, C, V), NEW t \in P, NEW x \in C
    PROVE  Read(t, x) \in V
<1>1. buffer[t] \in Seq(Stores(C, V)) /\ mem[x] \in V
  BY DEF MemoryOK
<1>2. CASE InBuffer(buffer[t], x)
  <2>1. PICK k \in 1 .. Len(buffer[t]) : IsLast(buffer[t], x, k)
    BY <1>1, <1>2, LastStore
  <2>2. Lookup(buffer[t], mem, x) = buffer[t][k].value
    BY <1>1, <2>1, LookupLast
  <2>3. buffer[t][k] \in Stores(C, V)
    BY <1>1, <2>1
  <2> QED BY <2>2, <2>3, ReadLookup DEF Stores
<1>3. CASE ~InBuffer(buffer[t], x)
  BY <1>1, <1>3, ReadDrained DEF Pending
<1> QED BY <1>2, <1>3

\* A store is read by its processor alone.
LEMMA StoreFacts ==
    ASSUME NEW P, NEW C, NEW V, MemoryOK(P, C, V),
           NEW t \in P, NEW x \in C, NEW v \in V, Store(t, x, v), mem' = mem
    PROVE  /\ MemoryOK(P, C, V)'
           /\ \A u \in P : \A y : Read(u, y)' = IF u = t /\ y = x THEN v ELSE Read(u, y)
           /\ \A u \in P : \A y : Pending(u, y)' <=> Pending(u, y) \/ (u = t /\ y = x)
           /\ \A u \in P : u # t => buffer'[u] = buffer[u]
<1> DEFINE e == [cell |-> x, value |-> v]
<1>1. e \in Stores(C, V) /\ e.cell = x /\ e.value = v
  BY DEF Stores
<1>2. buffer \in [P -> Seq(Stores(C, V))] /\ buffer' = [buffer EXCEPT ![t] = Append(@, e)]
  BY DEF MemoryOK, Store
<1> HIDE DEF e
<1>3. buffer'[t] = Append(buffer[t], e) /\ \A u \in P : u # t => buffer'[u] = buffer[u]
  BY <1>2
<1>4. Append(buffer[t], e) \in Seq(Stores(C, V)) /\ buffer[t] \in Seq(Stores(C, V))
  BY <1>1, <1>2
<1>5. MemoryOK(P, C, V)'
  BY <1>2, <1>3, <1>4 DEF MemoryOK
<1>6. ASSUME NEW u \in P, NEW y
      PROVE  Read(u, y)' = IF u = t /\ y = x THEN v ELSE Read(u, y)
  <2>1. Read(u, y)' = Lookup(buffer'[u], mem, y) /\ Read(u, y) = Lookup(buffer[u], mem, y)
    BY ReadLookup
  <2>2. Lookup(Append(buffer[t], e), mem, y) = IF x = y THEN v ELSE Lookup(buffer[t], mem, y)
    BY <1>1, <1>4, LookupAppend
  <2> QED BY <1>3, <2>1, <2>2
<1>7. ASSUME NEW u \in P, NEW y
      PROVE  Pending(u, y)' <=> Pending(u, y) \/ (u = t /\ y = x)
  <2>1. InBuffer(Append(buffer[t], e), y) <=> InBuffer(buffer[t], y) \/ x = y
    BY <1>1, <1>4, InBufferAppend
  <2>2. Pending(u, y)' <=> InBuffer(buffer'[u], y)
    BY DEF Pending, InBuffer
  <2> QED BY <1>3, <2>1, <2>2 DEF Pending
<1> QED BY <1>3, <1>5, <1>6, <1>7

\* A store that reaches the memory is read by those that have no own store of its cell
\* under way; its processor reads the same as before.
LEMMA FlushFacts ==
    ASSUME NEW P, NEW C, NEW V, MemoryOK(P, C, V), NEW t \in P, Flush(t)
    PROVE  LET e == Head(buffer[t]) IN
           /\ MemoryOK(P, C, V)'
           /\ e \in Stores(C, V) /\ buffer[t] # <<>>
           /\ mem' = [mem EXCEPT ![e.cell] = e.value]
           /\ \A x \in C : Read(t, x)' = Read(t, x)
           /\ \A u \in P, x \in C :
                 u # t => Read(u, x)' = IF x = e.cell /\ ~Pending(u, x) THEN e.value ELSE Read(u, x)
           /\ \A x : Pending(t, x) <=> x = e.cell \/ Pending(t, x)'
           /\ \A u \in P : \A x : u # t => (Pending(u, x)' <=> Pending(u, x))
           /\ buffer'[t] = Tail(buffer[t])
           /\ \A u \in P : u # t => buffer'[u] = buffer[u]
<1> DEFINE e == Head(buffer[t])
<1>1. /\ buffer \in [P -> Seq(Stores(C, V))] /\ mem \in [C -> V]
      /\ buffer[t] # <<>>
      /\ mem' = [mem EXCEPT ![e.cell] = e.value]
      /\ buffer' = [buffer EXCEPT ![t] = Tail(@)]
  BY DEF MemoryOK, Flush
<1>2. /\ buffer[t] \in Seq(Stores(C, V)) /\ Tail(buffer[t]) \in Seq(Stores(C, V))
      /\ e \in Stores(C, V)
  BY <1>1
<1>3. e.cell \in C /\ e.value \in V
  BY <1>2 DEF Stores
<1>4. buffer'[t] = Tail(buffer[t]) /\ \A u \in P : u # t => buffer'[u] = buffer[u]
  BY <1>1
<1>5. MemoryOK(P, C, V)'
  <2>1. mem' \in [C -> V]
    BY <1>1, <1>3
  <2>2. buffer' \in [P -> Seq(Stores(C, V))]
    BY <1>1, <1>2
  <2> QED BY <2>1, <2>2 DEF MemoryOK
<1>6. ASSUME NEW x \in C
      PROVE  Read(t, x)' = Read(t, x)
  <2>1. Lookup(Tail(buffer[t]), mem', x) = Lookup(buffer[t], mem, x)
    <3>1. buffer[t] # <<>> /\ buffer[t] \in Seq(Stores(C, V))
      BY <1>1, <1>2
    <3>2. mem'[x] = IF Head(buffer[t]).cell = x THEN Head(buffer[t]).value ELSE mem[x]
      BY <1>1
    <3> QED BY <3>1, <3>2, LookupFlush
  <2> QED BY <1>4, <2>1, ReadLookup
<1> HIDE DEF e
<1>7. ASSUME NEW u \in P, NEW x \in C, u # t
      PROVE  Read(u, x)' = IF x = e.cell /\ ~Pending(u, x) THEN e.value ELSE Read(u, x)
  <2>1. buffer[u] \in Seq(Stores(C, V))
    BY <1>1
  <2>2. mem'[x] = IF x = e.cell THEN e.value ELSE mem[x]
    BY <1>1, <1>3
  <2>3. CASE x = e.cell /\ ~InBuffer(buffer[u], x)
    <3>1. Lookup(buffer[u], mem', x) = mem'[x]
      BY <2>3, LookupNone
    <3> QED BY <1>4, <1>7, <2>2, <2>3, <3>1, ReadLookup DEF Pending
  <2>4. CASE ~ (x = e.cell /\ ~InBuffer(buffer[u], x))
    <3>1. InBuffer(buffer[u], x) \/ mem'[x] = mem[x]
      BY <2>2, <2>4
    <3>2. Lookup(buffer[u], mem', x) = Lookup(buffer[u], mem, x)
      BY <2>1, <3>1, LookupMemory
    <3> QED BY <1>4, <1>7, <2>4, <3>2, ReadLookup DEF Pending
  <2> QED BY <2>3, <2>4
<1>8. \A u \in P : \A x : Pending(u, x)' <=> InBuffer(buffer'[u], x)
  BY DEF Pending, InBuffer
<1>9. ASSUME NEW x
      PROVE  Pending(t, x) <=> x = e.cell \/ Pending(t, x)'
  BY <1>1, <1>2, <1>4, <1>8, InBufferTail DEF Pending, e
<1>10. \A u \in P : \A x : u # t => (Pending(u, x)' <=> Pending(u, x))
  BY <1>4, <1>8 DEF Pending
<1> QED BY <1>1, <1>2, <1>4, <1>5, <1>6, <1>7, <1>9, <1>10 DEF e

\* What a store does to the order of the stores under way.
LEMMA StoreOrder ==
    ASSUME NEW P, NEW C, NEW V, MemoryOK(P, C, V),
           NEW t \in P, NEW x \in C, NEW v \in V, Store(t, x, v), mem' = mem
    PROVE  /\ \A y : Once(buffer[t], y) /\ (y = x => ~Pending(t, y)) => Once(buffer[t], y)'
           /\ \A y, z : x # y /\ (x = z \/ Before(buffer[t], y, z)) => Before(buffer[t], y, z)'
<1> DEFINE e == [cell |-> x, value |-> v]
<1>1. e \in Stores(C, V) /\ e.cell = x
  BY DEF Stores
<1>2. buffer[t] \in Seq(Stores(C, V)) /\ buffer'[t] = Append(buffer[t], e)
  BY DEF MemoryOK, Store
<1> HIDE DEF e
<1>3. ASSUME NEW y, Once(buffer[t], y), y = x => ~Pending(t, y)
      PROVE  Once(buffer[t], y)'
  <2>1. Once(Append(buffer[t], e), y)
    BY <1>1, <1>2, <1>3, OnceAppend DEF Pending
  <2> QED BY <1>2, <2>1
<1>4. ASSUME NEW y, NEW z, x # y, x = z \/ Before(buffer[t], y, z)
      PROVE  Before(buffer[t], y, z)'
  <2>1. Before(Append(buffer[t], e), y, z)
    BY <1>1, <1>2, <1>4, BeforeAppend
  <2> QED BY <1>2, <2>1
<1> QED BY <1>3, <1>4

\* And what a store does to it that reaches the memory.
LEMMA FlushOrder ==
    ASSUME NEW P, NEW C, NEW V, MemoryOK(P, C, V), NEW t \in P, Flush(t)
    PROVE  LET e == Head(buffer[t]) IN
           /\ \A y : Once(buffer[t], y) => Once(buffer[t], y)' /\ (e.cell = y => ~Pending(t, y)')
           /\ \A y, z : Before(buffer[t], y, z) =>
                 /\ Before(buffer[t], y, z)'
                 /\ e.cell = z /\ Once(buffer[t], z) => ~Pending(t, y)
<1>1. buffer[t] \in Seq(Stores(C, V)) /\ buffer[t] # <<>> /\ buffer'[t] = Tail(buffer[t])
  BY FlushFacts DEF MemoryOK
<1>2. ASSUME NEW y, Once(buffer[t], y)
      PROVE  Once(buffer[t], y)' /\ (Head(buffer[t]).cell = y => ~Pending(t, y)')
  <2>1. /\ Once(Tail(buffer[t]), y)
        /\ Head(buffer[t]).cell = y => ~InBuffer(Tail(buffer[t]), y)
    BY <1>1, <1>2, OnceTail
  <2> QED BY <1>1, <2>1 DEF Pending
<1>3. ASSUME NEW y, NEW z, Before(buffer[t], y, z)
      PROVE  /\ Before(buffer[t], y, z)'
             /\ Head(buffer[t]).cell = z /\ Once(buffer[t], z) => ~Pending(t, y)
  <2>1. /\ Before(Tail(buffer[t]), y, z)
        /\ Head(buffer[t]).cell = z /\ Once(buffer[t], z) => ~InBuffer(buffer[t], y)
    BY <1>1, <1>3, BeforeTail
  <2> QED BY <1>1, <2>1 DEF Pending
<1> QED BY <1>2, <1>3

\* A locked instruction writes the memory when nothing of its processor is under way: it is
\* read by those that have no own store of the cell under way.
LEMMA LockedFacts ==
    ASSUME NEW P, NEW C, NEW V, MemoryOK(P, C, V), NEW t \in P, NEW x \in C, NEW v \in V,
           Drained(t), mem' = [mem EXCEPT ![x] = v], buffer' = buffer
    PROVE  /\ MemoryOK(P, C, V)'
           /\ \A u \in P, y \in C :
                 Read(u, y)' = IF y = x /\ ~Pending(u, y) THEN v ELSE Read(u, y)
           /\ \A u \in P : \A y : Pending(u, y)' <=> Pending(u, y)
           /\ \A y : ~Pending(t, y)
<1>1. buffer \in [P -> Seq(Stores(C, V))] /\ mem \in [C -> V]
  BY DEF MemoryOK
<1>2. MemoryOK(P, C, V)'
  BY <1>1 DEF MemoryOK
<1>3. ASSUME NEW u \in P, NEW y \in C
      PROVE  Read(u, y)' = IF y = x /\ ~Pending(u, y) THEN v ELSE Read(u, y)
  <2>1. buffer[u] \in Seq(Stores(C, V))
    BY <1>1
  <2>2. mem'[y] = IF y = x THEN v ELSE mem[y]
    BY <1>1
  <2>3. CASE y = x /\ ~InBuffer(buffer[u], y)
    <3>1. \A n : Lookup(buffer[u], n, y) = n[y]
      BY <2>3, LookupNone
    <3>2. Lookup(buffer[u], mem', y) = mem'[y]
      BY <3>1, Zenon
    <3> QED BY <2>2, <2>3, <3>2, ReadLookup DEF Pending
  <2>4. CASE ~ (y = x /\ ~InBuffer(buffer[u], y))
    <3>1. InBuffer(buffer[u], y) \/ mem'[y] = mem[y]
      BY <2>2, <2>4
    <3>2. Lookup(buffer[u], mem', y) = Lookup(buffer[u], mem, y)
      BY <2>1, <3>1, LookupMemory
    <3> QED BY <2>4, <3>2, ReadLookup DEF Pending
  <2> QED BY <2>3, <2>4
<1>4. \A u \in P : \A y : Pending(u, y)' <=> Pending(u, y)
  BY DEF Pending, InBuffer
<1>5. \A y : ~Pending(t, y)
  BY DEF Drained, Pending, InBuffer
<1> QED BY <1>2, <1>3, <1>4, <1>5

\* A processor whose buffer and whose cell are left alone reads the same.
LEMMA ReadSame ==
    ASSUME NEW P, NEW C, NEW V, MemoryOK(P, C, V), NEW t \in P, NEW x,
           buffer'[t] = buffer[t], Pending(t, x) \/ mem'[x] = mem[x]
    PROVE  Read(t, x)' = Read(t, x)
<1>1. buffer[t] \in Seq(Stores(C, V))
  BY DEF MemoryOK
<1>2. Lookup(buffer[t], mem', x) = Lookup(buffer[t], mem, x)
  BY <1>1, LookupMemory DEF Pending
<1> QED BY <1>2, ReadLookup

\* Nothing else changes what is read.
LEMMA QuietFacts ==
    ASSUME UNCHANGED <<mem, buffer>>
    PROVE  /\ \A t, x : Read(t, x)' = Read(t, x)
           /\ \A t, x : Pending(t, x)' <=> Pending(t, x)
BY DEF Read, Pending, InBuffer

\* At first nothing is under way.
LEMMA InitFacts ==
    ASSUME NEW P, NEW C, NEW V, NEW z \in V,
           mem = [x \in C |-> z], buffer = [t \in P |-> <<>>]
    PROVE  /\ MemoryOK(P, C, V)
           /\ \A t \in P, x \in C : Read(t, x) = z
           /\ \A t \in P : \A x : ~Pending(t, x)
<1>1. <<>> \in Seq(Stores(C, V)) /\ Len(<<>>) = 0
  OBVIOUS
<1>2. \A t \in P : \A x : ~Pending(t, x)
  BY <1>1 DEF Pending, InBuffer
<1> QED BY <1>1, <1>2, ReadDrained DEF MemoryOK
=============================================================================
