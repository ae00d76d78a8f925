-------------------------- MODULE LinkedListProofs --------------------------
(***************************************************************************)
(* Theorems about LinkedList: for any heads and any finite number of       *)
(* messages every list is the sequence its callers expect.                 *)
(***************************************************************************)
EXTENDS LinkedList, SelectionProofs, FiniteSetTheorems

Addr == Heads \cup Nodes
Heap == [next : [Addr -> Addr \cup {Poison}], prev : [Addr -> Addr \cup {Poison}]]

Elems(s) == {s[i] : i \in 1 .. Len(s)}
NoDup(s) == \A i, j \in 1 .. Len(s) : s[i] = s[j] => i = j

(* The inductive invariant: no node is twice in a list or in two lists.    *)
Distinct ==
  /\ \A a \in Heads : NoDup(content[a])
  /\ \A a, b \in Heads : a # b => Elems(content[a]) \cap Elems(content[b]) = {}

IInv == LinksOK /\ Distinct /\ ListsAreSequences

-----------------------------------------------------------------------------
(* One assignment.                                                         *)

(* g is h but for one link. *)
NextSet(h, g, x, v) ==
  /\ g \in Heap /\ g.prev = h.prev
  /\ \A y \in Addr : g.next[y] = IF y = x THEN v ELSE h.next[y]
PrevSet(h, g, x, v) ==
  /\ g \in Heap /\ g.next = h.next
  /\ \A y \in Addr : g.prev[y] = IF y = x THEN v ELSE h.prev[y]

LEMMA SetLink ==
  ASSUME NEW h, h \in Heap, NEW x, x \in Addr, NEW v, v \in Addr \/ v = Poison
  PROVE  /\ SetNext(h, x, v) \in Heap /\ NextSet(h, SetNext(h, x, v), x, v)
         /\ SetPrev(h, x, v) \in Heap /\ PrevSet(h, SetPrev(h, x, v), x, v)
  BY DEF SetNext, SetPrev, Heap, NextSet, PrevSet

(* What an operation as a whole does to the links.                         *)
LEMMA AddTailLinks ==
  ASSUME NEW h \in Heap, NEW n \in Nodes, NEW a \in Heads, h.prev[a] # Poison
  PROVE  LET g == AddTail(h, n, a)
             p == h.prev[a] IN
         /\ g \in Heap /\ p \in Addr
         /\ \A y \in Addr : g.next[y] = IF y = p THEN n ELSE IF y = n THEN a ELSE h.next[y]
         /\ \A y \in Addr : g.prev[y] = IF y = n THEN p ELSE IF y = a THEN n ELSE h.prev[y]
<1> DEFINE p == h.prev[a]
           h1 == SetPrev(h, a, n)
           h2 == SetNext(h1, n, a)
           h3 == SetPrev(h2, n, p)
           h4 == SetNext(h3, p, n)
<1>1. n \in Addr /\ a \in Addr /\ p \in Addr
  BY DEF Addr, Heap
<1>2. h1 \in Heap /\ PrevSet(h, h1, a, n)
  BY <1>1, SetLink
<1> HIDE DEF h1, p
<1>3. h2 \in Heap /\ NextSet(h1, h2, n, a)
  BY <1>1, <1>2, SetLink
<1> HIDE DEF h2
<1>4. h3 \in Heap /\ PrevSet(h2, h3, n, p)
  BY <1>1, <1>3, SetLink
<1> HIDE DEF h3
<1>5. h4 \in Heap /\ NextSet(h3, h4, p, n)
  BY <1>1, <1>4, SetLink
<1>6. AddTail(h, n, a) = h4
  BY DEF AddTail, h1, h2, h3, p
<1> HIDE DEF h4
<1> QED
  BY <1>1, <1>2, <1>3, <1>4, <1>5, <1>6 DEF NextSet, PrevSet, p

LEMMA DelLinks ==
  ASSUME NEW h \in Heap, NEW n \in Nodes, h.prev[n] # Poison, h.next[n] # Poison
  PROVE  LET g == Del(h, n)
             p == h.prev[n]
             q == h.next[n] IN
         /\ g \in Heap /\ p \in Addr /\ q \in Addr
         /\ \A y \in Addr : g.next[y] = IF y = n THEN Poison ELSE IF y = p THEN q ELSE h.next[y]
         /\ \A y \in Addr : g.prev[y] = IF y = n THEN Poison ELSE IF y = q THEN p ELSE h.prev[y]
<1> DEFINE p == h.prev[n]
           q == h.next[n]
           h1 == SetPrev(h, q, p)
           h2 == SetNext(h1, p, q)
           h3 == SetNext(h2, n, Poison)
           h4 == SetPrev(h3, n, Poison)
<1>1. n \in Addr /\ p \in Addr /\ q \in Addr
  BY DEF Addr, Heap
<1>2. h1 \in Heap /\ PrevSet(h, h1, q, p)
  BY <1>1, SetLink
<1> HIDE DEF h1, p, q
<1>3. h2 \in Heap /\ NextSet(h1, h2, p, q)
  BY <1>1, <1>2, SetLink
<1> HIDE DEF h2
<1>4. h3 \in Heap /\ NextSet(h2, h3, n, Poison)
  BY <1>1, <1>3, SetLink
<1> HIDE DEF h3
<1>5. h4 \in Heap /\ PrevSet(h3, h4, n, Poison)
  BY <1>1, <1>4, SetLink
<1>6. Del(h, n) = h4
  BY DEF Del, h1, h2, h3, p, q
<1> HIDE DEF h4
<1> QED
  BY <1>1, <1>2, <1>3, <1>4, <1>5, <1>6 DEF NextSet, PrevSet, p, q

(* When the list that is moved has something in it.                        *)
LEMMA SpliceLinks ==
  ASSUME NEW h \in Heap, NEW b \in Heads, NEW a \in Heads,
         h.next[b] # Poison, h.prev[b] # Poison, h.prev[a] # Poison, h.next[b] # b
  PROVE  LET g == SpliceTailInit(h, b, a)
             first == h.next[b]
             last == h.prev[b]
             p == h.prev[a] IN
         /\ g \in Heap /\ first \in Addr /\ last \in Addr /\ p \in Addr
         /\ \A y \in Addr : g.next[y] = IF y = b THEN b ELSE IF y = last THEN a
                                        ELSE IF y = p THEN first ELSE h.next[y]
         /\ \A y \in Addr : g.prev[y] = IF y = b THEN b ELSE IF y = a THEN last
                                        ELSE IF y = first THEN p ELSE h.prev[y]
<1> DEFINE first == h.next[b]
           last == h.prev[b]
           p == h.prev[a]
           h1 == SetPrev(h, first, p)
           h2 == SetNext(h1, p, first)
           h3 == SetNext(h2, last, a)
           h4 == SetPrev(h3, a, last)
           h5 == SetNext(h4, b, b)
           h6 == SetPrev(h5, b, b)
<1>1. a \in Addr /\ b \in Addr /\ p \in Addr /\ first \in Addr /\ last \in Addr
  BY DEF Addr, Heap
<1>2. h1 \in Heap /\ PrevSet(h, h1, first, p)
  BY <1>1, SetLink
<1> HIDE DEF h1, p, first, last
<1>3. h2 \in Heap /\ NextSet(h1, h2, p, first)
  BY <1>1, <1>2, SetLink
<1> HIDE DEF h2
<1>4. h3 \in Heap /\ NextSet(h2, h3, last, a)
  BY <1>1, <1>3, SetLink
<1> HIDE DEF h3
<1>5. h4 \in Heap /\ PrevSet(h3, h4, a, last)
  BY <1>1, <1>4, SetLink
<1> HIDE DEF h4
<1>6. h5 \in Heap /\ NextSet(h4, h5, b, b)
  BY <1>1, <1>5, SetLink
<1> HIDE DEF h5
<1>7. h6 \in Heap /\ PrevSet(h5, h6, b, b)
  BY <1>1, <1>6, SetLink
<1>8. SpliceTailInit(h, b, a) = h6
  BY DEF SpliceTailInit, ListEmpty, Reset, h1, h2, h3, h4, h5, p, first, last
<1> HIDE DEF h6
<1> QED
  BY <1>1, <1>2, <1>3, <1>4, <1>5, <1>6, <1>7, <1>8 DEF NextSet, PrevSet, p, first, last

-----------------------------------------------------------------------------
(* Places.                                                                 *)

LEMMA PlaceFacts ==
  ASSUME NEW a \in Heads, NEW s \in Seq(Nodes)
  PROVE  /\ Len(s) \in Nat /\ Place(a, s, 0) = a /\ Place(a, s, Len(s) + 1) = a
         /\ \A i \in 1 .. Len(s) : Place(a, s, i) = s[i] /\ s[i] \in Nodes /\ s[i] # a /\ s[i] \in Elems(s)
         /\ \A i \in 0 .. Len(s) + 1 : Place(a, s, i) \in Addr
         /\ NoDup(s) => /\ \A i, j \in 0 .. Len(s) : Place(a, s, i) = Place(a, s, j) => i = j
                        /\ \A i, j \in 1 .. Len(s) + 1 : Place(a, s, i) = Place(a, s, j) => i = j
<1>1. Len(s) \in Nat
  BY LenProperties
<1>2. Place(a, s, 0) = a /\ Place(a, s, Len(s) + 1) = a
  BY <1>1 DEF Place
<1>3. \A i \in 1 .. Len(s) : Place(a, s, i) = s[i] /\ s[i] \in Nodes /\ s[i] # a /\ s[i] \in Elems(s)
  <2> TAKE i \in 1 .. Len(s)
  <2>1. s[i] \in Nodes
    BY ElementOfSeq
  <2> QED
    BY <2>1, LinkedListAssumption DEF Place, Elems, LinkedListAssumption
<1>4. \A i \in 0 .. Len(s) + 1 : i = 0 \/ i = Len(s) + 1 \/ i \in 1 .. Len(s)
  BY <1>1
<1>5. \A i \in 0 .. Len(s) + 1 : Place(a, s, i) \in Addr
  BY <1>2, <1>3, <1>4 DEF Addr
<1>6. ASSUME NoDup(s)
      PROVE  \A i, j \in 0 .. Len(s) : Place(a, s, i) = Place(a, s, j) => i = j
  <2>1. \A i \in 0 .. Len(s) : i = 0 \/ i \in 1 .. Len(s)
    BY <1>1
  <2> QED
    BY <1>2, <1>3, <1>6, <2>1 DEF NoDup
<1>7. ASSUME NoDup(s)
      PROVE  \A i, j \in 1 .. Len(s) + 1 : Place(a, s, i) = Place(a, s, j) => i = j
  <2>1. \A i \in 1 .. Len(s) + 1 : i = Len(s) + 1 \/ i \in 1 .. Len(s)
    BY <1>1
  <2> QED
    BY <1>2, <1>3, <1>7, <2>1 DEF NoDup
<1> QED
  BY <1>1, <1>2, <1>3, <1>5, <1>6, <1>7

(* The first and the last of a list.                                       *)
LEMMA Ends ==
  ASSUME NEW h, NEW a \in Heads, NEW s \in Seq(Nodes), Represents(h, a, s)
  PROVE  /\ h.next[a] = Place(a, s, 1) /\ h.prev[a] = Place(a, s, Len(s))
         /\ s # <<>> => h.next[a] = s[1] /\ h.prev[a] = s[Len(s)] /\ h.next[a] # a
         /\ s = <<>> => h.next[a] = a
<1>1. /\ Len(s) \in Nat /\ Place(a, s, 0) = a /\ Place(a, s, Len(s) + 1) = a
      /\ \A i \in 1 .. Len(s) : Place(a, s, i) = s[i] /\ s[i] # a
  BY PlaceFacts
<1>2. h.next[a] = Place(a, s, 1)
  <2>1. 0 \in 0 .. Len(s) /\ 0 + 1 = 1
    BY <1>1
  <2> QED
    BY <1>1, <2>1 DEF Represents
<1>3. h.prev[a] = Place(a, s, Len(s))
  <2>1. Len(s) \in 0 .. Len(s)
    BY <1>1
  <2> QED
    BY <1>1, <2>1 DEF Represents
<1>4. s # <<>> => 1 \in 1 .. Len(s) /\ Len(s) \in 1 .. Len(s)
  BY <1>1, EmptySeq
<1>5. s = <<>> => Len(s) + 1 = 1
  BY EmptySeq
<1> QED
  BY <1>1, <1>2, <1>3, <1>4, <1>5

(* A list none of whose links changed.                                     *)
LEMMA Untouched ==
  ASSUME NEW h, NEW g, NEW b \in Heads, NEW t \in Seq(Nodes), Represents(h, b, t),
         \A y \in Elems(t) \cup {b} : g.next[y] = h.next[y] /\ g.prev[y] = h.prev[y]
  PROVE  Represents(g, b, t)
<1>1. \A i \in 0 .. Len(t) + 1 : Place(b, t, i) \in Elems(t) \cup {b}
  BY DEF Place, Elems
<1>2. Len(t) \in Nat
  BY LenProperties
<1>3. \A i \in 0 .. Len(t) : i \in 0 .. Len(t) + 1 /\ i + 1 \in 0 .. Len(t) + 1
  BY <1>2
<1> QED
  BY <1>1, <1>3 DEF Represents

-----------------------------------------------------------------------------
(* The operations.                                                         *)

LEMMA AddKeeps ==
  ASSUME NEW h \in Heap, NEW a \in Heads, NEW s \in Seq(Nodes), NoDup(s), Represents(h, a, s),
         NEW n \in Nodes, n \notin Elems(s)
  PROVE  /\ AddTail(h, n, a) \in Heap
         /\ Represents(AddTail(h, n, a), a, Append(s, n))
         /\ \A b \in Heads, t \in Seq(Nodes) :
              b # a /\ Elems(t) \cap Elems(s) = {} /\ n \notin Elems(t) /\ Represents(h, b, t) =>
                Represents(AddTail(h, n, a), b, t)
<1> DEFINE g == AddTail(h, n, a)
           p == Place(a, s, Len(s))
           r == Append(s, n)
<1>1. /\ Len(s) \in Nat /\ Place(a, s, 0) = a /\ Place(a, s, Len(s) + 1) = a
      /\ \A i \in 1 .. Len(s) : /\ Place(a, s, i) = s[i] /\ s[i] \in Nodes /\ s[i] # a
                                /\ s[i] \in Elems(s)
      /\ \A i \in 0 .. Len(s) + 1 : Place(a, s, i) \in Addr
      /\ \A i, j \in 0 .. Len(s) : Place(a, s, i) = Place(a, s, j) => i = j
  BY PlaceFacts
<1>2. p = h.prev[a] /\ p \in Addr /\ p # n /\ a # n /\ h.prev[a] # Poison
  <2>1. p = a \/ p \in Elems(s)
    BY <1>1
  <2> QED
    BY <1>1, <2>1, Ends, LinkedListAssumption DEF LinkedListAssumption, Addr
<1>3. /\ g \in Heap
      /\ \A y \in Addr : g.next[y] = IF y = p THEN n ELSE IF y = n THEN a ELSE h.next[y]
      /\ \A y \in Addr : g.prev[y] = IF y = n THEN p ELSE IF y = a THEN n ELSE h.prev[y]
  BY <1>2, AddTailLinks
<1>4. /\ Len(r) = Len(s) + 1
      /\ \A i \in 0 .. Len(s) : Place(a, r, i) = Place(a, s, i)
      /\ Place(a, r, Len(s) + 1) = n /\ Place(a, r, Len(s) + 2) = a
  <2>1. Len(r) = Len(s) + 1 /\ r[Len(s) + 1] = n /\ \A i \in 1 .. Len(s) : r[i] = s[i]
    BY AppendProperties, <1>1
  <2> HIDE DEF r
  <2> QED
    BY <1>1, <2>1 DEF Place
<1> HIDE DEF g, r
<1>5. ASSUME NEW i \in 0 .. Len(r)
      PROVE  /\ g.next[Place(a, r, i)] = Place(a, r, i + 1)
             /\ g.prev[Place(a, r, i + 1)] = Place(a, r, i)
  <2>1. CASE i \in 0 .. Len(s) - 1
    <3>1. /\ h.next[Place(a, s, i)] = Place(a, s, i + 1) /\ h.prev[Place(a, s, i + 1)] = Place(a, s, i)
          /\ Place(a, r, i) = Place(a, s, i) /\ Place(a, r, i + 1) = Place(a, s, i + 1)
          /\ Place(a, s, i) \in Addr /\ Place(a, s, i + 1) \in Addr
      BY <1>1, <1>4, <2>1 DEF Represents
    <3>2. Place(a, s, i) # p
      BY <1>1, <2>1
    <3>3. Place(a, s, i + 1) = s[i + 1] /\ s[i + 1] # a /\ s[i + 1] \in Elems(s)
      BY <1>1, <2>1
    <3>4. Place(a, s, i) # n
      <4>1. i = 0 \/ i \in 1 .. Len(s)
        BY <2>1
      <4> QED
        BY <1>1, <1>2, <4>1
    <3> HIDE DEF p
    <3> QED
      BY <1>3, <3>1, <3>2, <3>3, <3>4
  <2>2. CASE i = Len(s)
    <3>1. Place(a, r, i) = p /\ Place(a, r, i + 1) = n
      BY <1>1, <1>4, <2>2
    <3> HIDE DEF p
    <3> QED
      BY <1>2, <1>3, <3>1 DEF Addr
  <2>3. CASE i = Len(s) + 1
    <3>1. Place(a, r, i) = n /\ Place(a, r, i + 1) = a
      BY <1>1, <1>4, <2>3
    <3> HIDE DEF p
    <3> QED
      BY <1>2, <1>3, <3>1 DEF Addr
  <2> QED
    BY <1>1, <1>4, <2>1, <2>2, <2>3
<1>6. Represents(g, a, r)
  BY <1>5 DEF Represents
<1>7. ASSUME NEW b \in Heads, NEW t \in Seq(Nodes),
             b # a, Elems(t) \cap Elems(s) = {}, n \notin Elems(t), Represents(h, b, t)
      PROVE  Represents(g, b, t)
  <2>1. \A y \in Elems(t) \cup {b} : y \in Addr /\ y # n /\ y # a
    <3>1. \A i \in 1 .. Len(t) : t[i] \in Nodes
      BY ElementOfSeq
    <3> QED
      BY <1>7, <3>1, LinkedListAssumption DEF LinkedListAssumption, Elems, Addr
  <2>2. \A y \in Elems(t) \cup {b} : y # p
    <3>1. p = a \/ (p \in Elems(s) /\ p \in Nodes)
      BY <1>1
    <3> QED
      BY <1>7, <2>1, <3>1, LinkedListAssumption DEF LinkedListAssumption
  <2> HIDE DEF p
  <2> QED
    BY <1>3, <1>7, <2>1, <2>2, Untouched
<1> QED
  BY <1>3, <1>6, <1>7 DEF g, r

LEMMA DelKeeps ==
  ASSUME NEW h \in Heap, NEW a \in Heads, NEW s \in Seq(Nodes), NoDup(s), Represents(h, a, s),
         NEW k \in 1 .. Len(s), NEW r \in Seq(Nodes), Len(r) = Len(s) - 1,
         \A j \in 1 .. Len(r) : r[j] = IF j < k THEN s[j] ELSE s[j + 1]
  PROVE  /\ Del(h, s[k]) \in Heap
         /\ Represents(Del(h, s[k]), a, r)
         /\ \A b \in Heads, t \in Seq(Nodes) :
              b # a /\ Elems(t) \cap Elems(s) = {} /\ Represents(h, b, t) =>
                Represents(Del(h, s[k]), b, t)
<1> DEFINE n == s[k]
           g == Del(h, n)
           p == Place(a, s, k - 1)
           q == Place(a, s, k + 1)
<1>1. /\ Len(s) \in Nat /\ Place(a, s, 0) = a /\ Place(a, s, Len(s) + 1) = a
      /\ \A i \in 1 .. Len(s) : /\ Place(a, s, i) = s[i] /\ s[i] \in Nodes /\ s[i] # a
                                /\ s[i] \in Elems(s)
      /\ \A i \in 0 .. Len(s) + 1 : Place(a, s, i) \in Addr
      /\ \A i, j \in 0 .. Len(s) : Place(a, s, i) = Place(a, s, j) => i = j
      /\ \A i, j \in 1 .. Len(s) + 1 : Place(a, s, i) = Place(a, s, j) => i = j
  BY PlaceFacts
<1>2. n \in Nodes /\ n \in Elems(s) /\ n = Place(a, s, k)
  BY <1>1
<1>3. /\ h.prev[n] = p /\ h.next[n] = q /\ p \in Addr /\ q \in Addr
      /\ p # Poison /\ q # Poison
  <2>1. k - 1 \in 0 .. Len(s) /\ k \in 0 .. Len(s) /\ (k - 1) + 1 = k /\ k + 1 \in 0 .. Len(s) + 1
    BY <1>1
  <2>2. h.prev[n] = p /\ h.next[n] = q
    BY <1>2, <2>1 DEF Represents
  <2>3. p \in Addr /\ q \in Addr
    BY <1>1, <2>1
  <2> QED
    BY <2>2, <2>3, LinkedListAssumption DEF LinkedListAssumption, Addr
<1>4. /\ g \in Heap
      /\ \A y \in Addr : g.next[y] = IF y = n THEN Poison ELSE IF y = p THEN q ELSE h.next[y]
      /\ \A y \in Addr : g.prev[y] = IF y = n THEN Poison ELSE IF y = q THEN p ELSE h.prev[y]
  <2> HIDE DEF n, p, q
  <2> QED
    BY <1>2, <1>3, DelLinks
<1>5. \A i \in 0 .. Len(s) : Place(a, r, i) = IF i < k THEN Place(a, s, i) ELSE Place(a, s, i + 1)
  <2> TAKE i \in 0 .. Len(s)
  <2>1. CASE i = 0
    BY <1>1, <2>1 DEF Place
  <2>2. CASE i \in 1 .. Len(r)
    <3>1. i \in 1 .. Len(s) /\ i + 1 \in 1 .. Len(s)
      BY <1>1, <2>2
    <3> QED
      BY <2>2, <3>1 DEF Place
  <2>3. CASE i = Len(s)
    <3>1. i + 1 = Len(s) + 1 /\ ~(i < k) /\ i \notin 1 .. Len(r)
      BY <1>1, <2>3
    <3> QED
      BY <1>1, <3>1 DEF Place
  <2> QED
    BY <1>1, <2>1, <2>2, <2>3
<1> HIDE DEF g
<1>6. ASSUME NEW i \in 0 .. Len(r)
      PROVE  /\ g.next[Place(a, r, i)] = Place(a, r, i + 1)
             /\ g.prev[Place(a, r, i + 1)] = Place(a, r, i)
  <2>0. i \in 0 .. Len(s) - 1 /\ k \in 1 .. Len(s) /\ i + 1 \in 0 .. Len(s)
    BY <1>1
  <2>1. CASE i < k - 1
    <3>1. Place(a, r, i) = Place(a, s, i) /\ Place(a, r, i + 1) = Place(a, s, i + 1)
      BY <1>5, <2>0, <2>1
    <3>2. h.next[Place(a, s, i)] = Place(a, s, i + 1) /\ h.prev[Place(a, s, i + 1)] = Place(a, s, i)
      BY <2>0 DEF Represents
    <3>3. Place(a, s, i) # n /\ Place(a, s, i) # p
      BY <1>1, <1>2, <2>0, <2>1
    <3>4. Place(a, s, i + 1) # n /\ Place(a, s, i + 1) # q
      <4>1. i + 1 \in 1 .. Len(s) + 1 /\ k + 1 \in 1 .. Len(s) + 1 /\ i + 1 # k + 1 /\ k \in 1 .. Len(s) + 1
        BY <1>1, <2>0, <2>1
      <4> QED
        BY <1>1, <1>2, <2>1, <4>1
    <3>5. Place(a, s, i) \in Addr /\ Place(a, s, i + 1) \in Addr
      BY <1>1, <2>0
    <3> HIDE DEF p, q, n
    <3> QED
      BY <1>4, <3>1, <3>2, <3>3, <3>4, <3>5
  <2>2. CASE i = k - 1
    <3>1. Place(a, r, i) = p /\ Place(a, r, i + 1) = q
      BY <1>5, <2>0, <2>2
    <3>2. p # n /\ q # n
      <4>1. k - 1 \in 0 .. Len(s) /\ k \in 0 .. Len(s) /\ k + 1 \in 1 .. Len(s) + 1 /\ k \in 1 .. Len(s) + 1
        BY <1>1
      <4> QED
        BY <1>1, <1>2, <4>1
    <3> HIDE DEF p, q, n
    <3> QED
      BY <1>3, <1>4, <3>1, <3>2
  <2>3. CASE i >= k
    <3>1. Place(a, r, i) = Place(a, s, i + 1) /\ Place(a, r, i + 1) = Place(a, s, i + 2)
      BY <1>5, <2>0, <2>3
    <3>2. h.next[Place(a, s, i + 1)] = Place(a, s, i + 2) /\ h.prev[Place(a, s, i + 2)] = Place(a, s, i + 1)
      <4>1. (i + 1) + 1 = i + 2
        BY <2>0
      <4> QED
        BY <2>0, <4>1 DEF Represents
    <3>3. Place(a, s, i + 1) # n /\ Place(a, s, i + 1) # p
      BY <1>1, <1>2, <2>0, <2>3
    <3>4. Place(a, s, i + 2) # n /\ Place(a, s, i + 2) # q
      <4>1. i + 2 \in 1 .. Len(s) + 1 /\ k + 1 \in 1 .. Len(s) + 1 /\ i + 2 # k + 1 /\ k \in 1 .. Len(s) + 1
        BY <1>1, <2>0, <2>3
      <4> QED
        BY <1>1, <1>2, <2>3, <4>1
    <3>5. Place(a, s, i + 1) \in Addr /\ Place(a, s, i + 2) \in Addr
      BY <1>1, <2>0
    <3> HIDE DEF p, q, n
    <3> QED
      BY <1>4, <3>1, <3>2, <3>3, <3>4, <3>5
  <2> QED
    BY <2>0, <2>1, <2>2, <2>3
<1>7. Represents(g, a, r)
  BY <1>6 DEF Represents
<1>8. ASSUME NEW b \in Heads, NEW t \in Seq(Nodes),
             b # a, Elems(t) \cap Elems(s) = {}, Represents(h, b, t)
      PROVE  Represents(g, b, t)
  <2>1. \A y \in Elems(s) \cup {a} : y \notin Elems(t) \cup {b}
    <3>1. \A i \in 1 .. Len(t) : t[i] \in Nodes
      BY ElementOfSeq
    <3>2. \A i \in 1 .. Len(s) : s[i] \in Nodes
      BY <1>1
    <3> QED
      BY <1>8, <3>1, <3>2, LinkedListAssumption DEF LinkedListAssumption, Elems
  <2>2. \A i \in 0 .. Len(s) + 1 : Place(a, s, i) \in Elems(s) \cup {a}
    BY DEF Place, Elems
  <2>3. n \in Elems(s) \cup {a} /\ p \in Elems(s) \cup {a} /\ q \in Elems(s) \cup {a}
    <3>1. k - 1 \in 0 .. Len(s) + 1 /\ k + 1 \in 0 .. Len(s) + 1
      BY <1>1
    <3> QED
      BY <1>2, <2>2, <3>1
  <2>4. \A y \in Elems(t) \cup {b} : y \in Addr
    <3>1. \A i \in 1 .. Len(t) : t[i] \in Nodes
      BY ElementOfSeq
    <3> QED
      BY <3>1 DEF Elems, Addr
  <2> HIDE DEF p, q, n
  <2> QED
    BY <1>4, <1>8, <2>1, <2>3, <2>4, Untouched
<1> QED
  BY <1>4, <1>7, <1>8 DEF g

LEMMA SpliceKeeps ==
  ASSUME NEW h \in Heap, NEW a \in Heads, NEW b \in Heads, a # b,
         NEW s \in Seq(Nodes), NoDup(s), Represents(h, a, s),
         NEW t \in Seq(Nodes), NoDup(t), Represents(h, b, t),
         Elems(s) \cap Elems(t) = {}
  PROVE  /\ SpliceTailInit(h, b, a) \in Heap
         /\ Represents(SpliceTailInit(h, b, a), a, s \o t)
         /\ Represents(SpliceTailInit(h, b, a), b, <<>>)
         /\ \A c \in Heads, u \in Seq(Nodes) :
              /\ c # a /\ c # b /\ Elems(u) \cap Elems(s) = {} /\ Elems(u) \cap Elems(t) = {}
              /\ Represents(h, c, u)
              => Represents(SpliceTailInit(h, b, a), c, u)
<1> DEFINE g == SpliceTailInit(h, b, a)
           p == Place(a, s, Len(s))
           r == s \o t
<1>1. /\ Len(s) \in Nat /\ Place(a, s, 0) = a /\ Place(a, s, Len(s) + 1) = a
      /\ \A i \in 1 .. Len(s) : /\ Place(a, s, i) = s[i] /\ s[i] \in Nodes /\ s[i] # a
                                /\ s[i] \in Elems(s)
      /\ \A i \in 0 .. Len(s) + 1 : Place(a, s, i) \in Addr
      /\ \A i, j \in 0 .. Len(s) : Place(a, s, i) = Place(a, s, j) => i = j
  BY PlaceFacts
<1>2. /\ Len(t) \in Nat
      /\ \A i \in 1 .. Len(t) : /\ Place(b, t, i) = t[i] /\ t[i] \in Nodes /\ t[i] \in Elems(t)
                                /\ t[i] \in Addr
  BY PlaceFacts DEF Addr
<1>3. CASE t = <<>>
  <2>1. h.next[b] = b
    BY <1>3, Ends
  <2>2. g = h
    BY <2>1 DEF SpliceTailInit, ListEmpty
  <2>3. r = s
    BY <1>3, ConcatEmptySeq
  <2> HIDE DEF g, r
  <2>4. Represents(g, a, r) /\ Represents(g, b, <<>>)
    BY <1>3, <2>2, <2>3
  <2> QED
    BY <2>2, <2>4 DEF g, r
<1>4. CASE t # <<>>
  <2> DEFINE first == t[1]
             last == t[Len(t)]
  <2>1. 1 \in 1 .. Len(t) /\ Len(t) \in 1 .. Len(t)
    BY <1>2, <1>4, EmptySeq
  <2>2. h.next[b] = first /\ h.prev[b] = last /\ h.next[b] # b /\ h.prev[a] = p
    BY <1>4, Ends
  <2>3. /\ first \in Nodes /\ last \in Nodes /\ first \in Elems(t) /\ last \in Elems(t)
        /\ p \in Addr /\ (p = a \/ (p \in Elems(s) /\ p \in Nodes))
        /\ first # Poison /\ last # Poison /\ p # Poison
        /\ first \notin {a, b, p} /\ last \notin {a, b, p} /\ p # b
    BY <1>1, <1>2, <2>1, LinkedListAssumption DEF LinkedListAssumption, Addr
  <2>4. /\ g \in Heap
        /\ \A y \in Addr : g.next[y] = IF y = b THEN b ELSE IF y = last THEN a
                                       ELSE IF y = p THEN first ELSE h.next[y]
        /\ \A y \in Addr : g.prev[y] = IF y = b THEN b ELSE IF y = a THEN last
                                       ELSE IF y = first THEN p ELSE h.prev[y]
    <3> HIDE DEF first, last, p
    <3> QED
      BY <2>2, <2>3, SpliceLinks
  <2>5. /\ r \in Seq(Nodes) /\ Len(r) = Len(s) + Len(t)
        /\ \A i \in 0 .. Len(s) : Place(a, r, i) = Place(a, s, i)
        /\ \A i \in Len(s) + 1 .. Len(s) + Len(t) : Place(a, r, i) = t[i - Len(s)]
        /\ Place(a, r, Len(s) + Len(t) + 1) = a
    <3>1. /\ r \in Seq(Nodes) /\ Len(r) = Len(s) + Len(t)
          /\ \A i \in 1 .. Len(s) + Len(t) : r[i] = IF i <= Len(s) THEN s[i] ELSE t[i - Len(s)]
      BY ConcatProperties
    <3> HIDE DEF r
    <3> QED
      BY <1>1, <1>2, <3>1 DEF Place
  <2> HIDE DEF g, r
  <2>6. ASSUME NEW i \in 0 .. Len(r)
        PROVE  /\ g.next[Place(a, r, i)] = Place(a, r, i + 1)
               /\ g.prev[Place(a, r, i + 1)] = Place(a, r, i)
    <3>1. CASE i < Len(s)
      <4>1. i \in 0 .. Len(s) /\ i + 1 \in 0 .. Len(s) /\ i + 1 \in 1 .. Len(s) /\ Len(s) \in 0 .. Len(s)
        BY <1>1, <3>1
      <4>2. /\ h.next[Place(a, s, i)] = Place(a, s, i + 1) /\ h.prev[Place(a, s, i + 1)] = Place(a, s, i)
            /\ Place(a, r, i) = Place(a, s, i) /\ Place(a, r, i + 1) = Place(a, s, i + 1)
            /\ Place(a, s, i) \in Addr /\ Place(a, s, i + 1) \in Addr
        BY <1>1, <2>5, <4>1 DEF Represents
      <4>3. Place(a, s, i) # p
        BY <1>1, <3>1, <4>1
      <4>4. Place(a, s, i) = a \/ (Place(a, s, i) \in Elems(s) /\ Place(a, s, i) \in Nodes)
        <5>1. i = 0 \/ i \in 1 .. Len(s)
          BY <3>1
        <5> QED
          BY <1>1, <5>1
      <4>5. /\ Place(a, s, i + 1) \in Elems(s) /\ Place(a, s, i + 1) \in Nodes
            /\ Place(a, s, i + 1) # a
        BY <1>1, <4>1
      <4> HIDE DEF p, first, last
      <4>6. Place(a, s, i) # b /\ Place(a, s, i) # last
        BY <2>3, <4>4, LinkedListAssumption DEF LinkedListAssumption
      <4>7. Place(a, s, i + 1) # b /\ Place(a, s, i + 1) # first
        BY <2>3, <4>5, LinkedListAssumption DEF LinkedListAssumption
      <4> QED
        BY <2>4, <4>2, <4>3, <4>5, <4>6, <4>7
    <3>2. CASE i = Len(s)
      <4>1. Place(a, r, i) = p
        BY <1>1, <2>5, <3>2
      <4>2. Place(a, r, i + 1) = first
        <5>1. i + 1 \in Len(s) + 1 .. Len(s) + Len(t) /\ (i + 1) - Len(s) = 1
          BY <1>1, <1>2, <2>1, <3>2
        <5> QED
          BY <2>5, <5>1
      <4> HIDE DEF p, first, last
      <4> QED
        BY <2>3, <2>4, <4>1, <4>2 DEF Addr
    <3>3. CASE Len(s) < i /\ i < Len(s) + Len(t)
      <4> DEFINE j == i - Len(s)
      <4>1. /\ j \in 1 .. Len(t) /\ j + 1 \in 1 .. Len(t) /\ j \in 0 .. Len(t) /\ j # Len(t)
            /\ j + 1 # 1 /\ (i + 1) - Len(s) = j + 1
            /\ i \in Len(s) + 1 .. Len(s) + Len(t) /\ i + 1 \in Len(s) + 1 .. Len(s) + Len(t)
        BY <1>1, <1>2, <3>3
      <4>2. Place(a, r, i) = t[j] /\ Place(a, r, i + 1) = t[j + 1]
        BY <2>5, <4>1
      <4> HIDE DEF j
      <4>3. h.next[t[j]] = t[j + 1] /\ h.prev[t[j + 1]] = t[j]
        BY <1>2, <4>1 DEF Represents
      <4>4. t[j] # last /\ t[j + 1] # first
        BY <2>1, <4>1 DEF NoDup
      <4>5. /\ t[j] \in Elems(t) /\ t[j] \in Nodes /\ t[j] \in Addr
            /\ t[j + 1] \in Elems(t) /\ t[j + 1] \in Nodes /\ t[j + 1] \in Addr
        BY <1>2, <4>1
      <4> HIDE DEF p, first, last
      <4>6. t[j] # b /\ t[j] # p /\ t[j + 1] # b /\ t[j + 1] # a
        BY <2>3, <4>5, LinkedListAssumption DEF LinkedListAssumption
      <4> QED
        BY <2>4, <4>2, <4>3, <4>4, <4>5, <4>6
    <3>4. CASE i = Len(s) + Len(t)
      <4>1. Place(a, r, i) = last /\ Place(a, r, i + 1) = a
        <5>1. i \in Len(s) + 1 .. Len(s) + Len(t) /\ i - Len(s) = Len(t)
          BY <1>1, <1>2, <2>1, <3>4
        <5> QED
          BY <2>5, <3>4, <5>1
      <4> HIDE DEF p, first, last
      <4> QED
        BY <2>3, <2>4, <4>1 DEF Addr
    <3> QED
      BY <1>1, <1>2, <2>5, <3>1, <3>2, <3>3, <3>4
  <2>7. Represents(g, a, r)
    BY <2>6 DEF Represents
  <2>8. Represents(g, b, <<>>)
    <3>1. g.next[b] = b /\ g.prev[b] = b
      BY <2>4 DEF Addr
    <3>2. \A i : Place(b, <<>>, i) = b
      BY EmptySeq DEF Place
    <3> QED
      BY <3>1, <3>2 DEF Represents
  <2>9. ASSUME NEW c \in Heads, NEW u \in Seq(Nodes), c # a, c # b,
               Elems(u) \cap Elems(s) = {}, Elems(u) \cap Elems(t) = {}, Represents(h, c, u)
        PROVE  Represents(g, c, u)
    <3>1. \A y \in Elems(u) \cup {c} : y \in Addr /\ ((y \in Elems(u) /\ y \in Nodes) \/ y = c)
      <4>1. \A i \in 1 .. Len(u) : u[i] \in Nodes
        BY ElementOfSeq
      <4> QED
        BY <4>1 DEF Elems, Addr
    <3> HIDE DEF p, first, last
    <3>2. \A y \in Elems(u) \cup {c} : y # a /\ y # b /\ y # p /\ y # first /\ y # last
      BY <2>3, <2>9, <3>1, LinkedListAssumption DEF LinkedListAssumption
    <3> QED
      BY <2>4, <2>9, <3>1, <3>2, Untouched
  <2> QED
    BY <2>4, <2>7, <2>8, <2>9 DEF g, r
<1> QED
  BY <1>3, <1>4

-----------------------------------------------------------------------------
(* A walk.                                                                 *)

(* There are a number of nodes. *)
LEMMA Count == Cardinality(Nodes) \in Nat
  BY LinkedListAssumption, FS_CardinalityType DEF LinkedListAssumption

(* The equation of Walk has a solution, so that Walk is one.               *)
LEMMA WalkDef ==
  ASSUME NEW h, NEW a, NEW S
  PROVE  Walk(h, a, S) =
           [k \in 0 .. Cardinality(Nodes) |->
              IF k = 0 THEN [heap |-> h, pos |-> h.next[a], n |-> h.next[h.next[a]]]
              ELSE IF Walk(h, a, S)[k - 1].pos = a THEN Walk(h, a, S)[k - 1]
                   ELSE Further(Walk(h, a, S)[k - 1], S)]
<1> DEFINE Start == [heap |-> h, pos |-> h.next[a], n |-> h.next[h.next[a]]]
           E(f, k) == IF k = 0 THEN Start
                      ELSE IF f[k - 1].pos = a THEN f[k - 1] ELSE Further(f[k - 1], S)
           Solves(f, n) == f = [k \in 0 .. n |-> E(f, k)]
           N == {n \in Nat : \E f : Solves(f, n)}
<1>1. 0 \in N
  <2> HIDE DEF Start
  <2>1. Solves([k \in 0 .. 0 |-> Start], 0)
    OBVIOUS
  <2> QED
    BY <2>1
<1>2. ASSUME NEW n \in Nat, n \in N
      PROVE  n + 1 \in N
  <2> HIDE DEF Start
  <2>1. PICK f : Solves(f, n)
    BY <1>2
  <2>2. \A k \in 0 .. n : f[k] = E(f, k)
    <3> DEFINE e == [k \in 0 .. n |-> E(f, k)]
    <3>1. \A k \in 0 .. n : e[k] = E(f, k)
      OBVIOUS
    <3>2. f = e
      BY <2>1
    <3> HIDE DEF e
    <3> QED
      BY <3>1, <3>2
  <2> DEFINE last == E(f, n + 1)
             g == [k \in 0 .. n + 1 |-> IF k = n + 1 THEN last ELSE f[k]]
  <2>3. ASSUME NEW k \in 0 .. n + 1
        PROVE  g[k] = E(g, k)
    <3>1. CASE k = n + 1
      <4>1. g[k] = E(f, k)
        BY <3>1
      <4>2. g[k - 1] = f[k - 1] /\ k # 0
        BY <3>1
      <4> HIDE DEF g
      <4> QED
        BY <4>1, <4>2
    <3>2. CASE k = 0
      <4>1. g[k] = f[k]
        BY <3>2
      <4>2. f[k] = Start
        BY <2>2, <3>2
      <4> HIDE DEF g
      <4> QED
        BY <3>2, <4>1, <4>2
    <3>3. CASE k \in 1 .. n
      <4>1. g[k] = f[k] /\ g[k - 1] = f[k - 1]
        BY <3>3
      <4>2. f[k] = E(f, k)
        BY <2>2, <3>3
      <4> HIDE DEF g
      <4> QED
        BY <3>3, <4>1, <4>2
    <3> QED
      BY <3>1, <3>2, <3>3
  <2>4. g = [k \in 0 .. n + 1 |-> g[k]]
    OBVIOUS
  <2>5. Solves(g, n + 1)
    <3> HIDE DEF g
    <3> QED
      BY <2>3, <2>4
  <2> HIDE DEF g, Solves
  <2> QED
    BY <2>5
<1>3. Cardinality(Nodes) \in N
  <2> HIDE DEF N
  <2>1. Nat \subseteq N
    BY <1>1, <1>2, NatSetInduction
  <2> QED
    BY <2>1, Count
<1>4. PICK f : Solves(f, Cardinality(Nodes))
  BY <1>3
<1> QED
  BY <1>4 DEF Walk

(* A walk, one step after the other. *)
LEMMA WalkStep ==
  ASSUME NEW h, NEW a, NEW S
  PROVE  LET w == Walk(h, a, S) IN
         /\ w[0].heap = h /\ w[0].pos = h.next[a] /\ w[0].n = h.next[h.next[a]]
         /\ \A k \in 1 .. Cardinality(Nodes) :
              /\ w[k - 1].pos = a => w[k] = w[k - 1]
              /\ w[k - 1].pos # a =>
                   /\ w[k].heap = LoopBody(w[k - 1], S) /\ w[k].pos = w[k - 1].n
                   /\ w[k].n = LoopBody(w[k - 1], S).next[w[k - 1].n]
<1> DEFINE w == Walk(h, a, S)
           Start == [heap |-> h, pos |-> h.next[a], n |-> h.next[h.next[a]]]
           e == [k \in 0 .. Cardinality(Nodes) |->
                   IF k = 0 THEN Start
                   ELSE IF w[k - 1].pos = a THEN w[k - 1] ELSE Further(w[k - 1], S)]
<1>1. w = e
  BY WalkDef
<1>2. Cardinality(Nodes) \in Nat
  BY Count
<1>3. /\ e[0] = Start
      /\ \A k \in 1 .. Cardinality(Nodes) :
           e[k] = IF w[k - 1].pos = a THEN w[k - 1] ELSE Further(w[k - 1], S)
  <2> HIDE DEF w, Start
  <2> QED
    BY <1>2
<1> HIDE DEF w, e
<1>4. /\ w[0] = Start
      /\ \A k \in 1 .. Cardinality(Nodes) :
           w[k] = IF w[k - 1].pos = a THEN w[k - 1] ELSE Further(w[k - 1], S)
  BY <1>1, <1>3
<1>5. w[0].heap = h /\ w[0].pos = h.next[a] /\ w[0].n = h.next[h.next[a]]
  BY <1>4
<1>6. ASSUME NEW k \in 1 .. Cardinality(Nodes)
      PROVE  /\ w[k - 1].pos = a => w[k] = w[k - 1]
             /\ w[k - 1].pos # a =>
                  /\ w[k].heap = LoopBody(w[k - 1], S) /\ w[k].pos = w[k - 1].n
                  /\ w[k].n = LoopBody(w[k - 1], S).next[w[k - 1].n]
  <2> DEFINE v == w[k - 1]
             b == LoopBody(v, S)
  <2>1. w[k] = IF v.pos = a THEN v ELSE [heap |-> b, pos |-> v.n, n |-> b.next[v.n]]
    BY <1>4 DEF Further
  <2> HIDE DEF v, b
  <2>2. v.pos = a => w[k] = v
    BY <2>1
  <2>3. v.pos # a => w[k].heap = b /\ w[k].pos = v.n /\ w[k].n = b.next[v.n]
    BY <2>1
  <2> QED
    BY <2>2, <2>3 DEF v, b
<1> QED
  BY <1>5, <1>6 DEF w

(* The list at a while a walk is under way that removes the nodes of S:    *)
(* what the first k nodes left, and those not met yet.                     *)
Kept(s, S, k) == Upto(s, Nodes \ S)[k]
Mid(s, S, k) ==
  [j \in 1 .. Len(Kept(s, S, k)) + Len(s) - k |->
     IF j <= Len(Kept(s, S, k)) THEN Kept(s, S, k)[j] ELSE s[j - Len(Kept(s, S, k)) + k]]

(* One node more. *)
LEMMA KeptStep ==
  ASSUME NEW s \in Seq(Nodes), NEW S
  PROVE  /\ Kept(s, S, 0) = <<>>
         /\ \A k \in 0 .. Len(s) - 1 :
              Kept(s, S, k + 1) = IF s[k + 1] \in S THEN Kept(s, S, k)
                                  ELSE Append(Kept(s, S, k), s[k + 1])
<1> DEFINE u == Upto(s, Nodes \ S)
<1>1. /\ u[0] = <<>>
      /\ \A i \in 1 .. Len(s) :
           u[i] = IF s[i] \in Nodes \ S THEN Append(u[i - 1], s[i]) ELSE u[i - 1]
  BY UptoStep
<1>2. Len(s) \in Nat /\ \A i \in 1 .. Len(s) : s[i] \in Nodes
  BY LenProperties, ElementOfSeq
<1>3. \A k : Kept(s, S, k) = u[k]
  BY DEF Kept
<1> HIDE DEF u
<1>4. ASSUME NEW k \in 0 .. Len(s) - 1
      PROVE  u[k + 1] = IF s[k + 1] \in S THEN u[k] ELSE Append(u[k], s[k + 1])
  <2>1. k + 1 \in 1 .. Len(s) /\ (k + 1) - 1 = k
    BY <1>2
  <2> QED
    BY <1>1, <1>2, <2>1
<1> QED
  BY <1>1, <1>3, <1>4

LEMMA KeptType ==
  ASSUME NEW s \in Seq(Nodes), NEW S, NEW k \in 0 .. Len(s)
  PROVE  Kept(s, S, k) \in Seq(Nodes) /\ Len(Kept(s, S, k)) \in Nat
<1> DEFINE N == {n \in Nat : n <= Len(s) => Kept(s, S, n) \in Seq(Nodes)}
<1>1. Len(s) \in Nat /\ \A i \in 1 .. Len(s) : s[i] \in Nodes
  BY LenProperties, ElementOfSeq
<1>2. 0 \in N
  <2>1. Kept(s, S, 0) = <<>> /\ <<>> \in Seq(Nodes)
    BY KeptStep, EmptySeq
  <2> QED
    BY <2>1
<1>3. ASSUME NEW n \in Nat, n \in N
      PROVE  n + 1 \in N
  <2>1. SUFFICES ASSUME n + 1 <= Len(s)
                 PROVE  Kept(s, S, n + 1) \in Seq(Nodes)
    OBVIOUS
  <2>2. n \in 0 .. Len(s) - 1 /\ Kept(s, S, n) \in Seq(Nodes) /\ s[n + 1] \in Nodes
    BY <1>1, <1>3, <2>1
  <2>3. Append(Kept(s, S, n), s[n + 1]) \in Seq(Nodes)
    BY <2>2, AppendProperties
  <2>4. Kept(s, S, n + 1) = IF s[n + 1] \in S THEN Kept(s, S, n)
                            ELSE Append(Kept(s, S, n), s[n + 1])
    <3> HIDE DEF N
    <3> QED
      BY <2>2, KeptStep
  <2> QED
    BY <2>2, <2>3, <2>4
<1>4. Nat \subseteq N
  <2> HIDE DEF N
  <2> QED
    BY <1>2, <1>3, NatSetInduction
<1>5. Kept(s, S, k) \in Seq(Nodes)
  BY <1>1, <1>4
<1> QED
  BY <1>5, LenProperties

(* Before the walk the list is whole, after it the nodes of S are gone.    *)
LEMMA MidEnds ==
  ASSUME NEW s \in Seq(Nodes), NEW S
  PROVE  Mid(s, S, 0) = s /\ Mid(s, S, Len(s)) = Selected(s, Nodes \ S)
<1>1. Len(s) \in Nat /\ s = [j \in 1 .. Len(s) |-> s[j]]
  BY LenProperties
<1>2. Mid(s, S, 0) = s
  <2>1. Kept(s, S, 0) = <<>> /\ Len(Kept(s, S, 0)) = 0
    BY KeptStep, EmptySeq
  <2> DEFINE u == Kept(s, S, 0)
  <2>2. Mid(s, S, 0) =
          [j \in 1 .. Len(u) + Len(s) - 0 |->
             IF j <= Len(u) THEN u[j] ELSE s[j - Len(u) + 0]]
    BY DEF Mid
  <2> HIDE DEF u
  <2>3. Len(u) = 0
    BY <2>1 DEF u
  <2>4. Len(u) + Len(s) - 0 = Len(s)
    BY <1>1, <2>3
  <2>5. \A j \in 1 .. Len(s) : ~ (j <= Len(u)) /\ j - Len(u) + 0 = j
    BY <2>3
  <2>6. Mid(s, S, 0) = [j \in 1 .. Len(s) |-> s[j]]
    BY <2>2, <2>4, <2>5
  <2> QED
    BY <1>1, <2>6
<1>3. Mid(s, S, Len(s)) = Selected(s, Nodes \ S)
  <2> DEFINE u == Kept(s, S, Len(s))
  <2>1. u \in Seq(Nodes) /\ Len(u) \in Nat
    BY <1>1, KeptType
  <2>2. u = [j \in 1 .. Len(u) |-> u[j]]
    <3> HIDE DEF u
    <3> QED
      BY <2>1
  <2>3. Mid(s, S, Len(s)) =
          [j \in 1 .. Len(u) + Len(s) - Len(s) |->
             IF j <= Len(u) THEN u[j] ELSE s[j - Len(u) + Len(s)]]
    BY DEF Mid
  <2>4. u = Selected(s, Nodes \ S)
    BY DEF Kept, Selected
  <2> HIDE DEF u
  <2>5. Len(u) + Len(s) - Len(s) = Len(u)
    BY <1>1, <2>1
  <2>6. \A j \in 1 .. Len(u) : j <= Len(u)
    BY <2>1
  <2>7. Mid(s, S, Len(s)) = [j \in 1 .. Len(u) |-> u[j]]
    BY <2>3, <2>5, <2>6
  <2> QED
    BY <2>2, <2>4, <2>7
<1> QED
  BY <1>2, <1>3

(* The next node of the walk is in the list, and if it is of S the list    *)
(* loses it, else it stays.                                                *)
LEMMA MidStep ==
  ASSUME NEW s \in Seq(Nodes), NEW S, NEW k \in 0 .. Len(s)
  PROVE  LET q == Mid(s, S, k)
             m == Len(Kept(s, S, k))
             r == Mid(s, S, k + 1) IN
         /\ q \in Seq(Nodes) /\ Len(q) = m + Len(s) - k /\ m \in Nat
         /\ \A j \in k + 1 .. Len(s) : q[m + (j - k)] = s[j]
         /\ k < Len(s) /\ s[k + 1] \notin S => r = q
         /\ k < Len(s) /\ s[k + 1] \in S =>
              Len(r) = Len(q) - 1
              /\ \A j \in 1 .. Len(r) : r[j] = IF j < m + 1 THEN q[j] ELSE q[j + 1]
<1> DEFINE u == Kept(s, S, k)
           m == Len(u)
           q == Mid(s, S, k)
           r == Mid(s, S, k + 1)
<1>1. Len(s) \in Nat /\ \A i \in 1 .. Len(s) : s[i] \in Nodes
  BY LenProperties, ElementOfSeq
<1>2. u \in Seq(Nodes) /\ m \in Nat /\ \A j \in 1 .. m : u[j] \in Nodes
  BY KeptType, ElementOfSeq
<1>3. q = [j \in 1 .. m + Len(s) - k |-> IF j <= m THEN u[j] ELSE s[j - m + k]]
  BY DEF Mid
<1>4. k < Len(s) => /\ s[k + 1] \in S => Kept(s, S, k + 1) = u
                    /\ s[k + 1] \notin S => Kept(s, S, k + 1) = Append(u, s[k + 1])
  <2>1. \A i \in 0 .. Len(s) - 1 :
          Kept(s, S, i + 1) = IF s[i + 1] \in S THEN Kept(s, S, i)
                              ELSE Append(Kept(s, S, i), s[i + 1])
    BY KeptStep
  <2>2. k < Len(s) => k \in 0 .. Len(s) - 1
    BY <1>1
  <2> QED
    BY <2>1, <2>2
<1> DEFINE v == Kept(s, S, k + 1)
<1>5. r = [j \in 1 .. Len(v) + Len(s) - (k + 1) |->
             IF j <= Len(v) THEN v[j] ELSE s[j - Len(v) + (k + 1)]]
  BY DEF Mid
<1> HIDE DEF m, u, q, r
<1>6. q \in Seq(Nodes) /\ Len(q) = m + Len(s) - k
  <2>1. m + Len(s) - k \in Nat
    BY <1>1, <1>2
  <2>2. ASSUME NEW j \in 1 .. m + Len(s) - k
        PROVE  (IF j <= m THEN u[j] ELSE s[j - m + k]) \in Nodes
    <3>1. j > m => j - m + k \in 1 .. Len(s)
      BY <1>1, <1>2
    <3> QED
      BY <1>1, <1>2, <3>1
  <2>3. q \in [1 .. m + Len(s) - k -> Nodes]
    BY <1>3, <2>2
  <2> QED
    BY <2>1, <2>3
<1>7. \A j \in k + 1 .. Len(s) : q[m + (j - k)] = s[j]
  <2> TAKE j \in k + 1 .. Len(s)
  <2>1. /\ m + (j - k) \in 1 .. m + Len(s) - k /\ ~ (m + (j - k) <= m)
        /\ (m + (j - k)) - m + k = j
    BY <1>1, <1>2
  <2> QED
    BY <1>3, <2>1
<1>8. ASSUME k < Len(s), s[k + 1] \notin S
      PROVE  r = q
  <2> DEFINE x == s[k + 1]
  <2>1. v = Append(u, x) /\ x \in Nodes
    BY <1>1, <1>4, <1>8
  <2> HIDE DEF v, x
  <2>2. Len(v) = m + 1 /\ v[m + 1] = x /\ \A j \in 1 .. m : v[j] = u[j]
    BY <1>2, <2>1, AppendProperties DEF m
  <2>3. Len(v) + Len(s) - (k + 1) = m + Len(s) - k
    BY <1>1, <1>2, <2>2
  <2>4. ASSUME NEW j \in 1 .. m + Len(s) - k
        PROVE  (IF j <= Len(v) THEN v[j] ELSE s[j - Len(v) + (k + 1)]) =
                 (IF j <= m THEN u[j] ELSE s[j - m + k])
    <3>1. CASE j <= m
      <4>1. j <= Len(v) /\ j \in 1 .. m
        BY <1>2, <2>2, <3>1
      <4> QED
        BY <2>2, <3>1, <4>1
    <3>2. CASE j = m + 1
      <4>1. j <= Len(v) /\ ~ (j <= m) /\ j - m + k = k + 1
        BY <1>2, <2>2, <3>2
      <4> QED
        BY <2>2, <3>2, <4>1 DEF x
    <3>3. CASE j > m + 1
      <4>1. ~ (j <= Len(v)) /\ ~ (j <= m) /\ j - Len(v) + (k + 1) = j - m + k
        BY <1>2, <2>2, <3>3
      <4> QED
        BY <4>1
    <3> QED
      BY <1>2, <3>1, <3>2, <3>3
  <2> QED
    BY <1>3, <1>5, <2>3, <2>4
<1>9. ASSUME k < Len(s), s[k + 1] \in S
      PROVE  /\ Len(r) = Len(q) - 1
             /\ \A j \in 1 .. Len(r) : r[j] = IF j < m + 1 THEN q[j] ELSE q[j + 1]
  <2>1. v = u
    BY <1>4, <1>9
  <2> HIDE DEF v
  <2>2. Len(v) = m /\ m + Len(s) - (k + 1) \in Nat
    BY <1>1, <1>2, <1>9, <2>1 DEF m
  <2>3. Len(r) = m + Len(s) - (k + 1)
    BY <1>5, <2>2
  <2>4. ASSUME NEW j \in 1 .. Len(r)
        PROVE  r[j] = IF j < m + 1 THEN q[j] ELSE q[j + 1]
    <3>1. r[j] = IF j <= m THEN u[j] ELSE s[j - m + (k + 1)]
      BY <1>5, <2>1, <2>2, <2>3
    <3>2. CASE j <= m
      <4>1. j \in 1 .. m + Len(s) - k /\ j < m + 1
        BY <1>1, <1>2, <2>3, <3>2
      <4> QED
        BY <1>3, <3>1, <3>2, <4>1
    <3>3. CASE j > m
      <4>1. /\ j + 1 \in 1 .. m + Len(s) - k /\ ~ (j < m + 1) /\ ~ (j + 1 <= m) /\ ~ (j <= m)
            /\ (j + 1) - m + k = j - m + (k + 1)
        BY <1>1, <1>2, <2>3, <3>3
      <4> QED
        BY <1>3, <3>1, <4>1
    <3> QED
      BY <1>2, <3>2, <3>3
  <2> QED
    BY <1>1, <1>2, <1>6, <2>3, <2>4
<1> QED
  BY <1>2, <1>6, <1>7, <1>8, <1>9 DEF q, r, u, m

(* A list has no more places than there are nodes. *)
LEMMA NoLonger ==
  ASSUME NEW s \in Seq(Nodes), NoDup(s)
  PROVE  Len(s) \in Nat /\ Len(s) <= Cardinality(Nodes)
<1>1. Len(s) \in Nat /\ s \in [1 .. Len(s) -> Nodes]
  BY LenProperties
<1>2. s \in Injection(1 .. Len(s), Nodes)
  BY <1>1 DEF NoDup, Injection, IsInjective
<1>3. Cardinality(1 .. Len(s)) <= Cardinality(Nodes)
  BY <1>2, FS_Injection, LinkedListAssumption DEF LinkedListAssumption
<1>4. Cardinality(1 .. Len(s)) = Len(s)
  BY <1>1, FS_Interval
<1> QED
  BY <1>1, <1>3, <1>4

(* What is left of a list when one node is removed. *)
LEMMA Without ==
  ASSUME NEW s \in Seq(Nodes), NoDup(s), NEW k \in 1 .. Len(s),
         NEW r \in Seq(Nodes), Len(r) = Len(s) - 1,
         \A j \in 1 .. Len(r) : r[j] = IF j < k THEN s[j] ELSE s[j + 1]
  PROVE  NoDup(r) /\ Elems(r) \subseteq Elems(s)
<1>1. Len(s) \in Nat /\ \A j \in 1 .. Len(r) : j \in 1 .. Len(s) /\ j + 1 \in 1 .. Len(s)
  BY LenProperties
<1>2. NoDup(r)
  <2>1. SUFFICES ASSUME NEW i \in 1 .. Len(r), NEW j \in 1 .. Len(r), r[i] = r[j]
                 PROVE  i = j
    BY DEF NoDup
  <2>2. /\ i \in 1 .. Len(s) /\ i + 1 \in 1 .. Len(s)
        /\ j \in 1 .. Len(s) /\ j + 1 \in 1 .. Len(s)
    BY <1>1
  <2>3. \A x, y \in 1 .. Len(s) : s[x] = s[y] => x = y
    BY DEF NoDup
  <2>4. r[i] = IF i < k THEN s[i] ELSE s[i + 1]
    OBVIOUS
  <2>5. r[j] = IF j < k THEN s[j] ELSE s[j + 1]
    OBVIOUS
  <2>6. CASE i < k /\ j < k
    BY <2>1, <2>2, <2>3, <2>4, <2>5, <2>6
  <2>7. CASE i < k /\ ~ (j < k)
    <3>1. i = j + 1
      BY <2>1, <2>2, <2>3, <2>4, <2>5, <2>7
    <3> QED
      BY <2>7, <3>1
  <2>8. CASE ~ (i < k) /\ j < k
    <3>1. i + 1 = j
      BY <2>1, <2>2, <2>3, <2>4, <2>5, <2>8
    <3> QED
      BY <2>8, <3>1
  <2>9. CASE ~ (i < k) /\ ~ (j < k)
    <3>1. i + 1 = j + 1
      BY <2>1, <2>2, <2>3, <2>4, <2>5, <2>9
    <3> QED
      BY <3>1
  <2> QED
    BY <2>6, <2>7, <2>8, <2>9
<1>3. Elems(r) \subseteq Elems(s)
  BY <1>1 DEF Elems
<1> QED
  BY <1>2, <1>3

(* After k nodes. *)
Walked(h, a, s, S, k) ==
  LET w == Walk(h, a, S)[k]
      r == Mid(s, S, k) IN
  /\ w.heap \in Heap /\ Represents(w.heap, a, r) /\ NoDup(r) /\ Elems(r) \subseteq Elems(s)
  /\ w.pos = Place(a, s, k + 1) /\ (k < Len(s) => w.n = Place(a, s, k + 2))
  /\ \A b \in Heads, t \in Seq(Nodes) :
       b # a /\ Elems(t) \cap Elems(s) = {} /\ Represents(h, b, t) => Represents(w.heap, b, t)

LEMMA WalkedFurther ==
  ASSUME NEW h, NEW a \in Heads, NEW s \in Seq(Nodes), NoDup(s), NEW S \in SUBSET Nodes,
         NEW k \in Nat, k < Len(s), Walked(h, a, s, S, k)
  PROVE  Walked(h, a, s, S, k + 1)
<1> DEFINE w == Walk(h, a, S)[k]
           v == Walk(h, a, S)[k + 1]
           q == Mid(s, S, k)
           r == Mid(s, S, k + 1)
           m == Len(Kept(s, S, k))
           m1 == Len(Kept(s, S, k + 1))
           x == s[k + 1]
<1>1. /\ Len(s) \in Nat /\ Len(s) <= Cardinality(Nodes) /\ Cardinality(Nodes) \in Nat
      /\ k \in 0 .. Len(s) /\ k + 1 \in 0 .. Len(s) /\ k + 1 \in 1 .. Cardinality(Nodes)
      /\ (k + 1) - 1 = k /\ k + 1 \in 1 .. Len(s) /\ k + 1 \in k + 1 .. Len(s)
  BY NoLonger, Count
<1>2. /\ w.heap \in Heap /\ Represents(w.heap, a, q) /\ NoDup(q) /\ Elems(q) \subseteq Elems(s)
      /\ w.pos = Place(a, s, k + 1) /\ w.n = Place(a, s, k + 2)
      /\ \A b \in Heads, t \in Seq(Nodes) :
           b # a /\ Elems(t) \cap Elems(s) = {} /\ Represents(h, b, t) => Represents(w.heap, b, t)
  BY DEF Walked
<1>3. /\ q \in Seq(Nodes) /\ Len(q) = m + Len(s) - k /\ m \in Nat
      /\ \A j \in k + 1 .. Len(s) : q[m + (j - k)] = s[j]
      /\ s[k + 1] \notin S => r = q
      /\ s[k + 1] \in S =>
           /\ Len(r) = Len(q) - 1
           /\ \A j \in 1 .. Len(r) : r[j] = IF j < m + 1 THEN q[j] ELSE q[j + 1]
  BY <1>1, MidStep
<1>4. /\ r \in Seq(Nodes) /\ Len(r) = m1 + Len(s) - (k + 1) /\ m1 \in Nat
      /\ \A j \in k + 1 + 1 .. Len(s) : r[m1 + (j - (k + 1))] = s[j]
  <2> DEFINE k1 == k + 1
             r1 == Mid(s, S, k1)
             l1 == Len(Kept(s, S, k1))
  <2>1. k1 \in 0 .. Len(s)
    BY <1>1
  <2> HIDE DEF k1
  <2>2. r1 \in Seq(Nodes) /\ Len(r1) = l1 + Len(s) - k1 /\ l1 \in Nat
    BY <2>1, MidStep
  <2>3. \A j \in k1 + 1 .. Len(s) : r1[l1 + (j - k1)] = s[j]
    BY <2>1, MidStep
  <2> QED
    BY <2>2, <2>3 DEF k1
<1>5. /\ Place(a, s, k + 1) = x /\ x # a /\ x \in Nodes
      /\ Place(a, s, Len(s) + 1) = a
      /\ \A i \in 1 .. Len(s) : Place(a, s, i) = s[i]
  BY <1>1, PlaceFacts
<1>6. v.heap = LoopBody(w, S) /\ v.pos = w.n /\ v.n = LoopBody(w, S).next[w.n]
  <2>1. w.pos # a
    BY <1>2, <1>5
  <2>2. \A i \in 1 .. Cardinality(Nodes) :
          Walk(h, a, S)[i - 1].pos # a =>
            /\ Walk(h, a, S)[i].heap = LoopBody(Walk(h, a, S)[i - 1], S)
            /\ Walk(h, a, S)[i].pos = Walk(h, a, S)[i - 1].n
            /\ Walk(h, a, S)[i].n = LoopBody(Walk(h, a, S)[i - 1], S).next[Walk(h, a, S)[i - 1].n]
    BY WalkStep
  <2> QED
    BY <1>1, <2>1, <2>2
<1>7. v.heap = IF x \in S THEN Del(w.heap, x) ELSE w.heap
  BY <1>2, <1>5, <1>6 DEF LoopBody
<1>8. q[m + 1] = x /\ m + 1 \in 1 .. Len(q)
  <2>1. m + ((k + 1) - k) = m + 1
    BY <1>3
  <2>2. m + 1 \in 1 .. Len(q)
    BY <1>1, <1>3
  <2> QED
    BY <1>1, <1>3, <2>1, <2>2
<1> HIDE DEF w, v, q, r, m, m1, x
<1>9. /\ v.heap \in Heap /\ Represents(v.heap, a, r) /\ NoDup(r) /\ Elems(r) \subseteq Elems(s)
      /\ \A b \in Heads, t \in Seq(Nodes) :
           b # a /\ Elems(t) \cap Elems(s) = {} /\ Represents(h, b, t) => Represents(v.heap, b, t)
  <2>1. CASE x \notin S
    <3>1. r = q /\ v.heap = w.heap
      BY <1>3, <1>7, <2>1 DEF x
    <3> QED
      BY <1>2, <3>1
  <2>2. CASE x \in S
    <3>1. /\ v.heap = Del(w.heap, q[m + 1]) /\ Len(r) = Len(q) - 1
          /\ \A j \in 1 .. Len(r) : r[j] = IF j < m + 1 THEN q[j] ELSE q[j + 1]
      BY <1>3, <1>7, <1>8, <2>2 DEF x
    <3>2. /\ Del(w.heap, q[m + 1]) \in Heap
          /\ Represents(Del(w.heap, q[m + 1]), a, r)
          /\ \A b \in Heads, t \in Seq(Nodes) :
               b # a /\ Elems(t) \cap Elems(q) = {} /\ Represents(w.heap, b, t) =>
                 Represents(Del(w.heap, q[m + 1]), b, t)
      BY <1>2, <1>3, <1>4, <1>8, <3>1, DelKeeps
    <3>3. NoDup(r) /\ Elems(r) \subseteq Elems(q)
      BY <1>2, <1>3, <1>4, <1>8, <3>1, Without
    <3>4. Elems(r) \subseteq Elems(s)
      BY <1>2, <3>3
    <3>5. ASSUME NEW b \in Heads, NEW t \in Seq(Nodes),
                 b # a, Elems(t) \cap Elems(s) = {}, Represents(h, b, t)
          PROVE  Represents(v.heap, b, t)
      <4>1. Represents(w.heap, b, t) /\ Elems(t) \cap Elems(q) = {}
        BY <1>2, <3>5
      <4> QED
        BY <3>1, <3>2, <3>5, <4>1
    <3> QED
      BY <3>1, <3>2, <3>3, <3>4, <3>5
  <2> QED
    BY <2>1, <2>2
<1>10. v.pos = Place(a, s, (k + 1) + 1)
  <2>1. (k + 1) + 1 = k + 2
    OBVIOUS
  <2> QED
    BY <1>2, <1>6, <2>1
<1>11. ASSUME k + 1 < Len(s)
       PROVE  v.n = Place(a, s, (k + 1) + 2)
  <2>1. w.n = s[k + 2] /\ v.n = v.heap.next[s[k + 2]]
    <3>1. k + 2 \in 1 .. Len(s)
      BY <1>1, <1>11
    <3> QED
      BY <1>2, <1>5, <1>6, <3>1
  <2>2. r[m1 + 1] = s[k + 2] /\ m1 + 1 \in 1 .. Len(r)
    <3>1. k + 2 \in k + 1 + 1 .. Len(s) /\ m1 + ((k + 2) - (k + 1)) = m1 + 1
      BY <1>1, <1>4, <1>11
    <3>2. r[m1 + ((k + 2) - (k + 1))] = s[k + 2]
      BY <1>4, <3>1
    <3>3. m1 + 1 \in 1 .. Len(r)
      BY <1>1, <1>4, <1>11
    <3> QED
      BY <3>1, <3>2, <3>3
  <2>3. v.heap.next[Place(a, r, m1 + 1)] = Place(a, r, (m1 + 1) + 1)
    <3>1. m1 + 1 \in 0 .. Len(r)
      BY <2>2
    <3> QED
      BY <1>9, <3>1 DEF Represents
  <2>4. Place(a, r, m1 + 1) = s[k + 2]
    BY <2>2 DEF Place
  <2>5. Place(a, r, (m1 + 1) + 1) = Place(a, s, k + 3)
    <3>1. CASE k + 2 < Len(s)
      <4>1. k + 3 \in k + 1 + 1 .. Len(s) /\ m1 + ((k + 3) - (k + 1)) = (m1 + 1) + 1
        BY <1>1, <1>4, <3>1
      <4>2. r[m1 + ((k + 3) - (k + 1))] = s[k + 3]
        BY <1>4, <4>1
      <4>3. (m1 + 1) + 1 \in 1 .. Len(r) /\ k + 3 \in 1 .. Len(s)
        BY <1>1, <1>4, <3>1
      <4> QED
        BY <4>1, <4>2, <4>3 DEF Place
    <3>2. CASE k + 2 = Len(s)
      <4>1. (m1 + 1) + 1 = Len(r) + 1 /\ k + 3 = Len(s) + 1
        <5>1. Len(r) = m1 + Len(s) - (k + 1) /\ m1 \in Nat
          BY <1>4
        <5> QED
          BY <3>2, <5>1
      <4>2. ~ (Len(r) + 1 \in 1 .. Len(r)) /\ ~ (Len(s) + 1 \in 1 .. Len(s))
        BY <1>1, <1>4
      <4> QED
        BY <4>1, <4>2 DEF Place
    <3> QED
      BY <1>1, <1>11, <3>1, <3>2
  <2>6. (k + 1) + 2 = k + 3
    OBVIOUS
  <2> QED
    BY <2>1, <2>3, <2>4, <2>5, <2>6
<1> QED
  BY <1>9, <1>10, <1>11 DEF Walked, v, r

LEMMA SweepKeeps ==
  ASSUME NEW h \in Heap, NEW a \in Heads, NEW s \in Seq(Nodes), NoDup(s), Represents(h, a, s),
         NEW S \in SUBSET Nodes
  PROVE  LET r == Selected(s, Nodes \ S) IN
         /\ Sweep(h, a, S) \in Heap
         /\ Represents(Sweep(h, a, S), a, r) /\ NoDup(r) /\ Elems(r) \subseteq Elems(s)
         /\ \A b \in Heads, t \in Seq(Nodes) :
              b # a /\ Elems(t) \cap Elems(s) = {} /\ Represents(h, b, t) =>
                Represents(Sweep(h, a, S), b, t)
<1> DEFINE C == Cardinality(Nodes)
           w == Walk(h, a, S)
<1>1. Len(s) \in Nat /\ C \in Nat /\ Len(s) <= C
  BY NoLonger, Count
<1>2. /\ w[0].heap = h /\ w[0].pos = h.next[a] /\ w[0].n = h.next[h.next[a]]
      /\ \A k \in 1 .. C : w[k - 1].pos = a => w[k] = w[k - 1]
  BY WalkStep
<1>3. Walked(h, a, s, S, 0)
  <2>1. Mid(s, S, 0) = s
    BY MidEnds
  <2>2. h.next[a] = Place(a, s, 1)
    BY Ends
  <2>3. Len(s) > 0 => h.next[Place(a, s, 1)] = Place(a, s, 2)
    <3>1. Len(s) > 0 => 1 \in 0 .. Len(s) /\ 1 + 1 = 2
      BY <1>1
    <3> QED
      BY <3>1 DEF Represents
  <2>4. 0 + 1 = 1 /\ 0 + 2 = 2 /\ (0 < Len(s) <=> Len(s) > 0)
    BY <1>1
  <2> HIDE DEF w
  <2>5. /\ w[0].heap \in Heap /\ Represents(w[0].heap, a, s)
        /\ w[0].pos = Place(a, s, 0 + 1) /\ (0 < Len(s) => w[0].n = Place(a, s, 0 + 2))
        /\ \A b \in Heads, t \in Seq(Nodes) :
             b # a /\ Elems(t) \cap Elems(s) = {} /\ Represents(h, b, t) =>
               Represents(w[0].heap, b, t)
    BY <1>2, <2>2, <2>3, <2>4
  <2> QED
    BY <2>1, <2>5 DEF Walked, w
<1>4. Walked(h, a, s, S, Len(s))
  <2> DEFINE N == {k \in Nat : k <= Len(s) => Walked(h, a, s, S, k)}
  <2>1. 0 \in N
    BY <1>3
  <2>2. ASSUME NEW k \in Nat, k \in N
        PROVE  k + 1 \in N
    <3>1. SUFFICES ASSUME k + 1 <= Len(s)
                   PROVE  Walked(h, a, s, S, k + 1)
      OBVIOUS
    <3>2. k < Len(s) /\ Walked(h, a, s, S, k)
      BY <1>1, <2>2, <3>1
    <3> HIDE DEF N
    <3> QED
      BY <3>2, WalkedFurther
  <2>3. Nat \subseteq N
    <3> HIDE DEF N
    <3> QED
      BY <2>1, <2>2, NatSetInduction
  <2> QED
    BY <1>1, <2>3
<1>5. w[C] = w[Len(s)]
  <2> DEFINE N == {k \in Nat : Len(s) + k <= C => w[Len(s) + k] = w[Len(s)]}
  <2>1. w[Len(s)].pos = a
    BY <1>1, <1>4, PlaceFacts DEF Walked
  <2> HIDE DEF w, C
  <2>2. 0 \in N
    <3>1. Len(s) + 0 = Len(s)
      BY <1>1
    <3> QED
      BY <3>1
  <2>3. ASSUME NEW k \in Nat, k \in N
        PROVE  k + 1 \in N
    <3>1. SUFFICES ASSUME Len(s) + (k + 1) <= C
                   PROVE  w[Len(s) + (k + 1)] = w[Len(s)]
      OBVIOUS
    <3>2. w[Len(s) + k] = w[Len(s)]
      BY <1>1, <2>3, <3>1
    <3>3. Len(s) + (k + 1) \in 1 .. C /\ (Len(s) + (k + 1)) - 1 = Len(s) + k
      BY <1>1, <3>1
    <3> QED
      BY <1>2, <2>1, <3>2, <3>3
  <2>4. Nat \subseteq N
    <3> HIDE DEF N
    <3> QED
      BY <2>2, <2>3, NatSetInduction
  <2>5. C - Len(s) \in Nat /\ Len(s) + (C - Len(s)) = C
    BY <1>1
  <2>6. C - Len(s) \in N
    BY <2>4, <2>5
  <2> QED
    BY <1>1, <2>5, <2>6
<1>6. Sweep(h, a, S) = w[Len(s)].heap
  BY <1>5 DEF Sweep
<1>7. Mid(s, S, Len(s)) = Selected(s, Nodes \ S)
  BY MidEnds
<1> QED
  BY <1>4, <1>6, <1>7 DEF Walked

-----------------------------------------------------------------------------
(* The invariant.                                                          *)

LEMMA Facts ==
  ASSUME IInv
  PROVE  /\ heap \in Heap
         /\ \A a \in Heads : /\ content[a] \in Seq(Nodes) /\ NoDup(content[a])
                             /\ Represents(heap, a, content[a])
         /\ \A a, b \in Heads : a # b => Elems(content[a]) \cap Elems(content[b]) = {}
  BY DEF IInv, LinksOK, Distinct, ListsAreSequences, Heap, Addr

(* What an action has to show. *)
LEMMA IInvOf ==
  ASSUME heap' \in Heap, content' \in [Heads -> Seq(Nodes)],
         \A a \in Heads : NoDup(content'[a]) /\ Represents(heap', a, content'[a]),
         \A a, b \in Heads : a # b => Elems(content'[a]) \cap Elems(content'[b]) = {}
  PROVE  IInv'
<1>1. ASSUME NEW a \in Heads
      PROVE  heap'.next[a] # Poison /\ heap'.prev[a] # Poison
  <2>1. content'[a] \in Seq(Nodes)
    OBVIOUS
  <2>2. /\ heap'.next[a] = Place(a, content'[a], 1)
        /\ heap'.prev[a] = Place(a, content'[a], Len(content'[a]))
    BY <2>1, Ends
  <2>3. /\ Len(content'[a]) \in Nat
        /\ \A i \in 0 .. Len(content'[a]) + 1 : Place(a, content'[a], i) \in Addr
    BY <2>1, PlaceFacts
  <2>4. 1 \in 0 .. Len(content'[a]) + 1 /\ Len(content'[a]) \in 0 .. Len(content'[a]) + 1
    BY <2>3
  <2>5. heap'.next[a] \in Addr /\ heap'.prev[a] \in Addr
    BY <2>2, <2>3, <2>4
  <2> QED
    BY <2>5, LinkedListAssumption DEF LinkedListAssumption, Addr
<1>2. LinksOK'
  BY <1>1 DEF LinksOK, Heap, Addr
<1> QED
  BY <1>2 DEF IInv, Distinct, ListsAreSequences

LEMMA InitIInv == ListsInit => IInv
<1> SUFFICES ASSUME ListsInit
             PROVE  IInv
  OBVIOUS
<1> USE DEF ListsInit
<1>1. \A a \in Addr : /\ heap.next[a] = IF a \in Heads THEN a ELSE Poison
                      /\ heap.prev[a] = IF a \in Heads THEN a ELSE Poison
  BY DEF Empty, Addr
<1>2. heap \in Heap
  BY DEF Empty, Heap, Addr
<1>3. \A a \in Heads : content[a] = <<>> /\ Len(content[a]) = 0
  BY EmptySeq
<1>4. content \in [Heads -> Seq(Nodes)]
  BY EmptySeq
<1>5. LinksOK
  <2>1. \A a \in Heads : a # Poison
    BY LinkedListAssumption DEF LinkedListAssumption
  <2> QED
    BY <1>1, <1>2, <1>4, <2>1 DEF LinksOK, Heap, Addr
<1>6. Distinct
  BY <1>3 DEF Distinct, NoDup, Elems
<1>7. ListsAreSequences
  <2>1. ASSUME NEW a \in Heads, NEW i \in 0 .. Len(content[a])
        PROVE  /\ heap.next[Place(a, content[a], i)] = Place(a, content[a], i + 1)
               /\ heap.prev[Place(a, content[a], i + 1)] = Place(a, content[a], i)
    <3>1. \A j : Place(a, content[a], j) = a
      BY <1>3 DEF Place
    <3> QED
      BY <1>1, <3>1 DEF Addr
  <2> QED
    BY <2>1 DEF ListsAreSequences, Represents
<1> QED
  BY <1>5, <1>6, <1>7 DEF IInv

LEMMA AddIInv ==
  ASSUME IInv, NEW n \in Nodes, NEW a \in Heads, Add(n, a)
  PROVE  IInv'
<1> DEFINE s == content[a]
           r == Append(s, n)
<1>1. /\ heap \in Heap
      /\ \A b \in Heads : /\ content[b] \in Seq(Nodes) /\ NoDup(content[b])
                          /\ Represents(heap, b, content[b])
      /\ \A b, c \in Heads : b # c => Elems(content[b]) \cap Elems(content[c]) = {}
  BY Facts
<1>2. /\ heap' = AddTail(heap, n, a) /\ content \in [Heads -> Seq(Nodes)]
      /\ content'[a] = r /\ \A b \in Heads : b # a => content'[b] = content[b]
  BY DEF Add, IInv, LinksOK
<1>3. \A b \in Heads : n \notin Elems(content[b])
  BY DEF Add, InUse, Elems
<1>4. /\ r \in Seq(Nodes) /\ Len(r) = Len(s) + 1 /\ r[Len(s) + 1] = n /\ Len(s) \in Nat
      /\ \A i \in 1 .. Len(s) : r[i] = s[i]
  BY <1>1, AppendProperties, LenProperties
<1>5. content' \in [Heads -> Seq(Nodes)]
  BY <1>2, <1>4 DEF Add
<1>6. /\ heap' \in Heap /\ Represents(heap', a, r)
      /\ \A b \in Heads, t \in Seq(Nodes) :
           b # a /\ Elems(t) \cap Elems(s) = {} /\ n \notin Elems(t) /\ Represents(heap, b, t) =>
             Represents(heap', b, t)
  BY <1>1, <1>2, <1>3, AddKeeps
<1> HIDE DEF r
<1>7. \A i \in 1 .. Len(r) : i = Len(s) + 1 \/ i \in 1 .. Len(s)
  BY <1>4
<1>8. NoDup(r)
  <2>1. \A i, j \in 1 .. Len(s) : s[i] = s[j] => i = j
    BY <1>1 DEF NoDup
  <2>2. \A i \in 1 .. Len(s) : s[i] # n
    BY <1>3 DEF Elems
  <2> HIDE DEF s
  <2> QED
    BY <1>4, <1>7, <2>1, <2>2 DEF NoDup
<1>9. Elems(r) = Elems(s) \cup {n}
  <2>1. Elems(r) \subseteq Elems(s) \cup {n}
    BY <1>4, <1>7 DEF Elems
  <2>2. \A i \in 1 .. Len(s) : i \in 1 .. Len(r)
    BY <1>4
  <2>3. Len(s) + 1 \in 1 .. Len(r)
    BY <1>4
  <2>4. n \in Elems(r)
    BY <1>4, <2>3 DEF Elems
  <2>5. Elems(s) \subseteq Elems(r)
    BY <1>4, <2>2 DEF Elems
  <2> QED
    BY <2>1, <2>4, <2>5
<1>10. \A b \in Heads : NoDup(content'[b]) /\ Represents(heap', b, content'[b])
  BY <1>1, <1>2, <1>3, <1>6, <1>8
<1>11. \A b, c \in Heads : b # c => Elems(content'[b]) \cap Elems(content'[c]) = {}
  BY <1>1, <1>2, <1>3, <1>9
<1> QED
  BY <1>5, <1>6, <1>10, <1>11, IInvOf

(* An action that leaves less of one list.                                 *)
LEMMA LessIInv ==
  ASSUME IInv, NEW a \in Heads, NEW r \in Seq(Nodes),
         content' = [content EXCEPT ![a] = r],
         NoDup(r), Elems(r) \subseteq Elems(content[a]),
         heap' \in Heap, Represents(heap', a, r),
         \A b \in Heads, t \in Seq(Nodes) :
           b # a /\ Elems(t) \cap Elems(content[a]) = {} /\ Represents(heap, b, t) =>
             Represents(heap', b, t)
  PROVE  IInv'
<1>1. /\ heap \in Heap
      /\ \A b \in Heads : /\ content[b] \in Seq(Nodes) /\ NoDup(content[b])
                          /\ Represents(heap, b, content[b])
      /\ \A b, c \in Heads : b # c => Elems(content[b]) \cap Elems(content[c]) = {}
  BY Facts
<1>2. /\ content \in [Heads -> Seq(Nodes)] /\ content'[a] = r
      /\ \A b \in Heads : b # a => content'[b] = content[b]
  BY DEF IInv, LinksOK
<1>3. content' \in [Heads -> Seq(Nodes)]
  BY <1>2
<1>4. \A b \in Heads : NoDup(content'[b]) /\ Represents(heap', b, content'[b])
  BY <1>1, <1>2
<1>5. \A b, c \in Heads : b # c => Elems(content'[b]) \cap Elems(content'[c]) = {}
  BY <1>1, <1>2
<1> QED
  BY <1>3, <1>4, <1>5, IInvOf

LEMMA TakeFirstIInv ==
  ASSUME IInv, NEW a \in Heads, TakeFirst(a)
  PROVE  IInv'
<1> DEFINE s == content[a]
           r == Tail(s)
<1>1. heap \in Heap /\ s \in Seq(Nodes) /\ NoDup(s) /\ Represents(heap, a, s)
  BY Facts
<1>2. heap' = Del(heap, heap.next[a]) /\ content' = [content EXCEPT ![a] = r]
      /\ heap.next[a] # a
  BY DEF TakeFirst, ListEmpty
<1>3. s # <<>> /\ heap.next[a] = s[1]
  BY <1>1, <1>2, Ends
<1>4. /\ r \in Seq(Nodes) /\ Len(r) = Len(s) - 1 /\ 1 \in 1 .. Len(s)
      /\ \A j \in 1 .. Len(r) : r[j] = s[j + 1]
  <2>1. Len(s) \in Nat /\ Len(s) # 0
    BY <1>1, <1>3, LenProperties, EmptySeq
  <2> HIDE DEF s
  <2> QED
    BY <1>1, <1>3, <2>1, HeadTailProperties
<1>5. \A j \in 1 .. Len(r) : r[j] = IF j < 1 THEN s[j] ELSE s[j + 1]
  BY <1>4
<1> HIDE DEF s, r
<1>6. NoDup(r) /\ Elems(r) \subseteq Elems(s)
  BY <1>1, <1>4, <1>5, Without
<1>7. /\ heap' \in Heap /\ Represents(heap', a, r)
      /\ \A b \in Heads, t \in Seq(Nodes) :
           b # a /\ Elems(t) \cap Elems(s) = {} /\ Represents(heap, b, t) =>
             Represents(heap', b, t)
  BY <1>1, <1>2, <1>3, <1>4, <1>5, DelKeeps
<1> QED
  BY <1>2, <1>4, <1>6, <1>7, LessIInv DEF s

LEMMA RemoveIInv ==
  ASSUME IInv, NEW a \in Heads, NEW S \in SUBSET Nodes, RemoveSome(a, S)
  PROVE  IInv'
<1> DEFINE s == content[a]
           r == Selected(s, Nodes \ S)
<1>1. heap \in Heap /\ s \in Seq(Nodes) /\ NoDup(s) /\ Represents(heap, a, s)
  BY Facts
<1>2. heap' = Sweep(heap, a, S) /\ content' = [content EXCEPT ![a] = r]
  BY DEF RemoveSome
<1>3. r \in Seq(Nodes)
  <2>1. r \in Seq(Nodes \cap (Nodes \ S))
    BY <1>1, SelectedType
  <2>2. Nodes \cap (Nodes \ S) \subseteq Nodes
    OBVIOUS
  <2> HIDE DEF r
  <2> QED
    BY <2>1, <2>2, SeqMonotonic
<1>4. /\ heap' \in Heap /\ Represents(heap', a, r) /\ NoDup(r) /\ Elems(r) \subseteq Elems(s)
      /\ \A b \in Heads, t \in Seq(Nodes) :
           b # a /\ Elems(t) \cap Elems(s) = {} /\ Represents(heap, b, t) =>
             Represents(heap', b, t)
  BY <1>1, <1>2, SweepKeeps
<1> HIDE DEF r
<1> QED
  BY <1>2, <1>3, <1>4, LessIInv

LEMMA MoveIInv ==
  ASSUME IInv, NEW b \in Heads, NEW a \in Heads, b # a, Move(b, a)
  PROVE  IInv'
<1> DEFINE s == content[a]
           t == content[b]
           r == s \o t
<1>1. /\ heap \in Heap
      /\ \A c \in Heads : /\ content[c] \in Seq(Nodes) /\ NoDup(content[c])
                          /\ Represents(heap, c, content[c])
      /\ \A c, d \in Heads : c # d => Elems(content[c]) \cap Elems(content[d]) = {}
  BY Facts
<1>2. /\ heap' = SpliceTailInit(heap, b, a) /\ content \in [Heads -> Seq(Nodes)]
      /\ content'[a] = r /\ content'[b] = <<>>
      /\ \A c \in Heads : c # a /\ c # b => content'[c] = content[c]
  BY DEF Move, IInv, LinksOK
<1>3. s \in Seq(Nodes) /\ t \in Seq(Nodes) /\ NoDup(s) /\ NoDup(t) /\ Elems(s) \cap Elems(t) = {}
      /\ Represents(heap, a, s) /\ Represents(heap, b, t)
  BY <1>1
<1> HIDE DEF s, t
<1>4. /\ r \in Seq(Nodes) /\ Len(r) = Len(s) + Len(t) /\ Len(s) \in Nat /\ Len(t) \in Nat
      /\ \A i \in 1 .. Len(s) : r[i] = s[i]
      /\ \A i \in Len(s) + 1 .. Len(s) + Len(t) : r[i] = t[i - Len(s)]
  BY <1>3, ConcatProperties, LenProperties
<1>5. content' \in [Heads -> Seq(Nodes)]
  BY <1>2, <1>4, EmptySeq DEF Move, s, t
<1>6. /\ heap' \in Heap /\ Represents(heap', a, r) /\ Represents(heap', b, <<>>)
      /\ \A c \in Heads, u \in Seq(Nodes) :
           /\ c # a /\ c # b /\ Elems(u) \cap Elems(s) = {} /\ Elems(u) \cap Elems(t) = {}
           /\ Represents(heap, c, u)
           => Represents(heap', c, u)
  BY <1>1, <1>2, <1>3, SpliceKeeps
<1> HIDE DEF r
<1>7. \A i \in 1 .. Len(r) :
        \/ i \in 1 .. Len(s) /\ r[i] = s[i]
        \/ /\ i - Len(s) \in 1 .. Len(t) /\ r[i] = t[i - Len(s)] /\ i \in Int
  BY <1>4
<1>8. NoDup(r)
  <2>1. /\ \A i, j \in 1 .. Len(s) : s[i] = s[j] => i = j
        /\ \A i, j \in 1 .. Len(t) : t[i] = t[j] => i = j
    BY <1>3 DEF NoDup
  <2>2. \A i \in 1 .. Len(s), j \in 1 .. Len(t) : s[i] # t[j]
    BY <1>3 DEF Elems
  <2>3. SUFFICES ASSUME NEW i \in 1 .. Len(r), NEW j \in 1 .. Len(r), r[i] = r[j]
                 PROVE  i = j
    BY DEF NoDup
  <2>4. CASE i \in 1 .. Len(s) /\ r[i] = s[i]
    <3>1. j \in 1 .. Len(s) /\ r[j] = s[j]
      BY <1>7, <2>2, <2>3, <2>4
    <3> QED
      BY <2>1, <2>3, <2>4, <3>1
  <2>5. CASE i - Len(s) \in 1 .. Len(t) /\ r[i] = t[i - Len(s)]
    <3>1. j - Len(s) \in 1 .. Len(t) /\ r[j] = t[j - Len(s)]
      BY <1>7, <2>2, <2>3, <2>5
    <3>2. i - Len(s) = j - Len(s)
      BY <2>1, <2>3, <2>5, <3>1
    <3> QED
      BY <1>4, <3>2
  <2> QED
    BY <1>7, <2>4, <2>5
<1>9. Elems(r) \subseteq Elems(s) \cup Elems(t)
  BY <1>7 DEF Elems
<1>10. NoDup(<<>>) /\ Elems(<<>>) = {}
  BY EmptySeq DEF NoDup, Elems
<1>11. \A c \in Heads : NoDup(content'[c]) /\ Represents(heap', c, content'[c])
  BY <1>1, <1>2, <1>6, <1>8, <1>10 DEF s, t
<1>12. \A c, d \in Heads : c # d => Elems(content'[c]) \cap Elems(content'[d]) = {}
  BY <1>1, <1>2, <1>9, <1>10 DEF s, t
<1> QED
  BY <1>5, <1>6, <1>11, <1>12, IInvOf

LEMMA NextIInv == IInv /\ [ListsNext]_lists => IInv'
<1> SUFFICES ASSUME IInv, [ListsNext]_lists
             PROVE  IInv'
  OBVIOUS
<1>1. ASSUME NEW n \in Nodes, NEW a \in Heads, Add(n, a)
      PROVE  IInv'
  BY <1>1, AddIInv
<1>2. ASSUME NEW a \in Heads, TakeFirst(a)
      PROVE  IInv'
  BY <1>2, TakeFirstIInv
<1>3. ASSUME NEW a \in Heads, NEW S \in SUBSET Nodes, RemoveSome(a, S)
      PROVE  IInv'
  BY <1>3, RemoveIInv
<1>4. ASSUME NEW list \in Heads, NEW head \in Heads, list # head, Move(list, head)
      PROVE  IInv'
  BY <1>4, MoveIInv
<1>5. CASE UNCHANGED lists
  BY <1>5 DEF lists, IInv, LinksOK, Distinct, ListsAreSequences
<1> QED
  BY <1>1, <1>2, <1>3, <1>4, <1>5 DEF ListsNext

(* list.h: the links stay in the heads and the nodes, and no head is ever  *)
(* poisoned.                                                               *)
THEOREM TypeCorrect == ListsSpec => []LinksOK
<1>1. IInv => LinksOK
  BY DEF IInv
<1> QED
  BY <1>1, InitIInv, NextIInv, PTL DEF ListsSpec

(* list.h:36-324: for any number of messages and of lists, each list is at *)
(* any time the sequence its callers take it for, forward and backward.    *)
THEOREM ListsStaySequences == ListsSpec => []ListsAreSequences
<1>1. IInv => ListsAreSequences
  BY DEF IInv
<1> QED
  BY <1>1, InitIInv, NextIInv, PTL DEF ListsSpec
=============================================================================
