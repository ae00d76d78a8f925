--------------------------- MODULE MdsFsubProofs ---------------------------
(***************************************************************************)
(* Theorems about MdsFsub, for handles whose topics have no heartbeats:    *)
(* with them ReadFileValid does not hold.                                  *)
(***************************************************************************)
EXTENDS MdsFsub, SelectionProofs, FiniteSetTheorems, FunctionTheorems, TLAPS

(* How many elements of a sequence are in a set. *)
Where(v, S) == {i \in 1 .. Len(v) : v[i] \in S}
Count(v, S) == Cardinality(Where(v, S))

(* The slots of a topic, those that are not complete, those with a file. *)
Of(t)      == {s \in Slot : s.topic = t}
Unfinished == {s \in Slot : s.topic # NoTopic /\ s.fseq # -1}
Holding    == {s \in Slot : s.file # NoFile}

-----------------------------------------------------------------------------
(* The inductive invariant.                                                *)

(* The vector is as long as vec_size says.  Once it is shorter nothing is  *)
(* called any more, and nothing is said of most of the handle.             *)
Good == vec_size <= Len(vector)

CallInv ==
  /\ Len(vector) <= vec_size
  /\ ~Good => pc = "idle"
  /\ pc # "idle" => out.rc = "none"
  /\ pc # "abort"

(* A topic has as many slots as it is subscribed times, a free slot is     *)
(* blank, only an incomplete one has a file.                               *)
SlotInv ==
  /\ \A t \in Topics : subs[t] = Count(vector, Of(t))
  /\ \A i \in 1 .. Len(vector) : vector[i].topic = NoTopic => vector[i] = NoSlot
  /\ \A i \in 1 .. Len(vector) : vector[i].file # NoFile => vector[i] \in Unfinished

(* The queue has messages of subscribed topics only, in their order.       *)
QueueInv ==
  /\ \A k \in 1 .. Len(queue) :
       /\ subs[queue[k].topic] > 0
       /\ queue[k].seq > 0 /\ queue[k].seq <= published[queue[k].topic]
  /\ \A j, k \in 1 .. Len(queue) :
       j < k /\ queue[j].topic = queue[k].topic => queue[j].seq < queue[k].seq

(* Every message of t in a queue comes after number n. *)
After(q, t, n) == \A k \in 1 .. Len(q) : q[k].topic = t => q[k].seq > n

(* What a slot was completed to is older than what is in the queue. *)
DoneInv ==
  \A i \in 1 .. Len(vector) :
    vector[i] \in Unfinished =>
      /\ vector[i].dseq <= published[vector[i].topic]
      /\ After(queue, vector[i].topic, vector[i].dseq)

(* The kept message. *)
KeptInv ==
  read_file > 0 =>
    /\ read_file \in 1 .. Len(vector) /\ vector[read_file] \in Unfinished
    /\ data.topic = vector[read_file].topic
    /\ vector[read_file].dseq < data.seq /\ data.seq <= published[data.topic]
    /\ After(queue, data.topic, data.seq)

(* Where the call in progress is. *)
StepInv ==
  /\ pc = "sub" => read_file = 0
  /\ pc \in {"open", "opentmp", "read"} => read_file > 0
  /\ pc \in {"open", "opentmp"} => vector[read_file].file = NoFile
  /\ pc = "read" => vector[read_file].file # NoFile

(* CountIsShort and FilesClosed. *)
CountInv == nr_incompleted = Count(vector, Unfinished) - miscounted

FdsInv == fds = Count(vector, Holding) + leaked

HandleInv == SlotInv /\ QueueInv /\ DoneInv /\ KeptInv /\ StepInv

IInv == TypeOK /\ CallInv /\ CountInv /\ FdsInv /\ (Good => HandleInv)

-----------------------------------------------------------------------------
(* Counting the elements of a sequence that are in a set.                  *)

LEMMA CountType ==
  ASSUME NEW T, NEW v \in Seq(T), NEW S
  PROVE  IsFiniteSet(Where(v, S)) /\ Count(v, S) \in Nat
<1>1. IsFiniteSet(1 .. Len(v)) /\ Where(v, S) \in SUBSET (1 .. Len(v))
  BY FS_Interval DEF Where
<1>2. IsFiniteSet(Where(v, S))
  BY <1>1, FS_Subset
<1> QED
  BY <1>2, FS_CardinalityType DEF Count

LEMMA CountSome ==
  ASSUME NEW T, NEW v \in Seq(T), NEW S
  PROVE  Count(v, S) > 0 <=> \E i \in 1 .. Len(v) : v[i] \in S
<1>1. Count(v, S) \in Nat /\ (Count(v, S) = 0 <=> Where(v, S) = {})
  BY CountType, FS_EmptySet DEF Count
<1>2. Where(v, S) # {} <=> \E i \in 1 .. Len(v) : v[i] \in S
  BY DEF Where
<1> QED
  BY <1>1, <1>2

(* Another element in one place. *)
OneOrNone(x, S) == IF x \in S THEN 1 ELSE 0

LEMMA CountReplace ==
  ASSUME NEW T, NEW v \in Seq(T), NEW w \in Seq(T), NEW S, NEW i \in 1 .. Len(v),
         Len(w) = Len(v), \A k \in 1 .. Len(v) : k # i => w[k] = v[k]
  PROVE  Count(w, S) = (Count(v, S) - OneOrNone(v[i], S)) + OneOrNone(w[i], S)
<1> DEFINE rest == Where(v, S) \ {i}
<1>2. /\ IsFiniteSet(rest) /\ Cardinality(rest) = Count(v, S) - OneOrNone(v[i], S)
  <2>1. IsFiniteSet(Where(v, S)) /\ Count(v, S) \in Nat
    BY CountType
  <2>2. i \in Where(v, S) <=> v[i] \in S
    BY DEF Where
  <2>3. /\ IsFiniteSet(rest)
        /\ Cardinality(rest) = IF i \in Where(v, S) THEN Cardinality(Where(v, S)) - 1
                               ELSE Cardinality(Where(v, S))
    BY <2>1, FS_RemoveElement
  <2> QED
    BY <2>1, <2>2, <2>3 DEF Count, OneOrNone
<1>3. Where(w, S) = IF w[i] \in S THEN rest \cup {i} ELSE rest
  BY DEF Where
<1>4. Cardinality(Where(w, S)) = Cardinality(rest) + OneOrNone(w[i], S)
  <2>1. Cardinality(rest) \in Nat /\ i \notin rest
    BY <1>2, FS_CardinalityType
  <2>2. Cardinality(rest \cup {i}) = Cardinality(rest) + 1
    BY <1>2, <2>1, FS_AddElement
  <2> HIDE DEF rest
  <2> QED
    BY <1>3, <2>1, <2>2 DEF OneOrNone
<1> QED
  BY <1>2, <1>4 DEF Count

(* The elements that are in S stand in the same places. *)
LEMMA CountSame ==
  ASSUME NEW T, NEW v \in Seq(T), NEW w \in Seq(T), NEW S, Len(v) <= Len(w),
         \A i \in 1 .. Len(v) : w[i] \in S <=> v[i] \in S,
         \A i \in 1 .. Len(w) : i > Len(v) => w[i] \notin S
  PROVE  Count(w, S) = Count(v, S)
<1>1. Where(w, S) = Where(v, S)
  <2>1. Len(v) \in Nat /\ Len(w) \in Nat
    BY LenProperties
  <2> QED
    BY <2>1 DEF Where
<1> QED
  BY <1>1 DEF Count

(* The k-th of a finite set of numbers is one of them, and each of them is *)
(* the k-th for some k.                                                    *)
LEMMA NthOf ==
  ASSUME NEW n \in Nat, NEW U \in SUBSET (1 .. n)
  PROVE  /\ Cardinality(U) \in Nat
         /\ \A k \in 1 .. Cardinality(U) : Nth(U, k) \in U
         /\ \A i \in U : \E k \in 1 .. Cardinality(U) : Nth(U, k) = i
         /\ \A j, k \in 1 .. Cardinality(U) : Nth(U, j) = Nth(U, k) => j = k
<1> DEFINE upto(i) == {j \in U : j <= i}
           rank == [i \in U |-> Cardinality(upto(i))]
           ranks == 1 .. Cardinality(U)
<1>1. IsFiniteSet(U) /\ Cardinality(U) \in Nat
  <2>1. IsFiniteSet(1 .. n)
    BY FS_Interval
  <2> QED
    BY <2>1, FS_Subset, FS_CardinalityType
<1>2. \A i \in U : /\ IsFiniteSet(upto(i)) /\ Cardinality(upto(i)) \in Nat
                   /\ Cardinality(upto(i)) <= Cardinality(U)
  BY <1>1, FS_Subset, FS_CardinalityType
<1>3. ASSUME NEW i \in U, NEW j \in U, i < j
      PROVE  rank[i] < rank[j]
  <2>1. j \notin upto(i) /\ upto(i) \cup {j} \in SUBSET upto(j)
    <3>1. i \in Int /\ j \in Int /\ \A k \in U : k \in Int
      OBVIOUS
    <3>2. j \notin upto(i) /\ j \in upto(j)
      BY <1>3, <3>1
    <3>3. \A k \in upto(i) : k \in upto(j)
      BY <1>3, <3>1
    <3> QED
      BY <3>2, <3>3
  <2>2. Cardinality(upto(i) \cup {j}) = Cardinality(upto(i)) + 1
    BY <1>2, <2>1, FS_AddElement
  <2>3. Cardinality(upto(i) \cup {j}) <= Cardinality(upto(j))
    BY <1>2, <2>1, FS_Subset
  <2> QED
    BY <1>2, <2>2, <2>3
<1>4. rank \in [U -> ranks]
  <2>1. ASSUME NEW i \in U
        PROVE  rank[i] \in ranks
    <3>1. i \in upto(i)
      OBVIOUS
    <3>2. Cardinality(upto(i)) # 0
      BY <1>2, <3>1, FS_EmptySet
    <3> QED
      BY <1>1, <1>2, <3>2
  <2> QED
    BY <2>1
<1>5. \A i, j \in U : rank[i] = rank[j] => i = j
  <2> SUFFICES ASSUME NEW i \in U, NEW j \in U, rank[i] = rank[j]
               PROVE  i = j
    OBVIOUS
  <2>1. rank[i] \in Nat /\ rank[j] \in Nat /\ i \in Nat /\ j \in Nat
    BY <1>2
  <2> HIDE DEF rank
  <2> QED
    BY <1>3, <2>1
<1>6. \A k \in ranks : \E i \in U : rank[i] = k
  <2>1. rank \in Injection(U, ranks)
    BY <1>4, <1>5, Fun_IsInj
  <2>2. IsFiniteSet(ranks) /\ Cardinality(ranks) = Cardinality(U)
    BY <1>1, FS_Interval
  <2>3. rank \in Surjection(U, ranks)
    BY <2>1, <2>2, FS_Injection
  <2> HIDE DEF rank
  <2> QED
    BY <2>3, Fun_SurjectionProperties
<1>7. \A k \in ranks : Nth(U, k) \in U /\ rank[Nth(U, k)] = k
  <2> SUFFICES ASSUME NEW k \in ranks
               PROVE  Nth(U, k) \in U /\ rank[Nth(U, k)] = k
    OBVIOUS
  <2>1. \E i \in U : Cardinality(upto(i)) = k
    BY <1>6
  <2>2. Nth(U, k) \in U /\ Cardinality(upto(Nth(U, k))) = k
    BY <2>1 DEF Nth
  <2> QED
    BY <2>2
<1>8. \A i \in U : rank[i] \in ranks
  BY <1>4
<1> HIDE DEF rank
<1> QED
  BY <1>1, <1>5, <1>7, <1>8

-----------------------------------------------------------------------------
(* The vector.                                                             *)

(* The first slot of a topic, or the first free one, is one when there is  *)
(* one.                                                                    *)
LEMMA FirstSlotOf ==
  ASSUME NEW v \in Seq(Slot), NEW t, \E i \in 1 .. Len(v) : v[i].topic = t
  PROVE  /\ FirstSlot(v, t) \in 1 .. Len(v)
         /\ v[FirstSlot(v, t)].topic = t
<1> DEFINE First(i) == v[i].topic = t /\ \A j \in 1 .. i - 1 : v[j].topic # t
           None == {n \in Nat : n <= Len(v) => \A j \in 1 .. n : v[j].topic # t}
<1>1. Len(v) \in Nat
  BY LenProperties
<1>2. \E i \in 1 .. Len(v) : First(i)
  <2>1. SUFFICES ASSUME \A i \in 1 .. Len(v) : ~First(i)
                 PROVE  FALSE
    OBVIOUS
  <2>2. 0 \in None
    OBVIOUS
  <2>3. ASSUME NEW n \in Nat, n \in None
        PROVE  n + 1 \in None
    <3>1. SUFFICES ASSUME n + 1 <= Len(v)
                   PROVE  \A j \in 1 .. n + 1 : v[j].topic # t
      OBVIOUS
    <3>2. \A j \in 1 .. n : v[j].topic # t
      BY <1>1, <2>3, <3>1
    <3>3. n + 1 \in 1 .. Len(v) /\ (n + 1) - 1 = n
      BY <1>1, <3>1
    <3>4. v[n + 1].topic # t
      BY <2>1, <3>2, <3>3
    <3>5. \A j \in 1 .. n + 1 : j \in 1 .. n \/ j = n + 1
      OBVIOUS
    <3> QED
      BY <3>2, <3>4, <3>5
  <2>4. Nat \subseteq None
    <3> HIDE DEF None
    <3> QED
      BY <2>2, <2>3, NatSetInduction
  <2>5. Len(v) \in None
    BY <1>1, <2>4
  <2> QED
    BY <1>1, <2>5
<1>3. PICK i \in 1 .. Len(v) : First(i)
  BY <1>2
<1>4. FirstSlot(v, t) \in 1 .. Len(v) /\ First(FirstSlot(v, t))
  BY <1>3 DEF FirstSlot
<1> QED
  BY <1>4

LEMMA BlankSlot ==
  /\ NoSlot \in Slot /\ NoSlot.topic = NoTopic /\ NoSlot.file = NoFile
  /\ NoTopic \notin Topics
  /\ NoSlot \notin Unfinished /\ NoSlot \notin Holding
  /\ \A t \in Topics : NoSlot \notin Of(t)
  /\ \A s \in Slot : s.topic = NoTopic \/ s.topic \in Topics
<1>1. NoTopic \notin Topics
  BY MdsFsubAssumption DEF NoTopic
<1> QED
  BY <1>1 DEF NoSlot, Slot, Unfinished, Holding, Of

(* A shrunk vector has what was in use, in a place each.                   *)
LEMMA ShrunkVector ==
  ASSUME NEW v \in Seq(Slot), NEW size \in Nat, Len(v) = size
  PROVE  /\ Shrunk(v, size) \in Seq(Slot) /\ Len(Shrunk(v, size)) <= size
         /\ Len(Shrunk(v, size)) = size => Shrunk(v, size) = v
<1> DEFINE used == UsedIn(v)
           half == size \div 2
           w == [k \in 1 .. half |-> IF k <= Cardinality(used) THEN v[Nth(used, k)] ELSE NoSlot]
<1>1. half \in Nat /\ half <= size /\ (half = size => size = 0)
  OBVIOUS
<1>2. used \in SUBSET (1 .. Len(v))
  <2>1. DOMAIN v = 1 .. Len(v)
    BY LenProperties
  <2> QED
    BY <2>1 DEF UsedIn
<1>3. /\ Cardinality(used) \in Nat
      /\ \A k \in 1 .. Cardinality(used) : Nth(used, k) \in used
  BY <1>2, NthOf
<1>4. \A k \in 1 .. half : w[k] \in Slot
  <2> SUFFICES ASSUME NEW k \in 1 .. half
               PROVE  w[k] \in Slot
    OBVIOUS
  <2>1. CASE k <= Cardinality(used)
    <3>1. Nth(used, k) \in 1 .. Len(v)
      BY <1>2, <1>3, <2>1
    <3>2. v[Nth(used, k)] \in Slot
      BY <3>1, ElementOfSeq
    <3> QED
      BY <2>1, <3>2
  <2>2. CASE ~ (k <= Cardinality(used))
    BY <2>2, BlankSlot
  <2> QED
    BY <2>1, <2>2
<1>5. w \in Seq(Slot) /\ Len(w) = half
  <2> HIDE DEF half
  <2>1. w \in [1 .. half -> Slot]
    BY <1>4
  <2> HIDE DEF w
  <2> QED
    BY <1>1, <2>1, LenProperties, SeqDef
<1>6. Shrunk(v, size) = v \/ Shrunk(v, size) = w
  BY DEF Shrunk
<1>7. Len(w) = size => w = v
  <2> SUFFICES ASSUME Len(w) = size
               PROVE  w = v
    OBVIOUS
  <2>1. Len(w) = 0 /\ Len(v) = 0
    BY <1>1, <1>5
  <2> HIDE DEF w
  <2> QED
    BY <1>5, <2>1, EmptySeq
<1> HIDE DEF w, half
<1> QED
  BY <1>1, <1>5, <1>6, <1>7

LEMMA CountShrunk ==
  ASSUME NEW v \in Seq(Slot), NEW size \in Nat, Len(v) = size,
         NEW S, NoSlot \notin S, \A i \in 1 .. Len(v) : v[i] \in S => v[i].topic # NoTopic
  PROVE  Count(Shrunk(v, size), S) = Count(v, S)
<1> DEFINE used == UsedIn(v)
           half == size \div 2
           w == [k \in 1 .. half |-> IF k <= Cardinality(used) THEN v[Nth(used, k)] ELSE NoSlot]
           f == [k \in Where(w, S) |-> Nth(used, k)]
<1>1. half \in Nat /\ DOMAIN v = 1 .. Len(v) /\ Len(v) \in Nat
  BY LenProperties
<1>2. used = {i \in 1 .. Len(v) : v[i].topic # NoTopic}
  BY <1>1 DEF UsedIn
<1>3. CASE Shrunk(v, size) = v
  BY <1>3
<1>4. CASE Shrunk(v, size) # v
  <2>1. Shrunk(v, size) = w /\ ~ (2 * Cardinality(used) > size)
    BY <1>4 DEF Shrunk
  <2>2. /\ Cardinality(used) \in Nat
        /\ \A k \in 1 .. Cardinality(used) : Nth(used, k) \in used
        /\ \A i \in used : \E k \in 1 .. Cardinality(used) : Nth(used, k) = i
        /\ \A j, k \in 1 .. Cardinality(used) : Nth(used, j) = Nth(used, k) => j = k
    BY <1>1, <1>2, NthOf
  <2>3. Cardinality(used) <= half
    BY <2>1, <2>2
  <2>4. Where(w, S) = {k \in 1 .. Cardinality(used) : v[Nth(used, k)] \in S}
    <3>1. Len(w) = half
      BY <1>1
    <3>2. \A k \in 1 .. half : w[k] \in S <=> k <= Cardinality(used) /\ v[Nth(used, k)] \in S
      OBVIOUS
    <3> HIDE DEF w, half
    <3> QED
      BY <1>1, <2>2, <2>3, <3>1, <3>2 DEF Where
  <2>5. f \in [Where(w, S) -> Where(v, S)]
    <3>1. \A k \in Where(w, S) : Nth(used, k) \in Where(v, S)
      BY <1>2, <2>2, <2>4 DEF Where
    <3> HIDE DEF w
    <3> QED
      BY <3>1
  <2>6. \A j, k \in Where(w, S) : f[j] = f[k] => j = k
    <3> HIDE DEF w, used
    <3> QED
      BY <2>2, <2>4
  <2>7. \A i \in Where(v, S) : \E k \in Where(w, S) : f[k] = i
    <3> SUFFICES ASSUME NEW i \in Where(v, S)
                 PROVE  \E k \in Where(w, S) : f[k] = i
      OBVIOUS
    <3>1. i \in used /\ v[i] \in S
      BY <1>2 DEF Where
    <3>2. PICK k \in 1 .. Cardinality(used) : Nth(used, k) = i
      BY <2>2, <3>1
    <3>3. k \in Where(w, S)
      BY <2>4, <3>1, <3>2
    <3> HIDE DEF w, used
    <3> QED
      BY <3>2, <3>3
  <2>8. f \in Bijection(Where(w, S), Where(v, S))
    <3> HIDE DEF f, w
    <3> QED
      BY <2>5, <2>6, <2>7, Fun_IsBij
  <2>9. IsFiniteSet(Where(w, S))
    <3> HIDE DEF w
    <3>1. Where(w, S) \in SUBSET (1 .. Cardinality(used))
      BY <2>4
    <3>2. IsFiniteSet(1 .. Cardinality(used))
      <4>1. Cardinality(used) \in Int /\ 1 \in Int
        BY <2>2
      <4> HIDE DEF used
      <4> QED
        BY <4>1, FS_Interval
    <3> QED
      BY <3>1, <3>2, FS_Subset
  <2>10. Cardinality(Where(v, S)) = Cardinality(Where(w, S))
    <3> HIDE DEF f, w
    <3>1. ExistsBijection(Where(w, S), Where(v, S))
      BY <2>8 DEF ExistsBijection
    <3> QED
      BY <2>9, <3>1, FS_Bijection
  <2> QED
    BY <2>1, <2>10 DEF Count
<1> QED
  BY <1>3, <1>4

LEMMA SetsOfSlots ==
  ASSUME NEW v \in Seq(Slot)
  PROVE  /\ UsedIn(v) = {i \in 1 .. Len(v) : v[i].topic # NoTopic}
         /\ {i \in UsedIn(v) : v[i].fseq # -1} = Where(v, Unfinished)
         /\ {i \in DOMAIN v : v[i].file # NoFile} = Where(v, Holding)
         /\ \A t \in Topics : {i \in UsedIn(v) : v[i].topic = t} = Where(v, Of(t))
<1>1. DOMAIN v = 1 .. Len(v) /\ \A i \in 1 .. Len(v) : v[i] \in Slot
  BY LenProperties, ElementOfSeq
<1> QED
  BY <1>1, BlankSlot DEF UsedIn, Where, Unfinished, Holding, Of

(* Sets of slots that are in use. *)
Busy(v, S) == NoSlot \notin S /\ \A i \in 1 .. Len(v) : v[i] \in S => v[i].topic # NoTopic

(* subinfo_remove leaves one slot less, and all but this slot as it was if *)
(* the vector was not shrunk.                                              *)
Freed(v, t) == [v EXCEPT ![FirstSlot(v, t)] = NoSlot]

LEMMA RemovedFrom ==
  ASSUME NEW v \in Seq(Slot), NEW size \in Nat, Len(v) = size, NEW n, NEW t \in Topics,
         \E i \in 1 .. Len(v) : v[i].topic = t,
         RemoveFrom(v, size, n, t)
  PROVE  /\ FirstSlot(v, t) \in 1 .. Len(v) /\ v[FirstSlot(v, t)].topic = t
         /\ vec_size' = size /\ vector' \in Seq(Slot) /\ Len(vector') <= size
         /\ Len(vector') = size => vector' = Freed(v, t)
         /\ \A S : Busy(v, S) =>
              Count(vector', S) = Count(v, S) - OneOrNone(v[FirstSlot(v, t)], S)
<1> DEFINE i == FirstSlot(v, t)
           w == Freed(v, t)
<1>1. i \in 1 .. Len(v) /\ v[i].topic = t
  BY FirstSlotOf
<1>2. /\ w \in Seq(Slot) /\ Len(w) = size /\ w[i] = NoSlot
      /\ \A k \in 1 .. Len(v) : k # i => w[k] = v[k]
  BY <1>1, BlankSlot, ExceptSeq DEF Freed
<1>3. vector' = Shrunk(w, size) \/ vector' = w
  BY DEF RemoveFrom, Freed
<1>4. /\ vec_size' = size /\ vector' \in Seq(Slot) /\ Len(vector') <= size
      /\ Len(vector') = size => vector' = w
  <2>1. vec_size' = size
    BY DEF RemoveFrom
  <2> HIDE DEF w
  <2> QED
    BY <1>2, <1>3, <2>1, ShrunkVector
<1>5. ASSUME NEW S, Busy(v, S)
      PROVE  Count(vector', S) = Count(v, S) - OneOrNone(v[i], S)
  <2>1. Count(w, S) = (Count(v, S) - OneOrNone(v[i], S)) + OneOrNone(NoSlot, S)
    <3> HIDE DEF w, i
    <3> QED
      BY <1>1, <1>2, CountReplace
  <2>2. OneOrNone(NoSlot, S) = 0 /\ Count(v, S) \in Nat /\ OneOrNone(v[i], S) \in Nat
    BY <1>5, CountType DEF Busy, OneOrNone
  <2>3. \A k \in 1 .. Len(w) : w[k] \in S => w[k].topic # NoTopic
    <3> HIDE DEF w, i
    <3> QED
      BY <1>2, <1>5 DEF Busy
  <2>4. Count(vector', S) = Count(w, S)
    <3>1. NoSlot \notin S
      BY <1>5 DEF Busy
    <3>2. Count(Shrunk(w, size), S) = Count(w, S)
      <4> HIDE DEF w, i
      <4> QED
        BY <1>2, <2>3, <3>1, CountShrunk
    <3> QED
      BY <1>3, <3>2
  <2> HIDE DEF w, i
  <2> QED
    BY <2>1, <2>2, <2>4
<1> HIDE DEF w, i
<1>6. i = FirstSlot(v, t) /\ w = Freed(v, t)
  BY DEF i, w
<1> QED
  BY <1>1, <1>4, <1>5, <1>6

(* expand_subinfo: whatever was there is kept, and there is a free slot.   *)
LEMMA Expansion ==
  ASSUME vector \in Seq(Slot), vec_size \in Nat, Len(vector) = vec_size
  PROVE  /\ NewSize \in Nat /\ NewSize >= vec_size
         /\ Expanded \in Seq(Slot) /\ Len(Expanded) = NewSize
         /\ \A i \in 1 .. vec_size : Expanded[i] = vector[i]
         /\ \A i \in 1 .. NewSize : i > vec_size => Expanded[i] = NoSlot
         /\ \E i \in 1 .. NewSize : Expanded[i].topic = NoTopic
<1> DEFINE w == Expanded
<1>1. NewSize \in Nat /\ NewSize >= vec_size /\ (vec_size = nr_sub => NewSize > vec_size)
  BY MdsFsubAssumption DEF NewSize
<1>2. \A i \in 1 .. NewSize : w[i] = IF i <= vec_size THEN vector[i] ELSE NoSlot
  BY DEF Expanded
<1>3. w \in [1 .. NewSize -> Slot]
  <2>1. \A i \in 1 .. vec_size : vector[i] \in Slot
    BY ElementOfSeq
  <2>2. \A i \in 1 .. NewSize : i <= vec_size => i \in 1 .. vec_size
    BY <1>1
  <2>3. \A i \in 1 .. NewSize : w[i] \in Slot
    <3> HIDE DEF w
    <3> QED
      BY <1>2, <2>1, <2>2, BlankSlot
  <2>4. w = [i \in 1 .. NewSize |-> w[i]]
    BY DEF Expanded
  <2> HIDE DEF w
  <2> QED
    BY <2>3, <2>4
<1> HIDE DEF w
<1>4. w \in Seq(Slot) /\ Len(w) = NewSize
  BY <1>1, <1>3, LenProperties, SeqDef
<1>5. \E i \in 1 .. NewSize : w[i].topic = NoTopic
  <2>1. CASE vec_size = nr_sub
    BY <1>1, <1>2, <2>1, BlankSlot
  <2>2. CASE vec_size # nr_sub
    <3>1. Used = {i \in 1 .. vec_size : vector[i].topic # NoTopic}
      BY SetsOfSlots DEF Used
    <3>2. Cardinality(1 .. vec_size) = vec_size
      BY FS_Interval
    <3>3. Used # 1 .. vec_size
      BY <2>2, <3>2 DEF nr_sub
    <3>4. PICK i \in 1 .. vec_size : vector[i].topic = NoTopic
      BY <3>1, <3>3
    <3> QED
      BY <1>1, <1>2, <3>4
  <2> QED
    BY <2>1, <2>2
<1>6. \A i \in 1 .. vec_size : w[i] = vector[i]
  BY <1>1, <1>2
<1>7. \A i \in 1 .. NewSize : i > vec_size => w[i] = NoSlot
  BY <1>1, <1>2
<1> QED
  BY <1>1, <1>4, <1>5, <1>6, <1>7 DEF w

(* subinfo_add: a free slot is given to the topic.                         *)
NewSlot(t) == [NoSlot EXCEPT !.topic = t]
Added(t)   == [Expanded EXCEPT ![FirstSlot(Expanded, NoTopic)] = NewSlot(t)]
Place      == FirstSlot(Expanded, NoTopic)

LEMMA Addition ==
  ASSUME vector \in Seq(Slot), vec_size \in Nat, Len(vector) = vec_size, NEW t \in Topics,
         \A i \in 1 .. Len(vector) : vector[i].topic = NoTopic => vector[i] = NoSlot
  PROVE  /\ NewSlot(t) \in Slot /\ NewSlot(t).topic = t
         /\ NewSlot(t).fseq = 0 /\ NewSlot(t).dseq = 0 /\ NewSlot(t).file = NoFile
         /\ Added(t) \in Seq(Slot) /\ Len(Added(t)) = NewSize
         /\ Place \in 1 .. NewSize /\ Added(t)[Place] = NewSlot(t)
         /\ \A i \in 1 .. NewSize : i # Place =>
              Added(t)[i] = IF i <= vec_size THEN vector[i] ELSE NoSlot
         /\ Place <= vec_size => vector[Place] = NoSlot
         /\ \A S : NoSlot \notin S =>
              Count(Added(t), S) = Count(vector, S) + OneOrNone(NewSlot(t), S)
<1> DEFINE w == Added(t)
<1>1. /\ NewSlot(t) \in Slot /\ NewSlot(t).topic = t
      /\ NewSlot(t).fseq = 0 /\ NewSlot(t).dseq = 0 /\ NewSlot(t).file = NoFile
  BY DEF NewSlot, NoSlot, Slot
<1>2. /\ NewSize \in Nat /\ NewSize >= vec_size
      /\ Expanded \in Seq(Slot) /\ Len(Expanded) = NewSize
      /\ \A i \in 1 .. vec_size : Expanded[i] = vector[i]
      /\ \A i \in 1 .. NewSize : i > vec_size => Expanded[i] = NoSlot
      /\ \E i \in 1 .. NewSize : Expanded[i].topic = NoTopic
  BY Expansion
<1>3. Place \in 1 .. NewSize /\ Expanded[Place].topic = NoTopic
  BY <1>2, FirstSlotOf DEF Place
<1>4. Expanded[Place] = NoSlot /\ (Place <= vec_size => vector[Place] = NoSlot)
  BY <1>2, <1>3
<1>5. w = [Expanded EXCEPT ![Place] = NewSlot(t)]
  BY DEF Added, Place
<1>6. /\ w \in Seq(Slot) /\ Len(w) = NewSize /\ w[Place] = NewSlot(t)
      /\ \A i \in 1 .. NewSize : i # Place => w[i] = Expanded[i]
  <2> HIDE DEF w
  <2> QED
    BY <1>1, <1>2, <1>3, <1>5, ExceptSeq
<1>7. ASSUME NEW S, NoSlot \notin S
      PROVE  Count(w, S) = Count(vector, S) + OneOrNone(NewSlot(t), S)
  <2> DEFINE e == Expanded
             x == NewSlot(t)
             p == Place
  <2> HIDE DEF w, e, x, p
  <2>1. e \in Seq(Slot) /\ p \in 1 .. Len(e) /\ x \in Slot /\ e[p] = NoSlot
    BY <1>1, <1>2, <1>3, <1>4, <1>5 DEF e, x, p
  <2>2. Count(w, S) = (Count(e, S) - OneOrNone(e[p], S)) + OneOrNone(x, S)
    <3>1. /\ w \in Seq(Slot) /\ Len(w) = Len(e) /\ w[p] = x
          /\ \A k \in 1 .. Len(e) : k # p => w[k] = e[k]
      BY <1>2, <1>6 DEF e, p, x
    <3> QED
      BY <2>1, <3>1, CountReplace
  <2>3. Count(e, S) = Count(vector, S)
    <3>1. /\ Len(vector) <= Len(e)
          /\ \A i \in 1 .. Len(vector) : e[i] = vector[i]
          /\ \A i \in 1 .. Len(e) : i > Len(vector) => e[i] = NoSlot
      BY <1>2 DEF e
    <3>2. /\ \A i \in 1 .. Len(vector) : e[i] \in S <=> vector[i] \in S
          /\ \A i \in 1 .. Len(e) : i > Len(vector) => e[i] \notin S
      BY <1>7, <3>1
    <3> QED
      BY <2>1, <3>1, <3>2, CountSame
  <2>4. OneOrNone(e[p], S) = 0 /\ Count(vector, S) \in Nat
    BY <1>7, <2>1, CountType DEF OneOrNone
  <2> QED
    BY <2>2, <2>3, <2>4 DEF x
<1>8. \A i \in 1 .. NewSize : i # Place =>
        w[i] = IF i <= vec_size THEN vector[i] ELSE NoSlot
  <2> HIDE DEF w
  <2>1. SUFFICES ASSUME NEW i \in 1 .. NewSize, i # Place
                 PROVE  w[i] = IF i <= vec_size THEN vector[i] ELSE NoSlot
    OBVIOUS
  <2>2. w[i] = Expanded[i]
    BY <1>6, <2>1
  <2>3. CASE i <= vec_size
    <3>1. i \in 1 .. vec_size
      BY <1>2, <2>3
    <3> QED
      BY <1>2, <2>2, <2>3, <3>1
  <2>4. CASE ~ (i <= vec_size)
    BY <1>2, <2>2, <2>4
  <2> QED
    BY <2>3, <2>4
<1> HIDE DEF w
<1> QED
  BY <1>1, <1>3, <1>4, <1>6, <1>7, <1>8 DEF w

-----------------------------------------------------------------------------
(* The initial state and the steps of others.                              *)

LEMMA InitIInv ==
  Init => IInv
<1> SUFFICES ASSUME Init
             PROVE  IInv
  OBVIOUS
<1>1. /\ <<>> \in Seq(Slot) /\ <<>> \in Seq(Msg) /\ <<>> \in Seq(Nat) /\ Len(<<>>) = 0
      /\ 1 .. Len(<<>>) = {}
  BY EmptySeq
<1>2. \A S : Count(<<>>, S) = 0
  <2>1. \A S : Where(<<>>, S) = {}
    BY <1>1 DEF Where
  <2> QED
    BY <2>1, FS_EmptySet DEF Count
<1>3. TypeOK
  BY <1>1 DEF Init, TypeOK
<1>4. CallInv /\ CountInv /\ FdsInv
  BY <1>1, <1>2 DEF Init, CallInv, CountInv, FdsInv, Good
<1>5. HandleInv
  BY <1>1, <1>2 DEF Init, HandleInv, SlotInv, QueueInv, DoneInv, KeptInv, StepInv
<1> QED
  BY <1>3, <1>4, <1>5 DEF IInv

LEMMA RecorderKeepsIt ==
  ASSUME IInv, NEW t \in Topics, Recorder(t) \/ Rotate(t)
  PROVE  IInv'
<1>1. /\ UNCHANGED <<published, subs, queue, vectorVars, read_file, data, fds, callVars, history>>
      /\ written' \in [Topics -> Nat] /\ cuts' \in [Topics -> Seq(Nat)]
      /\ tmp' \in [Topics -> {"none", "empty", "ok"}]
  <2>1. TypeOK
    BY DEF IInv
  <2>2. CASE CreateTmp(t)
    BY <2>1, <2>2 DEF CreateTmp, TypeOK
  <2>3. CASE WriteHead(t)
    BY <2>1, <2>3 DEF WriteHead, TypeOK
  <2>4. CASE Write(t)
    BY <2>1, <2>4 DEF Write, TypeOK
  <2>5. CASE Rotate(t)
    BY <2>1, <2>5 DEF Rotate, TypeOK
  <2> QED
    BY <2>2, <2>3, <2>4, <2>5 DEF Recorder
<1>2. TypeOK'
  <2>1. TypeOK
    BY DEF IInv
  <2> QED
    BY <1>1, <2>1 DEF TypeOK, vectorVars, callVars, history
<1>3. CallInv' /\ CountInv' /\ FdsInv' /\ Good' = Good
  BY <1>1 DEF IInv, CallInv, CountInv, FdsInv, Good, vectorVars, callVars, history
<1>4. HandleInv => HandleInv'
  BY <1>1 DEF HandleInv, SlotInv, QueueInv, DoneInv, KeptInv, StepInv, After, vectorVars, callVars
<1> QED
  BY <1>2, <1>3, <1>4 DEF IInv

(* A message is appended to the queue. *)
LEMMA PublishKeepsIt ==
  ASSUME IInv, NEW t \in Topics, Publish(t)
  PROVE  IInv'
<1> DEFINE m == [topic |-> t, seq |-> published[t] + 1]
<1>1. TypeOK
  BY DEF IInv
<1>2. /\ UNCHANGED <<written, cuts, tmp, subs, vectorVars, read_file, data, fds, callVars,
                    got, miscounted, twice, leaked>>
      /\ published' = [published EXCEPT ![t] = @ + 1]
  BY DEF Publish
<1>3. /\ published' \in [Topics -> Nat]
      /\ \A u \in Topics : published[u] \in Nat /\ published'[u] >= published[u]
      /\ published'[t] = published[t] + 1
  BY <1>1, <1>2 DEF TypeOK
<1>4. m \in Msg
  BY <1>3 DEF Msg
<1>5. queue \in Seq(Msg) /\ Len(queue) \in Nat
  BY <1>1, LenProperties DEF TypeOK
<1>6. /\ queue' \in Seq(Msg)
      /\ \/ queue' = queue
         \/ /\ subs[t] > 0 /\ Len(queue') = Len(queue) + 1 /\ queue'[Len(queue) + 1] = m
            /\ \A k \in 1 .. Len(queue) : queue'[k] = queue[k]
  <2>1. CASE queue' = queue
    BY <1>5, <2>1
  <2>2. CASE subs[t] > 0 /\ queue' = Append(queue, m)
    <3> HIDE DEF m
    <3> QED
      BY <1>4, <1>5, <2>2, AppendProperties
  <2> QED
    BY <2>1, <2>2 DEF Publish
<1>7. \A k \in 1 .. Len(queue) : queue[k] \in Msg /\ queue[k].topic \in Topics /\ queue[k].seq \in Nat
  <2>1. \A k \in 1 .. Len(queue) : queue[k] \in Msg
    BY <1>5, ElementOfSeq
  <2> QED
    BY <2>1 DEF Msg
<1>8. TypeOK'
  <2>1. arrived' \in [Topics -> Nat]
    BY <1>1, <1>3 DEF Publish, TypeOK
  <2> HIDE DEF m
  <2> QED
    BY <1>1, <1>2, <1>3, <1>6, <2>1 DEF TypeOK, vectorVars, callVars
<1>9. CallInv' /\ CountInv' /\ FdsInv' /\ Good' = Good
  BY <1>2 DEF IInv, CallInv, CountInv, FdsInv, Good, vectorVars, callVars
<1>10. ASSUME HandleInv
       PROVE  HandleInv'
  <2>1. SlotInv' /\ StepInv'
    BY <1>2, <1>10 DEF HandleInv, SlotInv, StepInv, vectorVars, callVars
  <2>2. QueueInv
    BY <1>10 DEF HandleInv
  <2>3. \A k \in 1 .. Len(queue') :
          \/ k \in 1 .. Len(queue) /\ queue'[k] = queue[k]
          \/ k = Len(queue) + 1 /\ queue'[k] = m /\ subs[t] > 0
    <3> HIDE DEF m
    <3> QED
      BY <1>5, <1>6
  <2>4. m.topic = t /\ m.seq = published[t] + 1
    OBVIOUS
  <2> HIDE DEF m
  <2>5. \A k \in 1 .. Len(queue') :
          /\ subs[queue'[k].topic] > 0
          /\ queue'[k].seq > 0 /\ queue'[k].seq <= published'[queue'[k].topic]
    <3> SUFFICES ASSUME NEW k \in 1 .. Len(queue')
                 PROVE  /\ subs[queue'[k].topic] > 0
                        /\ queue'[k].seq > 0 /\ queue'[k].seq <= published'[queue'[k].topic]
      OBVIOUS
    <3>1. CASE k \in 1 .. Len(queue) /\ queue'[k] = queue[k]
      BY <1>3, <1>7, <2>2, <3>1 DEF QueueInv
    <3>2. CASE k = Len(queue) + 1 /\ queue'[k] = m /\ subs[t] > 0
      BY <1>3, <2>4, <3>2
    <3> QED
      BY <2>3, <3>1, <3>2
  <2>6. ASSUME NEW j \in 1 .. Len(queue'), NEW k \in 1 .. Len(queue'),
               j < k, queue'[j].topic = queue'[k].topic
        PROVE  queue'[j].seq < queue'[k].seq
    <3>1. j \in 1 .. Len(queue) /\ queue'[j] = queue[j]
      BY <1>5, <1>6, <2>3, <2>6
    <3>2. CASE k \in 1 .. Len(queue) /\ queue'[k] = queue[k]
      BY <2>2, <2>6, <3>1, <3>2 DEF QueueInv
    <3>3. CASE k = Len(queue) + 1 /\ queue'[k] = m
      BY <1>3, <1>7, <2>2, <2>4, <2>6, <3>1, <3>3 DEF QueueInv
    <3> QED
      BY <2>3, <3>2, <3>3
  <2>7. QueueInv'
    BY <1>2, <2>5, <2>6 DEF QueueInv
  <2>8. ASSUME NEW u \in Topics, NEW n \in Nat, n <= published[u], After(queue, u, n)
        PROVE  After(queue', u, n) /\ n <= published'[u]
    <3>1. n <= published'[u]
      BY <1>3, <2>8
    <3>2. ASSUME NEW k \in 1 .. Len(queue'), queue'[k].topic = u
          PROVE  queue'[k].seq > n
      <4>1. CASE k \in 1 .. Len(queue) /\ queue'[k] = queue[k]
        BY <2>8, <3>2, <4>1 DEF After
      <4>2. CASE k = Len(queue) + 1 /\ queue'[k] = m
        BY <1>3, <2>4, <2>8, <3>2, <4>2
      <4> QED
        BY <2>3, <4>1, <4>2
    <3> QED
      BY <3>1, <3>2 DEF After
  <2>9. DoneInv'
    <3> SUFFICES ASSUME NEW i \in 1 .. Len(vector), vector[i] \in Unfinished
                 PROVE  /\ vector[i].dseq <= published'[vector[i].topic]
                        /\ After(queue', vector[i].topic, vector[i].dseq)
      BY <1>2 DEF DoneInv, After, vectorVars
    <3>1. vector[i].topic \in Topics /\ vector[i].dseq \in Nat
      BY BlankSlot DEF Unfinished, Slot
    <3>2. vector[i].dseq <= published[vector[i].topic] /\ After(queue, vector[i].topic, vector[i].dseq)
      BY <1>10 DEF HandleInv, DoneInv
    <3>3. /\ After(queue', vector[i].topic, vector[i].dseq)
          /\ vector[i].dseq <= published'[vector[i].topic]
      <4> DEFINE u == vector[i].topic
                 n == vector[i].dseq
      <4>1. u \in Topics /\ n \in Nat /\ n <= published[u] /\ After(queue, u, n)
        BY <3>1, <3>2
      <4>2. UNCHANGED vector
        BY <1>2 DEF vectorVars
      <4> QED
        BY <1>2, <2>8, <4>1, <4>2 DEF After
    <3> QED
      BY <3>3
  <2>10. KeptInv'
    <3> SUFFICES ASSUME read_file > 0
                 PROVE  /\ read_file \in 1 .. Len(vector) /\ vector[read_file] \in Unfinished
                        /\ data.topic = vector[read_file].topic
                        /\ vector[read_file].dseq < data.seq /\ data.seq <= published'[data.topic]
                        /\ After(queue', data.topic, data.seq)
      BY <1>2 DEF KeptInv, After, vectorVars
    <3>1. /\ read_file \in 1 .. Len(vector) /\ vector[read_file] \in Unfinished
          /\ data.topic = vector[read_file].topic
          /\ vector[read_file].dseq < data.seq /\ data.seq <= published[data.topic]
          /\ After(queue, data.topic, data.seq)
      BY <1>10 DEF HandleInv, KeptInv
    <3>2. data.topic \in Topics /\ data.seq \in Nat
      <4>1. data \in Msg \/ data = NoMsg
        BY <1>1 DEF TypeOK
      <4>2. vector[read_file].topic # NoTopic
        BY <3>1 DEF Unfinished
      <4> QED
        BY <3>1, <4>1, <4>2 DEF Msg, NoMsg
    <3>3. After(queue', data.topic, data.seq) /\ data.seq <= published'[data.topic]
      BY <1>2, <2>8, <3>1, <3>2 DEF After
    <3> QED
      BY <3>1, <3>3
  <2> QED
    BY <2>1, <2>7, <2>9, <2>10 DEF HandleInv
<1> QED
  BY <1>8, <1>9, <1>10 DEF IInv

-----------------------------------------------------------------------------
(* mds_fsub_req, mds_fsub_cancel, mds_fsub_close.                          *)

LEMMA ReopenKeepsIt ==
  ASSUME IInv, Reopen
  PROVE  IInv'
<1>1. /\ <<>> \in Seq(Slot) /\ <<>> \in Seq(Msg) /\ Len(<<>>) = 0
      /\ 1 .. Len(<<>>) = {}
  BY EmptySeq
<1>2. \A S : Count(<<>>, S) = 0
  <2>1. \A S : Where(<<>>, S) = {}
    BY <1>1 DEF Where
  <2> QED
    BY <2>1, FS_EmptySet DEF Count
<1>3. /\ queue' = <<>> /\ vector' = <<>> /\ vec_size' = 0 /\ subs' = [t \in Topics |-> 0]
      /\ read_file' = 0 /\ nr_incompleted' = 0 /\ miscounted' = 0
      /\ pc' = "idle" /\ leaked' = leaked
  BY DEF Reopen, Answer
<1>7. fds' = leaked /\ leaked \in Nat
  <2>1. Good /\ TypeOK /\ FdsInv /\ SlotInv /\ vector \in Seq(Slot)
    BY DEF IInv, HandleInv, Reopen, Good, TypeOK
  <2>2. HasFile = Where(vector, Holding)
    <3>1. Used = {i \in 1 .. Len(vector) : vector[i].topic # NoTopic}
      BY <2>1, LenProperties DEF Used, UsedIn
    <3>2. \A i \in 1 .. Len(vector) : vector[i].file # NoFile => vector[i].topic # NoTopic
      BY <2>1 DEF SlotInv, Unfinished
    <3>3. \A i \in 1 .. Len(vector) : vector[i] \in Slot
      BY <2>1, ElementOfSeq
    <3> QED
      BY <3>1, <3>2, <3>3 DEF HasFile, Where, Holding
  <2>3. fds' = fds - Count(vector, Holding)
    BY <2>2 DEF Reopen, Count
  <2>4. Count(vector, Holding) \in Nat /\ leaked \in Nat
    BY <2>1, CountType DEF TypeOK
  <2> QED
    BY <2>1, <2>3, <2>4 DEF FdsInv
<1>4. TypeOK'
  BY <1>1, <1>7 DEF IInv, Reopen, Answer, TypeOK, recorderVars
<1>5. CallInv' /\ CountInv' /\ FdsInv'
  BY <1>1, <1>2, <1>3, <1>7 DEF CallInv, CountInv, FdsInv, Good
<1>6. HandleInv'
  BY <1>1, <1>2, <1>3 DEF HandleInv, SlotInv, QueueInv, DoneInv, KeptInv, StepInv
<1> QED
  BY <1>4, <1>5, <1>6 DEF IInv

(* The vector without a slot of t, and what is counted of it.              *)
Removal(v, size, t) ==
  /\ vector' \in Seq(Slot) /\ vec_size' = size /\ Len(vector') <= size
  /\ nr_incompleted' \in Int /\ miscounted' \in Nat /\ fds' \in Nat /\ read_file' \in Nat
  /\ CountInv' /\ fds' = Count(vector', Holding) + leaked'
  /\ \A u \in Topics :
       Count(vector', Of(u)) = IF u = t THEN Count(v, Of(u)) - 1 ELSE Count(v, Of(u))
  /\ Len(vector') = size =>
       /\ vector'[FirstSlot(v, t)] = NoSlot
       /\ \A i \in 1 .. Len(v) : i # FirstSlot(v, t) => vector'[i] = v[i]
  /\ FirstSlot(v, t) \in 1 .. Len(v) /\ v[FirstSlot(v, t)].topic = t

(* What subinfo_remove does to the parts of the invariant, v being the     *)
(* vector it works on.                                                     *)
LEMMA RemovalKeepsIt ==
  ASSUME TypeOK, NEW v \in Seq(Slot), NEW size \in Nat, Len(v) = size, NEW n \in Int,
         NEW t \in Topics, \E i \in 1 .. Len(v) : v[i].topic = t,
         RemoveFrom(v, size, n, t),
         n = Count(v, Unfinished) - miscounted,
         fds = Count(v, Holding) + leaked, leaked' = leaked,
         \A i \in 1 .. Len(v) : v[i].topic = NoTopic => v[i] = NoSlot,
         \A i \in 1 .. Len(v) : v[i].file # NoFile => v[i] \in Unfinished
  PROVE  Removal(v, size, t)
<1> DEFINE i == FirstSlot(v, t)
           s == v[i]
<1>1. /\ i \in 1 .. Len(v) /\ s.topic = t /\ s \in Slot
      /\ vec_size' = size /\ vector' \in Seq(Slot) /\ Len(vector') <= size
      /\ Len(vector') = size => vector' = Freed(v, t)
      /\ \A S : Busy(v, S) => Count(vector', S) = Count(v, S) - OneOrNone(s, S)
  BY RemovedFrom, ElementOfSeq
<1>2. /\ nr_incompleted' = n - 1
      /\ miscounted' = IF s.fseq = -1 THEN miscounted + 1 ELSE miscounted
      /\ fds' = fds - ClosedWith(s)
      /\ read_file' = ReadFileAfter(t)
  BY DEF RemoveFrom
<1> HIDE DEF i, s
<1>3. \A k \in 1 .. Len(v) : v[k] \in Slot /\ (v[k].topic = NoTopic => v[k] = NoSlot)
  BY ElementOfSeq
<1>4. Busy(v, Unfinished) /\ Busy(v, Holding) /\ \A u \in Topics : Busy(v, Of(u))
  BY <1>3, BlankSlot DEF Busy, Unfinished, Holding, Of
<1>5. t # NoTopic
  BY BlankSlot
<1>6. OneOrNone(s, Unfinished) = IF s.fseq = -1 THEN 0 ELSE 1
  BY <1>1, <1>5 DEF OneOrNone, Unfinished
<1>7. ClosedWith(s) = OneOrNone(s, Holding)
  BY <1>1 DEF OneOrNone, Holding, ClosedWith
<1>8. \A u \in Topics : OneOrNone(s, Of(u)) = IF u = t THEN 1 ELSE 0
  BY <1>1 DEF OneOrNone, Of
<1>9. miscounted \in Nat /\ read_file \in Nat /\ leaked \in Nat
  BY DEF TypeOK
<1>10. \A S : Count(v, S) \in Nat /\ Count(vector', S) \in Nat
  BY <1>1, CountType
<1>11. CountInv' /\ nr_incompleted' \in Int /\ miscounted' \in Nat
  <2>1. Count(vector', Unfinished) = Count(v, Unfinished) - OneOrNone(s, Unfinished)
    BY <1>1, <1>4
  <2> QED
    BY <1>2, <1>6, <1>9, <1>10, <2>1 DEF CountInv
<1>12. fds' = Count(vector', Holding) + leaked' /\ fds' \in Nat
  <2>1. Count(vector', Holding) = Count(v, Holding) - OneOrNone(s, Holding)
    BY <1>1, <1>4
  <2>2. OneOrNone(s, Holding) \in {0, 1} /\ Count(v, Holding) \in Nat
        /\ Count(vector', Holding) \in Nat
    BY <1>10 DEF OneOrNone
  <2>3. fds' = (Count(v, Holding) + leaked) - OneOrNone(s, Holding)
    BY <1>2, <1>7
  <2> QED
    BY <1>9, <2>1, <2>2, <2>3
<1>13. \A u \in Topics :
         Count(vector', Of(u)) = IF u = t THEN Count(v, Of(u)) - 1 ELSE Count(v, Of(u))
  <2>1. \A u \in Topics : Count(vector', Of(u)) = Count(v, Of(u)) - OneOrNone(s, Of(u))
    BY <1>1, <1>4
  <2> QED
    BY <1>8, <1>10, <2>1
<1>14. read_file' \in Nat
  BY <1>2, <1>9 DEF ReadFileAfter
<1>15. Len(vector') = size =>
         /\ vector'[i] = NoSlot
         /\ \A k \in 1 .. Len(v) : k # i => vector'[k] = v[k]
  BY <1>1, BlankSlot, ExceptSeq DEF Freed, i
<1> QED
  BY <1>1, <1>11, <1>12, <1>13, <1>14, <1>15 DEF i, s, Removal

(* mds_sub_cancel leaves the messages of other topics, in their order.     *)
LEMMA DrainedQueue ==
  ASSUME queue \in Seq(Msg), NEW t \in Topics
  PROVE  /\ Drained(t) \in Seq(Msg)
         /\ \A k \in 1 .. Len(Drained(t)) :
              Drained(t)[k].topic # t /\ \E i \in 1 .. Len(queue) : queue[i] = Drained(t)[k]
         /\ \A j, k \in 1 .. Len(Drained(t)) : j < k =>
              \E a, b \in 1 .. Len(queue) :
                a < b /\ queue[a] = Drained(t)[j] /\ queue[b] = Drained(t)[k]
         /\ \A i \in 1 .. Len(queue) : queue[i].topic # t =>
              \E k \in 1 .. Len(Drained(t)) : Drained(t)[k] = queue[i]
<1> DEFINE S == {m \in Msg : m.topic # t}
           r == Drained(t)
<1>1. r = Selected(queue, S)
  BY DEF Drained
<1> HIDE DEF r, S
<1>2. r \in Seq(Msg \cap S)
  BY <1>1, SelectedType
<1>3. r \in Seq(Msg) /\ \A k \in 1 .. Len(r) : r[k] \in Msg \cap S
  <2>1. Msg \cap S \subseteq Msg
    OBVIOUS
  <2> QED
    BY <1>2, <2>1, SeqMonotonic, ElementOfSeq
<1>4. PICK h : Picks(h, queue, r, S)
  BY <1>1, SelectedPicks
<1>5. \A k \in 1 .. Len(r) : r[k].topic # t
  BY <1>3 DEF S
<1>6. /\ \A k \in 1 .. Len(r) : h[k] \in 1 .. Len(queue) /\ r[k] = queue[h[k]]
      /\ \A j, k \in 1 .. Len(r) : j < k => h[j] < h[k]
      /\ \A i \in 1 .. Len(queue) : queue[i] \in S <=> \E k \in 1 .. Len(r) : h[k] = i
  BY <1>4 DEF Picks
<1>7. \A i \in 1 .. Len(queue) : queue[i].topic # t => queue[i] \in S
  BY ElementOfSeq DEF S
<1>8. \A i \in 1 .. Len(queue) : queue[i].topic # t => \E k \in 1 .. Len(r) : r[k] = queue[i]
  BY <1>6, <1>7
<1>9. \A j, k \in 1 .. Len(r) : j < k =>
        \E a, b \in 1 .. Len(queue) : a < b /\ queue[a] = r[j] /\ queue[b] = r[k]
  BY <1>6
<1>10. \A k \in 1 .. Len(r) : \E i \in 1 .. Len(queue) : queue[i] = r[k]
  BY <1>6
<1> QED
  BY <1>3, <1>5, <1>8, <1>9, <1>10 DEF r

(* A call that changes nothing of the handle returns.                      *)
LEMMA AnswerKeepsIt ==
  ASSUME IInv, out.rc # "EPROTO", pc' = "idle", TypeOK',
         UNCHANGED <<published, subs, queue, vectorVars, read_file, data, fds, miscounted, leaked>>
  PROVE  IInv'
<1>1. Good' = Good /\ CallInv' /\ CountInv' /\ FdsInv'
  BY DEF IInv, CallInv, CountInv, FdsInv, Good, vectorVars
<1>2. HandleInv => HandleInv'
  BY DEF HandleInv, SlotInv, QueueInv, DoneInv, KeptInv, StepInv, After, vectorVars
<1> QED
  BY <1>1, <1>2 DEF IInv

LEMMA CancelKeepsIt ==
  ASSUME IInv, NEW t \in Topics, Cancel(t)
  PROVE  IInv'
<1>1. TypeOK /\ pc = "idle" /\ out.rc # "EPROTO" /\ Good /\ HandleInv
  BY DEF IInv, Cancel, MayCall, Good
<1>2. /\ UNCHANGED <<published, written, cuts, tmp, data, to, left>>
      /\ NoMsg \in {NoMsg}
  BY DEF Cancel, recorderVars
<1>3. CASE Answer("EZMQ") /\ UNCHANGED <<subs, queue, vectorVars, read_file, fds, history>>
  <2>1. TypeOK'
    BY <1>1, <1>2, <1>3 DEF TypeOK, Answer, vectorVars, history
  <2> QED
    BY <1>1, <1>2, <1>3, <2>1, AnswerKeepsIt DEF Answer, history
<1>4. CASE /\ subs' = [subs EXCEPT ![t] = Unsubscribed(t)]
           /\ queue' = Drained(t)
           /\ IF SlotsOf(t) = {}
              THEN Answer("ENOENT") /\ UNCHANGED <<vectorVars, read_file, fds, history>>
              ELSE /\ RemoveFrom(vector, vec_size, nr_incompleted, t)
                   /\ got' = [got EXCEPT ![t] = IF subs[t] = 1 THEN 0 ELSE @]
                   /\ arrived' = [arrived EXCEPT ![t] = IF subs[t] = 1 THEN 0 ELSE @]
                   /\ Answer("ok")
                   /\ UNCHANGED <<twice, leaked>>
  <2>1. /\ vector \in Seq(Slot) /\ vec_size \in Nat /\ queue \in Seq(Msg)
        /\ Len(vector) \in Nat /\ Len(vector) = vec_size
        /\ \A i \in 1 .. Len(vector) : vector[i] \in Slot
    BY <1>1, LenProperties, ElementOfSeq DEF TypeOK, IInv, CallInv, Good
  <2>2. fds = Count(vector, Holding) + leaked /\ nr_incompleted = Count(vector, Unfinished) - miscounted
    BY <1>1 DEF IInv, FdsInv, CountInv
  <2>3. /\ \A u \in Topics : subs[u] \in Nat /\ subs[u] = Count(vector, Of(u))
        /\ \A i \in 1 .. Len(vector) : vector[i].topic = NoTopic => vector[i] = NoSlot
        /\ \A i \in 1 .. Len(vector) : vector[i].file # NoFile => vector[i] \in Unfinished
    BY <1>1 DEF TypeOK, HandleInv, SlotInv
  <2>4. /\ SlotsOf(t) = Where(vector, Of(t))
        /\ subs[t] > 0 <=> SlotsOf(t) # {}
    <3>1. SlotsOf(t) = Where(vector, Of(t))
      BY <2>1, SetsOfSlots DEF SlotsOf, Used
    <3>2. subs[t] > 0 <=> \E i \in 1 .. Len(vector) : vector[i] \in Of(t)
      BY <2>1, <2>3, CountSome
    <3> QED
      BY <3>1, <3>2 DEF Where
  <2>5. /\ queue' \in Seq(Msg)
        /\ \A k \in 1 .. Len(queue') :
             queue'[k].topic # t /\ \E i \in 1 .. Len(queue) : queue[i] = queue'[k]
        /\ \A j, k \in 1 .. Len(queue') : j < k =>
             \E a, b \in 1 .. Len(queue) : a < b /\ queue[a] = queue'[j] /\ queue[b] = queue'[k]
    <3> DEFINE r == Drained(t)
    <3>1. /\ r \in Seq(Msg)
          /\ \A k \in 1 .. Len(r) : r[k].topic # t /\ \E i \in 1 .. Len(queue) : queue[i] = r[k]
          /\ \A j, k \in 1 .. Len(r) : j < k =>
               \E a, b \in 1 .. Len(queue) : a < b /\ queue[a] = r[j] /\ queue[b] = r[k]
      BY <2>1, DrainedQueue
    <3>2. queue' = r
      BY <1>4
    <3> HIDE DEF r
    <3> QED
      BY <3>1, <3>2
  <2>6. \A k \in 1 .. Len(queue') : queue'[k].topic \in Topics /\ queue'[k].seq \in Nat
    <3>1. \A k \in 1 .. Len(queue') : queue'[k] \in Msg
      BY <2>5, ElementOfSeq
    <3> QED
      BY <3>1 DEF Msg
  <2>7. subs' \in [Topics -> Nat] /\ \A u \in Topics : u # t => subs'[u] = subs[u]
    BY <1>1, <1>4 DEF TypeOK, Unsubscribed
  <2>8. QueueInv'
    <3>1. QueueInv
      BY <1>1 DEF HandleInv
    <3>2. \A k \in 1 .. Len(queue') :
            /\ subs'[queue'[k].topic] > 0
            /\ queue'[k].seq > 0 /\ queue'[k].seq <= published[queue'[k].topic]
      <4> TAKE k \in 1 .. Len(queue')
      <4>1. PICK i \in 1 .. Len(queue) : queue[i] = queue'[k]
        BY <2>5
      <4>2. queue'[k].topic # t /\ queue'[k].topic \in Topics
        BY <2>5, <2>6
      <4>3. /\ subs[queue[i].topic] > 0
            /\ queue[i].seq > 0 /\ queue[i].seq <= published[queue[i].topic]
        BY <3>1 DEF QueueInv
      <4> QED
        BY <2>7, <4>1, <4>2, <4>3
    <3>3. \A j, k \in 1 .. Len(queue') :
            j < k /\ queue'[j].topic = queue'[k].topic => queue'[j].seq < queue'[k].seq
      <4> TAKE j, k \in 1 .. Len(queue')
      <4> HAVE j < k /\ queue'[j].topic = queue'[k].topic
      <4>1. PICK a, b \in 1 .. Len(queue) : a < b /\ queue[a] = queue'[j] /\ queue[b] = queue'[k]
        BY <2>5
      <4> QED
        BY <3>1, <4>1 DEF QueueInv
    <3> QED
      BY <1>2, <3>2, <3>3 DEF QueueInv
  <2>9. \A u, n : After(queue, u, n) => After(queue', u, n)
    BY <2>5 DEF After
  <2>10. CASE SlotsOf(t) = {}
    <3>1. /\ UNCHANGED <<vectorVars, read_file, fds, history>> /\ Answer("ENOENT")
          /\ UNCHANGED subs
      <4>1. Unsubscribed(t) = subs[t]
        BY <2>3, <2>4, <2>10 DEF Unsubscribed
      <4> QED
        BY <1>1, <1>4, <2>10, <4>1 DEF TypeOK
    <3>2. TypeOK'
      BY <1>1, <1>2, <2>5, <3>1 DEF TypeOK, Answer, vectorVars, history
    <3>3. CallInv' /\ CountInv' /\ FdsInv'
      BY <1>1, <3>1 DEF IInv, CallInv, CountInv, FdsInv, Good, Answer, vectorVars, history
    <3>4. SlotInv' /\ StepInv'
      BY <1>1, <3>1 DEF HandleInv, SlotInv, StepInv, Answer, vectorVars
    <3>5. DoneInv'
      BY <1>1, <1>2, <2>9, <3>1 DEF HandleInv, DoneInv, vectorVars
    <3>6. KeptInv'
      BY <1>1, <1>2, <2>9, <3>1 DEF HandleInv, KeptInv, vectorVars
    <3> QED
      BY <2>8, <3>2, <3>3, <3>4, <3>5, <3>6 DEF IInv, HandleInv
  <2>11. CASE SlotsOf(t) # {}
    <3>1. /\ RemoveFrom(vector, vec_size, nr_incompleted, t)
          /\ got' = [got EXCEPT ![t] = IF subs[t] = 1 THEN 0 ELSE @]
          /\ arrived' = [arrived EXCEPT ![t] = IF subs[t] = 1 THEN 0 ELSE @]
          /\ Answer("ok") /\ UNCHANGED <<twice, leaked>>
          /\ subs'[t] = subs[t] - 1
      BY <1>1, <1>4, <2>4, <2>11 DEF TypeOK, Unsubscribed
    <3>2. \E i \in 1 .. Len(vector) : vector[i].topic = t
      BY <2>4, <2>11 DEF Where, Of
    <3> DEFINE i == FirstSlot(vector, t)
    <3>3. /\ vector' \in Seq(Slot) /\ vec_size' = vec_size /\ Len(vector') <= vec_size
          /\ nr_incompleted' \in Int /\ miscounted' \in Nat /\ fds' \in Nat /\ read_file' \in Nat
          /\ CountInv' /\ fds' = Count(vector', Holding) + leaked'
          /\ \A u \in Topics : Count(vector', Of(u)) =
               IF u = t THEN Count(vector, Of(u)) - 1 ELSE Count(vector, Of(u))
          /\ Len(vector') = vec_size =>
               /\ vector'[i] = NoSlot
               /\ \A k \in 1 .. Len(vector) : k # i => vector'[k] = vector[k]
          /\ i \in 1 .. Len(vector) /\ vector[i].topic = t
      <4>1. nr_incompleted \in Int
        BY <1>1 DEF TypeOK
      <4>2. Removal(vector, vec_size, t)
        BY <1>1, <2>1, <2>2, <2>3, <3>1, <3>2, <4>1, RemovalKeepsIt
      <4> QED
        BY <4>2 DEF Removal
    <3> HIDE DEF i
    <3>4. TypeOK'
      <4>1. got' \in [Topics -> Nat] /\ arrived' \in [Topics -> Nat]
        BY <1>1, <3>1 DEF TypeOK
      <4> QED
        BY <1>1, <1>2, <2>5, <2>7, <3>1, <3>3, <4>1 DEF TypeOK, Answer
    <3>5. CallInv' /\ FdsInv'
      BY <3>1, <3>3 DEF CallInv, FdsInv, Answer
    <3>6. ASSUME Good'
          PROVE  HandleInv'
      <4>1. /\ Len(vector') = Len(vector) /\ vector'[i] = NoSlot
            /\ \A k \in 1 .. Len(vector) : k # i => vector'[k] = vector[k]
        BY <2>1, <3>3, <3>6, LenProperties DEF Good
      <4>2. /\ NoSlot.topic = NoTopic /\ NoSlot.file = NoFile /\ NoSlot \notin Unfinished
        BY BlankSlot
      <4>3. SlotInv'
        <5>1. \A u \in Topics : subs'[u] = Count(vector', Of(u))
          BY <2>3, <2>7, <3>1, <3>3
        <5>2. \A k \in 1 .. Len(vector') :
                /\ vector'[k].topic = NoTopic => vector'[k] = NoSlot
                /\ vector'[k].file # NoFile => vector'[k] \in Unfinished
          BY <2>3, <4>1, <4>2
        <5> QED
          BY <5>1, <5>2 DEF SlotInv
      <4>4. DoneInv'
        <5>1. ASSUME NEW k \in 1 .. Len(vector), vector'[k] \in Unfinished
              PROVE  /\ vector'[k].dseq <= published[vector'[k].topic]
                     /\ After(queue', vector'[k].topic, vector'[k].dseq)
          <6>1. vector'[k] = vector[k]
            BY <4>1, <4>2, <5>1
          <6>2. /\ vector[k].dseq <= published[vector[k].topic]
                /\ After(queue, vector[k].topic, vector[k].dseq)
            BY <1>1, <5>1, <6>1 DEF HandleInv, DoneInv
          <6> QED
            BY <2>9, <6>1, <6>2
        <5> QED
          BY <1>2, <4>1, <5>1 DEF DoneInv
      <4>5. KeptInv'
        <5> SUFFICES ASSUME read_file' > 0
                     PROVE  KeptInv'
          BY DEF KeptInv
        <5>1. read_file' = read_file /\ data.topic # t
          BY <3>1 DEF RemoveFrom, ReadFileAfter
        <5>2. /\ read_file \in 1 .. Len(vector) /\ vector[read_file] \in Unfinished
              /\ data.topic = vector[read_file].topic
              /\ vector[read_file].dseq < data.seq /\ data.seq <= published[data.topic]
              /\ After(queue, data.topic, data.seq)
          BY <1>1, <5>1 DEF HandleInv, KeptInv
        <5>3. vector'[read_file] = vector[read_file]
          BY <3>3, <4>1, <5>1, <5>2
        <5>4. After(queue', data.topic, data.seq)
          BY <2>9, <5>2
        <5> QED
          BY <1>2, <4>1, <5>1, <5>2, <5>3, <5>4 DEF KeptInv
      <4>6. StepInv'
        BY <3>1 DEF StepInv, Answer
      <4> QED
        BY <2>8, <4>3, <4>4, <4>5, <4>6 DEF HandleInv
    <3> QED
      BY <3>3, <3>4, <3>5, <3>6 DEF IInv
  <2> QED
    BY <2>10, <2>11
<1> QED
  BY <1>3, <1>4 DEF Cancel

(* Slots that are as they were, blank or new keep HandleInv.               *)
LEMMA OldAndNewSlots ==
  ASSUME TypeOK, HandleInv, NEW t \in Topics, vector' \in Seq(Slot),
         NewSlot(t) \in Slot, NewSlot(t).topic = t, NewSlot(t).dseq = 0,
         NewSlot(t).file = NoFile,
         \A k \in 1 .. Len(vector') :
           \/ k \in 1 .. Len(vector) /\ vector'[k] = vector[k]
           \/ vector'[k] = NoSlot
           \/ vector'[k] = NewSlot(t),
         \A u \in Topics : subs'[u] = Count(vector', Of(u)) /\ subs'[u] >= subs[u],
         UNCHANGED <<published, queue, data>>, pc' = "idle",
         \/ read_file' = 0
         \/ /\ read_file' = read_file
            /\ read_file > 0 =>
                 read_file \in 1 .. Len(vector') /\ vector'[read_file] = vector[read_file]
  PROVE  HandleInv'
<1>1. /\ NoSlot.topic = NoTopic /\ NoSlot.file = NoFile /\ NoSlot \notin Unfinished
      /\ NoTopic \notin Topics
  BY BlankSlot
<1>2. SlotInv'
  <2>1. \A k \in 1 .. Len(vector) :
          /\ vector[k].topic = NoTopic => vector[k] = NoSlot
          /\ vector[k].file # NoFile => vector[k] \in Unfinished
    BY DEF HandleInv, SlotInv
  <2>2. ASSUME NEW k \in 1 .. Len(vector')
        PROVE  /\ vector'[k].topic = NoTopic => vector'[k] = NoSlot
               /\ vector'[k].file # NoFile => vector'[k] \in Unfinished
    BY <1>1, <2>1
  <2> QED
    BY <2>2 DEF SlotInv
<1>3. /\ queue \in Seq(Msg) /\ \A k \in 1 .. Len(queue) : queue[k].topic \in Topics
      /\ \A k \in 1 .. Len(queue) : queue[k].seq > 0
  <2>1. queue \in Seq(Msg)
    BY DEF TypeOK
  <2>2. \A k \in 1 .. Len(queue) : queue[k] \in Msg
    BY <2>1, ElementOfSeq
  <2>3. \A k \in 1 .. Len(queue) : queue[k].topic \in Topics
    BY <2>2 DEF Msg
  <2> QED
    BY <2>1, <2>3 DEF HandleInv, QueueInv
<1>4. QueueInv'
  <2>1. subs \in [Topics -> Nat] /\ \A u \in Topics : subs'[u] \in Nat
    <3>1. \A u \in Topics : Count(vector', Of(u)) \in Nat
      BY CountType
    <3> QED
      BY <3>1 DEF TypeOK
  <2>2. \A u \in Topics : subs[u] > 0 => subs'[u] > 0
    BY <2>1
  <2> QED
    BY <1>3, <2>2 DEF HandleInv, QueueInv
<1>5. DoneInv'
  <2>1. ASSUME NEW k \in 1 .. Len(vector'), vector'[k] \in Unfinished
        PROVE  /\ vector'[k].dseq <= published[vector'[k].topic]
               /\ After(queue, vector'[k].topic, vector'[k].dseq)
    <3>1. CASE k \in 1 .. Len(vector) /\ vector'[k] = vector[k]
      BY <2>1, <3>1 DEF HandleInv, DoneInv
    <3>2. CASE vector'[k] = NewSlot(t)
      <4>1. published[t] \in Nat
        BY DEF TypeOK
      <4> QED
        BY <1>3, <3>2, <4>1 DEF After
    <3>3. CASE vector'[k] = NoSlot
      BY <1>1, <2>1, <3>3
    <3> QED
      BY <3>1, <3>2, <3>3
  <2> QED
    BY <2>1 DEF DoneInv
<1>6. KeptInv'
  BY DEF HandleInv, KeptInv
<1>7. StepInv'
  BY DEF StepInv
<1> QED
  BY <1>2, <1>4, <1>5, <1>6, <1>7 DEF HandleInv

LEMMA ReqKeepsIt ==
  ASSUME IInv, NEW t \in Topics, Req(t)
  PROVE  IInv'
<1>1. TypeOK /\ pc = "idle" /\ out.rc # "EPROTO" /\ Good /\ HandleInv
  BY DEF IInv, Req, MayCall, Good
<1>2. /\ UNCHANGED <<published, written, cuts, tmp, queue, data, to, left, arrived, got, leaked>>
  BY DEF Req, recorderVars
<1>20. leaked \in Nat /\ leaked' = leaked
  BY <1>1 DEF Req, TypeOK
<1>3. /\ vector \in Seq(Slot) /\ vec_size \in Nat /\ Len(vector) = vec_size
  BY <1>1, LenProperties DEF TypeOK, IInv, CallInv, Good
<1>4. fds = Count(vector, Holding) + leaked /\ nr_incompleted = Count(vector, Unfinished) - miscounted
  BY <1>1 DEF IInv, FdsInv, CountInv
<1>5. /\ \A u \in Topics : subs[u] \in Nat /\ subs[u] = Count(vector, Of(u))
      /\ \A i \in 1 .. Len(vector) : vector[i].topic = NoTopic => vector[i] = NoSlot
      /\ \A i \in 1 .. Len(vector) : vector[i].file # NoFile => vector[i] \in Unfinished
  BY <1>1 DEF TypeOK, HandleInv, SlotInv
<1>6. read_file > 0 => read_file \in 1 .. Len(vector) /\ vector[read_file] \in Unfinished
  BY <1>1 DEF HandleInv, KeptInv
<1>7. /\ NewSize \in Nat /\ NewSize >= vec_size
      /\ Expanded \in Seq(Slot) /\ Len(Expanded) = NewSize
      /\ \A i \in 1 .. vec_size : Expanded[i] = vector[i]
      /\ \A i \in 1 .. NewSize : i > vec_size => Expanded[i] = NoSlot
  BY <1>3, Expansion
<1>8. /\ NewSlot(t) \in Slot /\ NewSlot(t).topic = t
      /\ NewSlot(t).fseq = 0 /\ NewSlot(t).dseq = 0 /\ NewSlot(t).file = NoFile
  BY <1>3, <1>5, Addition
<1>9. /\ Added(t) \in Seq(Slot) /\ Len(Added(t)) = NewSize
      /\ Place \in 1 .. NewSize /\ Added(t)[Place] = NewSlot(t)
      /\ \A i \in 1 .. NewSize : i # Place =>
           Added(t)[i] = IF i <= vec_size THEN vector[i] ELSE NoSlot
      /\ Place <= vec_size => vector[Place] = NoSlot
      /\ \A S : NoSlot \notin S =>
           Count(Added(t), S) = Count(vector, S) + OneOrNone(NewSlot(t), S)
  BY <1>3, <1>5, Addition
<1>10. /\ NoSlot \notin Unfinished /\ NoSlot \notin Holding /\ t # NoTopic
       /\ \A u \in Topics : NoSlot \notin Of(u)
  BY BlankSlot
<1>11. /\ Count(Added(t), Unfinished) = Count(vector, Unfinished) + 1
       /\ Count(Added(t), Holding) = Count(vector, Holding)
       /\ \A u \in Topics : Count(Added(t), Of(u)) =
            IF u = t THEN Count(vector, Of(u)) + 1 ELSE Count(vector, Of(u))
  <2>1. /\ OneOrNone(NewSlot(t), Unfinished) = 1 /\ OneOrNone(NewSlot(t), Holding) = 0
        /\ \A u \in Topics : OneOrNone(NewSlot(t), Of(u)) = IF u = t THEN 1 ELSE 0
    BY <1>8, <1>10 DEF OneOrNone, Unfinished, Holding, Of
  <2>2. \A S : Count(vector, S) \in Nat
    BY <1>3, CountType
  <2> QED
    BY <1>9, <1>10, <2>1, <2>2
<1>12. CASE /\ Answer("ENOMEM")
            /\ UNCHANGED <<subs, vectorVars, read_file, fds, miscounted, twice>>
  <2>1. TypeOK'
    BY <1>1, <1>2, <1>12 DEF TypeOK, Answer, vectorVars
  <2> QED
    BY <1>1, <1>2, <1>12, <2>1, AnswerKeepsIt DEF Answer
<1>13. CASE /\ Answer("EEXIST")
            /\ vector' = Expanded /\ vec_size' = NewSize
            /\ UNCHANGED <<subs, nr_incompleted, read_file, fds, miscounted, twice>>
  <2>1. vector' \in Seq(Slot) /\ Len(vector') = NewSize
    BY <1>7, <1>13
  <2>2. \A k \in 1 .. Len(vector') :
          \/ k \in 1 .. Len(vector) /\ vector'[k] = vector[k]
          \/ vector'[k] = NoSlot
    BY <1>3, <1>7, <1>13
  <2>3. ASSUME NEW S, NoSlot \notin S
        PROVE  Count(vector', S) = Count(vector, S)
    <3>1. /\ Len(vector) <= Len(vector')
          /\ \A i \in 1 .. Len(vector) : vector'[i] = vector[i]
          /\ \A i \in 1 .. Len(vector') : i > Len(vector) => vector'[i] \notin S
      BY <1>3, <1>7, <1>13, <2>3
    <3> QED
      BY <1>3, <2>1, <3>1, CountSame
  <2>4. TypeOK'
    BY <1>1, <1>2, <1>7, <1>13 DEF TypeOK, Answer
  <2>5. CallInv' /\ CountInv' /\ FdsInv'
    <3>1. Count(vector', Unfinished) = Count(vector, Unfinished)
          /\ Count(vector', Holding) = Count(vector, Holding)
      BY <1>10, <2>3
    <3> QED
      BY <1>4, <1>7, <1>13, <1>20, <2>1, <3>1 DEF CallInv, CountInv, FdsInv, Good, Answer
  <2>6. HandleInv'
    <3>1. \A u \in Topics : subs'[u] = Count(vector', Of(u)) /\ subs'[u] >= subs[u]
      BY <1>5, <1>10, <1>13, <2>3
    <3>2. /\ read_file' = read_file
          /\ read_file > 0 =>
               read_file \in 1 .. Len(vector') /\ vector'[read_file] = vector[read_file]
      BY <1>3, <1>6, <1>7, <1>13
    <3>3. pc' = "idle"
      BY <1>13 DEF Answer
    <3> QED
      BY <1>1, <1>2, <1>8, <2>1, <2>2, <3>1, <3>2, <3>3, OldAndNewSlots
  <2> QED
    BY <2>4, <2>5, <2>6 DEF IInv
<1>14. \A k \in 1 .. NewSize :
         \/ k \in 1 .. Len(vector) /\ Added(t)[k] = vector[k]
         \/ Added(t)[k] = NoSlot
         \/ Added(t)[k] = NewSlot(t)
  BY <1>3, <1>7, <1>9
<1>15. read_file > 0 =>
         read_file \in 1 .. NewSize /\ Added(t)[read_file] = vector[read_file]
  BY <1>3, <1>6, <1>7, <1>9, <1>10
<1>16. twice \subseteq Topics /\ SeenTwice(t) \subseteq Topics
  BY <1>1 DEF TypeOK, SeenTwice
<1>17. CASE /\ vector' = Added(t) /\ vec_size' = NewSize
            /\ nr_incompleted' = nr_incompleted + 1
            /\ subs' = [subs EXCEPT ![t] = @ + 1]
            /\ twice' = SeenTwice(t)
            /\ Answer("ok")
            /\ UNCHANGED <<read_file, fds, miscounted>>
  <2>1. /\ subs' \in [Topics -> Nat]
        /\ \A u \in Topics : subs'[u] = IF u = t THEN subs[u] + 1 ELSE subs[u]
    BY <1>1, <1>17 DEF TypeOK
  <2>2. TypeOK'
    BY <1>1, <1>2, <1>7, <1>9, <1>16, <1>17, <2>1 DEF TypeOK, Answer
  <2>3. CallInv' /\ CountInv' /\ FdsInv'
    <3>1. Count(vector, Unfinished) \in Nat /\ miscounted \in Nat
      BY <1>1, <1>3, CountType DEF TypeOK
    <3> QED
      BY <1>4, <1>7, <1>9, <1>11, <1>17, <1>20, <3>1 DEF CallInv, CountInv, FdsInv, Good, Answer
  <2>4. HandleInv'
    <3>1. \A u \in Topics : subs'[u] = Count(vector', Of(u)) /\ subs'[u] >= subs[u]
      BY <1>5, <1>11, <1>17, <2>1
    <3>2. /\ read_file' = read_file
          /\ read_file > 0 =>
               read_file \in 1 .. Len(vector') /\ vector'[read_file] = vector[read_file]
      BY <1>9, <1>15, <1>17
    <3>3. pc' = "idle" /\ vector' \in Seq(Slot)
      BY <1>9, <1>17 DEF Answer
    <3>4. \A k \in 1 .. Len(vector') :
            \/ k \in 1 .. Len(vector) /\ vector'[k] = vector[k]
            \/ vector'[k] = NoSlot
            \/ vector'[k] = NewSlot(t)
      BY <1>9, <1>14, <1>17
    <3> QED
      BY <1>1, <1>2, <1>8, <3>1, <3>2, <3>3, <3>4, OldAndNewSlots
  <2> QED
    BY <2>2, <2>3, <2>4 DEF IInv
<1>18. CASE /\ RemoveFrom(Added(t), NewSize, nr_incompleted + 1, t)
            /\ twice' = SeenTwice(t)
            /\ Answer("EZMQ")
            /\ UNCHANGED subs
  <2> DEFINE v == Added(t)
             i == FirstSlot(v, t)
             n == nr_incompleted + 1
  <2>1. Removal(v, NewSize, t)
    <3>1. n \in Int /\ n = Count(v, Unfinished) - miscounted /\ fds = Count(v, Holding) + leaked
      <4>1. Count(vector, Unfinished) \in Nat /\ miscounted \in Nat /\ nr_incompleted \in Int
        BY <1>1, <1>3, CountType DEF TypeOK
      <4> QED
        BY <1>4, <1>11, <4>1
    <3>2. \E k \in 1 .. Len(v) : v[k].topic = t
      BY <1>8, <1>9
    <3>3. \A k \in 1 .. Len(v) :
            /\ v[k].topic = NoTopic => v[k] = NoSlot
            /\ v[k].file # NoFile => v[k] \in Unfinished
      <4>1. NoSlot.file = NoFile
        BY BlankSlot
      <4> QED
        BY <1>5, <1>8, <1>9, <1>10, <1>14, <4>1
    <3>4. RemoveFrom(v, NewSize, n, t)
      BY <1>18
    <3>5. v \in Seq(Slot) /\ Len(v) = NewSize /\ NewSize \in Nat
      BY <1>7, <1>9
    <3> HIDE DEF v, n
    <3> QED
      BY <1>1, <1>20, <3>1, <3>2, <3>3, <3>4, <3>5, RemovalKeepsIt
  <2>2. /\ vector' \in Seq(Slot) /\ vec_size' = NewSize /\ Len(vector') <= NewSize
        /\ nr_incompleted' \in Int /\ miscounted' \in Nat /\ fds' \in Nat /\ read_file' \in Nat
        /\ CountInv' /\ fds' = Count(vector', Holding) + leaked'
        /\ \A u \in Topics :
             Count(vector', Of(u)) = IF u = t THEN Count(v, Of(u)) - 1 ELSE Count(v, Of(u))
        /\ Len(vector') = NewSize =>
             /\ vector'[i] = NoSlot
             /\ \A k \in 1 .. Len(v) : k # i => vector'[k] = v[k]
        /\ i \in 1 .. Len(v) /\ v[i].topic = t
    BY <2>1 DEF Removal
  <2> HIDE DEF i
  <2>3. TypeOK'
    BY <1>1, <1>2, <1>7, <1>16, <1>18, <2>2 DEF TypeOK, Answer
  <2>4. CallInv' /\ CountInv' /\ FdsInv'
    BY <1>18, <2>2 DEF CallInv, FdsInv, Answer
  <2>5. ASSUME Good'
        PROVE  HandleInv'
    <3>1. Len(vector') = NewSize
      BY <1>7, <2>2, <2>5, LenProperties DEF Good
    <3>2. \A u \in Topics : subs'[u] = Count(vector', Of(u)) /\ subs'[u] >= subs[u]
      BY <1>5, <1>11, <1>18, <2>2
    <3>3. read_file' = 0 \/ (read_file' = read_file /\ (read_file > 0 => data.topic # t))
      <4>1. read_file \in Nat
        BY <1>1 DEF TypeOK
      <4> QED
        BY <1>18, <4>1 DEF RemoveFrom, ReadFileAfter
    <3>4. ASSUME read_file' = read_file, read_file > 0, data.topic # t
          PROVE  read_file \in 1 .. Len(vector') /\ vector'[read_file] = vector[read_file]
      <4>1. vector[read_file].topic = data.topic
        BY <1>1, <3>4 DEF HandleInv, KeptInv
      <4>2. read_file # i
        BY <1>15, <2>2, <3>4, <4>1
      <4> QED
        BY <1>9, <1>15, <2>2, <3>1, <3>4, <4>2
    <3>5. \/ read_file' = 0
          \/ /\ read_file' = read_file
             /\ read_file > 0 =>
                  read_file \in 1 .. Len(vector') /\ vector'[read_file] = vector[read_file]
      BY <3>3, <3>4
    <3>6. \A k \in 1 .. Len(vector') :
            \/ k \in 1 .. Len(vector) /\ vector'[k] = vector[k]
            \/ vector'[k] = NoSlot
            \/ vector'[k] = NewSlot(t)
      BY <1>9, <1>14, <2>2, <3>1
    <3>7. pc' = "idle" /\ vector' \in Seq(Slot)
      BY <1>18, <2>2 DEF Answer
    <3> QED
      BY <1>1, <1>2, <1>8, <3>2, <3>5, <3>6, <3>7, OldAndNewSlots
  <2> QED
    BY <2>3, <2>4, <2>5 DEF IInv
<1>19. Added(t) = [Expanded EXCEPT ![FirstSlot(Expanded, NoTopic)] = [NoSlot EXCEPT !.topic = t]]
  BY DEF Added, NewSlot
<1> QED
  BY <1>12, <1>13, <1>17, <1>18, <1>19 DEF Req

-----------------------------------------------------------------------------
(* mds_fsub_recv.                                                          *)

(* Only where the call is changes, and what is left of its timeout.        *)
LEMMA CallMovesOn ==
  ASSUME IInv, Good, HandleInv, TypeOK', out.rc # "EPROTO",
         UNCHANGED <<published, subs, queue, vectorVars, read_file, data, fds, miscounted, leaked>>,
         StepInv', pc' # "abort", pc' # "idle" => out'.rc = "none"
  PROVE  IInv'
<1>1. CallInv' /\ CountInv' /\ FdsInv'
  BY DEF IInv, CallInv, CountInv, FdsInv, Good, vectorVars
<1>2. HandleInv'
  BY DEF HandleInv, SlotInv, QueueInv, DoneInv, KeptInv, After, vectorVars
<1> QED
  BY <1>1, <1>2 DEF IInv

LEMMA InCall ==
  ASSUME IInv, pc # "idle"
  PROVE  /\ TypeOK /\ Good /\ HandleInv /\ out.rc = "none"
         /\ vector \in Seq(Slot) /\ vec_size \in Nat /\ Len(vector) = vec_size
         /\ \A i \in 1 .. Len(vector) : vector[i] \in Slot
         /\ queue \in Seq(Msg) /\ Len(queue) \in Nat
         /\ \A k \in 1 .. Len(queue) : /\ queue[k] \in Msg /\ queue[k].topic \in Topics
                                       /\ queue[k].seq \in Nat
         /\ fds = Count(vector, Holding) + leaked
         /\ nr_incompleted = Count(vector, Unfinished) - miscounted
<1>1. TypeOK /\ Good /\ HandleInv /\ out.rc = "none"
  BY DEF IInv, CallInv
<1>2. /\ vector \in Seq(Slot) /\ vec_size \in Nat /\ Len(vector) = vec_size
      /\ \A i \in 1 .. Len(vector) : vector[i] \in Slot
  BY <1>1, LenProperties, ElementOfSeq DEF TypeOK, IInv, CallInv, Good
<1>3. queue \in Seq(Msg) /\ Len(queue) \in Nat /\ \A k \in 1 .. Len(queue) : queue[k] \in Msg
  BY <1>1, LenProperties, ElementOfSeq DEF TypeOK
<1>4. \A k \in 1 .. Len(queue) : queue[k].topic \in Topics /\ queue[k].seq \in Nat
  BY <1>3 DEF Msg
<1>5. fds = Count(vector, Holding) + leaked /\ nr_incompleted = Count(vector, Unfinished) - miscounted
  BY <1>1 DEF IInv, FdsInv, CountInv
<1> QED
  BY <1>1, <1>2, <1>3, <1>4, <1>5

(* The slot that is being completed. *)
LEMMA KeptSlot ==
  ASSUME IInv, pc # "idle", read_file > 0
  PROVE  /\ read_file \in 1 .. Len(vector) /\ vector[read_file] \in Slot
         /\ vector[read_file] \in Unfinished
         /\ data.topic = vector[read_file].topic /\ vector[read_file].topic \in Topics
         /\ vector[read_file].topic # NoTopic
         /\ vector[read_file].fseq \in Nat /\ vector[read_file].dseq \in Nat
         /\ data \in Msg /\ data.seq \in Nat /\ read_file \in Nat
         /\ vector[read_file].dseq < data.seq /\ data.seq <= published[data.topic]
         /\ After(queue, data.topic, data.seq)
<1> DEFINE s == vector[read_file]
<1>1. TypeOK /\ HandleInv
  BY InCall
<1>2. /\ read_file \in 1 .. Len(vector) /\ s \in Unfinished
      /\ data.topic = s.topic
      /\ s.dseq < data.seq /\ data.seq <= published[data.topic]
      /\ After(queue, data.topic, data.seq)
  BY <1>1 DEF HandleInv, KeptInv
<1> HIDE DEF s
<1>3. s \in Slot /\ s.topic # NoTopic /\ s.fseq # -1
  BY <1>2 DEF Unfinished
<1>4. s.topic \in Topics /\ s.fseq \in Nat /\ s.dseq \in Nat
  BY <1>3 DEF Slot
<1>5. data \in Msg
  <2>1. data \in Msg \/ data = NoMsg
    BY <1>1 DEF TypeOK
  <2>2. NoMsg.topic = NoTopic
    BY DEF NoMsg
  <2> QED
    BY <1>2, <1>3, <2>1, <2>2
<1>6. data.seq \in Nat
  BY <1>5 DEF Msg
<1>7. read_file \in Nat
  BY <1>1 DEF TypeOK
<1> QED
  BY <1>2, <1>3, <1>4, <1>5, <1>6, <1>7 DEF s

LEMMA CallRecvKeepsIt ==
  ASSUME IInv, NEW t \in Timeouts, CallRecv(t)
  PROVE  IInv'
<1>1. TypeOK /\ Good /\ HandleInv /\ out.rc # "EPROTO"
  BY DEF IInv, CallRecv, MayCall, Good
<1>2. /\ UNCHANGED <<recorderVars, subs, queue, vectorVars, read_file, data, fds, history>>
      /\ to' = t /\ left' = t /\ out' = [rc |-> "none", msg |-> NoMsg]
      /\ pc' = IF read_file > 0 THEN ReadStep(read_file) ELSE "sub"
  BY DEF CallRecv
<1>3. t \in {"zero", "finite", "infinite"}
  BY MdsFsubAssumption
<1>4. pc' \in {"sub", "open", "read"}
  BY <1>2 DEF ReadStep
<1>5. TypeOK'
  BY <1>1, <1>2, <1>3, <1>4 DEF TypeOK, recorderVars, vectorVars, history
<1>6. StepInv'
  <2>1. read_file \in Nat
    BY <1>1 DEF TypeOK
  <2> QED
    BY <1>2, <2>1 DEF StepInv, ReadStep, vectorVars
<1> QED
  BY <1>1, <1>2, <1>4, <1>5, <1>6, CallMovesOn DEF recorderVars, history

(* One slot is changed, not its topic. *)
LEMMA SlotReplaced ==
  ASSUME NEW v \in Seq(Slot), NEW w \in Seq(Slot), NEW i \in 1 .. Len(v), Len(w) = Len(v),
         \A k \in 1 .. Len(v) : k # i => w[k] = v[k], w[i].topic = v[i].topic
  PROVE  /\ \A S : Count(w, S) = (Count(v, S) - OneOrNone(v[i], S)) + OneOrNone(w[i], S)
         /\ \A S : Count(v, S) \in Nat
         /\ \A t \in Topics : Count(w, Of(t)) = Count(v, Of(t))
<1>1. \A S : Count(w, S) = (Count(v, S) - OneOrNone(v[i], S)) + OneOrNone(w[i], S)
  BY CountReplace
<1>2. \A S : Count(v, S) \in Nat
  BY CountType
<1>3. ASSUME NEW t \in Topics
      PROVE  Count(w, Of(t)) = Count(v, Of(t))
  <2>1. v[i] \in Slot /\ w[i] \in Slot
    BY ElementOfSeq
  <2>2. OneOrNone(v[i], Of(t)) = OneOrNone(w[i], Of(t)) /\ OneOrNone(w[i], Of(t)) \in Nat
    BY <2>1 DEF OneOrNone, Of
  <2>3. Count(w, Of(t)) = (Count(v, Of(t)) - OneOrNone(v[i], Of(t))) + OneOrNone(w[i], Of(t))
    BY <1>1
  <2>4. Count(v, Of(t)) \in Nat
    BY <1>2
  <2> QED
    BY <2>2, <2>3, <2>4
<1> QED
  BY <1>1, <1>2, <1>3

LEMMA SlotChanged ==
  ASSUME vector \in Seq(Slot), NEW i \in 1 .. Len(vector), NEW s \in Slot,
         s.topic = vector[i].topic, vector' = [vector EXCEPT ![i] = s]
  PROVE  /\ vector' \in Seq(Slot) /\ Len(vector') = Len(vector) /\ vector'[i] = s
         /\ \A k \in 1 .. Len(vector) : k # i => vector'[k] = vector[k]
         /\ \A S : Count(vector', S) = (Count(vector, S) - OneOrNone(vector[i], S)) + OneOrNone(s, S)
         /\ \A S : Count(vector, S) \in Nat
         /\ \A t \in Topics : Count(vector', Of(t)) = Count(vector, Of(t))
<1> DEFINE w == vector'
<1>1. /\ w \in Seq(Slot) /\ Len(w) = Len(vector) /\ w[i] = s
      /\ \A k \in 1 .. Len(vector) : k # i => w[k] = vector[k]
  BY ExceptSeq
<1> HIDE DEF w
<1>2. /\ \A S : Count(w, S) = (Count(vector, S) - OneOrNone(vector[i], S)) + OneOrNone(w[i], S)
      /\ \A S : Count(vector, S) \in Nat
      /\ \A t \in Topics : Count(w, Of(t)) = Count(vector, Of(t))
  BY <1>1, SlotReplaced
<1> QED
  BY <1>1, <1>2 DEF w

LEMMA ChangedSlotKeepsIt ==
  ASSUME HandleInv, vector \in Seq(Slot), NEW i \in 1 .. Len(vector), NEW s \in Slot,
         s.topic = vector[i].topic, s.topic # NoTopic, vector' = [vector EXCEPT ![i] = s],
         s.file # NoFile => s \in Unfinished,
         UNCHANGED <<published, subs>>,
         \A u, n : After(queue, u, n) => After(queue', u, n),
         s \in Unfinished => s.dseq <= published[s.topic] /\ After(queue', s.topic, s.dseq)
  PROVE  SlotInv' /\ DoneInv'
<1>1. /\ Len(vector') = Len(vector) /\ vector'[i] = s
      /\ \A k \in 1 .. Len(vector) : k # i => vector'[k] = vector[k]
      /\ \A t \in Topics : Count(vector', Of(t)) = Count(vector, Of(t))
  BY SlotChanged
<1>2. SlotInv'
  BY <1>1 DEF HandleInv, SlotInv
<1>3. DoneInv'
  <2>1. ASSUME NEW k \in 1 .. Len(vector), vector'[k] \in Unfinished
        PROVE  /\ vector'[k].dseq <= published[vector'[k].topic]
               /\ After(queue', vector'[k].topic, vector'[k].dseq)
    <3>1. CASE k = i
      BY <1>1, <2>1, <3>1
    <3>2. CASE k # i
      <4>1. /\ vector[k].dseq <= published[vector[k].topic]
            /\ After(queue, vector[k].topic, vector[k].dseq)
        BY <1>1, <2>1, <3>2 DEF HandleInv, DoneInv
      <4> QED
        BY <1>1, <3>2, <4>1
    <3> QED
      BY <3>1, <3>2
  <2> QED
    BY <1>1, <2>1 DEF DoneInv
<1> QED
  BY <1>2, <1>3

(* The first message leaves the queue: what remains of its topic is later. *)
LEMMA TailOfQueue ==
  ASSUME IInv, pc # "idle", queue # <<>>, queue' = Tail(queue), UNCHANGED <<published, subs>>
  PROVE  /\ queue' \in Seq(Msg) /\ QueueInv'
         /\ Head(queue) \in Msg /\ Head(queue).topic \in Topics /\ Head(queue).seq \in Nat
         /\ subs[Head(queue).topic] > 0
         /\ Head(queue).seq <= published[Head(queue).topic]
         /\ 1 \in 1 .. Len(queue) /\ Head(queue) = queue[1]
         /\ \A u, n : After(queue, u, n) => After(queue', u, n)
         /\ After(queue', Head(queue).topic, Head(queue).seq)
<1>1. /\ queue \in Seq(Msg) /\ Len(queue) \in Nat /\ QueueInv
      /\ \A k \in 1 .. Len(queue) : /\ queue[k] \in Msg /\ queue[k].topic \in Topics
                                    /\ queue[k].seq \in Nat
  BY InCall DEF HandleInv
<1>2. /\ queue' \in Seq(Msg) /\ Len(queue') = Len(queue) - 1 /\ Head(queue) = queue[1]
      /\ \A k \in 1 .. Len(queue') : queue'[k] = queue[k + 1]
      /\ Len(queue) > 0
  BY <1>1, EmptySeq, HeadTailProperties
<1>3. 1 \in 1 .. Len(queue)
  BY <1>1, <1>2
<1>4. \A k \in 1 .. Len(queue') : k + 1 \in 1 .. Len(queue) /\ k \in Int
  BY <1>1, <1>2
<1>5. QueueInv'
  <2>1. \A k \in 1 .. Len(queue') :
          /\ subs[queue'[k].topic] > 0
          /\ queue'[k].seq > 0 /\ queue'[k].seq <= published[queue'[k].topic]
    BY <1>1, <1>2, <1>4 DEF QueueInv
  <2>2. ASSUME NEW j \in 1 .. Len(queue'), NEW k \in 1 .. Len(queue'),
               j < k, queue'[j].topic = queue'[k].topic
        PROVE  queue'[j].seq < queue'[k].seq
    <3>1. j + 1 \in 1 .. Len(queue) /\ k + 1 \in 1 .. Len(queue) /\ j + 1 < k + 1
      BY <1>4, <2>2
    <3>2. queue'[j] = queue[j + 1] /\ queue'[k] = queue[k + 1]
      BY <1>2
    <3> QED
      BY <1>1, <2>2, <3>1, <3>2 DEF QueueInv
  <2> QED
    BY <2>1, <2>2 DEF QueueInv
<1>6. \A u, n : After(queue, u, n) => After(queue', u, n)
  BY <1>2, <1>4 DEF After
<1>7. After(queue', queue[1].topic, queue[1].seq)
  <2>1. ASSUME NEW k \in 1 .. Len(queue'), queue'[k].topic = queue[1].topic
        PROVE  queue'[k].seq > queue[1].seq
    <3>1. 1 < k + 1 /\ k + 1 \in 1 .. Len(queue) /\ queue'[k] = queue[k + 1]
      BY <1>2, <1>4
    <3>2. queue[1].seq < queue[k + 1].seq
      BY <1>1, <1>3, <2>1, <3>1 DEF QueueInv
    <3> QED
      BY <1>1, <1>3, <3>1, <3>2
  <2> QED
    BY <2>1 DEF After
<1>8. subs[queue[1].topic] > 0 /\ queue[1].seq <= published[queue[1].topic]
  BY <1>1, <1>3 DEF QueueInv
<1> QED
  BY <1>1, <1>2, <1>3, <1>5, <1>6, <1>7, <1>8

LEMMA RecvFailsKeepsIt ==
  ASSUME IInv, RecvFails
  PROVE  IInv'
<1>1. TypeOK /\ out.rc = "none" /\ pc # "idle"
  BY InCall DEF RecvFails
<1>2. TypeOK'
  BY <1>1 DEF RecvFails, TypeOK, Answer, recorderVars, vectorVars, history
<1> QED
  BY <1>1, <1>2, AnswerKeepsIt DEF RecvFails, Answer, recorderVars, history

(* The slot a message of the queue belongs to.                             *)
LEMMA FoundSlot ==
  ASSUME IInv, pc # "idle", NEW t \in Topics, subs[t] > 0
  PROVE  /\ SlotsOf(t) # {}
         /\ Find(t) \in 1 .. Len(vector) /\ vector[Find(t)] \in Slot
         /\ vector[Find(t)].topic = t
<1>1. /\ vector \in Seq(Slot) /\ subs[t] = Count(vector, Of(t))
      /\ \A i \in 1 .. Len(vector) : vector[i] \in Slot
  BY InCall DEF HandleInv, SlotInv
<1>2. PICK i \in 1 .. Len(vector) : vector[i] \in Of(t)
  BY <1>1, CountSome
<1>3. vector[i].topic = t
  BY <1>2 DEF Of
<1>4. SlotsOf(t) = Where(vector, Of(t))
  BY <1>1, SetsOfSlots DEF SlotsOf, Used
<1>5. SlotsOf(t) # {}
  BY <1>2, <1>4 DEF Where
<1>6. Find(t) \in 1 .. Len(vector) /\ vector[Find(t)].topic = t
  BY <1>1, <1>3, FirstSlotOf DEF Find
<1> QED
  BY <1>1, <1>5, <1>6

LEMMA RecvSubKeepsIt ==
  ASSUME IInv, RecvSub
  PROVE  IInv'
<1>1. /\ pc = "sub" /\ pc # "idle"
      /\ UNCHANGED <<recorderVars, subs, vec_size, nr_incompleted, fds, to, arrived,
                     miscounted, twice, leaked>>
  BY DEF RecvSub
<1>2. /\ TypeOK /\ Good /\ HandleInv /\ out.rc = "none"
      /\ vector \in Seq(Slot) /\ vec_size \in Nat /\ Len(vector) = vec_size
      /\ fds = Count(vector, Holding) + leaked
      /\ nr_incompleted = Count(vector, Unfinished) - miscounted
  BY <1>1, InCall
<1>3. read_file = 0
  <2>1. pc = "sub" => read_file = 0
    BY <1>2 DEF HandleInv, StepInv
  <2> QED
    BY <1>1, <2>1
<1>4. CASE queue = <<>> /\ Wait(to, "sub") /\ UNCHANGED <<queue, vector, read_file, data, left, got>>
  <2>1. pc' \in {"idle", "sub"} /\ (pc' = "sub" => out' = out)
    BY <1>4 DEF Wait, Answer
  <2>2. TypeOK'
    BY <1>1, <1>2, <1>4 DEF TypeOK, Wait, Answer, recorderVars
  <2>3. StepInv'
    BY <1>3, <1>4, <2>1 DEF StepInv
  <2> QED
    BY <1>1, <1>2, <1>4, <2>1, <2>2, <2>3, CallMovesOn DEF recorderVars, vectorVars
<1>5. CASE queue # <<>>
  <2> DEFINE m == Head(queue)
             t == m.topic
             i == Find(t)
  <2>1. /\ queue' = Tail(queue) /\ data' = m /\ left' = to
        /\ \/ Deliver(m) /\ UNCHANGED <<vector, read_file>>
           \/ SlotsOf(t) = {}
           \/ /\ SlotsOf(t) # {} /\ vector[i].fseq # -1
              /\ read_file' = i
              /\ vector' = [vector EXCEPT ![i].fseq = 0]
              /\ pc' = ReadStep(i)
              /\ UNCHANGED <<out, got>>
    BY <1>5 DEF RecvSub, Taken
  <2>2. UNCHANGED <<published, subs>>
    BY <1>1 DEF recorderVars
  <2>3. /\ queue' \in Seq(Msg) /\ QueueInv'
        /\ m \in Msg /\ t \in Topics /\ m.seq \in Nat
        /\ subs[t] > 0 /\ m.seq <= published[t]
        /\ 1 \in 1 .. Len(queue) /\ m = queue[1]
        /\ \A u, n : After(queue, u, n) => After(queue', u, n)
        /\ After(queue', t, m.seq)
    BY <1>1, <1>5, <2>1, <2>2, TailOfQueue
  <2>4. /\ SlotsOf(t) # {} /\ i \in 1 .. Len(vector) /\ vector[i] \in Slot
        /\ vector[i].topic = t
    BY <1>1, <2>3, FoundSlot
  <2> HIDE DEF i
  <2>5. CASE Deliver(m) /\ UNCHANGED <<vector, read_file>>
    <3>1. TypeOK'
      <4>1. got' \in [Topics -> Nat]
        BY <1>2, <2>3, <2>5 DEF TypeOK, Deliver
      <4>2. out' = [rc |-> "data", msg |-> m] /\ pc' = "idle"
        BY <2>5 DEF Deliver
      <4> HIDE DEF m
      <4> QED
        BY <1>1, <1>2, <2>1, <2>3, <2>5, <4>1, <4>2 DEF TypeOK, recorderVars
    <3>2. CallInv' /\ CountInv' /\ FdsInv'
      BY <1>1, <1>2, <2>5 DEF CallInv, CountInv, FdsInv, Good, Deliver, IInv
    <3>3. SlotInv' /\ StepInv' /\ KeptInv'
      BY <1>1, <1>2, <1>3, <2>5 DEF HandleInv, SlotInv, StepInv, KeptInv, Deliver
    <3>4. DoneInv'
      BY <1>2, <2>2, <2>3, <2>5 DEF HandleInv, DoneInv
    <3> QED
      BY <2>3, <3>1, <3>2, <3>3, <3>4 DEF IInv, HandleInv
  <2>6. CASE /\ vector[i].fseq # -1
             /\ read_file' = i
             /\ vector' = [vector EXCEPT ![i].fseq = 0]
             /\ pc' = ReadStep(i)
             /\ UNCHANGED <<out, got>>
    <3> DEFINE s == [vector[i] EXCEPT !.fseq = 0]
    <3>1. /\ s \in Slot /\ s.topic = t /\ s.dseq = vector[i].dseq /\ s.fseq = 0
          /\ s.file = vector[i].file
      BY <2>4 DEF Slot
    <3>2. vector[i] \in Unfinished /\ s \in Unfinished
      <4>1. t # NoTopic
        BY <2>3, BlankSlot
      <4> HIDE DEF s
      <4> QED
        BY <2>4, <2>6, <3>1, <4>1 DEF Unfinished
    <3>3. vector' = [vector EXCEPT ![i] = s]
      BY <2>6
    <3> HIDE DEF s
    <3>4. /\ vector' \in Seq(Slot) /\ Len(vector') = Len(vector) /\ vector'[i] = s
          /\ \A S : Count(vector', S) = (Count(vector, S) - OneOrNone(vector[i], S)) + OneOrNone(s, S)
          /\ \A S : Count(vector, S) \in Nat
      BY <1>2, <2>4, <3>1, <3>3, SlotChanged
    <3>5. /\ vector[i].dseq <= published[t] /\ After(queue, t, vector[i].dseq)
          /\ vector[i].dseq < m.seq
      <4>1. /\ vector[i].dseq <= published[t] /\ After(queue, t, vector[i].dseq)
        BY <1>2, <2>4, <3>2 DEF HandleInv, DoneInv
      <4> QED
        BY <2>3, <2>4, <4>1 DEF After, Slot
    <3>6. SlotInv' /\ DoneInv'
      <4>1. t # NoTopic
        BY <2>3, BlankSlot
      <4> QED
        BY <1>2, <2>2, <2>3, <2>4, <3>1, <3>2, <3>3, <3>5, <4>1, ChangedSlotKeepsIt
    <3>7. KeptInv'
      BY <2>1, <2>2, <2>3, <2>6, <3>1, <3>2, <3>4, <3>5, <2>4 DEF KeptInv
    <3>8. pc' \in {"open", "read"} /\ StepInv'
      BY <2>4, <2>6, <3>1, <3>4 DEF StepInv, ReadStep
    <3>9. TypeOK'
      <4>1. i \in Nat
        BY <2>4
      <4> HIDE DEF m
      <4> QED
        BY <1>1, <1>2, <2>1, <2>3, <2>6, <3>4, <3>8, <4>1 DEF TypeOK, recorderVars
    <3>10. CountInv' /\ FdsInv'
      <4>1. /\ OneOrNone(vector[i], Unfinished) = 1 /\ OneOrNone(s, Unfinished) = 1
            /\ OneOrNone(vector[i], Holding) = OneOrNone(s, Holding)
            /\ OneOrNone(s, Holding) \in Nat
        BY <2>4, <3>1, <3>2 DEF OneOrNone, Holding
      <4>2. Count(vector', Unfinished) = Count(vector, Unfinished)
            /\ Count(vector', Holding) = Count(vector, Holding)
        <5>1. /\ Count(vector', Unfinished) =
                   (Count(vector, Unfinished) - OneOrNone(vector[i], Unfinished))
                   + OneOrNone(s, Unfinished)
              /\ Count(vector', Holding) =
                   (Count(vector, Holding) - OneOrNone(vector[i], Holding)) + OneOrNone(s, Holding)
          BY <3>4
        <5>2. Count(vector, Unfinished) \in Nat /\ Count(vector, Holding) \in Nat
          BY <3>4
        <5> QED
          BY <4>1, <5>1, <5>2
      <4> QED
        BY <1>1, <1>2, <4>2 DEF CountInv, FdsInv
    <3>11. CallInv'
      BY <1>1, <1>2, <2>6, <3>4, <3>8 DEF CallInv, Good
    <3> QED
      BY <2>3, <3>6, <3>7, <3>8, <3>9, <3>10, <3>11 DEF IInv, HandleInv
  <2> QED
    BY <2>1, <2>4, <2>5, <2>6
<1> QED
  BY <1>4, <1>5 DEF RecvSub

(* The slot that is being completed changes and does not reach the kept    *)
(* message.                                                                *)
LEMMA ProgressKeepsIt ==
  ASSUME IInv, pc # "idle", read_file > 0, NEW s \in Slot,
         s.topic = vector[read_file].topic, s.fseq # -1, s.dseq < data.seq,
         vector' = [vector EXCEPT ![read_file] = s],
         UNCHANGED <<published, subs, queue, vec_size, nr_incompleted, read_file, data, miscounted,
                     leaked>>,
         fds' = (fds - OneOrNone(vector[read_file], Holding)) + OneOrNone(s, Holding),
         TypeOK', StepInv', pc' # "abort", pc' # "idle" => out'.rc = "none"
  PROVE  IInv'
<1> DEFINE i == read_file
           t == vector[i].topic
<1>1. /\ TypeOK /\ Good /\ HandleInv /\ out.rc = "none"
      /\ vector \in Seq(Slot) /\ vec_size \in Nat /\ Len(vector) = vec_size
      /\ fds = Count(vector, Holding) + leaked
      /\ nr_incompleted = Count(vector, Unfinished) - miscounted
      /\ \A k \in 1 .. Len(queue) : queue[k].seq \in Nat
  BY InCall
<1>2. /\ i \in 1 .. Len(vector) /\ vector[i] \in Unfinished
      /\ data.topic = t /\ t \in Topics /\ t # NoTopic
      /\ data.seq \in Nat /\ data.seq <= published[t]
      /\ After(queue, t, data.seq)
  BY KeptSlot
<1> HIDE DEF i, t
<1>3. s \in Unfinished /\ s.topic = t /\ s.dseq \in Nat
  BY <1>2 DEF Unfinished, Slot, i, t
<1>4. vector' = [vector EXCEPT ![i] = s] /\ read_file = i /\ read_file' = i
  BY DEF i
<1>5. s.dseq <= published[t] /\ After(queue, t, s.dseq)
  <2>1. published[t] \in Nat
    BY <1>1, <1>2 DEF TypeOK
  <2> QED
    BY <1>1, <1>2, <1>3, <2>1 DEF After
<1>6. /\ vector' \in Seq(Slot) /\ Len(vector') = Len(vector) /\ vector'[i] = s
      /\ \A S : Count(vector', S) = (Count(vector, S) - OneOrNone(vector[i], S)) + OneOrNone(s, S)
      /\ \A S : Count(vector, S) \in Nat
  BY <1>1, <1>2, <1>3, <1>4, SlotChanged DEF t
<1>7. SlotInv' /\ DoneInv'
  <2>1. \A u, n : After(queue, u, n) => After(queue', u, n)
    OBVIOUS
  <2> QED
    BY <1>1, <1>2, <1>3, <1>4, <1>5, <2>1, ChangedSlotKeepsIt DEF t
<1>8. QueueInv'
  BY <1>1 DEF HandleInv, QueueInv
<1>9. KeptInv'
  BY <1>2, <1>3, <1>4, <1>6 DEF KeptInv
<1>10. CountInv' /\ FdsInv'
  <2>1. OneOrNone(vector[i], Unfinished) = 1 /\ OneOrNone(s, Unfinished) = 1
    BY <1>2, <1>3 DEF OneOrNone
  <2>2. /\ Count(vector', Unfinished) =
             (Count(vector, Unfinished) - OneOrNone(vector[i], Unfinished))
             + OneOrNone(s, Unfinished)
        /\ Count(vector', Holding) =
             (Count(vector, Holding) - OneOrNone(vector[i], Holding)) + OneOrNone(s, Holding)
        /\ Count(vector, Unfinished) \in Nat
    BY <1>6
  <2>3. Count(vector', Unfinished) = Count(vector, Unfinished)
    BY <2>1, <2>2
  <2>4. fds' = Count(vector', Holding) + leaked'
    <3>1. leaked \in Nat /\ OneOrNone(vector[i], Holding) \in {0, 1}
          /\ OneOrNone(s, Holding) \in {0, 1} /\ Count(vector, Holding) \in Nat
      BY <1>1, <1>6 DEF TypeOK, OneOrNone
    <3> QED
      BY <1>1, <1>4, <2>2, <3>1
  <2> QED
    BY <1>1, <2>3, <2>4 DEF CountInv, FdsInv
<1>11. CallInv'
  BY <1>1, <1>6 DEF CallInv, Good
<1> QED
  BY <1>7, <1>8, <1>9, <1>10, <1>11 DEF IInv, HandleInv

LEMMA OpenedKeepsIt ==
  ASSUME IInv, pc \in {"open", "opentmp"}, NEW no \in Nat, NEW closed \in BOOLEAN, NEW n \in Nat,
         no <= Len(cuts[vector[read_file].topic]), Opened(read_file, no, closed, n),
         UNCHANGED <<recorderVars, subs, queue, vec_size, nr_incompleted, read_file, data,
                     to, history>>
  PROVE  IInv'
<1> DEFINE i == read_file
           t == vector[i].topic
           f == [no |-> no, at |-> Base(t, no), closed |-> closed]
           s == [vector[i] EXCEPT !.file = f, !.fseq = n]
<1>1. /\ pc # "idle" /\ TypeOK /\ HandleInv /\ out.rc = "none"
      /\ vector \in Seq(Slot)
  BY InCall
<1>2. read_file > 0 /\ vector[i].file = NoFile
  BY <1>1 DEF HandleInv, StepInv
<1>3. /\ i \in 1 .. Len(vector) /\ vector[i] \in Slot /\ t \in Topics
      /\ vector[i].dseq < data.seq
  BY <1>1, <1>2, KeptSlot
<1>4. Base(t, no) \in Nat
  <2>1. cuts[t] \in Seq(Nat)
    BY <1>1, <1>3 DEF TypeOK
  <2>2. no # 0 => no \in 1 .. Len(cuts[t])
    BY <2>1, LenProperties
  <2> HIDE DEF t
  <2> QED
    BY <2>1, <2>2, ElementOfSeq DEF Base
<1>5. f \in [no : Nat, at : Nat, closed : BOOLEAN] /\ f # NoFile
  <2>1. f \in [no : Nat, at : Nat, closed : BOOLEAN]
    BY <1>4
  <2>2. f.no # NoFile.no
    BY DEF NoFile
  <2> HIDE DEF f
  <2> QED
    BY <2>1, <2>2
<1>6. vector' = [vector EXCEPT ![i] = s]
  BY DEF Opened
<1>7. /\ left' \in Remaining(left) /\ fds' = fds + 1 /\ pc' = "read" /\ out' = out
  BY DEF Opened
<1> HIDE DEF f, t
<1>8. s \in Slot /\ s.topic = t /\ s.fseq = n /\ s.dseq = vector[i].dseq /\ s.file = f
  BY <1>3, <1>5 DEF Slot, t
<1> HIDE DEF s, i
<1>9. OneOrNone(vector[i], Holding) = 0 /\ OneOrNone(s, Holding) = 1
  BY <1>2, <1>5, <1>8 DEF OneOrNone, Holding
<1>10. /\ vector' \in Seq(Slot) /\ vector'[i] = s
  BY <1>1, <1>3, <1>6, <1>8, SlotChanged DEF t
<1>11. TypeOK'
  <2>1. left' \in {"zero", "finite", "infinite"}
    BY <1>1, <1>7 DEF TypeOK, Remaining
  <2>2. fds' \in Nat
    BY <1>1, <1>7 DEF TypeOK
  <2> QED
    BY <1>1, <1>7, <1>10, <2>1, <2>2 DEF TypeOK, recorderVars, history
<1>12. StepInv'
  BY <1>2, <1>5, <1>7, <1>8, <1>10 DEF StepInv, i
<1>13. fds \in Nat /\ fds' = (fds - OneOrNone(vector[i], Holding)) + OneOrNone(s, Holding)
  BY <1>1, <1>7, <1>9 DEF TypeOK
<1>14. s.fseq # -1 /\ s.dseq < data.seq
  BY <1>3, <1>8
<1>15. UNCHANGED <<published, subs, queue, vec_size, nr_incompleted, read_file, data, miscounted, leaked>>
  BY DEF recorderVars, history
<1>16. s.topic = vector[read_file].topic
  BY <1>8 DEF t, i
<1> QED
  BY <1>1, <1>2, <1>6, <1>7, <1>8, <1>11, <1>12, <1>13, <1>14, <1>15, <1>16, ProgressKeepsIt DEF i

LEMMA OpenSeqFileKeepsIt ==
  ASSUME IInv, OpenSeqFile
  PROVE  IInv'
<1> DEFINE s == vector[read_file]
<1>1. pc = "open" /\ pc # "idle"
  BY DEF OpenSeqFile
<1>2. TypeOK /\ Good /\ HandleInv /\ out.rc = "none" /\ read_file > 0
      /\ s.file = NoFile
  BY <1>1, InCall DEF HandleInv, StepInv
<1>3. s.topic \in Topics /\ s.topic # NoTopic /\ s.fseq \in Nat
  BY <1>1, <1>2, KeptSlot
<1>4. UNCHANGED <<recorderVars, subs, queue, vec_size, nr_incompleted, read_file, data, to,
                  history>>
  BY DEF OpenSeqFile
<1>5. CASE Answer("EINVAL") /\ UNCHANGED <<vector, fds, left>>
  <2>1. TypeOK'
    BY <1>2, <1>4, <1>5 DEF TypeOK, Answer, recorderVars, history
  <2> QED
    BY <1>2, <1>4, <1>5, <2>1, AnswerKeepsIt DEF Answer, recorderVars, vectorVars, history
<1>6. CASE s.fseq < Len(cuts[s.topic]) /\ Opened(read_file, s.fseq, TRUE, NextFile(s.fseq))
  <2>1. NextFile(s.fseq) \in Nat
    BY <1>3 DEF NextFile
  <2>2. cuts[s.topic] \in Seq(Nat)
    BY <1>2, <1>3 DEF TypeOK
  <2>3. s.fseq <= Len(cuts[s.topic])
    BY <1>3, <1>6, <2>2, LenProperties
  <2> QED
    BY <1>1, <1>3, <1>4, <1>6, <2>1, <2>3, OpenedKeepsIt
<1>7. CASE pc' = "opentmp" /\ UNCHANGED <<vector, fds, left, out>>
  <2>1. TypeOK'
    BY <1>2, <1>4, <1>7 DEF TypeOK, recorderVars, history
  <2>2. StepInv'
    BY <1>2, <1>4, <1>7 DEF StepInv
  <2> QED
    BY <1>2, <1>4, <1>7, <2>1, <2>2, CallMovesOn DEF recorderVars, vectorVars, history
<1> QED
  BY <1>3, <1>5, <1>6, <1>7 DEF OpenSeqFile

LEMMA OpenTmpFileKeepsIt ==
  ASSUME IInv, OpenTmpFile
  PROVE  IInv'
<1> DEFINE s == vector[read_file]
<1>1. pc = "opentmp" /\ pc # "idle"
  BY DEF OpenTmpFile
<1>2. /\ TypeOK /\ Good /\ HandleInv /\ out.rc = "none" /\ read_file > 0
      /\ s.file = NoFile /\ fds = Count(vector, Holding) + leaked
  BY <1>1, InCall DEF HandleInv, StepInv
<1>3. s.topic \in Topics /\ s.topic # NoTopic /\ s.fseq \in Nat
  BY <1>1, <1>2, KeptSlot
<1>4. UNCHANGED <<recorderVars, subs, queue, vec_size, nr_incompleted, read_file, data, to,
                  arrived, got, miscounted, twice>>
  BY DEF OpenTmpFile
<1>5. CASE Opened(read_file, Len(cuts[s.topic]), FALSE, s.fseq) /\ UNCHANGED leaked
  <2>1. Len(cuts[s.topic]) \in Nat
    BY <1>2, <1>3, LenProperties DEF TypeOK
  <2> DEFINE no == Len(cuts[s.topic])
             closed == FALSE
  <2>2. Opened(read_file, no, closed, s.fseq)
    BY <1>5
  <2>3. no \in Nat /\ closed \in BOOLEAN
    BY <2>1
  <2>4. no <= Len(cuts[vector[read_file].topic])
    BY <2>1
  <2>5. s.fseq \in Nat
    BY <1>3
  <2> HIDE DEF no, closed, s
  <2> QED
    BY <1>1, <1>4, <1>5, <2>2, <2>3, <2>4, <2>5, OpenedKeepsIt DEF s, history
<1>6. CASE Answer("EPROTO") /\ fds' = fds + 1 /\ leaked' = leaked + 1
           /\ UNCHANGED <<vector, left>>
  <2>1. TypeOK'
    BY <1>2, <1>4, <1>6 DEF TypeOK, Answer, recorderVars, history
  <2>2. CallInv' /\ CountInv'
    BY <1>2, <1>4, <1>6 DEF IInv, CallInv, CountInv, Good, Answer
  <2>4. FdsInv'
    <3>1. Count(vector, Holding) \in Nat /\ leaked \in Nat
      BY <1>2, CountType DEF TypeOK
    <3> QED
      BY <1>2, <1>6, <3>1 DEF FdsInv
  <2>3. HandleInv'
    BY <1>2, <1>4, <1>6
    DEF HandleInv, SlotInv, QueueInv, DoneInv, KeptInv, StepInv, Answer, recorderVars
  <2> QED
    BY <2>1, <2>2, <2>3, <2>4 DEF IInv
<1>7. CASE /\ Wait(left, "open") \/ (left = "infinite" /\ Answer("ETIMEDOUT"))
           /\ UNCHANGED <<vector, fds, left, leaked>>
  <2>1. /\ pc' \in {"idle", "open"} /\ (pc' = "open" => out' = out)
        /\ \/ out' = out
           \/ \E r \in {"EAGAIN", "ETIMEDOUT"} : out' = [rc |-> r, msg |-> NoMsg]
    BY <1>7 DEF Wait, Answer
  <2>2. TypeOK'
    BY <1>2, <1>4, <1>7, <2>1 DEF TypeOK, recorderVars, history
  <2>3. StepInv'
    BY <1>2, <1>4, <1>7, <2>1 DEF StepInv
  <2> QED
    BY <1>2, <1>4, <1>7, <2>1, <2>2, <2>3, CallMovesOn DEF recorderVars, vectorVars, history
<1> QED
  BY <1>5, <1>6, <1>7 DEF OpenTmpFile

(* The file has reached the kept message: the topic is complete.           *)
LEMMA CompletionKeepsIt ==
  ASSUME IInv, pc = "read", Deliver(data), NEW s \in Slot,
         s.topic = vector[read_file].topic, s.file = NoFile, s.fseq = -1,
         vector' = [vector EXCEPT ![read_file] = s],
         nr_incompleted' = OneLess, fds' = fds - 1, read_file' = 0,
         UNCHANGED <<recorderVars, subs, queue, vec_size, data, to, left, arrived, miscounted, twice,
                     leaked>>
  PROVE  IInv'
<1> DEFINE i == read_file
           t == vector[i].topic
<1>1. /\ TypeOK /\ Good /\ HandleInv /\ out.rc = "none" /\ pc # "idle"
      /\ vector \in Seq(Slot) /\ vec_size \in Nat /\ Len(vector) = vec_size
      /\ fds = Count(vector, Holding) + leaked
      /\ nr_incompleted = Count(vector, Unfinished) - miscounted
  BY InCall
<1>2. read_file > 0 /\ vector[i].file # NoFile
  BY <1>1 DEF HandleInv, StepInv
<1>3. /\ i \in 1 .. Len(vector) /\ vector[i] \in Slot /\ vector[i] \in Unfinished
      /\ data.topic = t /\ t \in Topics /\ t # NoTopic /\ data \in Msg /\ data.seq \in Nat
  BY <1>1, <1>2, KeptSlot
<1> HIDE DEF t
<1>4. s \in Slot /\ s.topic = t /\ s.file = NoFile /\ s.fseq = -1
  BY DEF t
<1>5. vector' = [vector EXCEPT ![i] = s]
  OBVIOUS
<1> HIDE DEF i
<1>6. s \notin Unfinished /\ s \notin Holding
  BY <1>4 DEF Unfinished, Holding
<1>7. /\ vector' \in Seq(Slot) /\ Len(vector') = Len(vector)
      /\ \A S : Count(vector', S) = (Count(vector, S) - OneOrNone(vector[i], S)) + OneOrNone(s, S)
      /\ \A S : Count(vector, S) \in Nat /\ Count(vector', S) \in Nat
  <2>1. /\ vector' \in Seq(Slot) /\ Len(vector') = Len(vector)
        /\ \A S : Count(vector', S) = (Count(vector, S) - OneOrNone(vector[i], S)) + OneOrNone(s, S)
    BY <1>1, <1>3, <1>4, <1>5, SlotChanged DEF t
  <2> QED
    BY <1>1, <2>1, CountType
<1>8. /\ Count(vector', Unfinished) = Count(vector, Unfinished) - 1
      /\ Count(vector', Holding) = Count(vector, Holding) - 1
  <2>1. /\ OneOrNone(vector[i], Unfinished) = 1 /\ OneOrNone(s, Unfinished) = 0
        /\ OneOrNone(vector[i], Holding) = 1 /\ OneOrNone(s, Holding) = 0
    BY <1>2, <1>3, <1>6 DEF OneOrNone, Holding
  <2>2. /\ Count(vector', Unfinished) =
             (Count(vector, Unfinished) - OneOrNone(vector[i], Unfinished))
             + OneOrNone(s, Unfinished)
        /\ Count(vector', Holding) =
             (Count(vector, Holding) - OneOrNone(vector[i], Holding)) + OneOrNone(s, Holding)
        /\ Count(vector, Unfinished) \in Nat /\ Count(vector, Holding) \in Nat
    BY <1>7
  <2> QED
    BY <2>1, <2>2
<1>9. CountInv' /\ FdsInv'
  <2>1. miscounted \in Nat /\ Count(vector, Unfinished) \in Nat
        /\ leaked \in Nat /\ Count(vector, Holding) \in Nat
    BY <1>1, <1>7 DEF TypeOK
  <2> QED
    BY <1>1, <1>8, <2>1 DEF CountInv, FdsInv, OneLess
<1>10. SlotInv' /\ DoneInv'
  <2>1. \A u, k : After(queue, u, k) => After(queue', u, k)
    OBVIOUS
  <2>2. UNCHANGED <<published, subs>>
    BY DEF recorderVars
  <2> QED
    BY <1>1, <1>3, <1>4, <1>5, <1>6, <2>1, <2>2, ChangedSlotKeepsIt DEF t
<1>11. QueueInv' /\ KeptInv' /\ StepInv'
  BY <1>1 DEF HandleInv, QueueInv, KeptInv, StepInv, Deliver, recorderVars
<1>12. CallInv'
  BY <1>1, <1>7 DEF CallInv, Good, Deliver
<1>13. TypeOK'
  <2>1. fds' \in Nat /\ nr_incompleted' \in Int
    <3>1. leaked \in Nat /\ Count(vector', Holding) \in Nat /\ Count(vector, Holding) \in Nat
      BY <1>1, <1>7 DEF TypeOK
    <3>3. fds' = Count(vector', Holding) + leaked'
      BY <1>1, <1>8, <3>1
    <3>2. nr_incompleted \in Int
      BY <1>1 DEF TypeOK
    <3> QED
      BY <3>1, <3>2, <3>3 DEF OneLess
  <2>2. got' \in [Topics -> Nat] /\ out' = [rc |-> "data", msg |-> data] /\ pc' = "idle"
    BY <1>1, <1>3 DEF TypeOK, Deliver
  <2> QED
    BY <1>1, <1>3, <1>7, <2>1, <2>2 DEF TypeOK, recorderVars
<1> QED
  BY <1>9, <1>10, <1>11, <1>12, <1>13 DEF IInv, HandleInv

LEMMA ReadFileKeepsIt ==
  ASSUME Beats = {}, IInv, ReadFile
  PROVE  IInv'
<1> DEFINE i == read_file
           s == vector[read_file]
           f == s.file
           n == f.at + 1
<1>1. pc = "read" /\ pc # "idle"
  BY DEF ReadFile
<1>2. /\ TypeOK /\ Good /\ HandleInv /\ out.rc = "none" /\ read_file > 0
      /\ f # NoFile /\ vector \in Seq(Slot) /\ vec_size = Len(vector)
      /\ fds = Count(vector, Holding) + leaked
  BY <1>1, InCall DEF HandleInv, StepInv
<1>3. /\ i \in 1 .. Len(vector) /\ s \in Slot /\ s \in Unfinished
      /\ s.topic \in Topics /\ s.topic # NoTopic /\ s.fseq \in Nat /\ s.dseq \in Nat
      /\ s.dseq < data.seq /\ data.seq \in Nat
  BY <1>1, <1>2, KeptSlot
<1>4. f \in [no : Nat, at : Nat, closed : BOOLEAN] /\ n \in Nat
  BY <1>2, <1>3 DEF Slot
<1>5. /\ UNCHANGED <<recorderVars, subs, queue, vec_size, data, to, left, arrived, miscounted, twice,
                     leaked>>
      /\ UNCHANGED <<published, miscounted>>
  BY DEF ReadFile, recorderVars
<1>6. OneOrNone(s, Holding) = 1 /\ fds \in Nat
  BY <1>2, <1>3 DEF OneOrNone, Holding, TypeOK
<1>7. ASSUME NEW r \in Slot, vector' = [vector EXCEPT ![i] = r],
             r.topic = s.topic, r.fseq # -1, r.dseq < data.seq,
             UNCHANGED <<nr_incompleted, read_file>>,
             fds' = (fds - 1) + OneOrNone(r, Holding),
             \/ Answer("EPROTO") /\ UNCHANGED got
             \/ Deliver([topic |-> s.topic, seq |-> n])
             \/ pc' = "open" /\ r.file = NoFile /\ UNCHANGED <<out, got>>
      PROVE  IInv'
  <2>1. vector' \in Seq(Slot) /\ vector'[i] = r
    BY <1>2, <1>3, <1>7, SlotChanged
  <2>2. TypeOK'
    <3>1. [topic |-> s.topic, seq |-> n] \in Msg /\ fds' \in Nat
      <4>1. OneOrNone(r, Holding) \in {0, 1} /\ fds > 0
        <5>1. Count(vector, Holding) > 0
          <6>1. s \in Holding
            BY <1>2, <1>3 DEF Holding
          <6> QED
            BY <1>2, <1>3, <6>1, CountSome
        <5> QED
          BY <1>2, <1>3, <5>1, CountType DEF OneOrNone, TypeOK
      <4>2. fds' \in Nat
        BY <1>6, <1>7, <4>1
      <4> QED
        BY <1>3, <1>4, <4>2 DEF Msg
    <3>2. got' \in [Topics -> Nat]
      BY <1>2, <1>3, <1>4, <1>7 DEF TypeOK, Deliver
    <3>3. /\ pc' \in {"idle", "open"}
          /\ out'.rc \in {"none", "data", "EPROTO"}
          /\ out'.msg \in Msg \cup {NoMsg}
      BY <1>2, <1>7, <3>1 DEF TypeOK, Deliver, Answer
    <3> HIDE DEF n
    <3> QED
      BY <1>2, <1>5, <1>7, <2>1, <3>1, <3>2, <3>3 DEF TypeOK, recorderVars
  <2>3. StepInv' /\ pc' # "abort" /\ (pc' # "idle" => out'.rc = "none")
    BY <1>2, <1>7, <2>1 DEF StepInv, Answer, Deliver
  <2>4. fds' = (fds - OneOrNone(vector[read_file], Holding)) + OneOrNone(r, Holding)
    BY <1>6, <1>7
  <2> QED
    BY <1>1, <1>2, <1>5, <1>7, <2>2, <2>3, <2>4, ProgressKeepsIt
<1>8. CASE FromFile(read_file, n) /\ f.at < FileEnd(s.topic, f.no)
  <2>1. \A m : HandOut(m) => Deliver(m)
    BY DEF HandOut
  <2>2. CASE /\ Answer("EPROTO")
             /\ vector' = [vector EXCEPT ![i].file.at = n]
             /\ UNCHANGED <<nr_incompleted, read_file, fds, got>>
    <3> DEFINE r == [s EXCEPT !.file.at = n]
    <3>1. r \in Slot /\ r.topic = s.topic /\ r.fseq = s.fseq /\ r.dseq = s.dseq
          /\ r.file = [f EXCEPT !.at = n]
      BY <1>3, <1>4 DEF Slot
    <3>2. r.file # NoFile
      <4>1. r.file.no = f.no /\ f.no \in Nat /\ NoFile.no = -1
        BY <1>4, <3>1 DEF NoFile
      <4> HIDE DEF r, f
      <4> QED
        BY <4>1
    <3>3. vector' = [vector EXCEPT ![i] = r]
      BY <2>2
    <3> HIDE DEF r, s, n, f, i
    <3>4. OneOrNone(r, Holding) = 1
      BY <3>1, <3>2 DEF OneOrNone, Holding
    <3>5. fds' = (fds - 1) + OneOrNone(r, Holding)
      BY <1>6, <2>2, <3>4
    <3>6. r.fseq # -1 /\ r.dseq < data.seq
      BY <1>3, <3>1
    <3> QED
      BY <1>7, <2>2, <3>1, <3>3, <3>5, <3>6
  <2>3. CASE /\ ~Reaches(n)
             /\ vector' = [vector EXCEPT ![i].file.at = n, ![i].dseq = n]
             /\ HandOut([topic |-> s.topic, seq |-> n])
             /\ UNCHANGED <<nr_incompleted, read_file, fds>>
    <3> DEFINE r == [s EXCEPT !.file.at = n, !.dseq = n]
    <3>1. r \in Slot /\ r.topic = s.topic /\ r.fseq = s.fseq /\ r.dseq = n
          /\ r.file = [f EXCEPT !.at = n]
      BY <1>3, <1>4 DEF Slot
    <3>2. r.file # NoFile
      <4>1. r.file.no = f.no /\ f.no \in Nat /\ NoFile.no = -1
        BY <1>4, <3>1 DEF NoFile
      <4> HIDE DEF r, f
      <4> QED
        BY <4>1
    <3>3. vector' = [vector EXCEPT ![i] = r]
      BY <2>3
    <3>4. Deliver([topic |-> s.topic, seq |-> n])
      BY <2>1, <2>3
    <3> HIDE DEF r, s, n, f, i
    <3>5. OneOrNone(r, Holding) = 1
      BY <3>1, <3>2 DEF OneOrNone, Holding
    <3>6. fds' = (fds - 1) + OneOrNone(r, Holding)
      BY <1>6, <2>3, <3>5
    <3>7. r.fseq # -1 /\ r.dseq < data.seq
      BY <1>3, <1>4, <2>3, <3>1 DEF Reaches
    <3> QED
      BY <1>7, <2>3, <3>1, <3>3, <3>4, <3>6, <3>7
  <2>4. CASE /\ vector' = [vector EXCEPT ![i].file = NoFile, ![i].fseq = -1, ![i].dseq = n]
             /\ nr_incompleted' = OneLess
             /\ fds' = fds - 1
             /\ read_file' = 0
             /\ HandOut(data)
    <3>1. Deliver(data)
      BY <2>1, <2>4
    <3> DEFINE r == [s EXCEPT !.file = NoFile, !.fseq = -1, !.dseq = n]
    <3>2. r \in Slot /\ r.topic = s.topic /\ r.file = NoFile /\ r.fseq = -1
      BY <1>3, <1>4 DEF Slot
    <3>3. vector' = [vector EXCEPT ![i] = r]
      BY <2>4
    <3> HIDE DEF r, n
    <3> QED
      BY <1>1, <1>5, <2>4, <3>1, <3>2, <3>3, CompletionKeepsIt
  <2> QED
    BY <1>8, <2>2, <2>3, <2>4 DEF FromFile
<1>9. CASE /\ vector' = [vector EXCEPT ![i].file = NoFile]
           /\ fds' = fds - 1
           /\ pc' = "open"
           /\ UNCHANGED <<nr_incompleted, read_file, out, got>>
  <2> DEFINE r == [s EXCEPT !.file = NoFile]
  <2>1. r \in Slot /\ r.topic = s.topic /\ r.fseq = s.fseq /\ r.dseq = s.dseq
        /\ r.file = NoFile
    BY <1>3 DEF Slot
  <2>2. vector' = [vector EXCEPT ![i] = r]
    BY <1>9
  <2> HIDE DEF r, s, n, f, i
  <2>3. OneOrNone(r, Holding) = 0
    BY <2>1 DEF OneOrNone, Holding
  <2>4. fds' = (fds - 1) + OneOrNone(r, Holding)
    BY <1>6, <1>9, <2>3
  <2>5. r.fseq # -1 /\ r.dseq < data.seq
    BY <1>3, <2>1
  <2> QED
    BY <1>7, <1>9, <2>1, <2>2, <2>4, <2>5
<1>10. CASE Wait(left, "read") /\ UNCHANGED <<vector, nr_incompleted, read_file, fds, got>>
  <2>1. /\ pc' \in {"idle", "read"} /\ (pc' = "read" => out' = out)
        /\ \/ out' = out
           \/ \E r \in {"EAGAIN", "ETIMEDOUT"} : out' = [rc |-> r, msg |-> NoMsg]
    BY <1>10 DEF Wait, Answer
  <2>2. TypeOK'
    BY <1>2, <1>5, <1>10, <2>1 DEF TypeOK, recorderVars
  <2>3. StepInv'
    BY <1>2, <1>10, <2>1 DEF StepInv
  <2> QED
    BY <1>2, <1>5, <1>10, <2>1, <2>2, <2>3, CallMovesOn DEF vectorVars
<1> QED
  BY <1>8, <1>9, <1>10 DEF ReadFile

-----------------------------------------------------------------------------
(* The invariant is inductive.                                             *)

LEMMA NextKeepsIt ==
  ASSUME Beats = {}, IInv, [Next]_vars
  PROVE  IInv'
<1>1. CASE UNCHANGED vars
  <2>1. UNCHANGED <<recorderVars, subs, queue, vectorVars, read_file, data, fds, callVars, history>>
    BY <1>1 DEF vars
  <2>2. TypeOK'
    BY <2>1 DEF IInv, TypeOK, recorderVars, vectorVars, callVars, history
  <2>3. CallInv' /\ CountInv' /\ FdsInv' /\ Good' = Good
    BY <2>1 DEF IInv, CallInv, CountInv, FdsInv, Good, vectorVars, callVars, history
  <2>4. HandleInv => HandleInv'
    BY <2>1 DEF HandleInv, SlotInv, QueueInv, DoneInv, KeptInv, StepInv, After, recorderVars,
                vectorVars, callVars
  <2> QED
    BY <2>2, <2>3, <2>4 DEF IInv
<1>2. ASSUME NEW t \in Topics,
             Publish(t) \/ Recorder(t) \/ Rotate(t) \/ Req(t) \/ Cancel(t)
      PROVE  IInv'
  BY <1>2, PublishKeepsIt, RecorderKeepsIt, ReqKeepsIt, CancelKeepsIt
<1>3. ASSUME NEW timeout \in Timeouts, CallRecv(timeout)
      PROVE  IInv'
  BY <1>3, CallRecvKeepsIt
<1>4. CASE Reopen
  BY <1>4, ReopenKeepsIt
<1>5. CASE Handle
  BY <1>5, RecvSubKeepsIt, RecvFailsKeepsIt, OpenSeqFileKeepsIt, OpenTmpFileKeepsIt,
     ReadFileKeepsIt DEF Handle
<1> QED
  BY <1>1, <1>2, <1>3, <1>4, <1>5 DEF Next

(* What the runs check follows from the invariant. *)
LEMMA CountedAndClosed ==
  IInv => CountIsShort /\ FilesClosed
<1> SUFFICES ASSUME IInv
             PROVE  CountIsShort /\ FilesClosed
  OBVIOUS
<1>1. vector \in Seq(Slot)
  BY DEF IInv, TypeOK
<1>2. Incomplete = Where(vector, Unfinished)
      /\ {i \in DOMAIN vector : vector[i].file # NoFile} = Where(vector, Holding)
  BY <1>1, SetsOfSlots DEF Incomplete, Used
<1> QED
  BY <1>2 DEF IInv, CountInv, FdsInv, CountIsShort, FilesClosed, Count

LEMMA KeptIsIncomplete ==
  IInv /\ Good => ReadFileValid
<1> SUFFICES ASSUME IInv, Good
             PROVE  ReadFileValid
  OBVIOUS
<1>1. TypeOK /\ SlotInv /\ KeptInv /\ vector \in Seq(Slot) /\ DOMAIN vector = 1 .. Len(vector)
  BY LenProperties DEF IInv, HandleInv, TypeOK
<1>2. Incomplete = Where(vector, Unfinished)
  BY <1>1, SetsOfSlots DEF Incomplete, Used
<1> QED
  BY <1>1, <1>2 DEF ReadFileValid, SlotInv, KeptInv, Where

-----------------------------------------------------------------------------
(* Theorems.                                                               *)

(* The invariant holds in every state of every handle without heartbeats.  *)
THEOREM Invariance ==
  ASSUME Beats = {}
  PROVE  Spec => []IInv
<1>1. Init => IInv
  BY InitIInv
<1>2. IInv /\ [Next]_vars => IInv'
  BY NextKeepsIt
<1> QED
  BY <1>1, <1>2, PTL DEF Spec

(* Every variable keeps its type: read_file never leaves the vector's      *)
(* numbers and the number of open descriptors never becomes negative.      *)
THEOREM TypeCorrect ==
  ASSUME Beats = {}
  PROVE  Spec => []TypeOK
<1>1. IInv => TypeOK
  BY DEF IInv
<1> QED
  BY <1>1, Invariance, PTL

(* fsub.c:424, assert(!rc), never fails: a topic whose messages are in the *)
(* queue has a slot, whatever was subscribed, cancelled, doubled, failed   *)
(* or shrunk before.                                                       *)
THEOREM EverySubscriptionFound ==
  ASSUME Beats = {}
  PROVE  Spec => []SubscribedIsFound
<1>1. IInv => SubscribedIsFound
  BY DEF IInv, CallInv, SubscribedIsFound
<1> QED
  BY <1>1, Invariance, PTL

(* nr_incompleted is wrong by exactly the number of complete topics that   *)
(* subinfo_remove counted (fsub.c:199), also while topics are in two slots *)
(* and after the vector was moved.                                         *)
THEOREM CountRight ==
  ASSUME Beats = {}
  PROVE  Spec => []CountIsShort
<1>1. IInv => CountIsShort
  BY CountedAndClosed
<1> QED
  BY <1>1, Invariance, PTL

(* The handle has no descriptor open but those of its slots, and the one   *)
(* of a .tmp file without a head after EPROTO.                             *)
THEOREM DescriptorsClosed ==
  ASSUME Beats = {}
  PROVE  Spec => []FilesClosed
<1>1. IInv => FilesClosed
  BY CountedAndClosed
<1> QED
  BY <1>1, Invariance, PTL

(* read_file names the incomplete slot of the kept message, until the      *)
(* vector is shorter than vec_size (which shrink_subinfo makes it).        *)
THEOREM ReadFileRight ==
  ASSUME Beats = {}
  PROVE  Spec => [](vec_size <= Len(vector) => ReadFileValid)
<1>1. IInv => (vec_size <= Len(vector) => ReadFileValid)
  BY KeptIsIncomplete DEF Good
<1> QED
  BY <1>1, Invariance, PTL

(* The sizes of the code, and an application with eight topics at most:    *)
(* the vector grows from 4 to 8 and is too small to be shrunk.             *)
UpToEight == InitSlots = 4 /\ ShrinkMin = 9 /\ MaxSlots <= 8

SizeInv == vec_size \in {0, 4, 8} /\ Len(vector) = vec_size

(* The vector has a free slot or grows to one of the three sizes.          *)
LEMMA SizeOfEight ==
  ASSUME UpToEight, SizeInv, TypeOK, nr_sub < MaxSlots
  PROVE  NewSize \in {0, 4, 8}
<1>1. MaxSlots \in Nat /\ vec_size \in {0, 4, 8} /\ vector \in Seq(Slot)
  BY MdsFsubAssumption DEF SizeInv, TypeOK
<1>2. UsedIn(vector) = Where(vector, {s \in Slot : s.topic # NoTopic})
  <2>1. \A i \in 1 .. Len(vector) : vector[i] \in Slot
    BY <1>1
  <2> QED
    BY <1>1, <2>1, SetsOfSlots DEF Where
<1>3. nr_sub \in Nat
  BY <1>1, <1>2, CountType DEF nr_sub, Used, Count
<1> QED
  BY <1>1, <1>3 DEF NewSize, UpToEight

(* subinfo_remove does not shrink so small a vector.                       *)
LEMMA RemovalOfEight ==
  ASSUME UpToEight, NEW v \in Seq(Slot), NEW size \in {0, 4, 8}, Len(v) = size,
         NEW n, NEW t, RemoveFrom(v, size, n, t)
  PROVE  SizeInv'
<1> DEFINE freed == [v EXCEPT ![FirstSlot(v, t)] = NoSlot]
<1>1. Shrunk(freed, size) = freed
  BY DEF Shrunk, UpToEight
<1>2. vector' = freed /\ vec_size' = size
  BY <1>1 DEF RemoveFrom
<1>3. Len(freed) = Len(v)
  OBVIOUS
<1> QED
  BY <1>2, <1>3 DEF SizeInv

LEMMA SizeKept ==
  ASSUME UpToEight, IInv, SizeInv, [Next]_vars
  PROVE  SizeInv'
<1>1. /\ TypeOK /\ vector \in Seq(Slot) /\ vec_size \in {0, 4, 8} /\ Len(vector) = vec_size
      /\ vec_size \in Nat /\ Good /\ HandleInv
  <2>1. TypeOK /\ vector \in Seq(Slot) /\ vec_size \in {0, 4, 8} /\ Len(vector) = vec_size
    BY DEF IInv, SizeInv, TypeOK
  <2> QED
    BY <2>1 DEF IInv, Good
<1>2. UNCHANGED <<vector, vec_size>> => SizeInv'
  BY DEF SizeInv
<1>3. CASE UNCHANGED vars
  BY <1>2, <1>3 DEF vars, vectorVars
<1>4. ASSUME NEW t \in Topics, Publish(t) \/ Recorder(t) \/ Rotate(t)
      PROVE  SizeInv'
  BY <1>2, <1>4 DEF Publish, Recorder, CreateTmp, WriteHead, Write, Rotate, vectorVars
<1>5. ASSUME NEW t \in Topics, Req(t)
      PROVE  SizeInv'
  <2>1. NewSize \in {0, 4, 8}
    BY <1>1, <1>5, SizeOfEight DEF Req
  <2>2. Expanded \in Seq(Slot) /\ Len(Expanded) = NewSize
    BY <1>1, Expansion
  <2>3. Added(t) \in Seq(Slot) /\ Len(Added(t)) = NewSize
    BY <1>1, <1>5, Addition DEF HandleInv, SlotInv
  <2>4. \/ UNCHANGED <<vector, vec_size>>
        \/ vector' = Expanded /\ vec_size' = NewSize
        \/ vector' = Added(t) /\ vec_size' = NewSize
        \/ RemoveFrom(Added(t), NewSize, nr_incompleted + 1, t)
    BY <1>5, Zenon DEF Req, Added, Place, NewSlot, vectorVars
  <2>5. CASE RemoveFrom(Added(t), NewSize, nr_incompleted + 1, t)
    BY <2>1, <2>3, <2>5, RemovalOfEight
  <2> QED
    BY <1>2, <2>1, <2>2, <2>3, <2>4, <2>5 DEF SizeInv
<1>6. ASSUME NEW t \in Topics, Cancel(t)
      PROVE  SizeInv'
  <2>1. UNCHANGED <<vector, vec_size>> \/ RemoveFrom(vector, vec_size, nr_incompleted, t)
    BY <1>6, Zenon DEF Cancel, vectorVars
  <2> QED
    BY <1>1, <1>2, <2>1, RemovalOfEight
<1>7. ASSUME NEW timeout \in Timeouts, CallRecv(timeout)
      PROVE  SizeInv'
  BY <1>2, <1>7 DEF CallRecv, vectorVars
<1>8. CASE Reopen
  BY <1>8 DEF Reopen, SizeInv
<1>9. CASE Handle
  <2>1. CASE RecvSub
    BY <1>1, <2>1 DEF RecvSub, SizeInv
  <2>2. CASE RecvFails
    BY <1>2, <2>2 DEF RecvFails, vectorVars
  <2>3. CASE OpenSeqFile
    BY <1>1, <2>3 DEF OpenSeqFile, Opened, SizeInv
  <2>4. CASE OpenTmpFile
    BY <1>1, <2>4 DEF OpenTmpFile, Opened, SizeInv
  <2>5. CASE ReadFile
    BY <1>1, <2>5 DEF ReadFile, FromFile, SizeInv
  <2> QED
    BY <1>9, <2>1, <2>2, <2>3, <2>4, <2>5 DEF Handle
<1> QED
  BY <1>3, <1>4, <1>5, <1>6, <1>7, <1>8, <1>9 DEF Next

(* With the sizes of the code and up to eight topics at a time read_file   *)
(* is right in every state: the defect of shrink_subinfo needs nine.       *)
THEOREM ReadFileRightUpToEight ==
  ASSUME Beats = {}, UpToEight
  PROVE  Spec => []ReadFileValid
<1>1. Init => SizeInv
  BY DEF Init, SizeInv
<1>2. IInv /\ SizeInv /\ [Next]_vars => SizeInv'
  BY SizeKept
<1>3. IInv /\ SizeInv => ReadFileValid
  BY KeptIsIncomplete DEF SizeInv, Good, IInv, TypeOK
<1> QED
  BY <1>1, <1>2, <1>3, Invariance, PTL DEF Spec
=============================================================================
