-------------------------- MODULE SelectionProofs --------------------------
(***************************************************************************)
(* Lemmas about Selected.  Induction is over a set, the numbers or the     *)
(* sequences of which the claim is true: no rule that takes an operator is *)
(* needed.                                                                 *)
(***************************************************************************)
EXTENDS Selection, SequenceTheorems, WellFoundedInduction, TLAPS

(* A set that has 0, and with a number the next one, has every number.     *)
LEMMA NatSetInduction ==
  ASSUME NEW S, 0 \in S, \A n \in Nat : n \in S => n + 1 \in S
  PROVE  Nat \subseteq S
<1>1. SUFFICES ASSUME Nat \ S # {}
               PROVE  FALSE
  OBVIOUS
<1>2. PICK n \in Nat \ S : \A k \in Nat \ S : ~ (<<k, n>> \in OpToRel(<, Nat))
  BY <1>1, NatLessThanWellFounded, WFMin
<1>3. \A k \in Nat \ S : ~ (k < n)
  BY <1>2 DEF OpToRel
<1>4. n \in Nat /\ n \notin S /\ n # 0
  OBVIOUS
<1>5. n - 1 \in Nat /\ n - 1 < n
  BY <1>4
<1>6. n - 1 \in S
  BY <1>3, <1>5
<1>7. (n - 1) + 1 \in S
  BY <1>5, <1>6
<1> QED
  BY <1>4, <1>7

(* The same for sequences that grow at their end. *)
LEMMA SeqSetInduction ==
  ASSUME NEW T, NEW P,
         <<>> \in P,
         \A s \in Seq(T), x \in T : s \in P => Append(s, x) \in P
  PROVE  Seq(T) \subseteq P
<1> DEFINE N == {n \in Nat : \A s \in Seq(T) : Len(s) = n => s \in P}
<1>1. 0 \in N
  BY EmptySeq
<1>2. ASSUME NEW n \in Nat, n \in N
      PROVE  n + 1 \in N
  <2>1. ASSUME NEW s \in Seq(T), Len(s) = n + 1
        PROVE  s \in P
    <3>1. s # <<>>
      BY <2>1, EmptySeq, <1>2
    <3>2. PICK r \in Seq(T), x \in T : s = Append(r, x)
      BY <3>1, SequenceEmptyOrAppend
    <3>3. Len(r) = n
      BY <2>1, <3>2, LenProperties, AppendProperties
    <3> QED
      BY <1>2, <3>2, <3>3
  <2> QED
    BY <2>1, <1>2
<1>3. Nat \subseteq N
  <2> HIDE DEF N
  <2> QED
    BY <1>1, <1>2, NatSetInduction
<1> QED
  BY <1>3, LenProperties

-----------------------------------------------------------------------------
(* The equation of Upto has a solution, so that Upto is one.               *)
LEMMA UptoDef ==
  ASSUME NEW T, NEW s \in Seq(T), NEW S
  PROVE  Upto(s, S) =
           [i \in 0 .. Len(s) |->
              IF i = 0 THEN <<>>
              ELSE IF s[i] \in S THEN Append(Upto(s, S)[i - 1], s[i])
                   ELSE Upto(s, S)[i - 1]]
<1> DEFINE E(f, i) == IF i = 0 THEN <<>>
                    ELSE IF s[i] \in S THEN Append(f[i - 1], s[i]) ELSE f[i - 1]
           Solves(f, n) == f = [i \in 0 .. n |-> E(f, i)]
           N == {n \in Nat : \E f : Solves(f, n)}
<1>1. 0 \in N
  <2>1. Solves([i \in 0 .. 0 |-> <<>>], 0)
    OBVIOUS
  <2> QED
    BY <2>1
<1>2. ASSUME NEW n \in Nat, n \in N
      PROVE  n + 1 \in N
  <2>1. PICK f : Solves(f, n)
    BY <1>2
  <2>2. \A i \in 0 .. n : f[i] = E(f, i)
    <3> DEFINE e == [i \in 0 .. n |-> E(f, i)]
    <3>1. \A i \in 0 .. n : e[i] = E(f, i)
      OBVIOUS
    <3>2. f = e
      BY <2>1
    <3> HIDE DEF e
    <3> QED
      BY <3>1, <3>2
  <2> DEFINE last == E(f, n + 1)
             g == [i \in 0 .. n + 1 |-> IF i = n + 1 THEN last ELSE f[i]]
  <2>3. ASSUME NEW i \in 0 .. n + 1
        PROVE  g[i] = E(g, i)
    <3>1. CASE i = n + 1
      <4>1. g[i] = E(f, i)
        BY <3>1
      <4>2. g[i - 1] = f[i - 1] /\ i # 0
        BY <3>1
      <4> HIDE DEF g
      <4> QED
        BY <4>1, <4>2
    <3>2. CASE i = 0
      <4>1. g[i] = f[i]
        BY <3>2
      <4>2. f[i] = <<>>
        BY <2>2, <3>2
      <4> HIDE DEF g
      <4> QED
        BY <3>2, <4>1, <4>2
    <3>3. CASE i \in 1 .. n
      <4>1. g[i] = f[i] /\ g[i - 1] = f[i - 1]
        BY <3>3
      <4>2. f[i] = E(f, i)
        BY <2>2, <3>3
      <4> HIDE DEF g
      <4> QED
        BY <3>3, <4>1, <4>2
    <3> QED
      BY <3>1, <3>2, <3>3
  <2>4. g = [i \in 0 .. n + 1 |-> g[i]]
    OBVIOUS
  <2>5. Solves(g, n + 1)
    <3> HIDE DEF g
    <3> QED
      BY <2>3, <2>4
  <2> HIDE DEF g, Solves
  <2> QED
    BY <2>5
<1>3. Len(s) \in N
  <2> HIDE DEF N
  <2>1. Nat \subseteq N
    BY <1>1, <1>2, NatSetInduction
  <2> QED
    BY <2>1, LenProperties
<1>4. PICK f : Solves(f, Len(s))
  BY <1>3
<1> QED
  BY <1>4 DEF Upto

(* Upto, one element after the other. *)
LEMMA UptoStep ==
  ASSUME NEW T, NEW s \in Seq(T), NEW S
  PROVE  /\ Upto(s, S)[0] = <<>>
         /\ \A i \in 1 .. Len(s) :
              Upto(s, S)[i] = IF s[i] \in S THEN Append(Upto(s, S)[i - 1], s[i])
                              ELSE Upto(s, S)[i - 1]
<1> DEFINE u == Upto(s, S)
           e == [i \in 0 .. Len(s) |->
                   IF i = 0 THEN <<>>
                   ELSE IF s[i] \in S THEN Append(u[i - 1], s[i]) ELSE u[i - 1]]
<1>1. u = e
  BY UptoDef
<1>2. Len(s) \in Nat
  BY LenProperties
<1>3. /\ e[0] = <<>>
      /\ \A i \in 1 .. Len(s) :
           e[i] = IF s[i] \in S THEN Append(u[i - 1], s[i]) ELSE u[i - 1]
  <2> HIDE DEF u
  <2> QED
    BY <1>2
<1> HIDE DEF u, e
<1>4. /\ u[0] = <<>>
      /\ \A i \in 1 .. Len(s) :
           u[i] = IF s[i] \in S THEN Append(u[i - 1], s[i]) ELSE u[i - 1]
  BY <1>1, <1>3
<1> QED
  BY <1>4 DEF u

(* What is selected of the first elements does not depend on the others.   *)
LEMMA UptoAppend ==
  ASSUME NEW T, NEW s \in Seq(T), NEW x \in T, NEW S, NEW i \in 0 .. Len(s)
  PROVE  Upto(Append(s, x), S)[i] = Upto(s, S)[i]
<1> DEFINE r == Append(s, x)
           u == Upto(s, S)
           v == Upto(r, S)
           N == {n \in Nat : n <= Len(s) => v[n] = u[n]}
<1>1. /\ r \in Seq(T) /\ Len(r) = Len(s) + 1 /\ Len(s) \in Nat
      /\ \A n \in 1 .. Len(s) : r[n] = s[n]
  BY AppendProperties, LenProperties
<1> HIDE DEF r
<1>2. /\ u[0] = <<>> /\ v[0] = <<>>
      /\ \A n \in 1 .. Len(s) :
           u[n] = IF s[n] \in S THEN Append(u[n - 1], s[n]) ELSE u[n - 1]
      /\ \A n \in 1 .. Len(r) :
           v[n] = IF r[n] \in S THEN Append(v[n - 1], r[n]) ELSE v[n - 1]
  BY <1>1, UptoStep
<1> HIDE DEF u, v
<1>3. 0 \in N
  BY <1>2
<1>4. ASSUME NEW n \in Nat, n \in N
      PROVE  n + 1 \in N
  <2>1. SUFFICES ASSUME n + 1 <= Len(s)
                 PROVE  v[n + 1] = u[n + 1]
    OBVIOUS
  <2>2. v[n] = u[n]
    BY <1>1, <1>4, <2>1
  <2>3. n + 1 \in 1 .. Len(s) /\ n + 1 \in 1 .. Len(r) /\ (n + 1) - 1 = n
    BY <1>1, <2>1
  <2>4. r[n + 1] = s[n + 1]
    BY <1>1, <2>3
  <2> QED
    BY <1>2, <2>2, <2>3, <2>4
<1>5. Nat \subseteq N
  <2> HIDE DEF N
  <2> QED
    BY <1>3, <1>4, NatSetInduction
<1>6. i \in Nat /\ i <= Len(s)
  BY <1>1
<1>7. v[i] = u[i]
  BY <1>5, <1>6
<1> QED
  BY <1>7 DEF u, v, r

(* Nothing is selected of the empty sequence. *)
LEMMA SelectedEmpty ==
  ASSUME NEW S
  PROVE  Selected(<<>>, S) = <<>>
<1>1. <<>> \in Seq({}) /\ Len(<<>>) = 0
  BY EmptySeq
<1>2. Upto(<<>>, S)[0] = <<>>
  BY <1>1, UptoStep, ZenonT(40)
<1> QED
  BY <1>1, <1>2 DEF Selected

(* One element more. *)
LEMMA SelectedAppend ==
  ASSUME NEW T, NEW s \in Seq(T), NEW x \in T, NEW S
  PROVE  Selected(Append(s, x), S) =
           IF x \in S THEN Append(Selected(s, S), x) ELSE Selected(s, S)
<1> DEFINE r == Append(s, x)
           n == Len(s)
<1>1. /\ r \in Seq(T) /\ Len(r) = n + 1 /\ n \in Nat /\ r[n + 1] = x
  BY AppendProperties, LenProperties
<1>2. Upto(r, S)[n] = Upto(s, S)[n]
  BY <1>1, UptoAppend
<1> HIDE DEF r, n
<1>3. n + 1 \in 1 .. Len(r) /\ (n + 1) - 1 = n
  BY <1>1
<1>4. Upto(r, S)[n + 1] = IF x \in S THEN Append(Upto(r, S)[n], x) ELSE Upto(r, S)[n]
  BY <1>1, <1>3, UptoStep
<1>5. Selected(r, S) = Upto(r, S)[n + 1] /\ Selected(s, S) = Upto(s, S)[n]
  BY <1>1 DEF Selected, n
<1> QED
  BY <1>2, <1>4, <1>5 DEF r

-----------------------------------------------------------------------------
(* What Selected returns. *)

LEMMA SelectedType ==
  ASSUME NEW T, NEW s \in Seq(T), NEW S
  PROVE  Selected(s, S) \in Seq(T \cap S)
<1> DEFINE P == {q \in Seq(T) : Selected(q, S) \in Seq(T \cap S)}
<1>1. <<>> \in P
  BY EmptySeq, SelectedEmpty
<1>2. ASSUME NEW q \in Seq(T), NEW x \in T, q \in P
      PROVE  Append(q, x) \in P
  <2>1. Append(q, x) \in Seq(T)
    BY AppendProperties
  <2>2. CASE x \in S
    <3>1. x \in T \cap S /\ Selected(q, S) \in Seq(T \cap S)
      BY <1>2, <2>2
    <3>2. Append(Selected(q, S), x) \in Seq(T \cap S)
      BY <3>1, AppendProperties
    <3>3. Selected(Append(q, x), S) = Append(Selected(q, S), x)
      BY <2>2, SelectedAppend
    <3> QED
      BY <2>1, <3>2, <3>3
  <2>3. CASE x \notin S
    BY <1>2, <2>1, <2>3, SelectedAppend
  <2> QED
    BY <2>2, <2>3
<1>3. Seq(T) \subseteq P
  <2> HIDE DEF P
  <2> QED
    BY <1>1, <1>2, SeqSetInduction
<1> QED
  BY <1>3

(* The elements selected stand at growing places of s, and no element of S *)
(* is left out.                                                            *)
Picks(h, s, r, S) ==
  /\ h \in [1 .. Len(r) -> 1 .. Len(s)]
  /\ \A j, k \in 1 .. Len(r) : j < k => h[j] < h[k]
  /\ \A k \in 1 .. Len(r) : r[k] = s[h[k]]
  /\ \A i \in 1 .. Len(s) : s[i] \in S <=> \E k \in 1 .. Len(r) : h[k] = i

LEMMA SelectedPicks ==
  ASSUME NEW T, NEW s \in Seq(T), NEW S
  PROVE  \E h : Picks(h, s, Selected(s, S), S)
<1> DEFINE P == {q \in Seq(T) : \E h : Picks(h, q, Selected(q, S), S)}
<1>1. <<>> \in P
  <2>1. Picks([k \in 1 .. 0 |-> k], <<>>, <<>>, S)
    BY EmptySeq DEF Picks
  <2> QED
    BY <2>1, EmptySeq, SelectedEmpty
<1>2. ASSUME NEW q \in Seq(T), NEW x \in T, q \in P
      PROVE  Append(q, x) \in P
  <2> DEFINE r == Selected(q, S)
             n == Len(q)
             m == Len(r)
             qx == Append(q, x)
  <2>1. PICK h : Picks(h, q, r, S)
    BY <1>2
  <2>2. /\ qx \in Seq(T) /\ Len(qx) = n + 1 /\ qx[n + 1] = x
        /\ \A i \in 1 .. n : qx[i] = q[i]
    BY AppendProperties
  <2>3. r \in Seq(T \cap S) /\ n \in Nat /\ m \in Nat
    BY SelectedType, LenProperties
  <2> HIDE DEF qx
  <2>4. CASE x \in S
    <3> DEFINE rx == Append(r, x)
               g == [k \in 1 .. m + 1 |-> IF k = m + 1 THEN n + 1 ELSE h[k]]
    <3>1. Selected(qx, S) = rx
      BY <2>4, SelectedAppend DEF qx
    <3>2. x \in T \cap S
      BY <2>4
    <3>3. /\ Len(rx) = m + 1 /\ rx[m + 1] = x
          /\ \A k \in 1 .. m : rx[k] = r[k]
      BY <2>3, <3>2, AppendProperties
    <3> HIDE DEF r, n, m, rx
    <3>4. /\ h \in [1 .. m -> 1 .. n]
          /\ \A j, k \in 1 .. m : j < k => h[j] < h[k]
          /\ \A k \in 1 .. m : r[k] = q[h[k]]
          /\ \A i \in 1 .. n : q[i] \in S <=> \E k \in 1 .. m : h[k] = i
      BY <2>1 DEF Picks, n, m
    <3>5. /\ g \in [1 .. m + 1 -> 1 .. n + 1]
          /\ g[m + 1] = n + 1
          /\ \A k \in 1 .. m : g[k] = h[k] /\ g[k] \in 1 .. n
      BY <2>3, <3>4
    <3> HIDE DEF g
    <3>6. \A j, k \in 1 .. m + 1 : j < k => g[j] < g[k]
      <4>1. TAKE j, k \in 1 .. m + 1
      <4>2. HAVE j < k
      <4>3. j \in 1 .. m
        BY <2>3, <4>2
      <4>4. CASE k = m + 1
        BY <2>3, <3>5, <4>3, <4>4
      <4>5. CASE k \in 1 .. m
        BY <3>4, <3>5, <4>2, <4>3, <4>5
      <4> QED
        BY <2>3, <4>4, <4>5
    <3>7. \A k \in 1 .. m + 1 : rx[k] = qx[g[k]]
      <4>1. TAKE k \in 1 .. m + 1
      <4>2. CASE k = m + 1
        BY <2>2, <3>3, <3>5, <4>2
      <4>3. CASE k \in 1 .. m
        BY <2>2, <3>3, <3>4, <3>5, <4>3
      <4> QED
        BY <2>3, <4>2, <4>3
    <3>8. \A i \in 1 .. n + 1 : qx[i] \in S <=> \E k \in 1 .. m + 1 : g[k] = i
      <4>1. TAKE i \in 1 .. n + 1
      <4>2. CASE i = n + 1
        <5>1. m + 1 \in 1 .. m + 1 /\ g[m + 1] = i
          BY <2>3, <3>5, <4>2
        <5> QED
          BY <2>2, <2>4, <4>2, <5>1
      <4>3. CASE i \in 1 .. n
        <5>1. \A k \in 1 .. m : k \in 1 .. m + 1
          BY <2>3
        <5>2. \A k \in 1 .. m + 1 : g[k] = i => k \in 1 .. m
          BY <2>3, <3>5, <4>3
        <5>3. (\E k \in 1 .. m : h[k] = i) <=> (\E k \in 1 .. m + 1 : g[k] = i)
          BY <3>5, <5>1, <5>2
        <5>4. q[i] \in S <=> \E k \in 1 .. m : h[k] = i
          BY <3>4, <4>3
        <5> QED
          BY <2>2, <4>3, <5>3, <5>4
      <4> QED
        BY <2>3, <4>2, <4>3
    <3>9. Picks(g, qx, rx, S)
      BY <2>2, <3>3, <3>5, <3>6, <3>7, <3>8 DEF Picks
    <3>10. \E f : Picks(f, qx, Selected(qx, S), S)
      BY <3>1, <3>9
    <3> QED
      BY <2>2, <3>10 DEF qx
  <2>5. CASE x \notin S
    <3>1. Selected(qx, S) = r
      BY <2>5, SelectedAppend DEF qx
    <3> HIDE DEF r, n, m
    <3>2. /\ h \in [1 .. m -> 1 .. n]
          /\ \A j, k \in 1 .. m : j < k => h[j] < h[k]
          /\ \A k \in 1 .. m : r[k] = q[h[k]]
          /\ \A i \in 1 .. n : q[i] \in S <=> \E k \in 1 .. m : h[k] = i
      BY <2>1 DEF Picks, n, m
    <3>3. /\ h \in [1 .. m -> 1 .. n + 1]
          /\ \A k \in 1 .. m : r[k] = qx[h[k]]
      <4>1. 1 .. n \subseteq 1 .. n + 1
        BY <2>3
      <4>2. \A k \in 1 .. m : h[k] \in 1 .. n
        BY <3>2
      <4>3. \A k \in 1 .. m : r[k] = qx[h[k]]
        BY <2>2, <3>2, <4>2 DEF n
      <4> QED
        BY <3>2, <4>1, <4>3
    <3>4. \A i \in 1 .. n + 1 : qx[i] \in S <=> \E k \in 1 .. m : h[k] = i
      <4>1. TAKE i \in 1 .. n + 1
      <4>2. CASE i = n + 1
        <5>1. \A k \in 1 .. m : h[k] # i
          BY <2>3, <3>2, <4>2
        <5> QED
          BY <2>2, <2>5, <4>2, <5>1
      <4>3. CASE i \in 1 .. n
        BY <2>2, <3>2, <4>3
      <4> QED
        BY <2>3, <4>2, <4>3
    <3>5. Picks(h, qx, r, S)
      BY <2>2, <3>2, <3>3, <3>4 DEF Picks, m
    <3>6. \E f : Picks(f, qx, Selected(qx, S), S)
      BY <3>1, <3>5
    <3> QED
      BY <2>2, <3>6 DEF qx
  <2> QED
    BY <2>4, <2>5 DEF qx
<1>3. Seq(T) \subseteq P
  <2> HIDE DEF P
  <2> QED
    BY <1>1, <1>2, SeqSetInduction
<1> QED
  BY <1>3

(* All of a sequence of elements of S is selected, and nothing of one      *)
(* without them.                                                           *)
LEMMA SelectedAllOrNone ==
  ASSUME NEW T, NEW s \in Seq(T), NEW S
  PROVE  /\ (\A i \in 1 .. Len(s) : s[i] \in S) => Selected(s, S) = s
         /\ (\A i \in 1 .. Len(s) : s[i] \notin S) => Selected(s, S) = <<>>
<1> DEFINE All(q) == \A i \in 1 .. Len(q) : q[i] \in S
           None(q) == \A i \in 1 .. Len(q) : q[i] \notin S
           P == {q \in Seq(T) : /\ All(q) => Selected(q, S) = q
                                /\ None(q) => Selected(q, S) = <<>>}
<1>1. <<>> \in P
  BY EmptySeq, SelectedEmpty
<1>2. ASSUME NEW q \in Seq(T), NEW x \in T, q \in P
      PROVE  Append(q, x) \in P
  <2> DEFINE qx == Append(q, x)
  <2>1. /\ qx \in Seq(T) /\ Len(qx) = Len(q) + 1 /\ qx[Len(q) + 1] = x
        /\ \A i \in 1 .. Len(q) : qx[i] = q[i]
        /\ Len(q) \in Nat
    BY AppendProperties, LenProperties
  <2>2. Selected(qx, S) = IF x \in S THEN Append(Selected(q, S), x) ELSE Selected(q, S)
    BY SelectedAppend
  <2> HIDE DEF qx
  <2>3. All(qx) => All(q) /\ x \in S
    BY <2>1
  <2>4. None(qx) => None(q) /\ x \notin S
    BY <2>1
  <2> QED
    BY <1>2, <2>1, <2>2, <2>3, <2>4 DEF qx
<1>3. Seq(T) \subseteq P
  <2> HIDE DEF P
  <2> QED
    BY <1>1, <1>2, SeqSetInduction
<1> QED
  BY <1>3

(* Selecting and appending commute. *)
LEMMA SelectedConcat ==
  ASSUME NEW T, NEW s \in Seq(T), NEW t \in Seq(T), NEW S
  PROVE  Selected(s \o t, S) = Selected(s, S) \o Selected(t, S)
<1> DEFINE P == {q \in Seq(T) : Selected(s \o q, S) = Selected(s, S) \o Selected(q, S)}
<1>1. \A q \in Seq(T) : Selected(q, S) \in Seq(T)
  BY SelectedType, SeqMonotonic, T \cap S \subseteq T
<1>2. <<>> \in P
  BY <1>1, EmptySeq, SelectedEmpty, ConcatEmptySeq
<1>3. ASSUME NEW q \in Seq(T), NEW x \in T, q \in P
      PROVE  Append(q, x) \in P
  <2>1. s \o q \in Seq(T) /\ Append(q, x) \in Seq(T)
    BY ConcatProperties, AppendProperties
  <2>2. s \o Append(q, x) = Append(s \o q, x)
    <3>1. <<x>> \in Seq(T)
      OBVIOUS
    <3> QED
      BY <2>1, <3>1, AppendIsConcat, ConcatAssociative
  <2>3. Selected(Append(s \o q, x), S) =
          IF x \in S THEN Append(Selected(s \o q, S), x) ELSE Selected(s \o q, S)
    BY <2>1, SelectedAppend
  <2>4. Selected(Append(q, x), S) =
          IF x \in S THEN Append(Selected(q, S), x) ELSE Selected(q, S)
    BY SelectedAppend
  <2>5. Selected(s, S) \o Append(Selected(q, S), x) = Append(Selected(s, S) \o Selected(q, S), x)
    <3> DEFINE a == Selected(s, S)
               b == Selected(q, S)
    <3>1. <<x>> \in Seq(T)
      OBVIOUS
    <3>2. a \in Seq(T) /\ b \in Seq(T)
      BY <1>1
    <3> HIDE DEF a, b
    <3>3. a \o b \in Seq(T)
      BY <3>2, ConcatProperties
    <3>4. a \o Append(b, x) = Append(a \o b, x)
      BY <3>1, <3>2, <3>3, AppendIsConcat, ConcatAssociative
    <3> QED
      BY <3>4 DEF a, b
  <2> QED
    BY <1>3, <2>1, <2>2, <2>3, <2>4, <2>5
<1>4. Seq(T) \subseteq P
  <2> HIDE DEF P
  <2> QED
    BY <1>2, <1>3, SeqSetInduction
<1> QED
  BY <1>4

(* Selecting twice is selecting once. *)
LEMMA SelectedTwice ==
  ASSUME NEW T, NEW s \in Seq(T), NEW S, NEW R
  PROVE  Selected(Selected(s, S), R) = Selected(s, S \cap R)
<1> DEFINE P == {q \in Seq(T) : Selected(Selected(q, S), R) = Selected(q, S \cap R)}
<1>1. <<>> \in P
  BY EmptySeq, SelectedEmpty
<1>2. ASSUME NEW q \in Seq(T), NEW x \in T, q \in P
      PROVE  Append(q, x) \in P
  <2>1. Append(q, x) \in Seq(T)
    BY AppendProperties
  <2>2. Selected(q, S) \in Seq(T \cap S)
    BY SelectedType
  <2>3. Selected(Append(q, x), S) =
          IF x \in S THEN Append(Selected(q, S), x) ELSE Selected(q, S)
    BY SelectedAppend
  <2>4. Selected(Append(q, x), S \cap R) =
          IF x \in S \cap R THEN Append(Selected(q, S \cap R), x) ELSE Selected(q, S \cap R)
    BY SelectedAppend
  <2>5. CASE x \in S
    <3> DEFINE r == Selected(q, S)
               TS == T \cap S
    <3>1. x \in TS /\ r \in Seq(TS)
      BY <2>2, <2>5
    <3>2. Selected(Append(q, x), S) = Append(r, x)
      BY <2>3, <2>5
    <3>3. Selected(r, R) = Selected(q, S \cap R)
      BY <1>2
    <3> HIDE DEF r, TS
    <3>4. Selected(Append(r, x), R) =
            IF x \in R THEN Append(Selected(r, R), x) ELSE Selected(r, R)
      BY <3>1, SelectedAppend
    <3>5. Selected(Selected(Append(q, x), S), R) = Selected(Append(q, x), S \cap R)
      BY <2>4, <2>5, <3>2, <3>3, <3>4
    <3> QED
      BY <2>1, <3>5
  <2>6. CASE x \notin S
    BY <1>2, <2>1, <2>3, <2>4, <2>6
  <2> QED
    BY <2>5, <2>6
<1>3. Seq(T) \subseteq P
  <2> HIDE DEF P
  <2> QED
    BY <1>1, <1>2, SeqSetInduction
<1> QED
  BY <1>3

(* Selecting makes no sequence longer. *)
LEMMA SelectedShorter ==
  ASSUME NEW T, NEW s \in Seq(T), NEW S
  PROVE  Len(Selected(s, S)) <= Len(s)
<1> DEFINE P == {q \in Seq(T) : Len(Selected(q, S)) <= Len(q)}
<1>1. <<>> \in P
  BY EmptySeq, SelectedEmpty
<1>2. ASSUME NEW q \in Seq(T), NEW x \in T, q \in P
      PROVE  Append(q, x) \in P
  <2> DEFINE r == Selected(q, S)
             qx == Append(q, x)
             rx == Append(r, x)
  <2>1. r \in Seq(T \cap S) /\ Len(r) \in Nat /\ Len(q) \in Nat
    BY SelectedType, LenProperties
  <2>2. qx \in Seq(T) /\ Len(qx) = Len(q) + 1
    BY AppendProperties
  <2>3. Selected(qx, S) = IF x \in S THEN rx ELSE r
    BY SelectedAppend
  <2>4. Len(r) <= Len(q)
    BY <1>2
  <2>5. x \in S => Len(rx) = Len(r) + 1
    <3> HIDE DEF r
    <3> QED
      BY <2>1, AppendProperties
  <2> HIDE DEF r, qx, rx
  <2>6. Len(Selected(qx, S)) <= Len(qx)
    BY <2>1, <2>2, <2>3, <2>4, <2>5
  <2> QED
    BY <2>2, <2>6 DEF qx
<1>3. Seq(T) \subseteq P
  <2> HIDE DEF P
  <2> QED
    BY <1>1, <1>2, SeqSetInduction
<1> QED
  BY <1>3
=============================================================================
