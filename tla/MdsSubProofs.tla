---------------------------- MODULE MdsSubProofs ----------------------------
(***************************************************************************)
(* Proofs about MdsSub, for any topics, queue length, faults and bounds.   *)
(* The inductive invariant IInv adds to the properties how the frames of   *)
(* the socket follow each other, which message the head that was read      *)
(* belongs to, and which frames of cancelled topics are still there.       *)
(***************************************************************************)
EXTENDS MdsSub, SelectionProofs

(* The frames of a socket: each message is there from some frame on to its *)
(* last one, only the first may have lost its beginning, and messages are  *)
(* in the order of their numbers.                                          *)
Precedes(f, g) ==
  f.of.n < g.of.n \/ (f.of = g.of /\ f.part < g.part)

InOrder(w) ==
  /\ \A i \in 1 .. Len(w) : w[i].part < NrFrames(w[i].of)
  /\ \A i, j \in 1 .. Len(w) : i < j => Precedes(w[i], w[j])
  /\ \A i \in 1 .. Len(w) : More(w[i]) =>
       i < Len(w) /\ w[i + 1].of = w[i].of /\ w[i + 1].part = w[i].part + 1
  /\ \A i \in 1 .. Len(w) : i < Len(w) /\ ~More(w[i]) => w[i + 1].part = 0
  /\ \A i \in 1 .. Len(w) :
       \/ w[i].of = w[1].of
       \/ \E j \in 1 .. Len(w) : w[j].of = w[i].of /\ w[j].part = 0

WireInv ==
  /\ InOrder(wire)
  /\ \A i \in 1 .. Len(wire) : wire[i].of.n <= sent
  /\ head <= sent

(* The head that was read is gone, and was well formed. *)
HeadInv ==
  \A i \in 1 .. Len(wire) :
    wire[i].of.n = head => wire[i].part > 1 /\ wire[i].of.fault # "head"

(* Why a frame is refused. *)
FaultInv ==
  /\ ~malformed => \A i \in 1 .. Len(wire) : wire[i].of.fault = "none"
  /\ broken => malformed \/ lost

(* mds_sub_cancel is still to remove the messages of t it receives.        *)
Removing(t) == op = "cancel" /\ pc \in {"frames", "drop"} /\ t = target

(* The body of the message in front will not be accepted. *)
Dead(f) ==
  \/ f.part = 1 /\ step # 1
  \/ f.part = 2 /\ ~(step = 2 /\ head = f.of.n)
  \/ f.part = 3

(* Of a topic that is not subscribed no messages wait, and no frames but   *)
(* those of a message that was begun.                                      *)
SilentInv ==
  /\ \A i \in 1 .. Len(queue) :
       subs[queue[i].topic] > 0 \/ Removing(queue[i].topic)
  /\ \A i \in 1 .. Len(wire) :
       \/ subs[wire[i].of.topic] > 0
       \/ /\ wire[i].of = wire[1].of /\ wire[1].part > 0
          /\ (Removing(wire[i].of.topic) /\ pc = "frames") \/ Dead(wire[1])

(* Where a call is, and that the queue has room while it receives.         *)
CallInv ==
  /\ pc \in {"pop", "poll"} => op = "recv"
  /\ pc = "drop" => op = "cancel"
  /\ pc = "frames" /\ op = "recv" => Len(queue) < NR_CACHE
  /\ pc = "poll" => queue = <<>>
  /\ pc # "idle" => out.rc = "none"

(* The inductive invariant. *)
IInv ==
  /\ TypeOK /\ WireInv /\ HeadInv /\ FaultInv /\ SilentInv /\ CallInv
  /\ InStep /\ CancelledIsSilent /\ ProtoExplained

-----------------------------------------------------------------------------
(* Frames and the order they are in. *)

LEMMA NrFramesType ==
  ASSUME NEW m \in Message
  PROVE  NrFrames(m) \in 1 .. 4
  BY DEF NrFrames

LEMMA FrameType ==
  ASSUME NEW f \in Frame
  PROVE  f.of \in Message /\ f.part \in 0 .. 3 /\ f.of.n \in Nat /\ f.of.topic \in Topics
  BY MdsSubAssumption DEF Frame, Message

(* The frames of a message are frames, in order. *)
LEMMA FramesType ==
  ASSUME NEW m \in Message
  PROVE  /\ Frames(m) \in Seq(Frame)
         /\ Len(Frames(m)) = NrFrames(m)
         /\ \A i \in 1 .. NrFrames(m) : Frames(m)[i].of = m /\ Frames(m)[i].part = i - 1
<1>1. NrFrames(m) \in 1 .. 4
  BY NrFramesType
<1>2. \A i \in 1 .. NrFrames(m) : [of |-> m, part |-> i - 1] \in Frame
  BY <1>1 DEF Frame
<1> QED
  BY <1>1, <1>2 DEF Frames

(* Taking the first frame keeps the order. *)
LEMMA TailInOrder ==
  ASSUME NEW w \in Seq(Frame), w # <<>>, InOrder(w)
  PROVE  /\ InOrder(Tail(w))
         /\ Tail(w) # <<>> /\ ~More(w[1]) => w[2].part = 0
<1> DEFINE t == Tail(w)
           n == Len(w)
<1>1. /\ t \in Seq(Frame) /\ n \in Nat \ {0} /\ Len(t) = n - 1
      /\ \A i \in 1 .. n - 1 : t[i] = w[i + 1]
      /\ t # <<>> => n > 1
  BY HeadTailProperties, EmptySeq
<1>2. /\ \A i \in 1 .. n : w[i].part < NrFrames(w[i].of)
      /\ \A i, j \in 1 .. n : i < j => Precedes(w[i], w[j])
      /\ \A i \in 1 .. n : More(w[i]) =>
           i < n /\ w[i + 1].of = w[i].of /\ w[i + 1].part = w[i].part + 1
      /\ \A i \in 1 .. n : i < n /\ ~More(w[i]) => w[i + 1].part = 0
      /\ \A i \in 1 .. n :
           w[i].of = w[1].of \/ \E j \in 1 .. n : w[j].of = w[i].of /\ w[j].part = 0
  BY DEF InOrder
<1>3. \A i \in 1 .. n - 1 : i + 1 \in 1 .. n
  BY <1>1
<1>4. \A i \in 1 .. n :
        w[i] \in Frame /\ w[i].of \in Message /\ w[i].part \in 0 .. 3 /\ w[i].of.n \in Nat
  BY ElementOfSeq, FrameType
<1> HIDE DEF t, n
<1>5. \A i \in 1 .. n - 1 : t[i].part < NrFrames(t[i].of)
  BY <1>1, <1>2, <1>3
<1>6. \A i, j \in 1 .. n - 1 : i < j => Precedes(t[i], t[j])
  <2>1. TAKE i, j \in 1 .. n - 1
  <2>2. HAVE i < j
  <2>3. i + 1 \in 1 .. n /\ j + 1 \in 1 .. n /\ i + 1 < j + 1
    BY <1>1, <2>2
  <2> QED
    BY <1>1, <1>2, <2>3
<1>7. \A i \in 1 .. n - 1 : More(t[i]) =>
        i < n - 1 /\ t[i + 1].of = t[i].of /\ t[i + 1].part = t[i].part + 1
  <2>1. TAKE i \in 1 .. n - 1
  <2>2. HAVE More(t[i])
  <2>3. /\ i + 1 < n /\ w[(i + 1) + 1].of = w[i + 1].of
        /\ w[(i + 1) + 1].part = w[i + 1].part + 1
    BY <1>1, <1>2, <1>3, <2>2
  <2>4. i + 1 \in 1 .. n - 1
    BY <1>1, <2>3
  <2> QED
    BY <1>1, <2>3, <2>4
<1>8. \A i \in 1 .. n - 1 : i < n - 1 /\ ~More(t[i]) => t[i + 1].part = 0
  <2>1. TAKE i \in 1 .. n - 1
  <2>2. HAVE i < n - 1 /\ ~More(t[i])
  <2>3. i + 1 \in 1 .. n /\ i + 1 < n /\ i + 1 \in 1 .. n - 1
    BY <1>1, <2>2
  <2> QED
    BY <1>1, <1>2, <2>2, <2>3
<1>9. \A i \in 1 .. n - 1 :
        \/ t[i].of = t[1].of
        \/ \E j \in 1 .. n - 1 : t[j].of = t[i].of /\ t[j].part = 0
  <2>1. TAKE i \in 1 .. n - 1
  <2>2. i + 1 \in 1 .. n /\ 1 \in 1 .. n /\ 2 \in 1 .. n /\ 1 \in 1 .. n - 1 /\ 1 < n
    BY <1>1
  <2>3. CASE w[i + 1].of = w[1].of
    <3>1. CASE More(w[1])
      <4>1. w[2].of = w[1].of
        BY <1>2, <2>2, <3>1
      <4> QED
        BY <1>1, <2>2, <2>3, <4>1
    <3>2. CASE ~More(w[1])
      <4>1. Precedes(w[1], w[i + 1])
        BY <1>1, <1>2, <2>2
      <4>2. w[1].part < w[i + 1].part
        BY <1>4, <2>2, <2>3, <4>1 DEF Precedes
      <4>3. w[i + 1].part < NrFrames(w[1].of)
        BY <1>2, <2>2, <2>3
      <4>4. NrFrames(w[1].of) \in 1 .. 4
        BY <1>4, <2>2, NrFramesType
      <4> QED
        BY <1>4, <2>2, <3>2, <4>2, <4>3, <4>4 DEF More
    <3> QED
      BY <3>1, <3>2
  <2>4. CASE w[i + 1].of # w[1].of
    <3>1. PICK j \in 1 .. n : w[j].of = w[i + 1].of /\ w[j].part = 0
      BY <1>2, <2>2, <2>4
    <3>2. j - 1 \in 1 .. n - 1 /\ t[j - 1] = w[j]
      BY <1>1, <2>4, <3>1
    <3> QED
      BY <1>1, <3>1, <3>2
  <2> QED
    BY <2>3, <2>4
<1>10. InOrder(t)
  BY <1>1, <1>5, <1>6, <1>7, <1>8, <1>9 DEF InOrder
<1>11. t # <<>> /\ ~More(w[1]) => w[2].part = 0
  BY <1>1, <1>2
<1> QED
  BY <1>10, <1>11 DEF t

(* A new message keeps the order. *)
LEMMA ConcatInOrder ==
  ASSUME NEW w \in Seq(Frame), InOrder(w),
         NEW m \in Message, \A i \in 1 .. Len(w) : w[i].of.n < m.n
  PROVE  /\ InOrder(w \o Frames(m))
         /\ w \o Frames(m) \in Seq(Frame)
         /\ Len(w \o Frames(m)) = Len(w) + NrFrames(m)
         /\ \A i \in 1 .. Len(w) : (w \o Frames(m))[i] = w[i]
         /\ \A i \in Len(w) + 1 .. Len(w) + NrFrames(m) :
              (w \o Frames(m))[i].of = m /\ (w \o Frames(m))[i].part = i - Len(w) - 1
<1> DEFINE n == Len(w)
           k == NrFrames(m)
           t == w \o Frames(m)
<1>1. k \in 1 .. 4 /\ n \in Nat
  BY NrFramesType, LenProperties
<1>2. /\ Frames(m) \in Seq(Frame) /\ Len(Frames(m)) = k
      /\ \A i \in 1 .. k : Frames(m)[i].of = m /\ Frames(m)[i].part = i - 1
  BY FramesType
<1>3. /\ t \in Seq(Frame) /\ Len(t) = n + k
      /\ \A i \in 1 .. n + k : t[i] = IF i <= n THEN w[i] ELSE Frames(m)[i - n]
  <2>1. /\ t \in Seq(Frame) /\ Len(t) = Len(w) + Len(Frames(m))
        /\ \A i \in 1 .. Len(w) + Len(Frames(m)) :
             t[i] = IF i <= Len(w) THEN w[i] ELSE Frames(m)[i - Len(w)]
    BY <1>2, ConcatProperties, Zenon
  <2> QED
    BY <1>2, <2>1, Zenon
<1> HIDE DEF t, n, k
<1>4. /\ \A i \in 1 .. n : t[i] = w[i] /\ i \in 1 .. n + k
      /\ \A i \in n + 1 .. n + k : t[i].of = m /\ t[i].part = i - n - 1
  <2>1. ASSUME NEW i \in n + 1 .. n + k
        PROVE  t[i].of = m /\ t[i].part = i - n - 1
    <3>1. i - n \in 1 .. k /\ i \in 1 .. n + k /\ ~(i <= n)
      BY <1>1
    <3> QED
      BY <1>2, <1>3, <3>1
  <2> QED
    BY <1>1, <1>3, <2>1
<1>5. /\ \A i \in 1 .. n : w[i].part < NrFrames(w[i].of)
      /\ \A i, j \in 1 .. n : i < j => Precedes(w[i], w[j])
      /\ \A i \in 1 .. n : More(w[i]) =>
           i < n /\ w[i + 1].of = w[i].of /\ w[i + 1].part = w[i].part + 1
      /\ \A i \in 1 .. n : i < n /\ ~More(w[i]) => w[i + 1].part = 0
      /\ \A i \in 1 .. n :
           w[i].of = w[1].of \/ \E j \in 1 .. n : w[j].of = w[i].of /\ w[j].part = 0
  BY DEF InOrder, n
<1>6. \A i \in 1 .. n + k : i \in 1 .. n \/ i \in n + 1 .. n + k
  BY <1>1
<1>7. \A i \in 1 .. n + k : t[i].part < NrFrames(t[i].of)
  BY <1>1, <1>4, <1>5, <1>6 DEF k
<1>8. \A i, j \in 1 .. n + k : i < j => Precedes(t[i], t[j])
  <2>1. TAKE i, j \in 1 .. n + k
  <2>2. HAVE i < j
  <2>3. CASE j \in 1 .. n
    BY <1>1, <1>4, <1>5, <2>2, <2>3
  <2>4. CASE i \in 1 .. n /\ j \in n + 1 .. n + k
    <3>1. t[i].of.n < m.n /\ t[j].of = m
      BY <1>4, <2>4 DEF n
    <3> QED
      BY <3>1 DEF Precedes
  <2>5. CASE i \in n + 1 .. n + k /\ j \in n + 1 .. n + k
    BY <1>1, <1>4, <2>2, <2>5 DEF Precedes
  <2> QED
    BY <1>1, <1>6, <2>2, <2>3, <2>4, <2>5
<1>9. \A i \in 1 .. n + k : More(t[i]) =>
        i < n + k /\ t[i + 1].of = t[i].of /\ t[i + 1].part = t[i].part + 1
  <2>1. TAKE i \in 1 .. n + k
  <2>2. HAVE More(t[i])
  <2>3. CASE i \in 1 .. n
    <3>1. i < n /\ w[i + 1].of = w[i].of /\ w[i + 1].part = w[i].part + 1
      BY <1>4, <1>5, <2>2, <2>3
    <3>2. i + 1 \in 1 .. n
      BY <1>1, <3>1
    <3> QED
      BY <1>1, <1>4, <2>3, <3>1, <3>2
  <2>4. CASE i \in n + 1 .. n + k
    <3>1. t[i].part + 1 < k
      BY <1>4, <2>2, <2>4 DEF More, k
    <3>2. (i - n - 1) + 1 < k
      BY <1>4, <2>4, <3>1
    <3>3. i + 1 \in n + 1 .. n + k /\ i < n + k /\ (i + 1) - n - 1 = (i - n - 1) + 1
      BY <1>1, <2>4, <3>2
    <3> QED
      BY <1>4, <2>4, <3>3
  <2> QED
    BY <1>6, <2>3, <2>4
<1>10. \A i \in 1 .. n + k : i < n + k /\ ~More(t[i]) => t[i + 1].part = 0
  <2>1. TAKE i \in 1 .. n + k
  <2>2. HAVE i < n + k /\ ~More(t[i])
  <2>3. CASE i < n
    <3>1. i \in 1 .. n /\ i + 1 \in 1 .. n
      BY <1>1, <2>3
    <3> QED
      BY <1>4, <1>5, <2>2, <2>3, <3>1
  <2>4. CASE i = n
    <3>1. i + 1 \in n + 1 .. n + k
      BY <1>1, <2>4
    <3> QED
      BY <1>1, <1>4, <2>4, <3>1
  <2>5. CASE i \in n + 1 .. n + k
    <3>1. ~(i - n < k)
      BY <1>1, <1>4, <2>2, <2>5 DEF More, k
    <3> QED
      BY <1>1, <2>2, <2>5, <3>1
  <2> QED
    BY <1>1, <1>6, <2>3, <2>4, <2>5
<1>11. \A i \in 1 .. n + k :
         \/ t[i].of = t[1].of
         \/ \E j \in 1 .. n + k : t[j].of = t[i].of /\ t[j].part = 0
  <2>1. TAKE i \in 1 .. n + k
  <2>2. CASE i \in 1 .. n
    <3>1. 1 \in 1 .. n
      BY <1>1, <2>2
    <3>2. t[i] = w[i] /\ t[1] = w[1]
      BY <1>4, <2>2, <3>1
    <3>3. CASE w[i].of = w[1].of
      BY <3>2, <3>3
    <3>4. ASSUME NEW j \in 1 .. n, w[j].of = w[i].of, w[j].part = 0
          PROVE  \E l \in 1 .. n + k : t[l].of = t[i].of /\ t[l].part = 0
      <4>1. j \in 1 .. n + k /\ t[j] = w[j]
        BY <1>4, <3>4
      <4> QED
        BY <3>2, <3>4, <4>1
    <3> QED
      BY <1>5, <2>2, <3>3, <3>4
  <2>3. CASE i \in n + 1 .. n + k
    <3>1. n + 1 \in n + 1 .. n + k /\ n + 1 \in 1 .. n + k /\ (n + 1) - n - 1 = 0
      BY <1>1
    <3>2. t[n + 1].of = t[i].of /\ t[n + 1].part = 0
      BY <1>4, <2>3, <3>1
    <3> QED
      BY <3>1, <3>2
  <2> QED
    BY <1>6, <2>2, <2>3
<1>12. InOrder(t)
  BY <1>3, <1>7, <1>8, <1>9, <1>10, <1>11 DEF InOrder
<1> QED
  BY <1>3, <1>4, <1>12 DEF t, n, k

(* Removing whole messages, or what is left of them, keeps the order, and  *)
(* the first frame when it stays.                                          *)
LEMMA SelectedInOrder ==
  ASSUME NEW w \in Seq(Frame), InOrder(w), NEW S,
         \A i, j \in 1 .. Len(w) : w[i].of = w[j].of => (w[i] \in S <=> w[j] \in S)
  PROVE  /\ Selected(w, S) \in Seq(Frame)
         /\ InOrder(Selected(w, S))
         /\ \A k \in 1 .. Len(Selected(w, S)) :
              \E i \in 1 .. Len(w) : Selected(w, S)[k] = w[i] /\ w[i] \in S
         /\ Selected(w, S) # <<>> => Selected(w, S)[1] = w[1] \/ Selected(w, S)[1].part = 0
         /\ w # <<>> /\ w[1] \in S => Selected(w, S) # <<>> /\ Selected(w, S)[1] = w[1]
<1> DEFINE r == Selected(w, S)
           n == Len(w)
           m == Len(r)
<1>1. PICK h : Picks(h, w, r, S)
  BY SelectedPicks
<1>2. r \in Seq(Frame) /\ n \in Nat /\ m \in Nat /\ (r # <<>> <=> m > 0) /\ (w # <<>> <=> n > 0)
  <2>1. r \in Seq(Frame \cap S) /\ Frame \cap S \subseteq Frame
    BY SelectedType
  <2>2. r \in Seq(Frame)
    BY <2>1, SeqMonotonic
  <2> HIDE DEF r
  <2> QED
    BY <2>2, LenProperties, EmptySeq
<1>3. /\ \A k \in 1 .. m : h[k] \in 1 .. n /\ r[k] = w[h[k]] /\ w[h[k]] \in S
      /\ \A j, k \in 1 .. m : j < k => h[j] < h[k]
      /\ \A i \in 1 .. n : w[i] \in S => \E k \in 1 .. m : h[k] = i
  BY <1>1 DEF Picks
<1>4. /\ \A i \in 1 .. n : w[i].part < NrFrames(w[i].of)
      /\ \A i, j \in 1 .. n : i < j => Precedes(w[i], w[j])
      /\ \A i \in 1 .. n : More(w[i]) =>
           i < n /\ w[i + 1].of = w[i].of /\ w[i + 1].part = w[i].part + 1
      /\ \A i \in 1 .. n : i < n /\ ~More(w[i]) => w[i + 1].part = 0
      /\ \A i \in 1 .. n :
           w[i].of = w[1].of \/ \E j \in 1 .. n : w[j].of = w[i].of /\ w[j].part = 0
      /\ \A i, j \in 1 .. n : w[i].of = w[j].of => (w[i] \in S <=> w[j] \in S)
  BY DEF InOrder
<1> HIDE DEF r, n, m
(* What stands between two neighbours of r, or before the first, is not    *)
(* selected.                                                               *)
<1>5. \A i \in 1 .. n : \A k \in 1 .. m :
        /\ i < h[k] /\ w[i] \in S => k > 1 /\ i <= h[k - 1]
        /\ h[k] < i /\ w[i] \in S => k < m /\ h[k + 1] <= i
  <2>1. TAKE i \in 1 .. n
  <2>2. TAKE k \in 1 .. m
  <2>3. ASSUME w[i] \in S
        PROVE  /\ i < h[k] => k > 1 /\ i <= h[k - 1]
               /\ h[k] < i => k < m /\ h[k + 1] <= i
    <3>1. PICK j \in 1 .. m : h[j] = i
      BY <1>3, <2>3
    <3>2. CASE j < k
      <4>1. ~(h[k] < i) /\ k > 1 /\ k - 1 \in 1 .. m
        BY <1>2, <1>3, <3>1, <3>2
      <4>2. j = k - 1 \/ j < k - 1
        BY <3>2
      <4>3. h[j] <= h[k - 1]
        BY <1>2, <1>3, <4>1, <4>2
      <4> QED
        BY <3>1, <4>1, <4>3
    <3>3. CASE j > k
      <4>1. ~(i < h[k]) /\ k < m /\ k + 1 \in 1 .. m
        BY <1>2, <1>3, <3>1, <3>3
      <4>2. j = k + 1 \/ k + 1 < j
        BY <3>3
      <4>3. h[k + 1] <= h[j]
        BY <1>2, <1>3, <4>1, <4>2
      <4> QED
        BY <3>1, <4>1, <4>3
    <3>4. CASE j = k
      BY <1>3, <3>1, <3>4
    <3> QED
      BY <3>2, <3>3, <3>4
  <2> QED
    BY <2>3
<1>6. \A i \in 1 .. m : r[i].part < NrFrames(r[i].of)
  BY <1>3, <1>4
<1>7. \A i, j \in 1 .. m : i < j => Precedes(r[i], r[j])
  BY <1>3, <1>4
<1>8. \A i \in 1 .. m : More(r[i]) =>
        i < m /\ r[i + 1].of = r[i].of /\ r[i + 1].part = r[i].part + 1
  <2>1. TAKE i \in 1 .. m
  <2>2. HAVE More(r[i])
  <2>3. /\ h[i] < n /\ w[h[i] + 1].of = w[h[i]].of
        /\ w[h[i] + 1].part = w[h[i]].part + 1
    BY <1>3, <1>4, <2>2
  <2>4. h[i] + 1 \in 1 .. n /\ h[i] \in 1 .. n /\ h[i] < h[i] + 1
    BY <1>2, <1>3, <2>3
  <2>5. w[h[i] + 1] \in S
    BY <1>3, <1>4, <2>3, <2>4
  <2>6. i < m /\ h[i + 1] <= h[i] + 1
    BY <1>5, <2>4, <2>5
  <2>7. i + 1 \in 1 .. m /\ h[i] < h[i + 1] /\ h[i + 1] \in 1 .. n
    BY <1>2, <1>3, <2>6
  <2>8. h[i + 1] = h[i] + 1
    BY <1>2, <2>4, <2>6, <2>7
  <2> QED
    BY <1>3, <2>3, <2>6, <2>7, <2>8
(* What is not selected ends before the next frame of r begins.            *)
<1>9. \A k \in 1 .. m : h[k] > 1 /\ w[h[k] - 1] \notin S => r[k].part = 0
  <2>1. TAKE k \in 1 .. m
  <2>2. HAVE h[k] > 1 /\ w[h[k] - 1] \notin S
  <2> DEFINE q == h[k]
  <2>3a. q \in 1 .. n /\ q > 1
    BY <1>3, <2>2
  <2>3b. q - 1 \in 1 .. n /\ q - 1 < n /\ (q - 1) + 1 = q
    <3> HIDE DEF q
    <3> QED
      BY <1>2, <2>3a
  <2>3. h[k] - 1 \in 1 .. n /\ h[k] \in 1 .. n /\ h[k] - 1 < n /\ (h[k] - 1) + 1 = h[k]
    BY <2>3a, <2>3b
  <2>4. CASE More(w[h[k] - 1])
    <3>1. w[h[k]].of = w[h[k] - 1].of
      BY <1>4, <2>3, <2>4
    <3> QED
      BY <1>3, <1>4, <2>2, <2>3, <3>1
  <2>5. CASE ~More(w[h[k] - 1])
    BY <1>3, <1>4, <2>3, <2>5
  <2> QED
    BY <2>4, <2>5
<1>10. \A i \in 1 .. m : i < m /\ ~More(r[i]) => r[i + 1].part = 0
  <2>1. TAKE i \in 1 .. m
  <2>2. HAVE i < m /\ ~More(r[i])
  <2>3. i + 1 \in 1 .. m /\ h[i] < h[i + 1] /\ h[i + 1] \in 1 .. n /\ h[i] \in 1 .. n
    BY <1>2, <1>3, <2>2
  <2>4. CASE h[i + 1] = h[i] + 1
    <3>1. h[i] < n
      BY <1>2, <2>3, <2>4
    <3>2. ~More(w[h[i]])
      BY <1>3, <2>2
    <3>3. w[h[i] + 1].part = 0
      BY <1>4, <2>3, <3>1, <3>2
    <3> QED
      BY <1>3, <2>3, <2>4, <3>3
  <2>5. CASE h[i + 1] # h[i] + 1
    <3>1. /\ h[i + 1] - 1 \in 1 .. n /\ h[i] < h[i + 1] - 1 /\ h[i + 1] > 1
          /\ ~(h[i + 1] <= h[i + 1] - 1)
      BY <1>2, <2>3, <2>5
    <3>2. w[h[i + 1] - 1] \notin S
      BY <1>5, <3>1
    <3> QED
      BY <1>9, <2>3, <3>1, <3>2
  <2> QED
    BY <2>4, <2>5
<1>11. m > 0 => r[1] = w[1] \/ r[1].part = 0
  <2>1. HAVE m > 0
  <2>2. 1 \in 1 .. m /\ h[1] \in 1 .. n
    BY <1>2, <1>3, <2>1
  <2>3. CASE h[1] = 1
    BY <1>3, <2>2, <2>3
  <2>4. CASE h[1] > 1
    <3>1. h[1] - 1 \in 1 .. n /\ h[1] - 1 < h[1]
      BY <1>2, <2>2, <2>4
    <3>2. w[h[1] - 1] \notin S
      BY <1>5, <2>2, <3>1
    <3> QED
      BY <1>9, <2>2, <2>4, <3>2
  <2> QED
    BY <1>2, <2>2, <2>3, <2>4
<1>12. n > 0 /\ w[1] \in S => m > 0 /\ r[1] = w[1]
  <2>1. HAVE n > 0 /\ w[1] \in S
  <2>2. 1 \in 1 .. n
    BY <1>2, <2>1
  <2>3. PICK k \in 1 .. m : h[k] = 1
    BY <1>3, <2>1, <2>2
  <2>4. 1 \in 1 .. m /\ h[1] \in 1 .. n
    BY <1>2, <1>3, <2>3
  <2>5. k = 1
    BY <1>2, <1>3, <2>3, <2>4
  <2> QED
    BY <1>2, <1>3, <2>3, <2>4, <2>5
<1>13. \A i \in 1 .. m :
         \/ r[i].of = r[1].of
         \/ \E j \in 1 .. m : r[j].of = r[i].of /\ r[j].part = 0
  <2>1. TAKE i \in 1 .. m
  <2>2. h[i] \in 1 .. n /\ r[i] = w[h[i]] /\ w[h[i]] \in S /\ 1 \in 1 .. n
    BY <1>2, <1>3
  <2>3. CASE w[h[i]].of = w[1].of
    <3>1. w[1] \in S /\ n > 0
      BY <1>2, <1>4, <2>2, <2>3
    <3> QED
      BY <1>12, <2>2, <2>3, <3>1
  <2>4. CASE w[h[i]].of # w[1].of
    <3>1. PICK j \in 1 .. n : w[j].of = w[h[i]].of /\ w[j].part = 0
      BY <1>4, <2>2, <2>4
    <3>2. w[j] \in S
      BY <1>4, <2>2, <3>1
    <3>3. PICK k \in 1 .. m : h[k] = j
      BY <1>3, <3>2
    <3> QED
      BY <1>3, <2>2, <3>1, <3>3
  <2> QED
    BY <2>3, <2>4
<1>14. InOrder(r)
  BY <1>6, <1>7, <1>8, <1>10, <1>13 DEF InOrder, m
<1>15. \A k \in 1 .. m : \E i \in 1 .. n : r[k] = w[i] /\ w[i] \in S
  BY <1>3
<1> QED
  BY <1>2, <1>11, <1>12, <1>14, <1>15 DEF r, n, m

-----------------------------------------------------------------------------
(* Every step keeps the invariant. *)

LEMMA InitIInv == Init => IInv
<1> SUFFICES ASSUME Init
             PROVE  IInv
  OBVIOUS
<1>1. <<>> \in Seq(Frame) /\ <<>> \in Seq(Message) /\ Len(<<>>) = 0
  BY EmptySeq
<1>2. TypeOK
  <2>1. 0 \in 0 .. MaxSent /\ 0 \in 0 .. MaxSubs
    BY MdsSubAssumption
  <2>2. out.rc = "none"
    BY DEF Init
  <2>3. subs \in [Topics -> 0 .. MaxSubs]
    BY <2>1 DEF Init
  <2>4. malformed \in BOOLEAN /\ broken \in BOOLEAN /\ lost \in BOOLEAN
    BY DEF Init
  <2>5. /\ sent \in 0 .. MaxSent /\ head \in 0 .. MaxSent /\ step \in 0 .. 2
        /\ wire \in Seq(Frame) /\ queue \in Seq(Message)
    BY <1>1, <2>1 DEF Init
  <2>6. /\ pc = "idle" /\ op = "recv" /\ to = "zero" /\ target \in Topics
    BY DEF Init
  <2> QED
    BY <2>2, <2>3, <2>4, <2>5, <2>6 DEF TypeOK
<1>3. WireInv /\ HeadInv /\ FaultInv /\ SilentInv
  BY <1>1 DEF Init, WireInv, InOrder, HeadInv, FaultInv, SilentInv
<1>4. CallInv /\ InStep /\ CancelledIsSilent /\ ProtoExplained
  BY DEF Init, CallInv, InStep, CancelledIsSilent, ProtoExplained
<1> QED
  BY <1>2, <1>3, <1>4 DEF IInv

(* Publish adds the frames of a message of a subscribed topic. *)
LEMMA PublishIInv ==
  ASSUME NEW t \in Topics, NEW fault \in Faults \cup {"none"}, IInv, Publish(t, fault)
  PROVE  IInv'
<1> DEFINE m == [n |-> sent + 1, topic |-> t, fault |-> fault]
           n == Len(wire)
           k == NrFrames(m)
<1> USE MdsSubAssumption
<1>1. /\ sent < MaxSent /\ subs[t] > 0 /\ sent' = sent + 1
      /\ wire' = wire \o Frames(m)
      /\ malformed' = (malformed \/ fault # "none")
      /\ UNCHANGED <<subs, step, head, queue, pc, op, to, target, out, broken, lost>>
  BY DEF Publish, subVars, callVars
<1>2. sent \in Nat /\ wire \in Seq(Frame) /\ InOrder(wire) /\ \A i \in 1 .. n : wire[i].of.n <= sent
  BY DEF IInv, TypeOK, WireInv
<1>3. m \in Message /\ m.n = sent + 1 /\ m.topic = t /\ m.fault = fault
  BY <1>1, <1>2 DEF Message
<1>4. \A i \in 1 .. n : wire[i] \in Frame /\ wire[i].of.n \in Nat
  BY <1>2, ElementOfSeq, FrameType
<1>5. k \in 1 .. 4 /\ n \in Nat
  BY <1>2, <1>3, NrFramesType, LenProperties
<1> HIDE DEF m, n, k
<1>6. \A i \in 1 .. n : wire[i].of.n < m.n
  BY <1>2, <1>3, <1>4
<1>7. /\ InOrder(wire') /\ wire' \in Seq(Frame) /\ Len(wire') = n + k
      /\ \A i \in 1 .. n : wire'[i] = wire[i]
      /\ \A i \in n + 1 .. n + k : wire'[i].of = m /\ wire'[i].part = i - n - 1
  <2> DEFINE w == wire \o Frames(m)
  <2>1. \A i \in 1 .. Len(wire) : wire[i].of.n < m.n
    BY <1>6 DEF n
  <2>2. /\ InOrder(w) /\ w \in Seq(Frame) /\ Len(w) = n + k
        /\ \A i \in 1 .. n : w[i] = wire[i]
        /\ \A i \in n + 1 .. n + k : w[i].of = m /\ w[i].part = i - n - 1
    BY <1>2, <1>3, <2>1, ConcatInOrder DEF n, k
  <2>3. wire' = w
    BY <1>1
  <2> HIDE DEF w
  <2> QED
    BY <2>2, <2>3
<1>8. \A i \in 1 .. n + k : i \in 1 .. n \/ i \in n + 1 .. n + k
  BY <1>5
<1>9. /\ n > 0 => 1 \in 1 .. n /\ wire'[1] = wire[1]
      /\ n = 0 => wire'[1].of = m /\ wire'[1].part = 0
      /\ wire' # <<>> /\ Head(wire') = wire'[1]
      /\ n > 0 <=> wire # <<>>
      /\ n > 0 => Head(wire) = wire[1]
  <2>1. n = 0 => wire'[1].of = m /\ wire'[1].part = 0
    <3>1. n = 0 => 1 \in n + 1 .. n + k /\ 1 - n - 1 = 0
      BY <1>5
    <3> QED
      BY <1>7, <3>1
  <2>2. wire' # <<>> /\ (n > 0 <=> wire # <<>>)
    BY <1>2, <1>5, <1>7, EmptySeq DEF n
  <2> QED
    BY <1>2, <1>5, <1>7, <2>1, <2>2
<1>10. TypeOK'
  BY <1>1, <1>7 DEF IInv, TypeOK
<1>11. WireInv'
  <2>1. \A i \in 1 .. n + k : wire'[i].of.n <= sent + 1
    BY <1>2, <1>3, <1>4, <1>7, <1>8
  <2>2. head <= sent + 1
    BY <1>2 DEF IInv, TypeOK, WireInv
  <2> QED
    BY <1>1, <1>7, <2>1, <2>2 DEF WireInv
<1>12. HeadInv'
  <2>1. m.n # head
    BY <1>2, <1>3 DEF IInv, TypeOK, WireInv
  <2>2. \A i \in 1 .. n + k :
          wire'[i].of.n = head => wire'[i].part > 1 /\ wire'[i].of.fault # "head"
    <3>1. ASSUME NEW i \in 1 .. n, wire'[i].of.n = head
          PROVE  wire'[i].part > 1 /\ wire'[i].of.fault # "head"
      <4>1. HeadInv /\ i \in 1 .. Len(wire) /\ wire'[i] = wire[i]
        BY <1>7 DEF IInv, n
      <4> QED
        BY <3>1, <4>1 DEF HeadInv
    <3>2. \A i \in n + 1 .. n + k : wire'[i].of.n # head
      BY <1>7, <2>1
    <3> QED
      BY <1>8, <3>1, <3>2
  <2> QED
    BY <1>1, <1>7, <2>2 DEF HeadInv
<1>13. FaultInv'
  <2>1. ASSUME ~malformed', NEW i \in 1 .. n + k
        PROVE  wire'[i].of.fault = "none"
    <3>1. ~malformed /\ m.fault = "none"
      BY <1>1, <1>3, <2>1 DEF IInv, TypeOK
    <3>2. \A j \in 1 .. n : wire[j].of.fault = "none"
      BY <3>1 DEF IInv, FaultInv, n
    <3> QED
      BY <1>7, <1>8, <2>1, <3>1, <3>2
  <2> QED
    BY <1>1, <1>7, <2>1 DEF IInv, FaultInv, TypeOK
<1>14. SilentInv'
  <2>1. ASSUME NEW i \in 1 .. n + k
        PROVE  \/ subs[wire'[i].of.topic] > 0
               \/ /\ wire'[i].of = wire'[1].of /\ wire'[1].part > 0
                  /\ (Removing(wire'[i].of.topic) /\ pc = "frames") \/ Dead(wire'[1])
    <3>1. CASE i \in 1 .. n
      <4>1. wire'[i] = wire[i] /\ wire'[1] = wire[1]
        BY <1>5, <1>7, <1>9, <3>1
      <4> QED
        BY <3>1, <4>1 DEF IInv, SilentInv, n
    <3>2. CASE i \in n + 1 .. n + k
      BY <1>1, <1>3, <1>7, <3>2
    <3> QED
      BY <1>8, <3>1, <3>2
  <2>2. \A i \in 1 .. Len(queue) :
          subs[queue[i].topic] > 0 \/ Removing(queue[i].topic)
    BY DEF IInv, SilentInv
  <2> QED
    BY <1>1, <1>7, <2>1, <2>2 DEF SilentInv, Removing, Dead
<1>15. InStep'
  <2>1. CASE n > 0
    BY <1>1, <1>9, <2>1 DEF IInv, InStep
  <2>2. CASE n = 0
    <3>1. ~broken => step = 0
      BY <1>9, <2>2 DEF IInv, InStep
    <3> QED
      BY <1>1, <1>9, <2>2, <3>1 DEF InStep
  <2> QED
    BY <1>5, <2>1, <2>2
<1>16. CallInv' /\ CancelledIsSilent' /\ ProtoExplained'
  BY <1>1 DEF IInv, CallInv, CancelledIsSilent, ProtoExplained, TypeOK
<1> QED
  BY <1>10, <1>11, <1>12, <1>13, <1>14, <1>15, <1>16 DEF IInv

(* The topics of what waits are topics. *)
LEMMA WaitingTypes ==
  ASSUME TypeOK
  PROVE  /\ \A i \in 1 .. Len(queue) : queue[i] \in Message /\ queue[i].topic \in Topics
         /\ \A i \in 1 .. Len(wire) : wire[i] \in Frame /\ wire[i].of.topic \in Topics
<1>1. \A i \in 1 .. Len(queue) : queue[i] \in Message
  BY ElementOfSeq DEF TypeOK
<1>2. \A m \in Message : m.topic \in Topics
  BY DEF Message
<1>3. \A i \in 1 .. Len(wire) : wire[i] \in Frame
  BY ElementOfSeq DEF TypeOK
<1> QED
  BY <1>1, <1>2, <1>3, FrameType

(* Another topic is subscribed. *)
LEMMA ReqIInv ==
  ASSUME NEW t \in Topics, IInv, Req(t)
  PROVE  IInv'
<1> USE MdsSubAssumption
<1>1. /\ pc = "idle" /\ subs[t] < MaxSubs /\ subs' = [subs EXCEPT ![t] = @ + 1]
      /\ pc' = "idle" /\ out' = [rc |-> "ok", msg |-> NoMsg]
      /\ UNCHANGED <<sent, wire, step, head, queue, op, to, target, malformed, broken, lost>>
  BY DEF Req, MayCall, Answer, subVars, history
<1>2. /\ subs \in [Topics -> 0 .. MaxSubs] /\ subs' \in [Topics -> 0 .. MaxSubs]
      /\ \A x \in Topics : subs[x] > 0 => subs'[x] > 0
  BY <1>1 DEF IInv, TypeOK
<1>3. TypeOK'
  BY <1>1, <1>2 DEF IInv, TypeOK
<1>4. WireInv' /\ HeadInv' /\ FaultInv' /\ InStep'
  BY <1>1 DEF IInv, WireInv, HeadInv, FaultInv, InStep
<1>5. SilentInv'
  BY <1>1, <1>2, WaitingTypes DEF IInv, SilentInv, Removing, Dead
<1>6. CallInv' /\ CancelledIsSilent' /\ ProtoExplained'
  BY <1>1 DEF IInv, CallInv, CancelledIsSilent, ProtoExplained
<1> QED
  BY <1>3, <1>4, <1>5, <1>6 DEF IInv

(* zmq_setsockopt fails. *)
LEMMA RequestFailsIInv ==
  ASSUME IInv, RequestFails
  PROVE  IInv'
<1>1. /\ pc = "idle" /\ pc' = "idle" /\ out' = [rc |-> "EZMQ", msg |-> NoMsg]
      /\ UNCHANGED <<sent, subs, wire, step, head, queue, op, to, target, malformed, broken, lost>>
  BY DEF RequestFails, MayCall, Answer, subVars, history, socketVars
<1>2. TypeOK'
  BY <1>1 DEF IInv, TypeOK
<1>3. WireInv' /\ HeadInv' /\ FaultInv' /\ InStep' /\ SilentInv'
  BY <1>1 DEF IInv, WireInv, HeadInv, FaultInv, InStep, SilentInv, Removing, Dead
<1>4. CallInv' /\ CancelledIsSilent' /\ ProtoExplained'
  BY <1>1 DEF IInv, CallInv, CancelledIsSilent, ProtoExplained
<1> QED
  BY <1>2, <1>3, <1>4 DEF IInv

(* mds_sub_recv is called. *)
LEMMA CallRecvIInv ==
  ASSUME NEW t \in Timeouts, IInv, CallRecv(t)
  PROVE  IInv'
<1> USE MdsSubAssumption
<1>1. /\ pc = "idle" /\ op' = "recv" /\ to' = t
      /\ pc' = IF Full(queue) THEN "pop" ELSE "frames"
      /\ out' = [rc |-> "none", msg |-> NoMsg]
      /\ UNCHANGED <<sent, subs, wire, step, head, queue, target, malformed, broken, lost>>
  BY DEF CallRecv, MayCall, subVars, history, socketVars
<1>2. TypeOK'
  BY <1>1 DEF IInv, TypeOK
<1>3. WireInv' /\ HeadInv' /\ FaultInv' /\ InStep' /\ SilentInv'
  BY <1>1 DEF IInv, WireInv, HeadInv, FaultInv, InStep, SilentInv, Removing, Dead
<1>4. CallInv' /\ CancelledIsSilent' /\ ProtoExplained'
  <2>1. Len(queue) \in Nat
    BY LenProperties DEF IInv, TypeOK
  <2> QED
    BY <1>1, <2>1 DEF CallInv, CancelledIsSilent, ProtoExplained, Full
<1> QED
  BY <1>2, <1>3, <1>4 DEF IInv

(* The handle is closed and another opened. *)
LEMMA ReopenIInv ==
  ASSUME IInv, Reopen
  PROVE  IInv'
<1> USE MdsSubAssumption
<1>1. /\ pc = "idle" /\ pc' = "idle" /\ out' = [rc |-> "none", msg |-> NoMsg]
      /\ subs' = [t \in Topics |-> 0] /\ wire' = <<>> /\ step' = 0 /\ queue' = <<>>
      /\ malformed' = FALSE /\ broken' = FALSE /\ lost' = FALSE
      /\ UNCHANGED <<sent, head, op, to, target>>
  BY DEF Reopen, Answer
<1>2. <<>> \in Seq(Frame) /\ <<>> \in Seq(Message) /\ Len(<<>>) = 0
  BY EmptySeq
<1>3. TypeOK'
  <2>1. 0 \in 0 .. MaxSubs
    BY MdsSubAssumption
  <2>2. subs' \in [Topics -> 0 .. MaxSubs]
    BY <1>1, <2>1
  <2>3. wire' \in Seq(Frame) /\ queue' \in Seq(Message)
    BY <1>1, <1>2
  <2>4. /\ sent' \in 0 .. MaxSent /\ head' \in 0 .. MaxSent /\ step' \in 0 .. 2
        /\ pc' = "idle" /\ op' \in {"recv", "cancel"} /\ to' \in {"zero", "finite", "infinite"}
        /\ target' \in Topics
    BY <1>1 DEF IInv, TypeOK
  <2>5. out'.rc = "none"
    BY <1>1
  <2>6. malformed' \in BOOLEAN /\ broken' \in BOOLEAN /\ lost' \in BOOLEAN
    BY <1>1
  <2> QED
    BY <2>2, <2>3, <2>4, <2>5, <2>6 DEF TypeOK
<1>4. WireInv' /\ HeadInv' /\ FaultInv' /\ SilentInv'
  BY <1>1, <1>2 DEF IInv, WireInv, InOrder, HeadInv, FaultInv, SilentInv
<1>5. CallInv' /\ InStep' /\ CancelledIsSilent' /\ ProtoExplained'
  BY <1>1, <1>2 DEF CallInv, InStep, CancelledIsSilent, ProtoExplained
<1> QED
  BY <1>3, <1>4, <1>5 DEF IInv

(* There is no frame. *)
LEMMA NoFrameIInv ==
  ASSUME IInv, NoFrame
  PROVE  IInv'
<1>1. /\ pc = "frames" /\ wire = <<>>
      /\ pc' = IF op = "recv" THEN "pop" ELSE "drop"
      /\ UNCHANGED <<sent, subs, wire, step, head, queue, op, to, target, out, malformed, broken, lost>>
  BY DEF NoFrame, subVars, history, socketVars
<1>2. TypeOK'
  BY <1>1 DEF IInv, TypeOK
<1>3. WireInv' /\ HeadInv' /\ FaultInv' /\ InStep'
  BY <1>1 DEF IInv, WireInv, HeadInv, FaultInv, InStep
<1>4. SilentInv'
  <2>1. Len(<<>>) = 0
    BY EmptySeq
  <2> QED
    BY <1>1, <2>1 DEF IInv, TypeOK, SilentInv, Removing
<1>5. CallInv' /\ CancelledIsSilent' /\ ProtoExplained'
  BY <1>1 DEF IInv, TypeOK, CallInv, CancelledIsSilent, ProtoExplained
<1> QED
  BY <1>2, <1>3, <1>4, <1>5 DEF IInv

(* mds_sub_cancel removes the messages of its topic. *)
LEMMA DropIInv ==
  ASSUME IInv, Drop
  PROVE  IInv'
<1> DEFINE S == {m \in Message : m.topic # target}
<1>1. /\ pc = "drop" /\ op = "cancel" /\ queue' = Selected(queue, S)
      /\ pc' = "idle" /\ out' = [rc |-> "ok", msg |-> NoMsg]
      /\ UNCHANGED <<sent, subs, wire, step, head, op, to, target, malformed, broken, lost>>
  BY DEF Drop, Dropped, Answer, history, socketVars, IInv, CallInv
<1>2. queue \in Seq(Message)
  BY DEF IInv, TypeOK
<1>3. queue' \in Seq(Message)
  <2>1. queue' \in Seq(Message \cap S) /\ Message \cap S \subseteq Message
    BY <1>1, <1>2, SelectedType
  <2> QED
    BY <2>1, SeqMonotonic
<1>4. \A k \in 1 .. Len(queue') :
        \E i \in 1 .. Len(queue) : queue'[k] = queue[i] /\ queue[i] \in S
  <2>1. PICK h : Picks(h, queue, queue', S)
    BY <1>1, <1>2, SelectedPicks
  <2> QED
    BY <2>1 DEF Picks
<1>5. TypeOK'
  BY <1>1, <1>3 DEF IInv, TypeOK
<1>6. WireInv' /\ HeadInv' /\ FaultInv' /\ InStep'
  BY <1>1 DEF IInv, WireInv, HeadInv, FaultInv, InStep
<1>7. SilentInv'
  <2>1. \A i \in 1 .. Len(queue) : queue[i] \in S => subs[queue[i].topic] > 0
    BY DEF IInv, SilentInv, Removing
  <2>2. \A k \in 1 .. Len(queue') : subs[queue'[k].topic] > 0
    BY <1>4, <2>1
  <2> QED
    BY <1>1, <2>2 DEF IInv, SilentInv, Removing, Dead
<1>8. CallInv' /\ CancelledIsSilent' /\ ProtoExplained'
  BY <1>1 DEF CallInv, CancelledIsSilent, ProtoExplained
<1> QED
  BY <1>5, <1>6, <1>7, <1>8 DEF IInv

(* mds_sub_recv hands out a message, gives up or waits. *)
LEMMA PopIInv ==
  ASSUME IInv, Pop
  PROVE  IInv'
<1>1. /\ pc = "pop" /\ op = "recv"
      /\ UNCHANGED <<sent, subs, wire, step, head, op, to, target, malformed, broken, lost>>
  BY DEF Pop, history, socketVars, IInv, CallInv
<1>2. WireInv' /\ HeadInv' /\ FaultInv' /\ InStep'
  BY <1>1 DEF IInv, WireInv, HeadInv, FaultInv, InStep
<1>3. CASE /\ queue # <<>> /\ queue' = Tail(queue)
           /\ pc' = "idle" /\ out' = [rc |-> "data", msg |-> Head(queue)]
  <2>1. /\ queue \in Seq(Message) /\ queue' \in Seq(Message) /\ Len(queue') = Len(queue) - 1
        /\ \A i \in 1 .. Len(queue') : queue'[i] = queue[i + 1]
        /\ Len(queue) \in Nat \ {0} /\ Head(queue) = queue[1] /\ Head(queue) \in Message
    BY <1>3, HeadTailProperties, EmptySeq DEF IInv, TypeOK
  <2>2. \A i \in 1 .. Len(queue) : subs[queue[i].topic] > 0
    BY <1>1 DEF IInv, SilentInv, Removing
  <2>3. 1 \in 1 .. Len(queue) /\ \A i \in 1 .. Len(queue') : i + 1 \in 1 .. Len(queue)
    BY <2>1
  <2>4. TypeOK'
    BY <1>1, <1>3, <2>1 DEF IInv, TypeOK
  <2>5. SilentInv'
    BY <1>1, <1>3, <2>1, <2>2, <2>3 DEF IInv, SilentInv, Removing, Dead
  <2>6. CallInv' /\ CancelledIsSilent' /\ ProtoExplained'
    BY <1>1, <1>3, <2>1, <2>2, <2>3 DEF CallInv, CancelledIsSilent, ProtoExplained
  <2> QED
    BY <1>2, <2>4, <2>5, <2>6 DEF IInv
<1>4. CASE /\ queue = <<>> /\ pc' = "idle" /\ out' = [rc |-> "EAGAIN", msg |-> NoMsg]
           /\ UNCHANGED queue
  <2>1. TypeOK'
    BY <1>1, <1>4 DEF IInv, TypeOK
  <2>2. SilentInv' /\ CallInv' /\ CancelledIsSilent' /\ ProtoExplained'
    BY <1>1, <1>4 DEF IInv, SilentInv, Removing, Dead, CallInv, CancelledIsSilent, ProtoExplained
  <2> QED
    BY <1>2, <2>1, <2>2 DEF IInv
<1>5. CASE queue = <<>> /\ pc' = "poll" /\ UNCHANGED <<queue, out>>
  <2>1. TypeOK'
    BY <1>1, <1>5 DEF IInv, TypeOK
  <2>2. SilentInv' /\ CallInv' /\ CancelledIsSilent' /\ ProtoExplained'
    BY <1>1, <1>5 DEF IInv, SilentInv, Removing, Dead, CallInv, CancelledIsSilent, ProtoExplained
  <2> QED
    BY <1>2, <2>1, <2>2 DEF IInv
<1> QED
  BY <1>3, <1>4, <1>5 DEF Pop, Answer

(* mds_sub_recv has waited. *)
LEMMA PollIInv ==
  ASSUME IInv, Poll
  PROVE  IInv'
<1> USE MdsSubAssumption
<1>1. /\ pc = "poll" /\ op = "recv" /\ queue = <<>>
      /\ \/ pc' = "frames" /\ UNCHANGED out
         \/ pc' = "idle" /\ out' = [rc |-> "ETIMEDOUT", msg |-> NoMsg]
      /\ UNCHANGED <<sent, subs, wire, step, head, queue, op, to, target, malformed, broken, lost>>
  BY DEF Poll, Answer, subVars, history, socketVars, IInv, CallInv
<1>2. TypeOK'
  BY <1>1 DEF IInv, TypeOK
<1>3. WireInv' /\ HeadInv' /\ FaultInv' /\ InStep' /\ SilentInv'
  BY <1>1 DEF IInv, WireInv, HeadInv, FaultInv, InStep, SilentInv, Removing, Dead
<1>4. CallInv' /\ CancelledIsSilent' /\ ProtoExplained'
  <2>1. Len(<<>>) = 0
    BY EmptySeq
  <2> QED
    BY <1>1, <2>1 DEF IInv, CallInv, CancelledIsSilent, ProtoExplained
<1> QED
  BY <1>2, <1>3, <1>4 DEF IInv

(* mds_sub_cancel is called: the socket keeps no frame of the topic but    *)
(* those of the message it has begun to hand out.                          *)
LEMMA CallCancelIInv ==
  ASSUME NEW t \in Topics, IInv, CallCancel(t)
  PROVE  IInv'
<1> DEFINE n == Len(wire)
           Begun(m) == \A i \in 1 .. Len(wire) : wire[i].of = m => wire[i].part > 0
           S == {f \in Frame : f.of.topic # t \/ Begun(f.of)}
           Ended(x) == subs'[x] > 0
<1> USE MdsSubAssumption
<1>1. /\ pc = "idle"
      /\ subs' = [subs EXCEPT ![t] = IF @ > 0 THEN @ - 1 ELSE 0]
      /\ wire' = IF subs[t] <= 1 THEN Selected(wire, S) ELSE wire
      /\ pc' = "frames" /\ op' = "cancel" /\ target' = t
      /\ out' = [rc |-> "none", msg |-> NoMsg]
      /\ UNCHANGED <<sent, step, head, queue, to, malformed, broken, lost>>
  BY DEF CallCancel, MayCall, Kept, subVars, history
<1>2. /\ wire \in Seq(Frame) /\ InOrder(wire) /\ n \in Nat
      /\ wire # <<>> <=> n > 0
      /\ n > 0 => Head(wire) = wire[1]
      /\ subs \in [Topics -> 0 .. MaxSubs]
      /\ \A i \in 1 .. n : wire[i] \in Frame /\ wire[i].of.topic \in Topics /\ wire[i].part \in 0 .. 3
  BY ElementOfSeq, FrameType, EmptySeq, HeadTailProperties, LenProperties DEF IInv, TypeOK, WireInv
<1>3. /\ subs' \in [Topics -> 0 .. MaxSubs]
      /\ \A x \in Topics : x # t => subs'[x] = subs[x]
      /\ subs[t] > 1 => subs'[t] > 0
  BY <1>1, <1>2
<1>4. \A i \in 1 .. n :
        \/ subs[wire[i].of.topic] > 0
        \/ wire[i].of = wire[1].of /\ wire[1].part > 0 /\ Dead(wire[1])
  BY <1>1 DEF IInv, SilentInv, Removing
(* Which frames are left. *)
<1>5. /\ wire' \in Seq(Frame) /\ InOrder(wire')
      /\ \A k \in 1 .. Len(wire') : \E i \in 1 .. n :
           /\ wire'[k] = wire[i]
           /\ \/ subs'[wire[i].of.topic] > 0
              \/ /\ wire[i].of = wire[1].of /\ wire[1].part > 0
                 /\ wire[i].of.topic = t \/ Dead(wire[1])
      /\ wire' # <<>> => wire'[1] = wire[1] \/ wire'[1].part = 0
      /\ wire # <<>> /\ wire[1].part > 0 => wire' # <<>> /\ wire'[1] = wire[1]
  <2>1. CASE subs[t] > 1
    <3>1. wire' = wire
      BY <1>1, <1>2, <2>1
    <3>2. \A i \in 1 .. n : subs[wire[i].of.topic] > 0 => subs'[wire[i].of.topic] > 0
      BY <1>2, <1>3, <2>1
    <3> QED
      BY <1>2, <1>4, <3>1, <3>2
  <2>2. CASE subs[t] <= 1
    <3> DEFINE r == Selected(wire, S)
    <3>1. \A i, j \in 1 .. Len(wire) : wire[i].of = wire[j].of => (wire[i] \in S <=> wire[j] \in S)
      BY <1>2
    <3>2. \A i \in 1 .. n :
            wire[i] \in S <=> wire[i].of.topic # t \/ Begun(wire[i].of)
      BY <1>2
    <3>3. \A i \in 1 .. n : Begun(wire[i].of) => wire[i].of = wire[1].of /\ wire[1].part > 0
      <4>1. TAKE i \in 1 .. n
      <4>2. HAVE Begun(wire[i].of)
      <4>3. wire[i].of = wire[1].of
        BY <1>2, <4>2 DEF InOrder
      <4>4. 1 \in 1 .. n
        BY <1>2
      <4> QED
        BY <4>2, <4>3, <4>4
    <3>4. n > 0 /\ wire[1].part > 0 => wire[1] \in S
      <4>1. HAVE n > 0 /\ wire[1].part > 0
      <4>2. 1 \in 1 .. n
        BY <1>2, <4>1
      <4>3. Begun(wire[1].of)
        <5>1. ASSUME NEW i \in 1 .. n, wire[i].of = wire[1].of
              PROVE  wire[i].part > 0
          <6>1. CASE i = 1
            BY <4>1, <6>1
          <6>2. CASE i # 1
            <7>1. Precedes(wire[1], wire[i])
              BY <1>2, <4>2, <6>2 DEF InOrder
            <7>2. wire[1].part < wire[i].part
              BY <1>2, <4>2, <5>1, <7>1, FrameType DEF Precedes
            <7> QED
              BY <1>2, <4>1, <4>2, <7>2
          <6> QED
            BY <6>1, <6>2
        <5> QED
          BY <5>1
      <4> QED
        BY <3>2, <4>2, <4>3
    <3> HIDE DEF S, Begun
    <3>5. /\ r \in Seq(Frame) /\ InOrder(r)
          /\ \A k \in 1 .. Len(r) : \E i \in 1 .. Len(wire) : r[k] = wire[i] /\ wire[i] \in S
          /\ r # <<>> => r[1] = wire[1] \/ r[1].part = 0
          /\ wire # <<>> /\ wire[1] \in S => r # <<>> /\ r[1] = wire[1]
      BY <1>2, <3>1, SelectedInOrder
    <3>6. wire' = r
      BY <1>1, <2>2
    <3> HIDE DEF r
    <3>7. \A i \in 1 .. n : wire[i] \in S =>
           \/ subs'[wire[i].of.topic] > 0
           \/ /\ wire[i].of = wire[1].of /\ wire[1].part > 0
              /\ wire[i].of.topic = t \/ Dead(wire[1])
      BY <1>2, <1>3, <1>4, <3>2, <3>3
    <3> QED
      BY <1>2, <3>4, <3>5, <3>6, <3>7
  <2> QED
    BY <1>2, <2>1, <2>2
<1> HIDE DEF S, Begun
<1>6. /\ Len(wire') \in Nat /\ (wire' # <<>> <=> Len(wire') > 0)
      /\ wire' # <<>> => Head(wire') = wire'[1] /\ 1 \in 1 .. Len(wire') /\ wire # <<>>
  <2>1. /\ Len(wire') \in Nat /\ (wire' # <<>> <=> Len(wire') > 0)
        /\ wire' # <<>> => Head(wire') = wire'[1] /\ 1 \in 1 .. Len(wire')
    BY <1>5, EmptySeq, LenProperties, HeadTailProperties
  <2> QED
    BY <1>2, <1>5, <2>1
<1>7. TypeOK'
  BY <1>1, <1>3, <1>5 DEF IInv, TypeOK
<1>8. WireInv' /\ HeadInv' /\ FaultInv'
  <2>1. \A i \in 1 .. Len(wire') : wire'[i].of.n <= sent
    BY <1>5 DEF IInv, WireInv
  <2>2. \A i \in 1 .. Len(wire') :
          wire'[i].of.n = head => wire'[i].part > 1 /\ wire'[i].of.fault # "head"
    BY <1>5 DEF IInv, HeadInv
  <2>3. ~malformed => \A i \in 1 .. Len(wire') : wire'[i].of.fault = "none"
    BY <1>5 DEF IInv, FaultInv
  <2> QED
    BY <1>1, <1>5, <2>1, <2>2, <2>3 DEF IInv, WireInv, HeadInv, FaultInv
<1>9. SilentInv'
  <2>1. \A i \in 1 .. Len(queue) : subs'[queue[i].topic] > 0 \/ queue[i].topic = t
    BY <1>1, <1>3, WaitingTypes DEF IInv, SilentInv, Removing
  <2>2. ASSUME NEW k \in 1 .. Len(wire'), ~(subs'[wire'[k].of.topic] > 0)
        PROVE  /\ wire'[k].of = wire'[1].of /\ wire'[1].part > 0
               /\ wire'[k].of.topic = t \/ Dead(wire'[1])
    <3>1. PICK i \in 1 .. n :
            /\ wire'[k] = wire[i]
            /\ wire[i].of = wire[1].of /\ wire[1].part > 0
            /\ wire[i].of.topic = t \/ Dead(wire[1])
      BY <1>5, <2>2
    <3>2. wire # <<>>
      BY <1>2
    <3> QED
      BY <1>5, <3>1, <3>2
  <2>3. \A x : Dead(x)' <=> Dead(x)
    BY <1>1 DEF Dead
  <2> QED
    BY <1>1, <2>1, <2>2, <2>3 DEF SilentInv, Removing, Dead
<1>10. InStep'
  <2>1. SUFFICES ASSUME ~broken'
                 PROVE  /\ wire' # <<>> => Head(wire').part = step'
                        /\ wire' = <<>> => step' = 0
                        /\ step' = 2 => Head(wire').of.n = head'
    BY DEF InStep
  <2>2. /\ wire # <<>> => wire[1].part = step
        /\ wire = <<>> => step = 0
        /\ step = 2 => wire[1].of.n = head
    BY <1>1, <1>2, <2>1 DEF IInv, InStep
  <2>3. step \in 0 .. 2 /\ (wire # <<>> => wire[1].part \in 0 .. 3)
    BY <1>2 DEF IInv, TypeOK
  <2>4. wire' # <<>> => wire'[1].part = step
    BY <1>5, <1>6, <2>2, <2>3
  <2>5. wire' = <<>> => step = 0
    BY <1>5, <2>2, <2>3
  <2>6. step = 2 => wire'[1].of.n = head
    BY <1>5, <2>2, <2>3
  <2> QED
    BY <1>1, <1>6, <2>4, <2>5, <2>6
<1>11. CallInv' /\ CancelledIsSilent' /\ ProtoExplained'
  BY <1>1 DEF CallInv, CancelledIsSilent, ProtoExplained
<1> QED
  BY <1>7, <1>8, <1>9, <1>10, <1>11 DEF IInv

(* A frame is received.  When it is refused, the rest of its message is    *)
(* refused too; when it is a body, the message was not cancelled, or is    *)
(* being cancelled.                                                        *)
LEMMA RecvFrameIInv ==
  ASSUME IInv, RecvFrame
  PROVE  IInv'
<1> DEFINE n == Len(wire)
           f == Head(wire)
           t == Tail(wire)
           TopicStep == /\ step = 0 /\ GoodTopic(f) /\ step' = 1
                        /\ UNCHANGED <<head, queue, pc, out, broken, lost>>
           HeadStep == /\ step = 1 /\ GoodHead(f) /\ step' = 2 /\ head' = f.of.n
                       /\ UNCHANGED <<queue, pc, out, broken, lost>>
           BodyStep == /\ step = 2 /\ GoodBody(f) /\ step' = 0
                       /\ queue' = Append(queue, f.of) /\ pc' = AfterFrames(queue')
                       /\ UNCHANGED <<head, out, broken, lost>>
           Refused(r) == /\ broken' = TRUE /\ lost' = (lost \/ r = "ENOMEM")
                         /\ \/ op = "recv" /\ pc' = "idle" /\ out' = [rc |-> r, msg |-> NoMsg]
                            \/ op = "cancel" /\ pc' = "drop" /\ UNCHANGED out
                         /\ UNCHANGED <<step, head, queue>>
           NoMemory == step = 2 /\ GoodBody(f) /\ Refused("ENOMEM")
           Bad == /\ ~ \/ step = 0 /\ GoodTopic(f)
                       \/ step = 1 /\ GoodHead(f)
                       \/ step = 2 /\ GoodBody(f)
                  /\ Refused("EPROTO")
<1> USE MdsSubAssumption
<1>1. /\ pc = "frames" /\ wire # <<>> /\ wire' = t
      /\ UNCHANGED <<sent, subs, op, to, target, malformed>>
  BY DEF RecvFrame
<1>2. TopicStep \/ HeadStep \/ BodyStep \/ NoMemory \/ Bad
  BY DEF RecvFrame, Refuse, QueuedBody, Answer, IInv, TypeOK
<1>3. /\ wire \in Seq(Frame) /\ InOrder(wire) /\ n \in Nat \ {0}
      /\ f = wire[1] /\ 1 \in 1 .. n
      /\ \A i \in 1 .. n : /\ wire[i] \in Frame /\ wire[i].of \in Message
                           /\ wire[i].of.topic \in Topics
                           /\ wire[i].part \in 0 .. 3 /\ wire[i].of.n \in Nat
  BY <1>1, ElementOfSeq, FrameType, EmptySeq, HeadTailProperties, LenProperties DEF IInv, TypeOK, WireInv
<1>4. /\ t \in Seq(Frame) /\ InOrder(t) /\ Len(t) = n - 1
      /\ \A i \in 1 .. n - 1 : t[i] = wire[i + 1] /\ i + 1 \in 1 .. n
      /\ t # <<>> <=> n > 1
      /\ t # <<>> => Head(t) = t[1] /\ 1 \in 1 .. n - 1 /\ t[1] = wire[2] /\ 2 \in 1 .. n
      /\ t # <<>> /\ ~More(f) => t[1].part = 0
      /\ More(f) => t # <<>> /\ t[1].of = f.of /\ t[1].part = f.part + 1
  <2>1. /\ t \in Seq(Frame) /\ Len(t) = n - 1
        /\ \A i \in 1 .. n - 1 : t[i] = wire[i + 1] /\ i + 1 \in 1 .. n
    BY <1>1, <1>3, HeadTailProperties
  <2>2. InOrder(t) /\ (t # <<>> /\ ~More(f) => wire[2].part = 0)
    BY <1>1, <1>3, TailInOrder
  <2>3. More(f) => 1 < n /\ wire[2].of = f.of /\ wire[2].part = f.part + 1
    BY <1>3 DEF InOrder
  <2>4. /\ t # <<>> <=> n > 1
        /\ t # <<>> => Head(t) = t[1] /\ 1 \in 1 .. n - 1 /\ 2 \in 1 .. n
    <3>1. t # <<>> <=> n - 1 # 0
      BY <2>1, EmptySeq
    <3>2. Head(t) = t[1]
      <4> HIDE DEF t, n, f
      <4> QED
        OBVIOUS
    <3> QED
      BY <1>3, <3>1, <3>2
  <2>5. t # <<>> => t[1] = wire[2]
    BY <2>1, <2>4
  <2> QED
    BY <2>1, <2>2, <2>3, <2>4, <2>5
<1>5. \A i \in 1 .. n - 1 : t[i].of.n = f.of.n => t[i].of = f.of /\ f.part < t[i].part
  <2>1. TAKE i \in 1 .. n - 1
  <2>2. Precedes(wire[1], wire[i + 1])
    BY <1>3, <1>4 DEF InOrder
  <2> QED
    BY <1>3, <1>4, <2>2 DEF Precedes
<1>6. f \in Frame /\ f.of \in Message /\ f.of.topic \in Topics /\ f.part \in 0 .. 3 /\ f.of.n \in Nat
  BY <1>3
<1> HIDE DEF n, f, t
<1>7. queue \in Seq(Message) /\ Len(queue) \in Nat
  BY LenProperties DEF IInv, TypeOK
<1>8. BodyStep => /\ queue' \in Seq(Message) /\ Len(queue') = Len(queue) + 1
                  /\ \A i \in 1 .. Len(queue') : queue'[i] = f.of \/ (i \in 1 .. Len(queue) /\ queue'[i] = queue[i])
  <2>1. HAVE BodyStep
  <2> DEFINE q == Append(queue, f.of)
  <2>2. /\ q \in Seq(Message) /\ Len(q) = Len(queue) + 1
        /\ \A i \in 1 .. Len(queue) : q[i] = queue[i]
        /\ q[Len(queue) + 1] = f.of
    BY <1>6, <1>7, AppendProperties
  <2>3. queue' = q
    BY <2>1
  <2> HIDE DEF q
  <2> QED
    BY <1>7, <2>2, <2>3
<1>9. TypeOK'
  <2>1. wire' \in Seq(Frame) /\ queue' \in Seq(Message)
    BY <1>1, <1>2, <1>4, <1>7, <1>8
  <2>2. head' \in 0 .. MaxSent /\ step' \in 0 .. 2
    BY <1>1, <1>2, <1>3, <1>6 DEF IInv, TypeOK, Message
  <2>3. pc' \in {"idle", "frames", "pop", "poll", "drop"}
    BY <1>1, <1>2 DEF AfterFrames
  <2>4. /\ out'.rc \in {"none", "ok", "data", "EAGAIN", "ETIMEDOUT", "EPROTO", "ENOMEM", "EZMQ"}
        /\ out'.rc = "data" => out'.msg \in Message
    BY <1>2 DEF IInv, TypeOK
  <2>5. broken' \in BOOLEAN /\ lost' \in BOOLEAN
    BY <1>2 DEF IInv, TypeOK
  <2> QED
    BY <1>1, <2>1, <2>2, <2>3, <2>4, <2>5 DEF IInv, TypeOK
<1>10. WireInv'
  <2>1. \A i \in 1 .. n - 1 : t[i].of.n <= sent
    BY <1>4 DEF IInv, WireInv, n
  <2>2. head' <= sent
    BY <1>2, <1>3 DEF IInv, WireInv, n, f
  <2> QED
    BY <1>1, <1>4, <2>1, <2>2 DEF WireInv
<1>11. HeadInv'
  <2>1. \A i \in 1 .. n - 1 : t[i].of.n = head => t[i].part > 1 /\ t[i].of.fault # "head"
    BY <1>4 DEF IInv, HeadInv, n
  <2>2. HeadStep => \A i \in 1 .. n - 1 : t[i].of.n = head' => t[i].part > 1 /\ t[i].of.fault # "head"
    BY <1>3, <1>4, <1>5 DEF GoodHead
  <2>3. \A i \in 1 .. n - 1 : t[i].of.n = head' => t[i].part > 1 /\ t[i].of.fault # "head"
    BY <1>2, <2>1, <2>2
  <2> QED
    BY <1>1, <1>4, <2>3 DEF HeadInv
(* A frame is refused for a reason. *)
<1>12. Bad => malformed \/ lost
  <2>1. SUFFICES ASSUME Bad, ~malformed, ~lost
                 PROVE  FALSE
    OBVIOUS
  <2>2. ~broken /\ f.of.fault = "none"
    BY <1>3, <2>1 DEF IInv, FaultInv, n
  <2>3. f.part = step /\ (step = 2 => f.of.n = head) /\ step \in 0 .. 2
    BY <1>1, <2>2 DEF IInv, InStep, TypeOK, f
  <2>4. NrFrames(f.of) = 3
    BY <2>2 DEF NrFrames
  <2> QED
    BY <2>1, <2>2, <2>3, <2>4 DEF GoodTopic, GoodHead, GoodBody, More
<1>13. FaultInv'
  <2>1. ~malformed => \A i \in 1 .. n - 1 : t[i].of.fault = "none"
    BY <1>4 DEF IInv, FaultInv, n
  <2>2. broken' => malformed \/ lost'
    BY <1>2, <1>12 DEF IInv, FaultInv
  <2> QED
    BY <1>1, <1>4, <2>1, <2>2 DEF FaultInv
<1>14. CallInv'
  BY <1>1, <1>2, <1>7, <1>8 DEF IInv, CallInv, AfterFrames, Full
<1>15. InStep'
  <2>1. SUFFICES ASSUME ~broken'
                 PROVE  /\ t # <<>> => t[1].part = step'
                        /\ t = <<>> => step' = 0
                        /\ step' = 2 => t[1].of.n = head'
    <3>1. SUFFICES ASSUME ~broken'
                   PROVE  /\ wire' # <<>> => Head(wire').part = step'
                          /\ wire' = <<>> => step' = 0
                          /\ step' = 2 => Head(wire').of.n = head'
      BY DEF InStep
    <3>2. step' = 2 => HeadStep
      BY <1>2, <3>1
    <3>3. HeadStep => t # <<>>
      BY <1>4 DEF GoodHead
    <3> QED
      BY <1>1, <1>4, <2>1, <3>1, <3>2, <3>3
  <2>2. CASE TopicStep
    BY <1>4, <2>2 DEF GoodTopic
  <2>3. CASE HeadStep
    BY <1>4, <2>3 DEF GoodHead
  <2>4. CASE BodyStep
    BY <1>4, <2>4 DEF GoodBody
  <2> QED
    BY <1>2, <2>1, <2>2, <2>3, <2>4
<1>16. SilentInv'
  <2>1. \A x : Removing(x) => pc' \in {"frames", "drop"} /\ op' = "cancel" /\ x = target'
    BY <1>1, <1>2 DEF Removing, AfterFrames
  <2>2. \/ subs[f.of.topic] > 0
        \/ Removing(f.of.topic)
        \/ Dead(f)
    BY <1>3 DEF IInv, SilentInv, n
  <2>3. BodyStep => ~Dead(f)
    BY DEF GoodBody, Dead
  <2>4. \A i \in 1 .. Len(queue') : subs[queue'[i].topic] > 0 \/ Removing(queue'[i].topic)
    <3>1. \A i \in 1 .. Len(queue) : subs[queue[i].topic] > 0 \/ Removing(queue[i].topic)
      BY DEF IInv, SilentInv
    <3>2. CASE BodyStep
      BY <1>8, <2>2, <2>3, <3>1, <3>2
    <3>3. CASE ~BodyStep
      <4>1. queue' = queue
        BY <1>2, <3>3
      <4> QED
        BY <3>1, <4>1
    <3> QED
      BY <3>2, <3>3
  <2>5. ASSUME NEW i \in 1 .. n - 1, ~(subs[t[i].of.topic] > 0)
        PROVE  /\ t[i].of = t[1].of /\ t[1].part > 0
               /\ \/ Removing(t[i].of.topic) /\ pc' = "frames"
                  \/ t[1].part = 2 /\ ~(step' = 2 /\ head' = t[1].of.n)
                  \/ t[1].part = 3
    <3>1. /\ t[i].of = f.of /\ f.part > 0
          /\ (Removing(t[i].of.topic) /\ pc = "frames") \/ Dead(f)
      <4>1. SilentInv /\ i + 1 \in 1 .. Len(wire) /\ t[i] = wire[i + 1] /\ f = wire[1]
        BY <1>3, <1>4 DEF IInv, n
      <4> QED
        BY <2>5, <4>1 DEF SilentInv
    <3>2. f.part < t[i].part /\ t[i].part < NrFrames(f.of) /\ NrFrames(f.of) \in 1 .. 4
      BY <1>4, <1>5, <1>6, <3>1, NrFramesType DEF InOrder
    <3>3. More(f)
      <4>1. t[i].part \in 0 .. 3
        BY <1>3, <1>4
      <4> QED
        BY <1>6, <3>2, <4>1 DEF More
    <3>4. t[1].of = f.of /\ t[1].part = f.part + 1 /\ t[1].part \in {2, 3}
      <4>1. t[1].of = f.of /\ t[1].part = f.part + 1 /\ t[1].part \in 0 .. 3
        BY <1>3, <1>4, <3>3
      <4> QED
        BY <1>6, <3>1, <4>1
    <3>5. CASE f.part = 1
      <4>1. head # f.of.n
        BY <1>3, <3>5 DEF IInv, HeadInv, n
      <4>2. CASE HeadStep
        BY <1>1, <3>1, <3>4, <3>5, <4>2 DEF Dead
      <4>3. CASE ~HeadStep
        <5>1. head' = head
          BY <1>2, <4>3
        <5> QED
          BY <3>1, <3>4, <3>5, <4>1, <5>1
      <4> QED
        BY <4>2, <4>3
    <3>6. CASE f.part # 1
      <4>1. t[1].part = 3
        BY <1>6, <3>1, <3>4, <3>6
      <4> QED
        BY <3>1, <3>4, <4>1
    <3> QED
      BY <3>5, <3>6
  <2>6. \A i \in 1 .. n - 1 :
          \/ subs[t[i].of.topic] > 0
          \/ /\ t[i].of = t[1].of /\ t[1].part > 0
             /\ \/ op' = "cancel" /\ pc' = "frames" /\ t[i].of.topic = target'
                \/ t[1].part = 2 /\ ~(step' = 2 /\ head' = t[1].of.n)
                \/ t[1].part = 3
    BY <2>1, <2>5
  <2> QED
    BY <1>1, <1>4, <2>1, <2>4, <2>6 DEF SilentInv, Removing, Dead
<1>17. CancelledIsSilent'
  BY <1>1, <1>2 DEF IInv, CancelledIsSilent
<1>18. ProtoExplained'
  <2>1. out'.rc = "EPROTO" => out' = out \/ Bad
    BY <1>2
  <2>2. lost => lost'
    BY <1>2
  <2> QED
    BY <1>1, <1>12, <2>1, <2>2 DEF IInv, ProtoExplained
<1> QED
  BY <1>9, <1>10, <1>11, <1>13, <1>14, <1>15, <1>16, <1>17, <1>18 DEF IInv

-----------------------------------------------------------------------------
(* The theorems. *)

(* Every step keeps the invariant. *)
LEMMA NextIInv ==
  ASSUME IInv, [Next]_vars
  PROVE  IInv'
<1>1. CASE Next
  <2>1. ASSUME NEW t \in Topics
        PROVE  /\ \A f \in Faults \cup {"none"} : Publish(t, f) => IInv'
               /\ Req(t) => IInv'
               /\ CallCancel(t) => IInv'
    BY PublishIInv, ReqIInv, CallCancelIInv
  <2>2. \A t \in Timeouts : CallRecv(t) => IInv'
    BY CallRecvIInv
  <2>3. Handle => IInv'
    BY RecvFrameIInv, NoFrameIInv, DropIInv, PopIInv, PollIInv DEF Handle
  <2> QED
    BY <1>1, <2>1, <2>2, <2>3, RequestFailsIInv, ReopenIInv DEF Next
<1>2. CASE UNCHANGED vars
  <2>1. UNCHANGED <<sent, subs, wire, step, head, queue, pc, op, to, target, out, malformed, broken, lost>>
    BY <1>2 DEF vars, socketVars, subVars, callVars, history
  <2>2. TypeOK'
    BY <2>1 DEF IInv, TypeOK
  <2>3. WireInv' /\ HeadInv' /\ FaultInv' /\ SilentInv'
    BY <2>1 DEF IInv, WireInv, HeadInv, FaultInv, SilentInv, Removing, Dead
  <2>4. CallInv' /\ InStep' /\ CancelledIsSilent' /\ ProtoExplained'
    BY <2>1 DEF IInv, CallInv, InStep, CancelledIsSilent, ProtoExplained
  <2> QED
    BY <2>2, <2>3, <2>4 DEF IInv
<1> QED
  BY <1>1, <1>2

(* The inductive invariant holds in every behaviour of the handle. *)
THEOREM Invariance == Spec => []IInv
<1>1. IInv /\ [Next]_vars => IInv'
  BY NextIInv
<1> QED
  BY InitIInv, <1>1, PTL DEF Spec

(* Every variable has its type. *)
THEOREM TypeCorrect == Spec => []TypeOK
<1>1. IInv => TypeOK
  BY DEF IInv
<1> QED
  BY Invariance, <1>1, PTL

(* Frames of two messages are never taken for one: as long as none was     *)
(* refused, sub->step and the head that was read belong to the message     *)
(* whose frame is next (sub.c, __mds_sub_recv).                            *)
THEOREM FramesInStep == Spec => []InStep
<1>1. IInv => InStep
  BY DEF IInv
<1> QED
  BY Invariance, <1>1, PTL

(* After mds_sub_cancel has returned no message of the topic is handed out,*)
(* those that were queued and the one that was half received included.     *)
THEOREM CancelSilences == Spec => []CancelledIsSilent
<1>1. IInv => CancelledIsSilent
  BY DEF IInv
<1> QED
  BY Invariance, <1>1, PTL

(* EPROTO always has a cause the application can know of: a malformed      *)
(* message, or an ENOMEM that mds_sub_recv reported before.                *)
THEOREM ProtoHasCause == Spec => []ProtoExplained
<1>1. IInv => ProtoExplained
  BY DEF IInv
<1> QED
  BY Invariance, <1>1, PTL

(* A receive never makes the queue longer than NR_CACHE (sub.c:266).       *)
THEOREM CacheNeverOverrun == Spec => CacheRespected
<1> DEFINE Grows == op = "recv" /\ Len(queue') > Len(queue) => Len(queue') <= NR_CACHE
<1>1. ASSUME IInv, [Next]_vars
      PROVE  [Grows]_vars
  <2>1. queue \in Seq(Message) /\ Len(queue) \in Nat /\ NR_CACHE \in Nat
    BY <1>1, LenProperties, MdsSubAssumption DEF IInv, TypeOK
  <2>2. queue' = queue => Grows
    BY <2>1
  <2>3. CASE RecvFrame
    <3>1. pc = "frames" /\ wire # <<>>
      BY <2>3 DEF RecvFrame
    <3>2. op = "recv" => Len(queue) < NR_CACHE
      BY <1>1, <3>1 DEF IInv, CallInv
    <3>3. Head(wire) \in Frame
      BY <1>1, <3>1, HeadTailProperties DEF IInv, TypeOK
    <3>4. queue' = queue \/ queue' = Append(queue, Head(wire).of)
      BY <2>3 DEF RecvFrame, Refuse, QueuedBody
    <3>5. Len(Append(queue, Head(wire).of)) = Len(queue) + 1
      BY <2>1, <3>3, FrameType, AppendProperties
    <3> QED
      BY <2>1, <2>2, <3>2, <3>4, <3>5
  <2>4. CASE Drop
    <3>1. op = "cancel"
      BY <1>1, <2>4 DEF Drop, IInv, CallInv
    <3> QED
      BY <3>1
  <2>5. CASE Pop
    <3>1. queue' = queue \/ (queue # <<>> /\ queue' = Tail(queue))
      BY <2>5 DEF Pop
    <3>2. queue # <<>> => Len(Tail(queue)) = Len(queue) - 1
      BY <2>1, HeadTailProperties
    <3> QED
      BY <2>1, <2>2, <3>1, <3>2
  <2>6. CASE Reopen
    <3>1. queue' = <<>> /\ Len(<<>>) = 0
      BY <2>6, EmptySeq DEF Reopen
    <3> QED
      BY <2>1, <3>1
  <2>7. CASE queue' = queue
    BY <2>2, <2>7
  <2>8. Next => \/ RecvFrame \/ Drop \/ Pop \/ Reopen \/ queue' = queue
    BY DEF Next, Handle, Publish, Req, RequestFails, CallCancel, CallRecv, NoFrame, Poll, subVars
  <2> QED
    BY <1>1, <2>3, <2>4, <2>5, <2>6, <2>7, <2>8
<1> QED
  BY Invariance, <1>1, PTL DEF Spec, CacheRespected

-----------------------------------------------------------------------------
(* MdsSub implements MsgQueue: whatever is lost to the steps that take a   *)
(* message apart, its reader sees a queue of whole messages.  The messages *)
(* due are those of the queue, then those whose last frame the socket      *)
(* holds; every step of the handle is one of the queue's, or changes       *)
(* nothing that the reader sees.                                           *)

(* The messages of frames, and those whose last frame is in w. *)
Messages(w) == [i \in 1 .. Len(w) |-> w[i].of]
Bodies(w) == Messages(Selected(w, LastFrames))

(* What MsgQueue calls Others: the messages of other topics than t, and    *)
(* their frames.                                                           *)
Others(t) == {m \in Message : m.topic # t}
OtherFrames(t) == {f \in Frame : f.of.topic # t}

(* s is d with one element left out. *)
OneLess(s, d) ==
  \E i \in 1 .. Len(d) : s = SubSeq(d, 1, i - 1) \o SubSeq(d, i + 1, Len(d))

-----------------------------------------------------------------------------
(* Sequences. *)

(* One element between two sequences belongs to either. *)
LEMMA AppendConcat ==
  ASSUME NEW T, NEW q \in Seq(T), NEW b \in Seq(T), NEW x \in T
  PROVE  /\ <<x>> \in Seq(T)
         /\ q \o (<<x>> \o b) = Append(q, x) \o b
         /\ q \o Append(b, x) = Append(q \o b, x)
<1>1. <<x>> \in Seq(T)
  OBVIOUS
<1>2. Append(q, x) = q \o <<x>> /\ Append(b, x) = b \o <<x>>
  BY AppendIsConcat
<1>3. q \o b \in Seq(T)
  BY ConcatProperties
<1>4. Append(q \o b, x) = (q \o b) \o <<x>>
  BY <1>3, AppendIsConcat
<1> QED
  BY <1>1, <1>2, <1>4, ConcatAssociative

(* A sequence that is not empty is its head and its tail. *)
LEMMA HeadAndTail ==
  ASSUME NEW T, NEW q \in Seq(T), q # <<>>, NEW b \in Seq(T)
  PROVE  /\ Head(q) \in T /\ Tail(q) \in Seq(T)
         /\ q = <<Head(q)>> \o Tail(q)
         /\ q \o b # <<>> /\ Head(q \o b) = Head(q) /\ Tail(q \o b) = Tail(q) \o b
<1> DEFINE h == Head(q)
           t == Tail(q)
           c == q \o b
           d == t \o b
           e == <<h>> \o t
<1>1. /\ h \in T /\ t \in Seq(T) /\ Len(t) = Len(q) - 1 /\ h = q[1]
      /\ \A i \in 1 .. Len(t) : t[i] = q[i + 1]
      /\ Len(q) \in Nat \ {0} /\ Len(b) \in Nat
  BY HeadTailProperties, EmptySeq, LenProperties
<1>2. /\ c \in Seq(T) /\ Len(c) = Len(q) + Len(b)
      /\ \A i \in 1 .. Len(q) + Len(b) : c[i] = IF i <= Len(q) THEN q[i] ELSE b[i - Len(q)]
  BY ConcatProperties
<1> HIDE DEF h, t, c
<1>3. /\ d \in Seq(T) /\ Len(d) = Len(t) + Len(b)
      /\ \A i \in 1 .. Len(t) + Len(b) : d[i] = IF i <= Len(t) THEN t[i] ELSE b[i - Len(t)]
  BY <1>1, ConcatProperties
<1>4. <<h>> \in Seq(T) /\ Len(<<h>>) = 1 /\ <<h>>[1] = h
  BY <1>1
<1>5. /\ e \in Seq(T) /\ Len(e) = 1 + Len(t)
      /\ \A i \in 1 .. 1 + Len(t) : e[i] = IF i <= 1 THEN <<h>>[i] ELSE t[i - 1]
  BY <1>1, <1>4, ConcatProperties
<1> HIDE DEF d, e
<1>6. q = e
  <2>1. \A i \in 1 .. Len(q) : q[i] = e[i]
    <3>1. TAKE i \in 1 .. Len(q)
    <3>2. CASE i = 1
      BY <1>1, <1>4, <1>5, <3>2
    <3>3. CASE i > 1
      <4>1. i - 1 \in 1 .. Len(t) /\ (i - 1) + 1 = i
        BY <1>1, <3>3
      <4> QED
        BY <1>1, <1>5, <3>3, <4>1
    <3> QED
      BY <1>1, <3>2, <3>3
  <2>2. Len(q) = Len(e)
    BY <1>1, <1>5
  <2> QED
    BY <1>5, <2>1, <2>2, SeqEqual
<1>7. c # <<>> /\ Head(c) = h
  <2>1. Len(c) > 0 /\ c[1] = q[1]
    BY <1>1, <1>2
  <2> QED
    BY <1>1, <1>2, <2>1, EmptySeq, HeadTailProperties
<1>8. Tail(c) = d
  <2> DEFINE u == Tail(c)
  <2>1. /\ u \in Seq(T) /\ Len(u) = Len(c) - 1
        /\ \A i \in 1 .. Len(u) : u[i] = c[i + 1]
    BY <1>2, <1>7, HeadTailProperties
  <2> HIDE DEF u
  <2>2. Len(u) = Len(d)
    BY <1>1, <1>2, <1>3, <2>1
  <2>3. \A i \in 1 .. Len(u) : u[i] = d[i]
    <3>1. TAKE i \in 1 .. Len(u)
    <3>2. u[i] = c[i + 1] /\ i + 1 \in 1 .. Len(q) + Len(b) /\ i \in 1 .. Len(t) + Len(b)
      BY <1>1, <1>2, <2>1
    <3>3. CASE i <= Len(t)
      BY <1>1, <1>2, <1>3, <3>2, <3>3
    <3>4. CASE i > Len(t)
      <4>1. i + 1 - Len(q) = i - Len(t) /\ ~(i + 1 <= Len(q)) /\ ~(i <= Len(t))
        BY <1>1, <3>4
      <4>2. c[i + 1] = b[i + 1 - Len(q)]
        BY <1>2, <3>2, <4>1
      <4>3. d[i] = b[i - Len(t)]
        BY <1>3, <3>2, <4>1
      <4> QED
        BY <3>2, <4>1, <4>2, <4>3
    <3> QED
      BY <1>1, <3>3, <3>4
  <2>4. u = d
    BY <1>3, <2>1, <2>2, <2>3, SeqEqual
  <2> QED
    BY <2>4 DEF u
<1> QED
  BY <1>1, <1>6, <1>7, <1>8 DEF h, t, c, d, e

(* The element between two sequences is left out by SubSeq. *)
LEMMA LeaveOut ==
  ASSUME NEW T, NEW q \in Seq(T), NEW b \in Seq(T), NEW x \in T
  PROVE  OneLess(q \o b, q \o (<<x>> \o b))
<1> DEFINE e == <<x>> \o b
           d == q \o e
           n == Len(q)
           k == Len(b)
           s1 == SubSeq(d, 1, n)
           s2 == SubSeq(d, n + 2, Len(d))
<1>1. <<x>> \in Seq(T) /\ Len(<<x>>) = 1 /\ <<x>>[1] = x
  OBVIOUS
<1>2. n \in Nat /\ k \in Nat
  BY LenProperties
<1>3. /\ e \in Seq(T) /\ Len(e) = 1 + k
      /\ \A i \in 1 .. 1 + k : e[i] = IF i <= 1 THEN <<x>>[i] ELSE b[i - 1]
  BY <1>1, ConcatProperties
<1> HIDE DEF e
<1>4. /\ d \in Seq(T) /\ Len(d) = n + (1 + k)
      /\ \A i \in 1 .. n + (1 + k) : d[i] = IF i <= n THEN q[i] ELSE e[i - n]
  <2>1. /\ d \in Seq(T) /\ Len(d) = n + Len(e)
        /\ \A i \in 1 .. n + Len(e) : d[i] = IF i <= n THEN q[i] ELSE e[i - n]
    BY <1>3, ConcatProperties
  <2> HIDE DEF d, n, k
  <2> QED
    BY <1>3, <2>1
<1> HIDE DEF d, n, k
<1>5. \A i \in 1 .. n + (1 + k) : d[i] \in T
  BY <1>4, ElementOfSeq
<1>6. /\ s1 \in Seq(T) /\ Len(s1) = n
      /\ \A i \in 1 .. n : s1[i] = q[i]
  <2>1. \A i \in 1 .. n : d[i] \in T /\ d[i] = q[i]
    BY <1>2, <1>4, <1>5
  <2>2. /\ s1 \in Seq(T) /\ Len(s1) = IF 1 <= n THEN n - 1 + 1 ELSE 0
        /\ \A i \in 1 .. n - 1 + 1 : s1[i] = d[1 + i - 1]
    BY <1>2, <2>1, SubSeqProperties
  <2> HIDE DEF s1
  <2> QED
    BY <1>2, <2>1, <2>2
<1>7. /\ s2 \in Seq(T) /\ Len(s2) = k
      /\ \A i \in 1 .. k : s2[i] = b[i]
  <2>1. \A i \in n + 2 .. Len(d) : d[i] \in T
    BY <1>2, <1>4, <1>5
  <2>2. n + 2 \in Int /\ Len(d) \in Int
    BY <1>2, <1>4
  <2>3. /\ s2 \in Seq(T) /\ Len(s2) = IF n + 2 <= Len(d) THEN Len(d) - (n + 2) + 1 ELSE 0
        /\ \A i \in 1 .. Len(d) - (n + 2) + 1 : s2[i] = d[(n + 2) + i - 1]
    BY <2>1, <2>2, SubSeqProperties
  <2> HIDE DEF s2
  <2>4. Len(s2) = k
    BY <1>2, <1>4, <2>3
  <2>5. \A i \in 1 .. k : s2[i] = b[i]
    <3>1. TAKE i \in 1 .. k
    <3>2. /\ (n + 2) + i - 1 \in 1 .. n + (1 + k) /\ ~((n + 2) + i - 1 <= n)
          /\ ((n + 2) + i - 1) - n = i + 1 /\ i + 1 \in 1 .. 1 + k /\ ~(i + 1 <= 1)
          /\ i \in 1 .. Len(d) - (n + 2) + 1 /\ (i + 1) - 1 = i
      BY <1>2, <1>4
    <3>3. s2[i] = d[(n + 2) + i - 1]
      BY <2>3, <3>2
    <3>4. d[(n + 2) + i - 1] = e[i + 1]
      BY <1>4, <3>2
    <3> QED
      BY <1>3, <3>2, <3>3, <3>4
  <2> QED
    BY <2>3, <2>4, <2>5
<1>8. s1 = q /\ s2 = b
  <2> HIDE DEF s1, s2
  <2> QED
    BY <1>6, <1>7, SeqEqual DEF n, k
<1>9. n + 1 \in 1 .. Len(d) /\ (n + 1) - 1 = n /\ (n + 1) + 1 = n + 2
  BY <1>2, <1>4
<1>10. q \o b = SubSeq(d, 1, (n + 1) - 1) \o SubSeq(d, (n + 1) + 1, Len(d))
  BY <1>8, <1>9
<1> QED
  BY <1>9, <1>10 DEF d, e, OneLess

-----------------------------------------------------------------------------
(* The messages of frames. *)

LEMMA MessagesType ==
  ASSUME NEW w \in Seq(Frame)
  PROVE  Messages(w) \in Seq(Message) /\ Len(Messages(w)) = Len(w)
<1>1. Len(w) \in Nat /\ \A i \in 1 .. Len(w) : w[i].of \in Message
  BY LenProperties, ElementOfSeq, FrameType
<1> QED
  BY <1>1 DEF Messages

LEMMA MessagesAppend ==
  ASSUME NEW w \in Seq(Frame), NEW f \in Frame
  PROVE  Messages(Append(w, f)) = Append(Messages(w), f.of)
<1> DEFINE v == Append(w, f)
           n == Len(w)
           b == Messages(w)
           c == Append(b, f.of)
<1>1. /\ v \in Seq(Frame) /\ Len(v) = n + 1 /\ v[n + 1] = f
      /\ \A i \in 1 .. n : v[i] = w[i]
      /\ n \in Nat
  BY AppendProperties, LenProperties
<1>2. b \in Seq(Message) /\ Len(b) = n /\ \A i \in 1 .. n : b[i] = w[i].of
  BY MessagesType DEF Messages
<1>3. f.of \in Message
  BY FrameType
<1> HIDE DEF v, b, n
<1>4. /\ c \in Seq(Message) /\ Len(c) = n + 1 /\ c[n + 1] = f.of
      /\ \A i \in 1 .. n : c[i] = b[i]
  BY <1>2, <1>3, AppendProperties
<1> HIDE DEF c
<1>5. /\ Messages(v) \in Seq(Message) /\ Len(Messages(v)) = n + 1
      /\ \A i \in 1 .. n + 1 : Messages(v)[i] = v[i].of
  BY <1>1, MessagesType DEF Messages
<1>6. \A i \in 1 .. n + 1 : Messages(v)[i] = c[i]
  <2>1. TAKE i \in 1 .. n + 1
  <2>2. i = n + 1 \/ i \in 1 .. n
    BY <1>1
  <2> QED
    BY <1>1, <1>2, <1>4, <1>5, <2>2
<1>7. Messages(v) = c
  BY <1>4, <1>5, <1>6, SeqEqual
<1> QED
  BY <1>7 DEF v, c, b

LEMMA MessagesConcat ==
  ASSUME NEW w \in Seq(Frame), NEW r \in Seq(Frame)
  PROVE  Messages(w \o r) = Messages(w) \o Messages(r)
<1> DEFINE n == Len(w)
           k == Len(r)
           v == w \o r
           b == Messages(w)
           c == Messages(r)
           d == b \o c
<1>1. /\ v \in Seq(Frame) /\ Len(v) = n + k
      /\ \A i \in 1 .. n + k : v[i] = IF i <= n THEN w[i] ELSE r[i - n]
      /\ n \in Nat /\ k \in Nat
  BY ConcatProperties, LenProperties
<1>2. /\ b \in Seq(Message) /\ Len(b) = n /\ \A i \in 1 .. n : b[i] = w[i].of
      /\ c \in Seq(Message) /\ Len(c) = k /\ \A i \in 1 .. k : c[i] = r[i].of
  BY MessagesType DEF Messages
<1> HIDE DEF v, b, c, n, k
<1>3. /\ d \in Seq(Message) /\ Len(d) = n + k
      /\ \A i \in 1 .. n + k : d[i] = IF i <= n THEN b[i] ELSE c[i - n]
  <2>1. /\ d \in Seq(Message) /\ Len(d) = Len(b) + Len(c)
        /\ \A i \in 1 .. Len(b) + Len(c) : d[i] = IF i <= Len(b) THEN b[i] ELSE c[i - Len(b)]
    BY <1>2, ConcatProperties
  <2> QED
    BY <1>2, <2>1
<1> HIDE DEF d
<1>4. /\ Messages(v) \in Seq(Message) /\ Len(Messages(v)) = n + k
      /\ \A i \in 1 .. n + k : Messages(v)[i] = v[i].of
  BY <1>1, MessagesType DEF Messages
<1>5. \A i \in 1 .. n + k : Messages(v)[i] = d[i]
  <2>1. TAKE i \in 1 .. n + k
  <2>2. CASE i <= n
    <3>1. i \in 1 .. n
      BY <1>1, <2>2
    <3>2. d[i] = b[i] /\ Messages(v)[i] = v[i].of
      BY <1>3, <1>4, <2>2
    <3> QED
      BY <1>1, <1>2, <3>1, <3>2
  <2>3. CASE ~(i <= n)
    <3>1. i - n \in 1 .. k
      BY <1>1, <2>3
    <3>2. d[i] = c[i - n] /\ Messages(v)[i] = v[i].of
      BY <1>3, <1>4, <2>3
    <3> QED
      BY <1>1, <1>2, <2>3, <3>1, <3>2
  <2> QED
    BY <2>2, <2>3
<1>6. Messages(v) = d
  BY <1>3, <1>4, <1>5, SeqEqual
<1> QED
  BY <1>6 DEF v, d, b, c

(* Selecting by topic is the same before and after. *)
LEMMA MessagesSelected ==
  ASSUME NEW w \in Seq(Frame), NEW t
  PROVE  Selected(Messages(w), Others(t)) = Messages(Selected(w, OtherFrames(t)))
<1> DEFINE O == Others(t)
           F == OtherFrames(t)
           P == {q \in Seq(Frame) : Selected(Messages(q), O) = Messages(Selected(q, F))}
<1>1. <<>> \in P
  <2>1. <<>> \in Seq(Frame) /\ Len(<<>>) = 0
    BY EmptySeq
  <2>2. Messages(<<>>) = <<>>
    <3>1. Messages(<<>>) \in Seq(Message) /\ Len(Messages(<<>>)) = 0
      BY <2>1, MessagesType
    <3> QED
      BY <3>1, EmptySeq
  <2> QED
    BY <2>1, <2>2, SelectedEmpty
<1>2. ASSUME NEW q \in Seq(Frame), NEW f \in Frame, q \in P
      PROVE  Append(q, f) \in P
  <2> DEFINE b == Messages(q)
             r == Selected(q, F)
  <2>1. Append(q, f) \in Seq(Frame)
    BY AppendProperties
  <2>2. b \in Seq(Message) /\ f.of \in Message
    BY MessagesType, FrameType
  <2>3. r \in Seq(Frame)
    <3>1. r \in Seq(Frame \cap F) /\ Frame \cap F \subseteq Frame
      BY SelectedType
    <3> QED
      BY <3>1, SeqMonotonic
  <2>4. f.of \in O <=> f \in F
    BY <2>2 DEF Others, OtherFrames
  <2>5. Selected(b, O) = Messages(r)
    BY <1>2
  <2>6. Messages(Append(q, f)) = Append(b, f.of)
    BY MessagesAppend
  <2>7. Selected(Append(q, f), F) = IF f \in F THEN Append(r, f) ELSE r
    BY SelectedAppend
  <2> HIDE DEF b, r, O, F
  <2>8. Selected(Append(b, f.of), O) =
          IF f.of \in O THEN Append(Selected(b, O), f.of) ELSE Selected(b, O)
    BY <2>2, SelectedAppend, ZenonT(40)
  <2>9. Messages(Append(r, f)) = Append(Messages(r), f.of)
    BY <2>3, MessagesAppend
  <2>10. Selected(Messages(Append(q, f)), O) = Messages(Selected(Append(q, f), F))
    BY <2>4, <2>5, <2>6, <2>7, <2>8, <2>9
  <2> QED
    BY <2>1, <2>10 DEF O, F
<1>3. Seq(Frame) \subseteq P
  <2> HIDE DEF P
  <2> QED
    BY <1>1, <1>2, SeqSetInduction
<1> QED
  BY <1>3

-----------------------------------------------------------------------------
(* The messages whose last frame is in the socket. *)

LEMMA SelectedFrames ==
  ASSUME NEW w \in Seq(Frame), NEW S
  PROVE  Selected(w, S) \in Seq(Frame)
<1>1. Selected(w, S) \in Seq(Frame \cap S) /\ Frame \cap S \subseteq Frame
  BY SelectedType
<1> QED
  BY <1>1, SeqMonotonic

LEMMA BodiesType ==
  ASSUME NEW w \in Seq(Frame)
  PROVE  Bodies(w) \in Seq(Message)
  BY SelectedFrames, MessagesType DEF Bodies

LEMMA BodiesConcat ==
  ASSUME NEW w \in Seq(Frame), NEW r \in Seq(Frame)
  PROVE  Bodies(w \o r) = Bodies(w) \o Bodies(r)
<1>1. Selected(w, LastFrames) \in Seq(Frame) /\ Selected(r, LastFrames) \in Seq(Frame)
  BY SelectedFrames
<1>2. Selected(w \o r, LastFrames) = Selected(w, LastFrames) \o Selected(r, LastFrames)
  BY SelectedConcat
<1> QED
  BY <1>1, <1>2, MessagesConcat DEF Bodies

(* One frame more. *)
LEMMA BodiesAppend ==
  ASSUME NEW w \in Seq(Frame), NEW f \in Frame
  PROVE  Bodies(Append(w, f)) = IF f \in LastFrames THEN Append(Bodies(w), f.of) ELSE Bodies(w)
<1>1. Selected(w, LastFrames) \in Seq(Frame)
  BY SelectedFrames
<1>2. Selected(Append(w, f), LastFrames) =
        IF f \in LastFrames THEN Append(Selected(w, LastFrames), f) ELSE Selected(w, LastFrames)
  BY SelectedAppend
<1> QED
  BY <1>1, <1>2, MessagesAppend DEF Bodies

LEMMA BodiesEmpty == Bodies(<<>>) = <<>>
<1>1. <<>> \in Seq(Frame) /\ Len(<<>>) = 0
  BY EmptySeq
<1>2. Messages(<<>>) \in Seq(Message) /\ Len(Messages(<<>>)) = 0
  BY <1>1, MessagesType
<1>3. Messages(<<>>) = <<>>
  BY <1>2, EmptySeq
<1> QED
  BY <1>3, SelectedEmpty DEF Bodies

(* Without its first frame. *)
LEMMA BodiesTail ==
  ASSUME NEW w \in Seq(Frame), w # <<>>
  PROVE  Bodies(w) = IF Head(w) \in LastFrames THEN <<Head(w).of>> \o Bodies(Tail(w))
                     ELSE Bodies(Tail(w))
<1> DEFINE h == Head(w)
           t == Tail(w)
<1>1. h \in Frame /\ t \in Seq(Frame) /\ w = <<h>> \o t
  <2>1. <<>> \in Seq(Frame)
    BY EmptySeq
  <2> QED
    BY <2>1, HeadAndTail
<1> HIDE DEF h, t
<1>2. <<h>> = Append(<<>>, h) /\ <<h>> \in Seq(Frame) /\ <<>> \in Seq(Frame)
  BY <1>1
<1>3. Bodies(<<h>>) = IF h \in LastFrames THEN <<h.of>> ELSE <<>>
  <2>1. Bodies(Append(<<>>, h)) =
          IF h \in LastFrames THEN Append(Bodies(<<>>), h.of) ELSE Bodies(<<>>)
    BY <1>1, <1>2, BodiesAppend
  <2>2. Append(<<>>, h.of) = <<h.of>>
    OBVIOUS
  <2> QED
    BY <1>2, <2>1, <2>2, BodiesEmpty
<1>4. Bodies(w) = Bodies(<<h>>) \o Bodies(t)
  BY <1>1, <1>2, BodiesConcat
<1>5. Bodies(t) \in Seq(Message)
  BY <1>1, BodiesType
<1>6. <<>> \o Bodies(t) = Bodies(t)
  BY <1>5, ConcatEmptySeq
<1>7. Bodies(w) = IF h \in LastFrames THEN <<h.of>> \o Bodies(t) ELSE Bodies(t)
  BY <1>3, <1>4, <1>6
<1> QED
  BY <1>7 DEF h, t

(* A message adds itself, unless what is wrong with it shows in a frame    *)
(* after its topic.                                                        *)
LEMMA BodiesOfFrames ==
  ASSUME NEW m \in Message
  PROVE  Bodies(Frames(m)) = IF m.fault \in {"none", "topic"} THEN <<m>> ELSE <<>>
<1> DEFINE w == Frames(m)
<1>1. /\ w \in Seq(Frame) /\ Len(w) = NrFrames(m) /\ NrFrames(m) \in 1 .. 4
      /\ \A i \in 1 .. NrFrames(m) : w[i].of = m /\ w[i].part = i - 1 /\ w[i] \in Frame
  <2>1. /\ w \in Seq(Frame) /\ Len(w) = NrFrames(m) /\ NrFrames(m) \in 1 .. 4
        /\ \A i \in 1 .. NrFrames(m) : w[i].of = m /\ w[i].part = i - 1
    BY FramesType, NrFramesType
  <2> HIDE DEF w
  <2> QED
    BY <2>1, ElementOfSeq
<1> HIDE DEF w
<1>2. CASE m.fault \notin {"none", "topic"}
  <2>1. \A i \in 1 .. Len(w) : w[i] \notin LastFrames
    BY <1>1, <1>2 DEF LastFrames
  <2>2. Selected(w, LastFrames) = <<>>
    BY <1>1, <2>1, SelectedAllOrNone
  <2>3. <<>> \in Seq(Frame) /\ Len(<<>>) = 0
    BY EmptySeq
  <2>4. Messages(<<>>) \in Seq(Message) /\ Len(Messages(<<>>)) = 0
    BY <2>3, MessagesType
  <2>5. Messages(<<>>) = <<>>
    BY <2>4, EmptySeq
  <2> QED
    BY <1>2, <2>2, <2>5 DEF Bodies, w
<1>3. CASE m.fault \in {"none", "topic"}
  <2> DEFINE f == [of |-> m, part |-> 2]
             p == [i \in 1 .. 2 |-> w[i]]
             v == Append(p, f)
  <2>1. NrFrames(m) = 3
    BY <1>3 DEF NrFrames
  <2>2. f \in Frame /\ f \in LastFrames /\ f.of = m
    BY <1>3 DEF Frame, LastFrames
  <2>3. /\ p \in Seq(Frame) /\ Len(p) = 2
        /\ \A i \in 1 .. 2 : p[i] = w[i] /\ p[i].part = i - 1
    BY <1>1, <2>1
  <2> HIDE DEF f, p
  <2>4. v \in Seq(Frame) /\ Len(v) = 3 /\ v[1] = w[1] /\ v[2] = w[2] /\ v[3] = f
    <3>1. /\ v \in Seq(Frame) /\ Len(v) = Len(p) + 1
          /\ \A i \in 1 .. Len(p) : v[i] = p[i]
          /\ v[Len(p) + 1] = f
      <4>1. p \in Seq(Frame) /\ f \in Frame
        BY <2>2, <2>3
      <4> QED
        BY <4>1, AppendProperties
    <3> HIDE DEF v
    <3> QED
      BY <2>3, <3>1
  <2>5. w[3] = f
    <3>1. w[3] \in Frame /\ w[3].of = m /\ w[3].part = 2
      BY <1>1, <2>1
    <3> QED
      BY <3>1 DEF Frame, f
  <2>6. w = v
    <3> HIDE DEF v
    <3>1. \A i \in 1 .. 3 : w[i] = v[i]
      BY <2>4, <2>5
    <3> QED
      BY <1>1, <2>1, <2>4, <3>1, SeqEqual
  <2>7. Selected(p, LastFrames) = <<>>
    <3>1. \A i \in 1 .. Len(p) : p[i] \notin LastFrames
      BY <2>3 DEF LastFrames
    <3> QED
      BY <2>3, <3>1, SelectedAllOrNone
  <2>8. Selected(v, LastFrames) = Append(<<>>, f)
    BY <2>2, <2>3, <2>7, SelectedAppend
  <2>9. <<>> \in Seq(Frame) /\ Messages(<<>>) = <<>>
    BY EmptySeq, BodiesEmpty, SelectedEmpty DEF Bodies
  <2>10. Messages(Append(<<>>, f)) = Append(<<>>, m)
    BY <2>2, <2>9, MessagesAppend
  <2>11. Append(<<>>, m) = <<m>>
    OBVIOUS
  <2> QED
    BY <1>3, <2>6, <2>8, <2>10, <2>11 DEF Bodies, w
<1> QED
  BY <1>2, <1>3

(* A selection that takes every frame of other topics takes every message  *)
(* of them, and no more messages than there were.                          *)
LEMMA BodiesSelected ==
  ASSUME NEW w \in Seq(Frame), NEW t, NEW S, OtherFrames(t) \subseteq S
  PROVE  /\ Selected(Bodies(Selected(w, S)), Others(t)) = Selected(Bodies(w), Others(t))
         /\ Len(Bodies(Selected(w, S))) <= Len(Bodies(w))
<1> DEFINE L == LastFrames
           F == OtherFrames(t)
           r == Selected(w, S)
<1>1. r \in Seq(Frame) /\ Selected(w, L) \in Seq(Frame) /\ Selected(r, L) \in Seq(Frame)
  BY SelectedFrames
<1>2. /\ Selected(Bodies(r), Others(t)) = Messages(Selected(Selected(r, L), F))
      /\ Selected(Bodies(w), Others(t)) = Messages(Selected(Selected(w, L), F))
  BY <1>1, MessagesSelected DEF Bodies
<1>3. /\ Selected(Selected(r, L), F) = Selected(r, L \cap F)
      /\ Selected(r, L \cap F) = Selected(w, S \cap (L \cap F))
      /\ Selected(Selected(w, L), F) = Selected(w, L \cap F)
  <2>1. Selected(Selected(r, L), F) = Selected(r, L \cap F)
    <3> HIDE DEF r, L, F
    <3> QED
      BY <1>1, SelectedTwice
  <2> QED
    BY <2>1, SelectedTwice
<1>4. S \cap (L \cap F) = L \cap F
  OBVIOUS
<1>5. Selected(r, L) = Selected(Selected(w, L), S)
  <2>1. Selected(r, L) = Selected(w, S \cap L) /\ Selected(Selected(w, L), S) = Selected(w, L \cap S)
    BY SelectedTwice
  <2>2. S \cap L = L \cap S
    OBVIOUS
  <2> QED
    BY <2>1, <2>2
<1>6. Len(Selected(r, L)) <= Len(Selected(w, L))
  BY <1>1, <1>5, SelectedShorter
<1>7. Len(Bodies(r)) = Len(Selected(r, L)) /\ Len(Bodies(w)) = Len(Selected(w, L))
  BY <1>1, MessagesType DEF Bodies
<1>8. Selected(Bodies(r), Others(t)) = Selected(Bodies(w), Others(t))
  BY <1>2, <1>3, <1>4
<1> QED
  BY <1>6, <1>7, <1>8

-----------------------------------------------------------------------------
(* Every step of the handle is a step of the queue, or the reader does not *)
(* see it.                                                                 *)

LEMMA SameSelected ==
  ASSUME NEW s, NEW S
  PROVE  Q!Selected(s, S) = Selected(s, S)
  BY DEF Q!Selected, Q!Upto, Selected, Upto

LEMMA DueIs ==
  /\ Due = queue \o Bodies(wire)
  /\ Due' = queue' \o Bodies(wire')
  BY DEF Due, Bodies, Messages

LEMMA DueType ==
  ASSUME IInv
  PROVE  /\ queue \in Seq(Message) /\ wire \in Seq(Frame) /\ Bodies(wire) \in Seq(Message)
         /\ Due \in Seq(Message) /\ Len(Due) \in Nat
<1>1. queue \in Seq(Message) /\ wire \in Seq(Frame)
  BY DEF IInv, TypeOK
<1>2. Bodies(wire) \in Seq(Message)
  BY <1>1, BodiesType
<1>3. Due \in Seq(Message)
  BY <1>1, <1>2, DueIs, ConcatProperties
<1> QED
  BY <1>1, <1>2, <1>3, LenProperties

(* What the reader sees does not change. *)
LEMMA Stutters ==
  ASSUME Due' = Due, UNCHANGED <<out, broken>>
  PROVE  [Q!Next]_(Q!vars)
  BY DEF Q!vars

(* Only the answer changes. *)
LEMMA Resumes ==
  ASSUME Due' = Due, UNCHANGED broken, out'.rc # "data"
  PROVE  [Q!Next]_(Q!vars)
  BY DEF Q!Next, Q!Resume

LEMMA PublishRefines ==
  ASSUME NEW t \in Topics, NEW fault \in Faults \cup {"none"}, IInv, Publish(t, fault)
  PROVE  [Q!Next]_(Q!vars)
<1> DEFINE m == [n |-> sent + 1, topic |-> t, fault |-> fault]
           b == Bodies(wire)
<1>1. /\ sent < MaxSent /\ wire' = wire \o Frames(m)
      /\ UNCHANGED <<queue, out, broken>>
  BY DEF Publish, subVars, callVars
<1>2. m \in Message /\ m.fault = fault
  BY <1>1, MdsSubAssumption DEF IInv, TypeOK, Message
<1>3. Frames(m) \in Seq(Frame)
  BY <1>2, FramesType
<1>4. wire \in Seq(Frame) /\ queue \in Seq(Message) /\ b \in Seq(Message)
  BY DueType
<1> HIDE DEF m, b
<1>5. Bodies(wire') = b \o (IF fault \in {"none", "topic"} THEN <<m>> ELSE <<>>)
  BY <1>1, <1>2, <1>3, <1>4, BodiesConcat, BodiesOfFrames DEF b
<1>6. CASE fault \in {"none", "topic"}
  <2>1. b \o <<m>> = Append(b, m)
    BY <1>2, <1>4, AppendIsConcat
  <2>2. Due' = Append(Due, m)
    BY <1>1, <1>2, <1>4, <1>5, <1>6, <2>1, DueIs, AppendConcat DEF b
  <2>3. Len(Append(Due, m)) = Len(Due) + 1
    BY <1>2, DueType, AppendProperties
  <2>4. Q!Arrive
    BY <1>1, <1>2, <2>2, <2>3 DEF Q!Arrive
  <2> QED
    BY <2>4 DEF Q!Next
<1>7. CASE fault \notin {"none", "topic"}
  <2>1. Due' = Due
    BY <1>1, <1>4, <1>5, <1>7, DueIs, ConcatEmptySeq DEF b
  <2> QED
    BY <1>1, <2>1, Stutters
<1> QED
  BY <1>6, <1>7

LEMMA CallCancelRefines ==
  ASSUME NEW t \in Topics, IInv, CallCancel(t)
  PROVE  [Q!Next]_(Q!vars)
<1> DEFINE Begun(m) == \A i \in 1 .. Len(wire) : wire[i].of = m => wire[i].part > 0
           S == {f \in Frame : f.of.topic # t \/ Begun(f.of)}
           b == Bodies(wire)
           c == Bodies(wire')
           O == Others(t)
<1>1. /\ wire' = Selected(wire, S) \/ wire' = wire
      /\ out'.rc = "none" /\ UNCHANGED <<queue, broken>>
  BY DEF CallCancel, Kept, subVars, history
<1>2. wire \in Seq(Frame) /\ queue \in Seq(Message) /\ b \in Seq(Message)
  BY DueType
<1>3. OtherFrames(t) \subseteq S
  BY DEF OtherFrames
<1> HIDE DEF S
<1>4. wire' \in Seq(Frame)
  BY <1>1, <1>2, SelectedFrames
<1>5. Selected(c, O) = Selected(b, O) /\ Len(c) <= Len(b)
  <2>1. CASE wire' = wire
    BY <1>2, <2>1, LenProperties
  <2>2. CASE wire' = Selected(wire, S)
    BY <1>2, <1>3, <2>2, BodiesSelected
  <2> QED
    BY <1>1, <2>1, <2>2
<1>6. c \in Seq(Message)
  BY <1>4, BodiesType
<1>7. Due = queue \o b /\ Due' = queue \o c
  BY <1>1, DueIs
<1> HIDE DEF b, c, O
<1>8. Selected(queue \o c, O) = Selected(queue \o b, O)
  <2>1. Selected(queue \o c, O) = Selected(queue, O) \o Selected(c, O)
    BY <1>2, <1>6, SelectedConcat
  <2>2. Selected(queue \o b, O) = Selected(queue, O) \o Selected(b, O)
    BY <1>2, SelectedConcat
  <2> QED
    BY <1>5, <2>1, <2>2
<1>9. Len(queue \o c) <= Len(queue \o b)
  <2>1. Len(queue \o c) = Len(queue) + Len(c) /\ Len(queue \o b) = Len(queue) + Len(b)
    BY <1>2, <1>6, ConcatProperties
  <2>2. Len(queue) \in Nat /\ Len(b) \in Nat /\ Len(c) \in Nat
    BY <1>2, <1>6, LenProperties
  <2> QED
    BY <1>5, <2>1, <2>2
<1>10. Q!Cancel
  <2>1. Q!Selected(Due', O) = Q!Selected(Due, O)
    BY <1>7, <1>8, SameSelected
  <2> QED
    BY <1>1, <1>7, <1>9, <2>1 DEF Q!Cancel, O, Others
<1> QED
  BY <1>10 DEF Q!Next

LEMMA DropRefines ==
  ASSUME IInv, Drop
  PROVE  [Q!Next]_(Q!vars)
<1> DEFINE b == Bodies(wire)
           O == Others(target)
<1>1. /\ queue' = Selected(queue, O) /\ out'.rc = "ok" /\ target \in Topics
      /\ UNCHANGED <<wire, broken>>
  BY DEF Drop, Dropped, Answer, history, socketVars, IInv, TypeOK, Others
<1>2. queue \in Seq(Message) /\ b \in Seq(Message)
  BY DueType
<1>3. Due = queue \o b /\ Due' = queue' \o b
  BY <1>1, DueIs
<1> HIDE DEF b, O
<1>4. queue' \in Seq(Message) /\ Len(queue') <= Len(queue)
  <2>1. queue' \in Seq(Message \cap O) /\ Message \cap O \subseteq Message
    BY <1>1, <1>2, SelectedType
  <2> QED
    BY <1>1, <1>2, <2>1, SeqMonotonic, SelectedShorter
<1>5. Selected(queue' \o b, O) = Selected(queue \o b, O)
  <2>1. Selected(Selected(queue, O), O) = Selected(queue, O)
    <3>1. O \cap O = O
      OBVIOUS
    <3> QED
      BY <1>2, <3>1, SelectedTwice
  <2>2. Selected(queue', O) = Selected(queue, O)
    BY <1>1, <2>1
  <2>3. Selected(queue' \o b, O) = Selected(queue', O) \o Selected(b, O)
    BY <1>2, <1>4, SelectedConcat
  <2>4. Selected(queue \o b, O) = Selected(queue, O) \o Selected(b, O)
    BY <1>2, SelectedConcat
  <2> QED
    BY <2>2, <2>3, <2>4
<1>6. Len(queue' \o b) <= Len(queue \o b)
  <2>1. Len(queue' \o b) = Len(queue') + Len(b) /\ Len(queue \o b) = Len(queue) + Len(b)
    BY <1>2, <1>4, ConcatProperties
  <2>2. Len(queue) \in Nat /\ Len(b) \in Nat /\ Len(queue') \in Nat
    BY <1>2, <1>4, LenProperties
  <2> QED
    BY <1>4, <2>1, <2>2
<1>7. Q!Cancel
  <2>1. Q!Selected(Due', O) = Q!Selected(Due, O)
    BY <1>3, <1>5, SameSelected
  <2> QED
    BY <1>1, <1>3, <1>6, <2>1 DEF Q!Cancel, O, Others
<1> QED
  BY <1>7 DEF Q!Next

LEMMA PopRefines ==
  ASSUME IInv, Pop
  PROVE  [Q!Next]_(Q!vars)
<1>1. UNCHANGED <<wire, broken>>
  BY DEF Pop, history, socketVars
<1>2. queue \in Seq(Message) /\ Bodies(wire) \in Seq(Message)
  BY DueType
<1>3. CASE /\ queue # <<>> /\ queue' = Tail(queue)
           /\ out' = [rc |-> "data", msg |-> Head(queue)]
  <2> DEFINE b == Bodies(wire)
  <2>1. queue \o b # <<>> /\ Head(queue \o b) = Head(queue) /\ Tail(queue \o b) = Tail(queue) \o b
    BY <1>2, <1>3, HeadAndTail
  <2>2. Due = queue \o b /\ Due' = Tail(queue) \o b
    BY <1>1, <1>3, DueIs
  <2>3. out'.rc = "data" /\ out'.msg = Head(queue)
    BY <1>3
  <2> HIDE DEF b
  <2>4. Due # <<>> /\ Head(Due) = Head(queue) /\ Due' = Tail(Due)
    BY <2>1, <2>2
  <2>5. Q!Take
    BY <1>1, <2>3, <2>4 DEF Q!Take
  <2> QED
    BY <2>5 DEF Q!Next
<1>4. CASE UNCHANGED queue /\ (out'.rc = "EAGAIN" \/ UNCHANGED out)
  <2>1. Due' = Due
    BY <1>1, <1>4, DueIs
  <2> QED
    BY <1>1, <1>4, <2>1, Stutters, Resumes
<1> QED
  BY <1>3, <1>4 DEF Pop, Answer

(* A frame that is accepted is taken over into the queue with its message, *)
(* or its message is still due; one that is refused may be the last of a   *)
(* message.                                                                *)
LEMMA RecvFrameRefines ==
  ASSUME IInv, RecvFrame
  PROVE  [Q!Next]_(Q!vars)
<1> DEFINE f == Head(wire)
           t == Tail(wire)
           b == Bodies(wire)
           c == Bodies(Tail(wire))
<1> USE MdsSubAssumption
<1>1. pc = "frames" /\ wire # <<>> /\ wire' = t /\ out.rc = "none"
  BY DEF RecvFrame, IInv, CallInv
<1>2. wire \in Seq(Frame) /\ queue \in Seq(Message) /\ b \in Seq(Message)
  BY DueType
<1>3. f \in Frame /\ f.of \in Message /\ t \in Seq(Frame) /\ c \in Seq(Message) /\ f = wire[1] /\ Len(wire) > 0
  <2>1. f \in Frame /\ t \in Seq(Frame) /\ f = wire[1]
    BY <1>1, <1>2, HeadTailProperties
  <2>2. Len(wire) > 0
    BY <1>1, <1>2, EmptySeq
  <2>3. c \in Seq(Message)
    BY <2>1, BodiesType
  <2> HIDE DEF c
  <2> QED
    BY <2>1, <2>2, <2>3, FrameType
<1>4. b = IF f \in LastFrames THEN <<f.of>> \o c ELSE c
  BY <1>1, <1>2, BodiesTail
<1>5. Due = queue \o b /\ Due' = queue' \o c
  BY <1>1, DueIs
<1>6. f.part < NrFrames(f.of)
  <2>1. 1 \in 1 .. Len(wire)
    BY <1>2, <1>3, LenProperties
  <2> QED
    BY <1>3, <2>1 DEF IInv, WireInv, InOrder
<1>7. f.part = 2 /\ f.of.n = head => f.of.fault # "head"
  <2>1. 1 \in 1 .. Len(wire)
    BY <1>2, <1>3, LenProperties
  <2> QED
    BY <1>3, <2>1 DEF IInv, HeadInv
<1>8. GoodBody(f) => f \in LastFrames
  <2>1. HAVE GoodBody(f)
  <2>2. f.part = 2 /\ f.of.fault \notin {"body", "head"} /\ ~(3 < NrFrames(f.of)) /\ 2 < NrFrames(f.of)
    BY <1>6, <1>7, <2>1 DEF GoodBody, More
  <2>3. f.of.fault \in {"topic", "short", "head", "nobody", "body", "extra", "none"}
    BY <1>3 DEF Message
  <2>4. f.of.fault \in {"none", "topic"}
    BY <2>2, <2>3 DEF NrFrames
  <2> QED
    BY <1>3, <2>2, <2>4 DEF LastFrames
<1>9. \/ GoodTopic(f) /\ UNCHANGED <<queue, out, broken>>
      \/ GoodHead(f) /\ UNCHANGED <<queue, out, broken>>
      \/ GoodBody(f) /\ queue' = Append(queue, f.of) /\ UNCHANGED <<out, broken>>
      \/ /\ broken' = TRUE /\ UNCHANGED queue
         /\ UNCHANGED out \/ out'.rc \in {"EPROTO", "ENOMEM"}
  BY DEF RecvFrame, Refuse, QueuedBody, Answer
<1> HIDE DEF f, t, b, c
(* Topic and head. *)
<1>10. CASE GoodTopic(f) /\ UNCHANGED <<queue, out, broken>>
  <2>1. f.part = 0
    BY <1>10 DEF GoodTopic
  <2>2. f \notin LastFrames
    BY <2>1 DEF LastFrames
  <2> QED
    BY <1>4, <1>5, <1>10, <2>2, Stutters
<1>11. CASE GoodHead(f) /\ UNCHANGED <<queue, out, broken>>
  <2>1. f.part = 1
    BY <1>11 DEF GoodHead
  <2>2. f \notin LastFrames
    BY <2>1 DEF LastFrames
  <2> QED
    BY <1>4, <1>5, <1>11, <2>2, Stutters
(* A body is queued. *)
<1>12. CASE GoodBody(f) /\ queue' = Append(queue, f.of) /\ UNCHANGED <<out, broken>>
  <2>1. queue \o b = Append(queue, f.of) \o c
    BY <1>2, <1>3, <1>4, <1>8, <1>12, AppendConcat, SMTT(40)
  <2> QED
    BY <1>5, <1>12, <2>1, Stutters
(* A frame is refused. *)
<1>13. CASE broken' = TRUE /\ UNCHANGED queue /\ (UNCHANGED out \/ out'.rc \in {"EPROTO", "ENOMEM"})
  <2>1. out'.rc # "data"
    BY <1>1, <1>13
  <2>2. Due' = Due \/ OneLess(Due', Due)
    <3>1. CASE f \in LastFrames
      <4>1. OneLess(queue \o c, queue \o (<<f.of>> \o c))
        BY <1>2, <1>3, LeaveOut
      <4>2. Due = queue \o (<<f.of>> \o c) /\ Due' = queue \o c
        BY <1>4, <1>5, <1>13, <3>1
      <4> QED
        BY <4>1, <4>2
    <3>2. CASE f \notin LastFrames
      BY <1>4, <1>5, <1>13, <3>2
    <3> QED
      BY <3>1, <3>2
  <2>3. Q!Break
    BY <1>13, <2>1, <2>2 DEF Q!Break, OneLess
  <2> QED
    BY <2>3 DEF Q!Next
<1> QED
  BY <1>10, <1>11, <1>12, <1>13, <1>9

LEMMA OthersRefine ==
  ASSUME IInv,
         \/ \E t \in Topics : Req(t)
         \/ RequestFails \/ \E t \in Timeouts : CallRecv(t)
         \/ Reopen \/ NoFrame \/ Poll
  PROVE  [Q!Next]_(Q!vars)
<1>1. CASE Reopen
  <2>1. queue' = <<>> /\ wire' = <<>> /\ out'.rc = "none" /\ broken' = FALSE
    BY <1>1 DEF Reopen, Answer
  <2>2. <<>> \in Seq(Message) /\ <<>> \o <<>> = <<>>
    BY EmptySeq, ConcatEmptySeq
  <2>3. Due' = <<>>
    BY <2>1, <2>2, DueIs, BodiesEmpty
  <2>4. Q!Reopen
    BY <2>1, <2>3 DEF Q!Reopen
  <2> QED
    BY <2>4 DEF Q!Next
<1>2. CASE ~Reopen
  <2>1. /\ UNCHANGED <<queue, wire, broken>>
        /\ UNCHANGED out \/ out'.rc \in {"ok", "none", "EZMQ", "ETIMEDOUT"}
    BY <1>2 DEF Req, RequestFails, CallRecv, NoFrame, Poll, Answer, subVars, socketVars, history
  <2>2. Due' = Due
    BY <2>1, DueIs
  <2> QED
    BY <2>1, <2>2, Stutters, Resumes
<1> QED
  BY <1>1, <1>2

(* The handle implements MsgQueue: whatever the publisher sends and        *)
(* whatever fails, messages reach the reader in the order in which they    *)
(* arrived, each once, and only cancelled ones are left out, until a frame *)
(* is refused.                                                             *)
THEOREM HandleImplementsQueue == Spec => ImplementsMsgQueue
<1>1. Init => Q!Init
  <2>1. HAVE Init
  <2>2. <<>> \in Seq(Message) /\ <<>> \o <<>> = <<>>
    BY EmptySeq, ConcatEmptySeq
  <2>3. Due = <<>>
    BY <2>1, <2>2, DueIs, BodiesEmpty DEF Init
  <2> QED
    BY <2>1, <2>3 DEF Init, Q!Init
<1>2. ASSUME IInv, [Next]_vars
      PROVE  [Q!Next]_(Q!vars)
  <2>1. CASE Next
    <3>1. ASSUME NEW t \in Topics
          PROVE  /\ \A fault \in Faults \cup {"none"} : Publish(t, fault) => [Q!Next]_(Q!vars)
                 /\ Req(t) => [Q!Next]_(Q!vars)
                 /\ CallCancel(t) => [Q!Next]_(Q!vars)
      BY <1>2, PublishRefines, CallCancelRefines, OthersRefine
    <3>2. Handle => [Q!Next]_(Q!vars)
      BY <1>2, RecvFrameRefines, DropRefines, PopRefines, OthersRefine DEF Handle
    <3> QED
      BY <1>2, <2>1, <3>1, <3>2, OthersRefine DEF Next
  <2>2. CASE UNCHANGED vars
    <3>1. UNCHANGED <<queue, wire, out, broken>>
      BY <2>2 DEF vars, socketVars, subVars, callVars, history
    <3>2. Due' = Due
      BY <3>1, DueIs
    <3> QED
      BY <3>1, <3>2, Stutters
  <2> QED
    BY <1>2, <2>1, <2>2
<1> QED
  BY Invariance, <1>1, <1>2, PTL DEF Spec, ImplementsMsgQueue, Q!Spec
=============================================================================
