------------------------- MODULE MdsFsubOrderProofs -------------------------
(***************************************************************************)
(* NoRepeat, NoGap and NoProtoError of MdsFsub: in which order a handle    *)
(* whose topics have no heartbeats hands out messages and reads files.     *)
(***************************************************************************)
EXTENDS MdsFsubProofs

(* No message is lost on its way. *)
Lossless == "drop" \notin Failures

(* The topics of which the properties speak.                               *)
Single(t) == miscounted = 0 /\ t \notin twice

-----------------------------------------------------------------------------
(* The invariant.                                                          *)

(* Such a topic is in one slot. *)
Alone ==
  \A t \in Topics \ twice : \A i, j \in 1 .. Len(vector) :
    vector[i].topic = t /\ vector[j].topic = t => i = j

(* When it is complete, what is in the queue was not yet handed out; while *)
(* it is completed, what the slot was completed to was handed out last.    *)
GotInv ==
  \A t \in Topics : Single(t) => \A i \in 1 .. Len(vector) :
    /\ vector[i].topic = t /\ vector[i].fseq = -1 => After(queue, t, got[t])
    /\ vector[i].topic = t /\ vector[i].fseq # -1 /\ vector[i].dseq > 0 =>
         got[t] = vector[i].dseq

(* Nothing is handed out that was not published. *)
PastInv == \A t \in Topics : got[t] <= published[t]

(* Message n of t is the last published, or the next one is in the queue. *)
Continues(t, n) ==
  n = published[t] \/ \E k \in 1 .. Len(queue) : queue[k] = [topic |-> t, seq |-> n + 1]

(* So it is for each message of the queue, the kept message and what was   *)
(* handed out last of a complete topic.                                    *)
NextInv ==
  /\ \A k \in 1 .. Len(queue) : Continues(queue[k].topic, queue[k].seq)
  /\ read_file > 0 => Continues(data.topic, data.seq)
  /\ \A t \in Topics : Single(t) => \A i \in 1 .. Len(vector) :
       vector[i].topic = t /\ vector[i].fseq = -1 => Continues(t, got[t])

OrderInv == Alone /\ GotInv /\ PastInv /\ (Lossless => NextInv)

IOrder == IInv /\ (Good => OrderInv)

(* What the properties say of a step. *)
HandsOut(t) ==
  miscounted = 0 /\ t \notin twice /\ out'.rc = "data" /\ out'.msg.topic = t /\ pc # "idle"

Later   == \A t \in Topics : HandsOut(t) => out'.msg.seq = 1 \/ out'.msg.seq > got[t]
NextOne == \A t \in Topics : HandsOut(t) => out'.msg.seq \in {1, got[t] + 1}

-----------------------------------------------------------------------------
(* Steps that hand out nothing.                                            *)

(* The slot keeps its topic and how far it is completed.                   *)
Kin(k) ==
  /\ k \in 1 .. Len(vector)
  /\ vector'[k].topic = vector[k].topic /\ vector'[k].dseq = vector[k].dseq
  /\ vector'[k].fseq = -1 <=> vector[k].fseq = -1

LEMMA AloneKept ==
  ASSUME Alone, twice \subseteq twice',
         \A k \in 1 .. Len(vector') : vector'[k].topic \in Topics =>
           k \in 1 .. Len(vector) /\ vector'[k].topic = vector[k].topic
  PROVE  Alone'
BY DEF Alone

(* Slots are kept, freed or new, and all else the invariant is about is    *)
(* kept.                                                                   *)
LEMMA SlotsKeepOrder ==
  ASSUME OrderInv, Alone', UNCHANGED <<published, queue, got, data>>,
         read_file' = read_file \/ read_file' = 0,
         miscounted' = 0 => miscounted = 0, twice \subseteq twice',
         \A k \in 1 .. Len(vector') : vector'[k].topic \in Topics =>
           Kin(k) \/ (vector'[k].fseq # -1 /\ vector'[k].dseq = 0)
  PROVE  OrderInv'
<1>1. /\ GotInv /\ PastInv /\ (Lossless => NextInv)
      /\ \A t : Single(t)' => Single(t)
  BY DEF OrderInv, Single
<1>2. ASSUME NEW t \in Topics, Single(t)', NEW k \in 1 .. Len(vector'), vector'[k].topic = t
      PROVE  /\ vector'[k].fseq = -1 => After(queue, t, got[t])
             /\ vector'[k].fseq # -1 /\ vector'[k].dseq > 0 => got[t] = vector'[k].dseq
             /\ Lossless /\ vector'[k].fseq = -1 => Continues(t, got[t])
  <2>1. CASE Kin(k)
    BY <1>1, <1>2, <2>1 DEF Kin, GotInv, NextInv
  <2>2. CASE vector'[k].fseq # -1 /\ vector'[k].dseq = 0
    BY <2>2
  <2> QED
    BY <1>2, <2>1, <2>2
<1>3. GotInv'
  BY <1>2 DEF GotInv, After
<1>4. PastInv'
  BY <1>1 DEF PastInv
<1>5. ASSUME Lossless
      PROVE  NextInv'
  <2>1. \A k \in 1 .. Len(queue') : Continues(queue'[k].topic, queue'[k].seq)
    BY <1>1, <1>5 DEF NextInv
  <2>2. read_file' > 0 => Continues(data'.topic, data'.seq)
    BY <1>1, <1>5 DEF NextInv
  <2>3. \A t \in Topics : Single(t)' => \A k \in 1 .. Len(vector') :
          vector'[k].topic = t /\ vector'[k].fseq = -1 => Continues(t, got'[t])
    BY <1>2, <1>5
  <2> QED
    BY <2>1, <2>2, <2>3 DEF NextInv, Continues
<1> QED
  BY <1>3, <1>4, <1>5 DEF OrderInv, Lossless

(* The slots, too, are kept. *)
LEMMA CallKeepsOrder ==
  ASSUME OrderInv, UNCHANGED <<published, queue, got, data, read_file, miscounted, twice>>,
         Len(vector') = Len(vector), \A k \in 1 .. Len(vector) : Kin(k)
  PROVE  OrderInv'
<1>1. Alone /\ \A k \in 1 .. Len(vector') : Kin(k)
  BY DEF OrderInv
<1>2. Alone'
  BY <1>1, AloneKept DEF Kin
<1> QED
  BY <1>1, <1>2, SlotsKeepOrder

(* What is to be proved of a step. *)
StepRight == (Good' => OrderInv') /\ Later /\ (Lossless => NextOne)

LEMMA HandsOutNothing ==
  ASSUME pc = "idle" \/ out'.rc # "data"
  PROVE  Later /\ NextOne
BY DEF Later, NextOne, HandsOut

LEMMA InitOrder ==
  Init => IOrder
<1> SUFFICES ASSUME Init
             PROVE  IOrder
  OBVIOUS
<1>1. 1 .. Len(vector) = {} /\ 1 .. Len(queue) = {} /\ read_file = 0
  BY EmptySeq DEF Init
<1>2. Alone /\ GotInv /\ NextInv
  BY <1>1 DEF Alone, GotInv, NextInv
<1>3. PastInv
  BY DEF Init, PastInv
<1> QED
  BY <1>2, <1>3, InitIInv DEF IOrder, OrderInv

(* The recorder, and steps that change nothing. *)
LEMMA OthersRight ==
  ASSUME IOrder,
         UNCHANGED <<published, subs, queue, vectorVars, read_file, data, fds, callVars, history>>
  PROVE  StepRight
<1>1. Good' = Good /\ (Good => OrderInv)
  BY DEF Good, vectorVars, IOrder
<1>2. ASSUME Good
      PROVE  OrderInv'
  <2>1. Len(vector') = Len(vector) /\ \A k \in 1 .. Len(vector) : Kin(k)
    BY DEF vectorVars, Kin
  <2> QED
    BY <1>1, <1>2, <2>1, CallKeepsOrder DEF history
<1>3. pc = "idle" \/ out'.rc # "data"
  BY DEF IOrder, IInv, CallInv, callVars
<1> QED
  BY <1>1, <1>2, <1>3, HandsOutNothing DEF StepRight

(* A call begins, waits, opens a file or ends without a message.           *)
LEMMA CallRecvRight ==
  ASSUME IOrder, NEW t \in Timeouts, CallRecv(t)
  PROVE  StepRight
<1>1. Good /\ OrderInv /\ pc = "idle"
  BY DEF CallRecv, MayCall, Good, IOrder
<1>2. Len(vector') = Len(vector) /\ \A k \in 1 .. Len(vector) : Kin(k)
  BY DEF CallRecv, vectorVars, Kin
<1>3. UNCHANGED <<published, queue, got, data, read_file, miscounted, twice>>
  BY DEF CallRecv, recorderVars, history
<1> QED
  BY <1>1, <1>2, <1>3, CallKeepsOrder, HandsOutNothing DEF StepRight

LEMMA RecvFailsRight ==
  ASSUME IOrder, RecvFails
  PROVE  StepRight
<1>1. Good /\ OrderInv /\ out'.rc # "data"
  BY DEF RecvFails, Answer, IOrder, IInv, CallInv
<1>2. Len(vector') = Len(vector) /\ \A k \in 1 .. Len(vector) : Kin(k)
  BY DEF RecvFails, vectorVars, Kin
<1>3. UNCHANGED <<published, queue, got, data, read_file, miscounted, twice>>
  BY DEF RecvFails, recorderVars, history
<1> QED
  BY <1>1, <1>2, <1>3, CallKeepsOrder, HandsOutNothing DEF StepRight

(* The slot that is being completed gets or loses its file, or goes to the *)
(* next one.                                                               *)
LEMMA SlotMoves ==
  ASSUME IInv, pc # "idle", read_file > 0, NEW s,
         s.topic = vector[read_file].topic, s.dseq = vector[read_file].dseq, s.fseq # -1,
         vector' = [vector EXCEPT ![read_file] = s]
  PROVE  Len(vector') = Len(vector) /\ \A k \in 1 .. Len(vector) : Kin(k)
<1>1. /\ read_file \in 1 .. Len(vector) /\ vector[read_file].fseq # -1
      /\ vector \in Seq(Slot)
  BY KeptSlot, InCall DEF Unfinished
<1>2. /\ Len(vector') = Len(vector) /\ vector'[read_file] = s
      /\ \A k \in 1 .. Len(vector) : k # read_file => vector'[k] = vector[k]
  BY <1>1, LenProperties
<1> QED
  BY <1>1, <1>2 DEF Kin

LEMMA OpenedRight ==
  ASSUME IOrder, pc \in {"open", "opentmp"}, NEW no, NEW closed, NEW n \in Nat,
         \/ Opened(read_file, no, closed, n)
         \/ UNCHANGED vector /\ out'.rc # "data",
         UNCHANGED <<published, queue, got, data, read_file, miscounted, twice>>
  PROVE  StepRight
<1>1. IInv /\ pc # "idle" /\ Good /\ HandleInv /\ OrderInv /\ out.rc = "none"
  BY InCall DEF IOrder
<1>2. read_file > 0
  BY <1>1 DEF HandleInv, StepInv
<1>3. /\ Len(vector') = Len(vector) /\ \A k \in 1 .. Len(vector) : Kin(k)
      /\ out'.rc # "data"
  <2>1. CASE Opened(read_file, no, closed, n)
    <3> DEFINE f == [no |-> no, at |-> Base(vector[read_file].topic, no), closed |-> closed]
               s == [vector[read_file] EXCEPT !.file = f, !.fseq = n]
    <3>1. /\ vector' = [vector EXCEPT ![read_file] = s]
          /\ out' = out
      BY <2>1 DEF Opened
    <3>2. vector[read_file] \in Slot
      BY <1>1, <1>2, KeptSlot
    <3>3. s.topic = vector[read_file].topic /\ s.dseq = vector[read_file].dseq /\ s.fseq = n
      <4> HIDE DEF f
      <4> QED
        BY <3>2 DEF Slot
    <3> HIDE DEF s
    <3>4. Len(vector') = Len(vector) /\ \A k \in 1 .. Len(vector) : Kin(k)
      <4>1. s.fseq # -1
        BY <3>3
      <4> QED
        BY <1>1, <1>2, <3>1, <3>3, <4>1, SlotMoves
    <3> QED
      BY <1>1, <3>1, <3>4
  <2>2. CASE UNCHANGED vector /\ out'.rc # "data"
    BY <2>2 DEF Kin
  <2> QED
    BY <2>1, <2>2
<1> QED
  BY <1>1, <1>3, CallKeepsOrder, HandsOutNothing DEF StepRight

LEMMA OpenSeqFileRight ==
  ASSUME IOrder, OpenSeqFile
  PROVE  StepRight
<1> DEFINE s == vector[read_file]
<1>1. /\ pc = "open" /\ IInv
      /\ UNCHANGED <<published, queue, got, data, read_file, miscounted, twice>>
  BY DEF OpenSeqFile, recorderVars, history, IOrder
<1>2. out.rc = "none" /\ read_file > 0
  BY <1>1, InCall DEF HandleInv, StepInv
<1>3. NextFile(s.fseq) \in Nat
  BY <1>1, <1>2, KeptSlot DEF NextFile
<1>4. \/ Opened(read_file, s.fseq, TRUE, NextFile(s.fseq))
      \/ UNCHANGED vector /\ (Answer("EINVAL") \/ UNCHANGED out)
  BY DEF OpenSeqFile
<1>5. ASSUME Answer("EINVAL") \/ UNCHANGED out
      PROVE  out'.rc # "data"
  BY <1>2, <1>5 DEF Answer
<1> QED
  BY <1>1, <1>3, <1>4, <1>5, OpenedRight

LEMMA OpenTmpFileRight ==
  ASSUME IOrder, OpenTmpFile
  PROVE  StepRight
<1> DEFINE s == vector[read_file]
<1>1. /\ pc = "opentmp" /\ IInv
      /\ UNCHANGED <<published, queue, got, data, read_file, miscounted, twice>>
  BY DEF OpenTmpFile, recorderVars, history, IOrder
<1>2. out.rc = "none" /\ read_file > 0
  BY <1>1, InCall DEF HandleInv, StepInv
<1>3. s.fseq \in Nat
  BY <1>1, <1>2, KeptSlot
<1>4. \/ Opened(read_file, Len(cuts[s.topic]), FALSE, s.fseq)
      \/ UNCHANGED vector /\ Answer("EPROTO")
      \/ UNCHANGED vector /\ (Wait(left, "open") \/ Answer("ETIMEDOUT"))
  BY DEF OpenTmpFile
<1>5. ASSUME Answer("EPROTO") \/ Wait(left, "open") \/ Answer("ETIMEDOUT")
      PROVE  out'.rc # "data"
  BY <1>2, <1>5 DEF Answer, Wait
<1> QED
  BY <1>1, <1>3, <1>4, <1>5, OpenedRight

-----------------------------------------------------------------------------
(* Publishing, subscribing, cancelling.                                    *)

LEMMA ReopenRight ==
  ASSUME IOrder, Reopen
  PROVE  StepRight
<1>1. 1 .. Len(vector') = {} /\ 1 .. Len(queue') = {} /\ read_file' = 0
  BY EmptySeq DEF Reopen
<1>2. Alone' /\ GotInv' /\ NextInv'
  BY <1>1 DEF Alone, GotInv, NextInv
<1>3. PastInv'
  BY DEF IOrder, IInv, TypeOK, Reopen, recorderVars, PastInv
<1> QED
  BY <1>2, <1>3, HandsOutNothing DEF StepRight, OrderInv, Reopen

(* A message is the last of its topic in the queue, or is lost.            *)
LEMMA PublishRight ==
  ASSUME IOrder, NEW t \in Topics, Publish(t)
  PROVE  StepRight
<1> DEFINE m == [topic |-> t, seq |-> published[t] + 1]
<1>1. /\ UNCHANGED <<subs, vectorVars, read_file, data, callVars, got, miscounted, twice>>
      /\ IInv /\ TypeOK
  <2>1. UNCHANGED <<subs, vectorVars, read_file, data, callVars, got, miscounted, twice>>
    BY DEF Publish
  <2> QED
    BY <2>1 DEF IOrder, IInv
<1>2. Good' = Good /\ (Good => OrderInv /\ HandleInv)
      /\ (pc = "idle" \/ out'.rc # "data")
  BY <1>1 DEF Good, vectorVars, IOrder, IInv, CallInv, callVars
<1>3. /\ published' = [published EXCEPT ![t] = @ + 1]
      /\ \/ queue' = Append(queue, m)
         \/ (subs[t] = 0 \/ ~Lossless) /\ queue' = queue
  BY DEF Publish, Lossless
<1>4. /\ \A u \in Topics : published[u] \in Nat /\ got[u] \in Nat
      /\ \A u \in Topics : published'[u] = IF u = t THEN published[u] + 1 ELSE published[u]
      /\ queue \in Seq(Msg) /\ m \in Msg /\ vector \in Seq(Slot)
      /\ m.topic = t /\ m.seq = published[t] + 1
  <2>1. /\ published \in [Topics -> Nat] /\ got \in [Topics -> Nat]
        /\ queue \in Seq(Msg) /\ vector \in Seq(Slot)
    BY <1>1 DEF TypeOK
  <2>2. m \in Msg
    BY <2>1 DEF Msg
  <2> QED
    BY <1>3, <2>1, <2>2
<1> HIDE DEF m
<1>5. /\ \A k \in 1 .. Len(queue) : k \in 1 .. Len(queue') /\ queue'[k] = queue[k]
      /\ \A k \in 1 .. Len(queue') :
           \/ k \in 1 .. Len(queue) /\ queue'[k] = queue[k]
           \/ queue'[k] = m
      /\ \A k \in 1 .. Len(queue) : queue[k] \in Msg
  <2>1. CASE queue' = Append(queue, m)
    BY <1>4, <2>1, AppendProperties, LenProperties, ElementOfSeq
  <2>2. CASE queue' = queue
    BY <1>4, <2>2, ElementOfSeq
  <2> QED
    BY <1>3, <2>1, <2>2
<1>6. ASSUME Good
      PROVE  OrderInv'
  <2>1. Alone /\ GotInv /\ PastInv /\ (Lossless => NextInv)
        /\ SlotInv /\ QueueInv /\ KeptInv
    BY <1>2, <1>6 DEF OrderInv, HandleInv
  <2>2. Alone' /\ UNCHANGED vector /\ \A u : Single(u)' = Single(u)
    BY <1>1, <2>1 DEF Alone, vectorVars, Single
  <2>3. PastInv'
    BY <1>1, <1>4, <2>1 DEF PastInv
  <2>4. ASSUME NEW u \in Topics, After(queue, u, got[u])
        PROVE  After(queue', u, got[u])
    <3>1. ASSUME NEW k \in 1 .. Len(queue'), queue'[k].topic = u
          PROVE  queue'[k].seq > got[u]
      <4>1. CASE k \in 1 .. Len(queue) /\ queue'[k] = queue[k]
        BY <2>4, <3>1, <4>1 DEF After
      <4>2. CASE queue'[k] = m
        BY <1>4, <2>1, <3>1, <4>2 DEF PastInv
      <4> QED
        BY <1>5, <4>1, <4>2
    <3> QED
      BY <3>1 DEF After
  <2>5. GotInv'
    <3>1. \A u \in Topics : Single(u) => \A i \in 1 .. Len(vector) :
            /\ vector[i].topic = u /\ vector[i].fseq = -1 => After(queue', u, got[u])
            /\ vector[i].topic = u /\ vector[i].fseq # -1 /\ vector[i].dseq > 0 =>
                 got[u] = vector[i].dseq
      BY <2>1, <2>4 DEF GotInv
    <3> QED
      BY <1>1, <2>2, <3>1 DEF GotInv, After
  <2>6. ASSUME Lossless
        PROVE  NextInv'
    <3>1. NextInv
      BY <2>1, <2>6
    <3>2. ASSUME NEW u \in Topics, NEW n \in Nat, Continues(u, n), u = t => subs[t] > 0
          PROVE  n = published'[u]
                 \/ \E k \in 1 .. Len(queue') : queue'[k] = [topic |-> u, seq |-> n + 1]
      <4>1. CASE n = published[u] /\ u = t
        <5>1. queue' = Append(queue, m)
          BY <1>3, <2>6, <3>2, <4>1
        <5>2. Len(queue) + 1 \in 1 .. Len(queue') /\ queue'[Len(queue) + 1] = m
          BY <1>4, <5>1, AppendProperties, LenProperties
        <5> QED
          BY <4>1, <5>2 DEF m
      <4>2. CASE n = published[u] /\ u # t
        BY <1>4, <4>2
      <4>3. CASE \E k \in 1 .. Len(queue) : queue[k] = [topic |-> u, seq |-> n + 1]
        BY <1>5, <4>3
      <4> QED
        BY <3>2, <4>1, <4>2, <4>3 DEF Continues
    <3>3. \A k \in 1 .. Len(queue') :
            \/ queue'[k].seq = published'[queue'[k].topic]
            \/ \E j \in 1 .. Len(queue') :
                 queue'[j] = [topic |-> queue'[k].topic, seq |-> queue'[k].seq + 1]
      <4> TAKE k \in 1 .. Len(queue')
      <4>1. CASE k \in 1 .. Len(queue) /\ queue'[k] = queue[k]
        <5>1. Continues(queue[k].topic, queue[k].seq) /\ subs[queue[k].topic] > 0
          BY <2>1, <3>1, <4>1 DEF NextInv, QueueInv
        <5>2. queue[k].topic \in Topics /\ queue[k].seq \in Nat
          BY <1>5, <4>1 DEF Msg
        <5> QED
          BY <3>2, <4>1, <5>1, <5>2
      <4>2. CASE queue'[k] = m
        BY <1>4, <4>2
      <4> QED
        BY <1>5, <4>1, <4>2
    <3>4. \A i \in 1 .. Len(vector) : vector[i].topic = t => subs[t] > 0
      <4>1. subs[t] = Count(vector, Of(t)) /\ \A i \in 1 .. Len(vector) : vector[i] \in Slot
        BY <1>4, <2>1, ElementOfSeq DEF SlotInv
      <4>2. subs[t] > 0 <=> \E i \in 1 .. Len(vector) : vector[i] \in Of(t)
        BY <1>4, <4>1, CountSome
      <4> QED
        BY <4>1, <4>2 DEF Of
    <3>5. read_file > 0 =>
            \/ data.seq = published'[data.topic]
            \/ \E j \in 1 .. Len(queue') :
                 queue'[j] = [topic |-> data.topic, seq |-> data.seq + 1]
      <4> HAVE read_file > 0
      <4>1. /\ read_file \in 1 .. Len(vector) /\ vector[read_file] \in Unfinished
            /\ data.topic = vector[read_file].topic
        BY <2>1 DEF KeptInv
      <4>2. data \in Msg
        <5>1. vector[read_file].topic # NoTopic
          BY <4>1 DEF Unfinished
        <5>2. data \in Msg \/ data = NoMsg
          BY <1>1 DEF TypeOK
        <5> QED
          BY <4>1, <5>1, <5>2 DEF NoMsg
      <4>3. data.topic \in Topics /\ data.seq \in Nat /\ Continues(data.topic, data.seq)
        BY <3>1, <4>2 DEF Msg, NextInv
      <4> QED
        BY <3>2, <3>4, <4>1, <4>3
    <3>6. \A u \in Topics : Single(u) => \A i \in 1 .. Len(vector) :
            vector[i].topic = u /\ vector[i].fseq = -1 =>
              \/ got[u] = published'[u]
              \/ \E j \in 1 .. Len(queue') : queue'[j] = [topic |-> u, seq |-> got[u] + 1]
      BY <1>4, <3>1, <3>2, <3>4 DEF NextInv
    <3> QED
      BY <1>1, <2>2, <3>3, <3>5, <3>6 DEF NextInv, Continues
  <2> QED
    BY <2>2, <2>3, <2>5, <2>6 DEF OrderInv, Lossless
<1> QED
  BY <1>2, <1>6, HandsOutNothing DEF StepRight

(* subinfo_remove: one slot of t is freed, the others stay where they are  *)
(* unless the vector becomes too short.                                    *)
LEMMA OneSlotFreed ==
  ASSUME NEW v \in Seq(Slot), NEW size \in Nat, Len(v) = size, NEW n, NEW t \in Topics,
         \E i \in 1 .. Len(v) : v[i].topic = t, RemoveFrom(v, size, n, t), Good',
         miscounted \in Nat
  PROVE  /\ \E i \in 1 .. Len(v) :
              /\ v[i].topic = t /\ vector'[i] = NoSlot
              /\ \A k \in 1 .. Len(v) : k # i => vector'[k] = v[k]
         /\ Len(vector') = Len(v)
         /\ miscounted' = 0 => miscounted = 0
         /\ read_file' = 0 \/ (read_file' = read_file /\ (read_file > 0 => data.topic # t))
<1> DEFINE i == FirstSlot(v, t)
<1>1. /\ i \in 1 .. Len(v) /\ v[i].topic = t
      /\ vec_size' = size /\ vector' \in Seq(Slot) /\ Len(vector') <= size
      /\ Len(vector') = size => vector' = Freed(v, t)
  BY RemovedFrom
<1>2. Len(vector') = size /\ vector' = Freed(v, t)
  BY <1>1, LenProperties DEF Good
<1>3. vector'[i] = NoSlot /\ \A k \in 1 .. Len(v) : k # i => vector'[k] = v[k]
  BY <1>1, <1>2, BlankSlot, ExceptSeq DEF Freed
<1> HIDE DEF i
<1>4. miscounted' = 0 => miscounted = 0
  BY DEF RemoveFrom
<1>5. read_file' = 0 \/ (read_file' = read_file /\ (read_file > 0 => data.topic # t))
  BY DEF RemoveFrom, ReadFileAfter
<1> QED
  BY <1>1, <1>2, <1>3, <1>4, <1>5

LEMMA ReqRight ==
  ASSUME IOrder, NEW t \in Topics, Req(t)
  PROVE  StepRight
<1>1. /\ IInv /\ TypeOK /\ pc = "idle" /\ Good /\ HandleInv /\ OrderInv /\ Alone
  BY DEF IOrder, IInv, Req, MayCall, Good, OrderInv
<1>2. UNCHANGED <<published, queue, got, data>>
  BY DEF Req, recorderVars
<1>3. /\ vector \in Seq(Slot) /\ vec_size \in Nat /\ Len(vector) = vec_size /\ miscounted \in Nat
      /\ \A i \in 1 .. Len(vector) : vector[i].topic = NoTopic => vector[i] = NoSlot
  BY <1>1, LenProperties DEF TypeOK, IInv, CallInv, Good, HandleInv, SlotInv
<1>4. /\ NewSize \in Nat /\ NewSize >= vec_size
      /\ Expanded \in Seq(Slot) /\ Len(Expanded) = NewSize
      /\ \A i \in 1 .. vec_size : Expanded[i] = vector[i]
      /\ \A i \in 1 .. NewSize : i > vec_size => Expanded[i] = NoSlot
  BY <1>3, Expansion
<1>5. /\ NewSlot(t).topic = t /\ NewSlot(t).fseq = 0 /\ NewSlot(t).dseq = 0
      /\ Added(t) \in Seq(Slot) /\ Len(Added(t)) = NewSize
      /\ Place \in 1 .. NewSize /\ Added(t)[Place] = NewSlot(t)
      /\ \A i \in 1 .. NewSize : i # Place =>
           Added(t)[i] = IF i <= vec_size THEN vector[i] ELSE NoSlot
      /\ Place <= vec_size => vector[Place] = NoSlot
  BY <1>3, Addition
<1>6. /\ NoSlot.topic = NoTopic /\ NoTopic \notin Topics
  BY BlankSlot
<1>7. \A k \in 1 .. NewSize : k <= vec_size => k \in 1 .. Len(vector)
  BY <1>3, <1>4
<1>8. \A i \in 1 .. Len(vector) : vector[i].topic = t /\ t \notin twice => SeenTwice(t) = twice \cup {t}
  <2>1. SlotsOf(t) = Where(vector, Of(t)) /\ \A i \in 1 .. Len(vector) : vector[i] \in Slot
    BY <1>3, SetsOfSlots, ElementOfSeq DEF SlotsOf, Used
  <2> QED
    BY <2>1 DEF SeenTwice, Where, Of
<1>9. SeenTwice(t) \in {twice, twice \cup {t}}
  BY DEF SeenTwice
<1>10. CASE /\ Answer("ENOMEM")
            /\ UNCHANGED <<subs, vectorVars, read_file, fds, miscounted, twice>>
  <2>1. Len(vector') = Len(vector) /\ \A k \in 1 .. Len(vector) : Kin(k)
    BY <1>10 DEF vectorVars, Kin
  <2> QED
    BY <1>1, <1>2, <1>10, <2>1, CallKeepsOrder, HandsOutNothing DEF StepRight
<1>11. CASE /\ Answer("EEXIST")
            /\ vector' = Expanded /\ vec_size' = NewSize
            /\ UNCHANGED <<subs, nr_incompleted, read_file, fds, miscounted, twice>>
  <2>1. \A k \in 1 .. Len(vector') : vector'[k].topic \in Topics =>
          k \in 1 .. Len(vector) /\ vector'[k] = vector[k]
    BY <1>3, <1>4, <1>6, <1>11
  <2>2. Alone'
    BY <1>1, <1>11, <2>1, AloneKept
  <2>3. OrderInv'
    BY <1>1, <1>2, <1>11, <2>1, <2>2, SlotsKeepOrder DEF Kin
  <2> QED
    BY <1>1, <2>3, HandsOutNothing DEF StepRight
<1>12. CASE /\ vector' = Added(t) /\ twice' = SeenTwice(t)
            /\ UNCHANGED <<read_file, miscounted>>
  <2>1. \A k \in 1 .. Len(vector') : vector'[k].topic \in Topics =>
          IF k = Place THEN vector'[k] = NewSlot(t)
          ELSE k \in 1 .. Len(vector) /\ vector'[k] = vector[k]
    BY <1>4, <1>5, <1>6, <1>7, <1>12
  <2>2. Alone'
    <3> SUFFICES ASSUME NEW u \in Topics \ twice',
                        NEW i \in 1 .. Len(vector'), NEW j \in 1 .. Len(vector'),
                        vector'[i].topic = u, vector'[j].topic = u
                 PROVE  i = j
      BY DEF Alone
    <3>1. u \notin twice
      BY <1>9, <1>12
    <3>2. CASE u = t
      <4>1. \A k \in 1 .. Len(vector) : vector[k].topic # t
        BY <1>8, <1>12, <3>1, <3>2
      <4> QED
        BY <2>1, <3>2, <4>1
    <3>3. CASE u # t
      <4>1. \A k \in 1 .. Len(vector') : vector'[k].topic = u =>
              k \in 1 .. Len(vector) /\ vector[k].topic = u
        BY <1>5, <2>1, <3>3
      <4> QED
        BY <1>1, <3>1, <4>1 DEF Alone
    <3> QED
      BY <3>2, <3>3
  <2>3. \A k \in 1 .. Len(vector') : vector'[k].topic \in Topics =>
          Kin(k) \/ (vector'[k].fseq # -1 /\ vector'[k].dseq = 0)
    BY <1>5, <2>1 DEF Kin
  <2>4. twice \subseteq twice'
    BY <1>9, <1>12
  <2>5. OrderInv'
    BY <1>1, <1>2, <1>12, <2>2, <2>3, <2>4, SlotsKeepOrder
  <2> QED
    BY <1>1, <2>5, HandsOutNothing DEF StepRight
<1>13. CASE /\ RemoveFrom(Added(t), NewSize, nr_incompleted + 1, t)
            /\ twice' = SeenTwice(t)
  <2> SUFFICES ASSUME Good'
               PROVE  OrderInv'
    BY <1>1, HandsOutNothing DEF StepRight
  <2> DEFINE v == Added(t)
  <2>1. \E i \in 1 .. Len(v) : v[i].topic = t
    BY <1>5
  <2>2. /\ \E i \in 1 .. Len(v) :
             /\ v[i].topic = t /\ vector'[i] = NoSlot
             /\ \A k \in 1 .. Len(v) : k # i => vector'[k] = v[k]
        /\ Len(vector') = Len(v)
        /\ miscounted' = 0 => miscounted = 0
        /\ read_file' = 0 \/ read_file' = read_file
    <3> HIDE DEF v
    <3>1. v \in Seq(Slot) /\ Len(v) = NewSize
      BY <1>5 DEF v
    <3>2. RemoveFrom(v, NewSize, nr_incompleted + 1, t)
      BY <1>13 DEF v
    <3> QED
      BY <1>3, <1>4, <2>1, <3>1, <3>2, OneSlotFreed
  <2>3. PICK i \in 1 .. NewSize :
          /\ v[i].topic = t /\ vector'[i] = NoSlot
          /\ \A k \in 1 .. NewSize : k # i => vector'[k] = v[k]
    BY <1>5, <2>2
  <2>4. Len(vector') = NewSize
    BY <1>5, <2>2
  <2>5. \A k \in 1 .. NewSize : vector'[k].topic \in Topics =>
          IF k = Place THEN vector'[k] = NewSlot(t)
          ELSE k \in 1 .. Len(vector) /\ vector'[k] = vector[k]
    <3> TAKE k \in 1 .. NewSize
    <3> HAVE vector'[k].topic \in Topics
    <3>1. vector'[k] = v[k]
      BY <1>6, <2>3
    <3> QED
      BY <1>5, <1>6, <1>7, <3>1
  <2> HIDE DEF v
  <2>6. Alone'
    <3> SUFFICES ASSUME NEW u \in Topics \ twice',
                        NEW j \in 1 .. NewSize, NEW k \in 1 .. NewSize,
                        vector'[j].topic = u, vector'[k].topic = u
                 PROVE  j = k
      BY <2>4 DEF Alone
    <3>1. u \notin twice
      BY <1>9, <1>13
    <3>2. CASE u = t
      <4>1. \A n \in 1 .. Len(vector) : vector[n].topic # t
        BY <1>8, <1>13, <3>1, <3>2
      <4> QED
        BY <2>5, <3>2, <4>1
    <3>3. CASE u # t
      BY <1>1, <1>5, <2>5, <3>1, <3>3 DEF Alone
    <3> QED
      BY <3>2, <3>3
  <2>7. \A k \in 1 .. Len(vector') : vector'[k].topic \in Topics =>
          Kin(k) \/ (vector'[k].fseq # -1 /\ vector'[k].dseq = 0)
    BY <1>5, <2>4, <2>5 DEF Kin
  <2>8. twice \subseteq twice'
    BY <1>9, <1>13
  <2> QED
    BY <1>1, <1>2, <2>2, <2>6, <2>7, <2>8, SlotsKeepOrder
<1>14. Added(t) = [Expanded EXCEPT ![FirstSlot(Expanded, NoTopic)] = [NoSlot EXCEPT !.topic = t]]
  BY DEF Added, NewSlot
<1> QED
  BY <1>10, <1>11, <1>12, <1>13, <1>14 DEF Req

(* The messages and, unless it has two, the slot of t are gone, those of   *)
(* other topics are kept.                                                  *)
LEMMA CancelRight ==
  ASSUME IOrder, NEW t \in Topics, Cancel(t)
  PROVE  StepRight
<1> SUFFICES ASSUME Good'
             PROVE  OrderInv'
  BY HandsOutNothing DEF StepRight, Cancel, MayCall
<1>1. /\ IInv /\ TypeOK /\ Good /\ HandleInv /\ OrderInv
      /\ Alone /\ GotInv /\ PastInv /\ (Lossless => NextInv) /\ KeptInv
  BY DEF IOrder, IInv, Cancel, MayCall, Good, OrderInv, HandleInv
<1>2. UNCHANGED <<published, data, twice>>
  BY DEF Cancel, recorderVars, history
<1>3. /\ vector \in Seq(Slot) /\ vec_size \in Nat /\ Len(vector) = vec_size /\ miscounted \in Nat
      /\ queue \in Seq(Msg) /\ read_file \in Nat
      /\ \A u \in Topics : published[u] \in Nat
      /\ NoSlot.topic = NoTopic /\ NoTopic \notin Topics
  BY <1>1, LenProperties, BlankSlot DEF TypeOK, IInv, CallInv, Good
<1>4. CASE Answer("EZMQ") /\ UNCHANGED <<subs, queue, vectorVars, read_file, fds, history>>
  <2>1. Len(vector') = Len(vector) /\ \A k \in 1 .. Len(vector) : Kin(k)
    BY <1>4 DEF vectorVars, Kin
  <2> QED
    BY <1>1, <1>2, <1>4, <2>1, CallKeepsOrder DEF history
<1>5. CASE /\ queue' = Drained(t)
           /\ IF SlotsOf(t) = {}
              THEN UNCHANGED <<vectorVars, read_file, history>>
              ELSE /\ RemoveFrom(vector, vec_size, nr_incompleted, t)
                   /\ got' = [got EXCEPT ![t] = IF subs[t] = 1 THEN 0 ELSE @]
  <2>1. SlotsOf(t) = Where(vector, Of(t)) /\ \A i \in 1 .. Len(vector) : vector[i] \in Slot
    BY <1>3, SetsOfSlots, ElementOfSeq DEF SlotsOf, Used
  <2>2. /\ Len(vector') = Len(vector)
        /\ miscounted' = 0 => miscounted = 0
        /\ read_file' = 0 \/ (read_file' = read_file /\ (read_file > 0 => data.topic # t))
        /\ \A u \in Topics : u # t => got'[u] = got[u]
        /\ got'[t] \in {0, got[t]}
        /\ \A k \in 1 .. Len(vector) : vector'[k].topic \in Topics => vector'[k] = vector[k]
        /\ t \notin twice => \A k \in 1 .. Len(vector) : vector'[k].topic # t
    <3>1. CASE SlotsOf(t) = {}
      <4>1. UNCHANGED <<vector, read_file, miscounted, got>>
        BY <1>5, <3>1 DEF vectorVars, history
      <4>2. \A k \in 1 .. Len(vector) : vector[k].topic # t
        BY <2>1, <3>1 DEF Where, Of
      <4>3. read_file > 0 => data.topic # t
        BY <1>1, <4>2 DEF KeptInv
      <4> QED
        BY <4>1, <4>2, <4>3
    <3>2. CASE SlotsOf(t) # {}
      <4>1. /\ RemoveFrom(vector, vec_size, nr_incompleted, t)
            /\ got' = [got EXCEPT ![t] = IF subs[t] = 1 THEN 0 ELSE @]
            /\ \E i \in 1 .. Len(vector) : vector[i].topic = t
        <5>1. \E i \in 1 .. Len(vector) : vector[i].topic = t
          BY <2>1, <3>2 DEF Where, Of
        <5> QED
          BY <1>5, <3>2, <5>1, Zenon
      <4>2. PICK i \in 1 .. Len(vector) :
              /\ vector[i].topic = t /\ vector'[i] = NoSlot
              /\ \A k \in 1 .. Len(vector) : k # i => vector'[k] = vector[k]
        BY <1>3, <4>1, OneSlotFreed, ZenonT(60)
      <4>3. /\ Len(vector') = Len(vector)
            /\ miscounted' = 0 => miscounted = 0
            /\ read_file' = 0 \/ (read_file' = read_file /\ (read_file > 0 => data.topic # t))
        BY <1>3, <4>1, OneSlotFreed
      <4>4. \A k \in 1 .. Len(vector) : vector'[k].topic \in Topics => vector'[k] = vector[k]
        BY <1>3, <4>2
      <4>5. ASSUME t \notin twice, NEW k \in 1 .. Len(vector)
            PROVE  vector'[k].topic # t
        <5>1. CASE k = i
          BY <1>3, <4>2, <5>1
        <5>2. CASE k # i
          BY <1>1, <4>2, <4>5, <5>2 DEF Alone
        <5> QED
          BY <5>1, <5>2
      <4>6. got'[t] \in {0, got[t]} /\ \A u \in Topics : u # t => got'[u] = got[u]
        BY <1>1, <4>1 DEF TypeOK
      <4> QED
        BY <4>3, <4>4, <4>5, <4>6
    <3> QED
      BY <3>1, <3>2
  <2>3. Alone'
    BY <1>1, <1>2, <2>2, AloneKept
  <2>4. PastInv'
    <3>1. \A u \in Topics : got'[u] <= published[u]
      BY <1>1, <1>3, <2>2 DEF PastInv
    <3> QED
      BY <1>2, <3>1 DEF PastInv
  <2>5. /\ \A k \in 1 .. Len(queue') :
             queue'[k].topic # t /\ \E i \in 1 .. Len(queue) : queue[i] = queue'[k]
        /\ \A i \in 1 .. Len(queue) : queue[i].topic # t =>
             \E k \in 1 .. Len(queue') : queue'[k] = queue[i]
    <3> DEFINE r == Drained(t)
    <3>1. /\ \A k \in 1 .. Len(r) : r[k].topic # t /\ \E i \in 1 .. Len(queue) : queue[i] = r[k]
          /\ \A i \in 1 .. Len(queue) : queue[i].topic # t =>
               \E k \in 1 .. Len(r) : r[k] = queue[i]
      BY <1>3, DrainedQueue
    <3>2. queue' = r
      BY <1>5
    <3> HIDE DEF r
    <3> QED
      BY <3>1, <3>2
  <2>6. \A u, n : After(queue, u, n) => After(queue', u, n)
    BY <2>5 DEF After
  <2>7. ASSUME NEW u \in Topics, Single(u)', NEW k \in 1 .. Len(vector'), vector'[k].topic = u
        PROVE  /\ Single(u) /\ u # t /\ got'[u] = got[u]
               /\ k \in 1 .. Len(vector) /\ vector'[k] = vector[k]
    BY <1>2, <2>2, <2>7 DEF Single
  <2>8. GotInv'
    <3>1. \A u \in Topics : Single(u)' => \A k \in 1 .. Len(vector') :
            /\ vector'[k].topic = u /\ vector'[k].fseq = -1 => After(queue', u, got'[u])
            /\ vector'[k].topic = u /\ vector'[k].fseq # -1 /\ vector'[k].dseq > 0 =>
                 got'[u] = vector'[k].dseq
      BY <1>1, <2>6, <2>7 DEF GotInv
    <3> QED
      BY <3>1 DEF GotInv, After
  <2>9. ASSUME Lossless
        PROVE  NextInv'
    <3>1. NextInv
      BY <1>1, <2>9
    <3>2. ASSUME NEW u, NEW n, Continues(u, n), u # t
          PROVE  n = published[u]
                 \/ \E k \in 1 .. Len(queue') : queue'[k] = [topic |-> u, seq |-> n + 1]
      BY <2>5, <3>2 DEF Continues
    <3>3. \A k \in 1 .. Len(queue') :
            \/ queue'[k].seq = published[queue'[k].topic]
            \/ \E j \in 1 .. Len(queue') :
                 queue'[j] = [topic |-> queue'[k].topic, seq |-> queue'[k].seq + 1]
      <4> TAKE k \in 1 .. Len(queue')
      <4>1. PICK i \in 1 .. Len(queue) : queue[i] = queue'[k]
        BY <2>5
      <4>2. Continues(queue[i].topic, queue[i].seq) /\ queue[i].topic # t
        BY <2>5, <3>1, <4>1 DEF NextInv
      <4> QED
        BY <3>2, <4>1, <4>2
    <3>4. read_file' > 0 =>
            \/ data.seq = published[data.topic]
            \/ \E j \in 1 .. Len(queue') :
                 queue'[j] = [topic |-> data.topic, seq |-> data.seq + 1]
      BY <2>2, <3>1, <3>2 DEF NextInv
    <3>5. \A u \in Topics : Single(u)' => \A k \in 1 .. Len(vector') :
            vector'[k].topic = u /\ vector'[k].fseq = -1 =>
              \/ got'[u] = published[u]
              \/ \E j \in 1 .. Len(queue') : queue'[j] = [topic |-> u, seq |-> got'[u] + 1]
      <4> SUFFICES ASSUME NEW u \in Topics, Single(u)', NEW k \in 1 .. Len(vector'),
                          vector'[k].topic = u, vector'[k].fseq = -1
                   PROVE  \/ got'[u] = published[u]
                          \/ \E j \in 1 .. Len(queue') :
                               queue'[j] = [topic |-> u, seq |-> got'[u] + 1]
        OBVIOUS
      <4>1. Continues(u, got[u]) /\ u # t /\ got'[u] = got[u]
        BY <2>7, <3>1 DEF NextInv
      <4> QED
        BY <3>2, <4>1
    <3> QED
      BY <1>2, <3>3, <3>4, <3>5 DEF NextInv, Continues
  <2> QED
    BY <2>3, <2>4, <2>8, <2>9 DEF OrderInv, Lossless
<1> QED
  BY <1>4, <1>5 DEF Cancel

-----------------------------------------------------------------------------
(* Handing out.                                                            *)

(* The first message of the queue is taken. *)
LEMMA NextTaken ==
  ASSUME IInv, pc # "idle", queue # <<>>, queue' = Tail(queue), UNCHANGED published
  PROVE  /\ \A k \in 1 .. Len(queue') : \E i \in 1 .. Len(queue) : queue[i] = queue'[k]
         /\ \A u : \A n \in Nat : Continues(u, n) /\ (u = Head(queue).topic => n >= Head(queue).seq) =>
              n = published'[u]
              \/ \E k \in 1 .. Len(queue') : queue'[k] = [topic |-> u, seq |-> n + 1]
         /\ \A k \in 1 .. Len(queue) :
              queue[k].topic = Head(queue).topic => queue[k].seq >= Head(queue).seq
<1>1. queue \in Seq(Msg) /\ Len(queue) \in Nat /\ HandleInv
      /\ \A k \in 1 .. Len(queue) : queue[k].seq \in Nat
  BY InCall
<1>2. /\ Len(queue) > 0 /\ Head(queue) = queue[1] /\ Len(queue') = Len(queue) - 1
      /\ \A k \in 1 .. Len(queue') : queue'[k] = queue[k + 1]
  BY <1>1, EmptySeq, HeadTailProperties, LenProperties
<1>3. \A k \in 1 .. Len(queue') : \E i \in 1 .. Len(queue) : queue[i] = queue'[k]
  <2> TAKE k \in 1 .. Len(queue')
  <2> WITNESS k + 1 \in 1 .. Len(queue)
  <2> QED
    BY <1>2
<1>4. \A k \in 1 .. Len(queue) : k = 1 \/ \E j \in 1 .. Len(queue') : queue'[j] = queue[k]
  <2> TAKE k \in 1 .. Len(queue)
  <2> SUFFICES ASSUME k # 1
               PROVE  \E j \in 1 .. Len(queue') : queue'[j] = queue[k]
    OBVIOUS
  <2>1. k - 1 \in 1 .. Len(queue') /\ (k - 1) + 1 = k
    BY <1>1, <1>2
  <2> QED
    BY <1>2, <2>1
<1>5. ASSUME NEW u, NEW n \in Nat, Continues(u, n), u = Head(queue).topic => n >= Head(queue).seq
      PROVE  n = published[u]
             \/ \E k \in 1 .. Len(queue') : queue'[k] = [topic |-> u, seq |-> n + 1]
  <2>1. CASE n = published[u]
    BY <2>1
  <2>2. ASSUME NEW k \in 1 .. Len(queue), queue[k] = [topic |-> u, seq |-> n + 1]
        PROVE  \E j \in 1 .. Len(queue') : queue'[j] = [topic |-> u, seq |-> n + 1]
    <3>1. ASSUME k = 1
          PROVE  FALSE
      <4>1. Head(queue).topic = u /\ Head(queue).seq = n + 1 /\ Head(queue).seq \in Nat
        BY <1>1, <1>2, <2>2, <3>1
      <4>2. n >= n + 1
        BY <1>5, <4>1
      <4> QED
        BY <4>2
    <3> QED
      BY <1>4, <2>2, <3>1
  <2> QED
    BY <1>5, <2>1, <2>2 DEF Continues
<1>6. \A k \in 1 .. Len(queue) :
        queue[k].topic = Head(queue).topic => queue[k].seq >= Head(queue).seq
  <2> TAKE k \in 1 .. Len(queue)
  <2>1. 1 \in 1 .. Len(queue) /\ (k = 1 \/ 1 < k)
    BY <1>1, <1>2
  <2> QED
    BY <1>1, <1>2, <2>1 DEF HandleInv, QueueInv
<1> QED
  BY <1>3, <1>5, <1>6

LEMMA RecvSubRight ==
  ASSUME IOrder, RecvSub
  PROVE  StepRight
<1>1. /\ pc = "sub" /\ pc # "idle" /\ IInv
      /\ UNCHANGED <<published, subs, vec_size, nr_incompleted, miscounted, twice>>
  BY DEF RecvSub, recorderVars, IOrder
<1>2. /\ TypeOK /\ Good /\ HandleInv /\ out.rc = "none" /\ vector \in Seq(Slot)
      /\ nr_incompleted = Count(vector, Unfinished) - miscounted
      /\ OrderInv /\ Alone /\ GotInv /\ PastInv /\ (Lossless => NextInv)
      /\ \A k \in 1 .. Len(queue) : queue[k].topic \in Topics /\ queue[k].seq \in Nat
  BY <1>1, InCall DEF IOrder, OrderInv
<1>3. \A u \in Topics : got[u] \in Nat /\ published[u] \in Nat
  BY <1>2 DEF TypeOK
<1>4. CASE queue = <<>> /\ Wait(to, "sub") /\ UNCHANGED <<queue, vector, read_file, data, got>>
  <2>1. out'.rc # "data" /\ \A k \in 1 .. Len(vector) : Kin(k)
    BY <1>2, <1>4 DEF Wait, Answer, Kin
  <2> QED
    BY <1>1, <1>2, <1>4, <2>1, CallKeepsOrder, HandsOutNothing DEF StepRight
<1>5. CASE queue # <<>>
  <2> DEFINE m == Head(queue)
             t == m.topic
             i == Find(t)
  <2>1. /\ queue' = Tail(queue) /\ data' = m
        /\ \/ /\ m.seq = 1 \/ nr_incompleted = 0 \/ vector[i].fseq = -1
              /\ Deliver(m) /\ UNCHANGED <<vector, read_file>>
           \/ SlotsOf(t) = {}
           \/ /\ SlotsOf(t) # {} /\ vector[i].fseq # -1
              /\ read_file' = i
              /\ vector' = [vector EXCEPT ![i].fseq = 0]
              /\ UNCHANGED <<out, got>>
    BY <1>5 DEF RecvSub, Taken
  <2>2. /\ m \in Msg /\ t \in Topics /\ m.seq \in Nat
        /\ subs[t] > 0 /\ m.seq <= published[t]
        /\ 1 \in 1 .. Len(queue) /\ m = queue[1]
        /\ \A u, n : After(queue, u, n) => After(queue', u, n)
        /\ After(queue', t, m.seq)
    BY <1>1, <1>5, <2>1, TailOfQueue
  <2>3. /\ SlotsOf(t) # {} /\ i \in 1 .. Len(vector) /\ vector[i] \in Slot
        /\ vector[i].topic = t
    BY <1>1, <2>2, FoundSlot
  <2>4. /\ \A k \in 1 .. Len(queue') : \E j \in 1 .. Len(queue) : queue[j] = queue'[k]
        /\ \A u : \A n \in Nat : Continues(u, n) /\ (u = t => n >= m.seq) =>
             n = published[u]
             \/ \E k \in 1 .. Len(queue') : queue'[k] = [topic |-> u, seq |-> n + 1]
        /\ \A k \in 1 .. Len(queue) : queue[k].topic = t => queue[k].seq >= m.seq
    BY <1>1, <1>5, <2>1, NextTaken
  <2> HIDE DEF m, t, i
  <2>5. ASSUME Lossless
        PROVE  /\ \A k \in 1 .. Len(queue') :
                    \/ queue'[k].seq = published[queue'[k].topic]
                    \/ \E j \in 1 .. Len(queue') :
                         queue'[j] = [topic |-> queue'[k].topic, seq |-> queue'[k].seq + 1]
               /\ m.seq = published[t]
                  \/ \E j \in 1 .. Len(queue') : queue'[j] = [topic |-> t, seq |-> m.seq + 1]
    <3>1. \A k \in 1 .. Len(queue) : Continues(queue[k].topic, queue[k].seq)
      BY <1>2, <2>5 DEF NextInv
    <3>2. \A k \in 1 .. Len(queue) :
            queue[k].seq = published[queue[k].topic]
            \/ \E j \in 1 .. Len(queue') :
                 queue'[j] = [topic |-> queue[k].topic, seq |-> queue[k].seq + 1]
      BY <1>2, <2>4, <3>1
    <3>3. \A k \in 1 .. Len(queue') :
            \/ queue'[k].seq = published[queue'[k].topic]
            \/ \E j \in 1 .. Len(queue') :
                 queue'[j] = [topic |-> queue'[k].topic, seq |-> queue'[k].seq + 1]
      <4> TAKE k \in 1 .. Len(queue')
      <4>1. PICK n \in 1 .. Len(queue) : queue[n] = queue'[k]
        BY <2>4
      <4> QED
        BY <3>2, <4>1
    <3>4. m.seq = published[t]
          \/ \E j \in 1 .. Len(queue') : queue'[j] = [topic |-> t, seq |-> m.seq + 1]
      <4>1. /\ 1 \in 1 .. Len(queue) /\ queue[1].seq = m.seq /\ queue[1].topic = t
        BY <2>2 DEF t
      <4> QED
        BY <3>2, <4>1
    <3> QED
      BY <3>3, <3>4
  <2>6. ASSUME NEW u \in Topics, u # t, Continues(u, got[u])
        PROVE  got[u] = published[u]
               \/ \E j \in 1 .. Len(queue') : queue'[j] = [topic |-> u, seq |-> got[u] + 1]
    BY <1>3, <2>4, <2>6
  <2>7. CASE /\ m.seq = 1 \/ nr_incompleted = 0 \/ vector[i].fseq = -1
             /\ Deliver(m) /\ UNCHANGED <<vector, read_file>>
    <3>1. /\ out'.rc = "data" /\ out'.msg = m /\ got'[t] = m.seq
          /\ \A u \in Topics : u # t => got'[u] = got[u]
      BY <1>2, <2>2, <2>7 DEF Deliver, TypeOK, t
    <3>2. ASSUME NEW k \in 1 .. Len(vector), vector[k].topic = t, Single(t), vector[k].fseq = -1
          PROVE  m.seq > got[t] /\ (Lossless => m.seq = got[t] + 1)
      <4>1. After(queue, t, got[t]) /\ m.seq > got[t]
        BY <1>2, <2>2, <3>2 DEF GotInv, After, t
      <4>2. ASSUME Lossless
            PROVE  m.seq = got[t] + 1
        <5>1. Continues(t, got[t])
          BY <1>2, <2>2, <3>2, <4>2 DEF NextInv
        <5>2. CASE got[t] = published[t]
          BY <1>3, <2>2, <4>1, <5>2
        <5>3. CASE \E j \in 1 .. Len(queue) : queue[j] = [topic |-> t, seq |-> got[t] + 1]
          BY <1>3, <2>2, <2>4, <4>1, <5>3
        <5> QED
          BY <5>1, <5>2, <5>3 DEF Continues
      <4> QED
        BY <4>1, <4>2
    <3>3. ASSUME NEW k \in 1 .. Len(vector), vector[k].topic = t, Single(t), vector[k].fseq # -1
          PROVE  m.seq = 1 /\ vector[k].dseq = 0
      <4>1. k = i
        BY <1>2, <2>2, <2>3, <3>3 DEF Alone, Single
      <4>2. vector[i] \in Unfinished /\ vector[i].dseq \in Nat
        BY <2>2, <2>3, <3>3, <4>1, BlankSlot DEF Unfinished, Slot
      <4>3. nr_incompleted # 0
        <5>1. Count(vector, Unfinished) > 0 /\ Count(vector, Unfinished) \in Nat
          BY <1>2, <2>3, <4>2, CountSome, CountType
        <5> QED
          BY <1>2, <3>3, <5>1 DEF Single
      <4>4. vector[i].dseq < m.seq
        BY <1>2, <2>2, <2>3, <4>2 DEF HandleInv, DoneInv, After, t
      <4> QED
        BY <2>2, <2>7, <3>3, <4>1, <4>2, <4>3, <4>4
    <3>4. Later /\ (Lossless => NextOne)
      <4>1. ASSUME Single(t)
            PROVE  \/ m.seq = 1
                   \/ m.seq > got[t] /\ (Lossless => m.seq = got[t] + 1)
        BY <2>3, <3>2, <3>3, <4>1
      <4> QED
        BY <3>1, <4>1 DEF Later, NextOne, HandsOut, Single, t
    <3>5. GotInv'
      <4>1. ASSUME NEW u \in Topics, Single(u), NEW k \in 1 .. Len(vector), vector[k].topic = u
            PROVE  /\ vector[k].fseq = -1 => After(queue', u, got'[u])
                   /\ vector[k].fseq # -1 /\ vector[k].dseq > 0 => got'[u] = vector[k].dseq
        <5>1. CASE u = t
          BY <2>2, <3>1, <3>3, <4>1, <5>1
        <5>2. CASE u # t
          BY <1>2, <2>2, <3>1, <4>1, <5>2 DEF GotInv
        <5> QED
          BY <5>1, <5>2
      <4> QED
        BY <1>1, <2>7, <4>1 DEF GotInv, After, Single
    <3>6. PastInv'
      BY <1>1, <1>2, <2>2, <3>1 DEF PastInv
    <3>7. Alone'
      BY <1>1, <1>2, <2>7 DEF Alone
    <3>8. ASSUME Lossless
          PROVE  NextInv'
      <4>1. NextInv
        BY <1>2, <3>8
      <4>2. \A u \in Topics : Single(u) => \A k \in 1 .. Len(vector) :
              vector[k].topic = u /\ vector[k].fseq = -1 =>
                \/ got'[u] = published[u]
                \/ \E j \in 1 .. Len(queue') : queue'[j] = [topic |-> u, seq |-> got'[u] + 1]
        <5> SUFFICES ASSUME NEW u \in Topics, Single(u), NEW k \in 1 .. Len(vector),
                            vector[k].topic = u, vector[k].fseq = -1
                     PROVE  \/ got'[u] = published[u]
                            \/ \E j \in 1 .. Len(queue') :
                                 queue'[j] = [topic |-> u, seq |-> got'[u] + 1]
          OBVIOUS
        <5>1. CASE u = t
          BY <2>5, <3>1, <3>8, <5>1
        <5>2. CASE u # t
          BY <2>6, <3>1, <4>1, <5>2 DEF NextInv
        <5> QED
          BY <5>1, <5>2
      <4>3. read_file' > 0 =>
              \/ data'.seq = published[data'.topic]
              \/ \E j \in 1 .. Len(queue') :
                   queue'[j] = [topic |-> data'.topic, seq |-> data'.seq + 1]
        BY <2>1, <2>5, <3>8 DEF t
      <4>4. \A u : Single(u)' = Single(u)
        BY <1>1 DEF Single
      <4> QED
        BY <1>1, <2>5, <2>7, <3>8, <4>2, <4>3, <4>4 DEF NextInv, Continues
    <3> QED
      BY <3>4, <3>5, <3>6, <3>7, <3>8 DEF StepRight, OrderInv, Lossless
  <2>8. CASE /\ vector[i].fseq # -1
             /\ vector' = [vector EXCEPT ![i].fseq = 0]
             /\ UNCHANGED <<out, got>>
    <3>1. /\ Len(vector') = Len(vector)
          /\ \A k \in 1 .. Len(vector) :
               /\ vector'[k].topic = vector[k].topic /\ vector'[k].dseq = vector[k].dseq
               /\ vector'[k].fseq = -1 <=> vector[k].fseq = -1
      <4> DEFINE s == [vector[i] EXCEPT !.fseq = 0]
      <4>1. /\ s.topic = vector[i].topic /\ s.dseq = vector[i].dseq /\ s.fseq = 0
            /\ vector' = [vector EXCEPT ![i] = s]
        BY <2>3, <2>8 DEF Slot
      <4> HIDE DEF s
      <4>2. /\ Len(vector') = Len(vector) /\ vector'[i] = s
            /\ \A k \in 1 .. Len(vector) : k # i => vector'[k] = vector[k]
        BY <1>2, <2>3, <4>1, LenProperties
      <4>3. s.fseq # -1
        BY <4>1
      <4> QED
        BY <2>8, <4>1, <4>2, <4>3
    <3>2. Later /\ NextOne
      BY <1>2, <2>8, HandsOutNothing
    <3>3. Alone' /\ PastInv'
      BY <1>1, <1>2, <2>8, <3>1 DEF Alone, PastInv
    <3>4. GotInv'
      <4>1. \A u \in Topics : Single(u) => \A k \in 1 .. Len(vector) :
              /\ vector[k].topic = u /\ vector[k].fseq = -1 => After(queue', u, got[u])
              /\ vector[k].topic = u /\ vector[k].fseq # -1 /\ vector[k].dseq > 0 =>
                   got[u] = vector[k].dseq
        BY <1>2, <2>2 DEF GotInv
      <4>2. \A u \in Topics : Single(u) => \A k \in 1 .. Len(vector') :
              /\ vector'[k].topic = u /\ vector'[k].fseq = -1 => After(queue', u, got[u])
              /\ vector'[k].topic = u /\ vector'[k].fseq # -1 /\ vector'[k].dseq > 0 =>
                   got[u] = vector'[k].dseq
        BY <3>1, <4>1
      <4>3. UNCHANGED got /\ \A u : Single(u)' = Single(u)
        BY <1>1, <2>8 DEF Single
      <4> QED
        BY <4>2, <4>3 DEF GotInv, After
    <3>5. ASSUME Lossless
          PROVE  NextInv'
      <4>1. NextInv
        BY <1>2, <3>5
      <4>2. ASSUME NEW u \in Topics, Single(u), NEW k \in 1 .. Len(vector),
                   vector[k].topic = u, vector[k].fseq = -1
            PROVE  \/ got[u] = published[u]
                   \/ \E j \in 1 .. Len(queue') : queue'[j] = [topic |-> u, seq |-> got[u] + 1]
        <5>1. u # t
          BY <1>2, <2>3, <2>8, <4>2 DEF Alone, Single
        <5> QED
          BY <2>6, <4>1, <4>2, <5>1 DEF NextInv
      <4>3. \A u \in Topics : Single(u) => \A k \in 1 .. Len(vector') :
              vector'[k].topic = u /\ vector'[k].fseq = -1 =>
                \/ got[u] = published[u]
                \/ \E j \in 1 .. Len(queue') : queue'[j] = [topic |-> u, seq |-> got[u] + 1]
        BY <3>1, <4>2
      <4>4. read_file' > 0 =>
              \/ data'.seq = published[data'.topic]
              \/ \E j \in 1 .. Len(queue') :
                   queue'[j] = [topic |-> data'.topic, seq |-> data'.seq + 1]
        BY <2>1, <2>5, <3>5 DEF t
      <4>5. UNCHANGED got /\ \A u : Single(u)' = Single(u)
        BY <1>1, <2>8 DEF Single
      <4> QED
        BY <1>1, <2>5, <3>5, <4>3, <4>4, <4>5 DEF NextInv, Continues
    <3> QED
      BY <3>2, <3>3, <3>4, <3>5 DEF StepRight, OrderInv, Lossless
  <2> QED
    BY <2>1, <2>3, <2>7, <2>8
<1> QED
  BY <1>4, <1>5 DEF RecvSub

(* The file's next message is handed out: the slot being completed goes on *)
(* or is complete.                                                         *)
LEMMA FileMessageRight ==
  ASSUME IOrder, pc = "read", NEW n \in Nat, NEW s,
         s.topic = vector[read_file].topic, s.dseq = n,
         vector' = [vector EXCEPT ![read_file] = s],
         n = vector[read_file].dseq + 1, n <= data.seq,
         Deliver([topic |-> data.topic, seq |-> n]),
         \/ s.fseq # -1 /\ read_file' = read_file
         \/ s.fseq = -1 /\ n = data.seq /\ read_file' = 0,
         UNCHANGED <<published, queue, data, miscounted, twice>>
  PROVE  StepRight
<1> DEFINE i == read_file
           t == data.topic
<1>1. /\ pc # "idle" /\ IInv /\ TypeOK /\ Good /\ HandleInv /\ vector \in Seq(Slot)
      /\ OrderInv /\ Alone /\ GotInv /\ PastInv /\ (Lossless => NextInv)
  BY InCall DEF IOrder, OrderInv
<1>2. read_file > 0
  BY <1>1 DEF HandleInv, StepInv
<1>3. /\ i \in 1 .. Len(vector) /\ vector[i].topic = t /\ t \in Topics
      /\ vector[i].fseq # -1 /\ vector[i].dseq \in Nat /\ data.seq \in Nat
      /\ data.seq <= published[t] /\ After(queue, t, data.seq)
  BY <1>1, <1>2, KeptSlot DEF Unfinished
<1>4. \A u \in Topics : published[u] \in Nat
  BY <1>1 DEF TypeOK
<1>5. /\ Len(vector') = Len(vector) /\ vector'[i] = s
      /\ \A k \in 1 .. Len(vector) : k # i => vector'[k] = vector[k]
  BY <1>1, <1>3, LenProperties
<1>6. /\ out'.rc = "data" /\ out'.msg.seq = n /\ out'.msg.topic = t /\ got'[t] = n
      /\ \A u \in Topics : u # t => got'[u] = got[u]
  BY <1>1, <1>3 DEF Deliver, TypeOK
<1> HIDE DEF i, t
<1>7. \A u : Single(u)' = Single(u)
  BY DEF Single
<1>8. Single(t) => \A k \in 1 .. Len(vector) : vector[k].topic = t => k = i
  BY <1>1, <1>3 DEF Alone, Single
<1>9. Later /\ NextOne
  <2>1. ASSUME Single(t)
        PROVE  n = 1 \/ n = got[t] + 1
    <3>1. vector[i].dseq > 0 => got[t] = vector[i].dseq
      BY <1>1, <1>3, <2>1 DEF GotInv
    <3> QED
      BY <1>3, <3>1 DEF i
  <2>2. got[t] \in Nat
    BY <1>1, <1>3 DEF TypeOK
  <2> QED
    BY <1>6, <2>1, <2>2 DEF Later, NextOne, HandsOut, Single
<1>10. Alone'
  <2>1. \A k \in 1 .. Len(vector') : vector'[k].topic = vector[k].topic
    BY <1>3, <1>5 DEF i
  <2> QED
    BY <1>1, <1>5, <2>1, AloneKept
<1>11. PastInv'
  <2>1. \A u \in Topics : got'[u] <= published[u]
    <3>1. got'[t] <= published[t]
      BY <1>3, <1>4, <1>6
    <3> QED
      BY <1>1, <1>6, <3>1 DEF PastInv
  <2> QED
    BY <2>1 DEF PastInv
<1>12. ASSUME NEW u \in Topics, Single(u), NEW k \in 1 .. Len(vector), vector'[k].topic = u
       PROVE  \/ /\ u # t /\ vector'[k] = vector[k] /\ got'[u] = got[u]
              \/ u = t /\ vector'[k] = s
  <2>1. CASE k = i
    BY <1>3, <1>5, <1>12, <2>1 DEF i
  <2>2. CASE k # i
    BY <1>5, <1>6, <1>8, <1>12, <2>2
  <2> QED
    BY <2>1, <2>2
<1>13. GotInv'
  <2>1. ASSUME NEW u \in Topics, Single(u), NEW k \in 1 .. Len(vector), vector'[k].topic = u
        PROVE  /\ vector'[k].fseq = -1 => After(queue, u, got'[u])
               /\ vector'[k].fseq # -1 /\ vector'[k].dseq > 0 => got'[u] = vector'[k].dseq
    <3>1. CASE u # t /\ vector'[k] = vector[k] /\ got'[u] = got[u]
      BY <1>1, <2>1, <3>1 DEF GotInv
    <3>2. CASE u = t /\ vector'[k] = s
      BY <1>3, <1>6, <3>2
    <3> QED
      BY <1>12, <2>1, <3>1, <3>2
  <2> QED
    BY <1>5, <1>7, <2>1 DEF GotInv, After
<1>14. ASSUME Lossless
       PROVE  NextInv'
  <2>1. NextInv
    BY <1>1, <1>14
  <2>2. \A k \in 1 .. Len(queue') : Continues(queue'[k].topic, queue'[k].seq)
    BY <2>1 DEF NextInv
  <2>3. Continues(t, data.seq)
    BY <1>2, <2>1 DEF NextInv, t
  <2>4. read_file' > 0 => Continues(data'.topic, data'.seq)
    BY <2>3 DEF t
  <2>5. ASSUME NEW u \in Topics, Single(u), NEW k \in 1 .. Len(vector), vector'[k].topic = u,
               vector'[k].fseq = -1
        PROVE  Continues(u, got'[u])
    <3>1. CASE u # t /\ vector'[k] = vector[k] /\ got'[u] = got[u]
      BY <2>1, <2>5, <3>1 DEF NextInv
    <3>2. CASE u = t /\ vector'[k] = s
      BY <1>6, <2>3, <2>5, <3>2
    <3> QED
      BY <1>12, <2>5, <3>1, <3>2
  <2> QED
    BY <1>5, <1>7, <2>2, <2>4, <2>5 DEF NextInv, Continues
<1> QED
  BY <1>9, <1>10, <1>11, <1>13, <1>14 DEF StepRight, OrderInv, Lossless

(* The slot moves within its files and nothing is handed out.              *)
LEMMA FileMovesRight ==
  ASSUME IOrder, pc = "read", NEW s,
         s.topic = vector[read_file].topic, s.dseq = vector[read_file].dseq, s.fseq # -1,
         vector' = [vector EXCEPT ![read_file] = s], out'.rc # "data",
         UNCHANGED <<published, queue, got, data, read_file, miscounted, twice>>
  PROVE  StepRight
<1>1. pc # "idle" /\ IInv /\ Good /\ HandleInv /\ OrderInv
  BY InCall DEF IOrder
<1>2. read_file > 0
  BY <1>1 DEF HandleInv, StepInv
<1>3. Len(vector') = Len(vector) /\ \A k \in 1 .. Len(vector) : Kin(k)
  BY <1>1, <1>2, SlotMoves
<1> QED
  BY <1>1, <1>3, CallKeepsOrder, HandsOutNothing DEF StepRight

LEMMA FileReadRight ==
  ASSUME Beats = {}, IOrder, ReadFile
  PROVE  StepRight
<1> DEFINE s == vector[read_file]
           f == s.file
           n == f.at + 1
<1>1. pc = "read" /\ pc # "idle" /\ IInv
  BY DEF ReadFile, IOrder
<1>2. out.rc = "none" /\ read_file > 0 /\ f # NoFile
  BY <1>1, InCall DEF HandleInv, StepInv
<1>3. /\ s \in Slot /\ s.fseq # -1 /\ s.fseq \in Nat /\ s.dseq \in Nat
      /\ s.topic = data.topic /\ data \in Msg /\ data.seq \in Nat
  BY <1>1, <1>2, KeptSlot
<1>4. f \in [no : Nat, at : Nat, closed : BOOLEAN] /\ n \in Nat
  BY <1>2, <1>3 DEF Slot
<1>5. UNCHANGED <<published, queue, data, miscounted, twice>>
  BY DEF ReadFile, recorderVars
<1>6. \A m : HandOut(m) => Deliver(m)
  BY DEF HandOut
<1>7. \A r : Answer(r) /\ r # "data" => out'.rc # "data"
  BY DEF Answer
<1>8. CASE /\ Answer("EPROTO")
           /\ vector' = [vector EXCEPT ![read_file].file.at = n]
           /\ UNCHANGED <<read_file, got>>
  <2> DEFINE r == [s EXCEPT !.file.at = n]
  <2>1. /\ r.topic = s.topic /\ r.dseq = s.dseq /\ r.fseq = s.fseq
        /\ vector' = [vector EXCEPT ![read_file] = r]
    BY <1>3, <1>8 DEF Slot
  <2>2. out'.rc # "data"
    BY <1>7, <1>8
  <2> HIDE DEF r, n, f
  <2> QED
    BY <1>1, <1>3, <1>5, <1>8, <2>1, <2>2, FileMovesRight
<1>9. CASE /\ Follows(s, n) /\ ~Reaches(n)
           /\ vector' = [vector EXCEPT ![read_file].file.at = n, ![read_file].dseq = n]
           /\ HandOut([topic |-> s.topic, seq |-> n])
           /\ UNCHANGED read_file
  <2> DEFINE r == [s EXCEPT !.file.at = n, !.dseq = n]
  <2>1. /\ r.topic = s.topic /\ r.dseq = n /\ r.fseq = s.fseq
        /\ vector' = [vector EXCEPT ![read_file] = r]
    BY <1>3, <1>9 DEF Slot
  <2>2. Deliver([topic |-> data.topic, seq |-> n])
    BY <1>3, <1>6, <1>9
  <2>3. n = s.dseq + 1 /\ n <= data.seq
    BY <1>3, <1>4, <1>9 DEF Follows, Reaches
  <2> HIDE DEF r, n, f
  <2> QED
    BY <1>1, <1>3, <1>4, <1>5, <1>9, <2>1, <2>2, <2>3, FileMessageRight
<1>10. CASE /\ Follows(s, n) /\ n <= data.seq /\ Reaches(n)
            /\ vector' = [vector EXCEPT ![read_file].file = NoFile, ![read_file].fseq = -1,
                                        ![read_file].dseq = n]
            /\ read_file' = 0
            /\ HandOut(data)
  <2> DEFINE r == [s EXCEPT !.file = NoFile, !.fseq = -1, !.dseq = n]
  <2>1. /\ r.topic = s.topic /\ r.dseq = n /\ r.fseq = -1
        /\ vector' = [vector EXCEPT ![read_file] = r]
    BY <1>3, <1>10 DEF Slot
  <2>2. n = s.dseq + 1 /\ n = data.seq
    BY <1>3, <1>4, <1>10 DEF Follows, Reaches
  <2>3. Deliver([topic |-> data.topic, seq |-> n])
    <3>1. data = [topic |-> data.topic, seq |-> n]
      BY <1>3, <2>2 DEF Msg
    <3> QED
      BY <1>6, <1>10, <3>1
  <2> HIDE DEF r, n, f
  <2> QED
    BY <1>1, <1>3, <1>4, <1>5, <1>10, <2>1, <2>2, <2>3, FileMessageRight
<1>11. CASE /\ vector' = [vector EXCEPT ![read_file].file = NoFile]
            /\ UNCHANGED <<read_file, out, got>>
  <2> DEFINE r == [s EXCEPT !.file = NoFile]
  <2>1. /\ r.topic = s.topic /\ r.dseq = s.dseq /\ r.fseq = s.fseq
        /\ vector' = [vector EXCEPT ![read_file] = r]
    BY <1>3, <1>11 DEF Slot
  <2> HIDE DEF r, n, f
  <2> QED
    BY <1>1, <1>2, <1>3, <1>5, <1>11, <2>1, FileMovesRight
<1>12. CASE Wait(left, "read") /\ UNCHANGED <<vector, read_file, got>>
  <2>1. out'.rc # "data"
    BY <1>2, <1>12 DEF Wait, Answer
  <2>2. Len(vector') = Len(vector) /\ \A k \in 1 .. Len(vector) : Kin(k)
    BY <1>12 DEF Kin
  <2>3. OrderInv
    BY <1>1, InCall DEF IOrder
  <2> QED
    BY <1>5, <1>12, <2>1, <2>2, <2>3, CallKeepsOrder, HandsOutNothing DEF StepRight
<1>13. CASE FromFile(read_file, n)
  BY <1>3, <1>4, <1>8, <1>9, <1>10, <1>13 DEF FromFile
<1> QED
  BY <1>11, <1>12, <1>13 DEF ReadFile

-----------------------------------------------------------------------------
(* Theorems.                                                               *)

LEMMA NextRight ==
  ASSUME Beats = {}, IOrder, [Next]_vars
  PROVE  IOrder' /\ Later /\ (Lossless => NextOne)
<1>1. StepRight
  <2>1. CASE UNCHANGED vars
    <3>1. UNCHANGED <<published, subs, queue, vectorVars, read_file, data, fds, callVars, history>>
      BY <2>1 DEF vars, recorderVars
    <3> QED
      BY <3>1, OthersRight
  <2>2. ASSUME NEW t \in Topics, Recorder(t) \/ Rotate(t)
        PROVE  StepRight
    <3>1. UNCHANGED <<published, subs, queue, vectorVars, read_file, data, fds, callVars, history>>
      BY <2>2 DEF Recorder, CreateTmp, WriteHead, Write, Rotate
    <3> QED
      BY <3>1, OthersRight
  <2>3. ASSUME NEW t \in Topics, Publish(t) \/ Req(t) \/ Cancel(t)
        PROVE  StepRight
    BY <2>3, PublishRight, ReqRight, CancelRight
  <2>4. ASSUME NEW timeout \in Timeouts, CallRecv(timeout)
        PROVE  StepRight
    BY <2>4, CallRecvRight
  <2>5. CASE Reopen
    BY <2>5, ReopenRight
  <2>6. CASE Handle
    BY <2>6, RecvSubRight, RecvFailsRight, OpenSeqFileRight, OpenTmpFileRight, FileReadRight
    DEF Handle
  <2> QED
    BY <2>1, <2>2, <2>3, <2>4, <2>5, <2>6 DEF Next
<1>2. IInv'
  BY NextKeepsIt DEF IOrder
<1> QED
  BY <1>1, <1>2 DEF StepRight, IOrder

(* fsub.c:379, "go on receiving": whatever was lost, subscribed, cancelled *)
(* or completed before, a topic that was in one slot is never handed a     *)
(* message again or an older one, but for its message 1.                   *)
THEOREM NothingRepeated ==
  ASSUME Beats = {}
  PROVE  Spec => NoRepeat
<1> DEFINE Step == \A t \in Topics :
             miscounted = 0 /\ t \notin twice /\ out'.rc = "data" /\ out'.msg.topic = t
             /\ pc # "idle" =>
               out'.msg.seq = 1 \/ out'.msg.seq > got[t]
<1>1. Init => IOrder
  BY InitOrder
<1>2. IOrder /\ [Next]_vars => IOrder' /\ [Step]_vars
  BY NextRight DEF Later, HandsOut
<1> QED
  BY <1>1, <1>2, PTL DEF Spec, NoRepeat

(* When nothing is lost on the way, messages from files and messages from  *)
(* the subscription follow each other without a gap.                       *)
THEOREM NothingMissed ==
  ASSUME Beats = {}, "drop" \notin Failures
  PROVE  Spec => NoGap
<1> DEFINE Step == \A t \in Topics :
             miscounted = 0 /\ t \notin twice /\ out'.rc = "data" /\ out'.msg.topic = t
             /\ pc # "idle" =>
               out'.msg.seq \in {1, got[t] + 1}
<1>1. Init => IOrder
  BY InitOrder
<1>2. IOrder /\ [Next]_vars => IOrder' /\ [Step]_vars
  BY NextRight DEF NextOne, HandsOut, Lossless
<1> QED
  BY <1>1, <1>2, PTL DEF Spec, NoGap

-----------------------------------------------------------------------------
(* The files of a topic are read in their order.                           *)

(* An application that cancels nothing, calls that do not fail in ZeroMQ,  *)
(* and a recorder that neither renames the file of a topic that is being   *)
(* completed nor leaves one without its head.                              *)
Steady ==
  /\ "cancel" \notin AppCalls
  /\ "zmq_setsockopt" \notin Failures /\ "zmq_recv" \notin Failures
  /\ QuietRotation /\ ~SlowHead

(* A topic is completed up to the place in its files where the slot is: up *)
(* to the beginning of the file that is opened next, or to where the open  *)
(* file was read.                                                          *)
InPlace(s, step) ==
  IF s.file = NoFile
  THEN /\ s.fseq <= Len(cuts[s.topic]) /\ s.dseq = Base(s.topic, s.fseq)
       /\ step = "opentmp" => s.fseq = Len(cuts[s.topic])
  ELSE /\ s.dseq = s.file.at
       /\ IF s.file.closed THEN s.fseq = s.file.no + 1 /\ s.fseq <= Len(cuts[s.topic])
          ELSE s.file.no = Len(cuts[s.topic])

(* No other slot has begun. *)
FollowInv ==
  /\ Good /\ out.rc # "EPROTO"
  /\ \A t \in Topics : tmp[t] # "empty"
  /\ \A k \in 1 .. Len(vector) : vector[k] \in Unfinished /\ k # read_file =>
       vector[k].dseq = 0 /\ vector[k].file = NoFile
  /\ read_file > 0 => InPlace(vector[read_file], pc)

IFollow == IInv /\ FollowInv

LEMMA InitFollow ==
  Init => IFollow
<1> SUFFICES ASSUME Init
             PROVE  FollowInv
  BY InitIInv DEF IFollow
<1>1. Len(vector) = 0 /\ 1 .. Len(vector) = {}
  BY EmptySeq DEF Init
<1> QED
  BY <1>1 DEF Init, FollowInv, Good

(* The slots and their files are kept. *)
LEMMA FollowKept ==
  ASSUME IFollow, UNCHANGED <<vector, vec_size, read_file>>, out'.rc # "EPROTO",
         \A t \in Topics : tmp'[t] # "empty",
         read_file > 0 => cuts'[vector[read_file].topic] = cuts[vector[read_file].topic],
         pc' = "opentmp" /\ read_file > 0 /\ vector[read_file].file = NoFile =>
           vector[read_file].fseq = Len(cuts[vector[read_file].topic])
  PROVE  FollowInv'
BY DEF IFollow, FollowInv, InPlace, Good, Base

(* Whatever the recorder does. *)
LEMMA RecorderFollows ==
  ASSUME Steady, IFollow, NEW t \in Topics, Publish(t) \/ Recorder(t) \/ Rotate(t)
  PROVE  FollowInv'
<1>1. /\ UNCHANGED <<vectorVars, read_file, callVars>> /\ TypeOK
      /\ out.rc # "EPROTO" /\ Good /\ \A u \in Topics : tmp[u] # "empty"
  BY DEF Publish, Recorder, CreateTmp, WriteHead, Write, Rotate, IFollow, IInv, FollowInv
<1>2. \A u \in Topics : tmp'[u] # "empty"
  <2>1. tmp' = tmp \/ tmp' = [tmp EXCEPT ![t] = "ok"] \/ tmp' = [tmp EXCEPT ![t] = "none"]
    BY DEF Publish, Recorder, CreateTmp, WriteHead, Write, Rotate, Steady
  <2> QED
    BY <1>1, <2>1 DEF TypeOK
<1>3. ASSUME read_file > 0
      PROVE  cuts'[vector[read_file].topic] = cuts[vector[read_file].topic]
  <2>1. vector[read_file].topic \in Topics /\ read_file \in SlotsOf(vector[read_file].topic)
    <3>1. /\ read_file \in 1 .. Len(vector) /\ vector[read_file] \in Unfinished
      BY <1>1, <1>3 DEF IFollow, IInv, HandleInv, KeptInv
    <3>2. vector \in Seq(Slot) /\ DOMAIN vector = 1 .. Len(vector)
      BY <1>1, LenProperties DEF TypeOK
    <3>3. vector[read_file].topic # NoTopic /\ vector[read_file] \in Slot
      BY <3>1 DEF Unfinished
    <3>4. vector[read_file].topic \in Topics
      BY <3>3 DEF Slot
    <3> QED
      BY <3>1, <3>2, <3>3, <3>4 DEF SlotsOf, Used, UsedIn
  <2>2. CASE Rotate(t)
    <3>1. t # vector[read_file].topic /\ cuts' = [cuts EXCEPT ![t] = Append(@, written[t])]
      BY <2>1, <2>2 DEF Rotate, BeingCompleted, Steady
    <3> QED
      BY <1>1, <2>1, <3>1 DEF TypeOK
  <2>3. CASE Publish(t) \/ Recorder(t)
    BY <2>3 DEF Publish, Recorder, CreateTmp, WriteHead, Write
  <2> QED
    BY <2>2, <2>3
<1>4. pc' = "opentmp" /\ read_file > 0 /\ vector[read_file].file = NoFile =>
        vector[read_file].fseq = Len(cuts[vector[read_file].topic])
  BY <1>1 DEF callVars, IFollow, FollowInv, InPlace
<1>5. UNCHANGED <<vector, vec_size, read_file, out>>
  BY <1>1 DEF vectorVars, callVars
<1> QED
  BY <1>1, <1>2, <1>3, <1>4, <1>5, FollowKept

LEMMA ReqFollows ==
  ASSUME Steady, IFollow, NEW t \in Topics, Req(t)
  PROVE  FollowInv'
<1>1. /\ IInv /\ TypeOK /\ Good /\ HandleInv /\ FollowInv /\ pc' = "idle" /\ out'.rc # "EPROTO"
      /\ UNCHANGED <<recorderVars, read_file>>
  BY DEF IFollow, IInv, FollowInv, Req, Answer, Steady
<1>2. /\ vector \in Seq(Slot) /\ vec_size \in Nat /\ Len(vector) = vec_size
      /\ \A i \in 1 .. Len(vector) : vector[i].topic = NoTopic => vector[i] = NoSlot
      /\ read_file > 0 => read_file \in 1 .. Len(vector) /\ vector[read_file] \in Unfinished
  BY <1>1, LenProperties DEF TypeOK, IInv, CallInv, Good, HandleInv, SlotInv, KeptInv
<1>3. /\ NewSize \in Nat /\ NewSize >= vec_size
      /\ Expanded \in Seq(Slot) /\ Len(Expanded) = NewSize
      /\ \A i \in 1 .. vec_size : Expanded[i] = vector[i]
      /\ \A i \in 1 .. NewSize : i > vec_size => Expanded[i] = NoSlot
  BY <1>2, Expansion
<1>4. /\ NewSlot(t).dseq = 0 /\ NewSlot(t).file = NoFile
      /\ Added(t) \in Seq(Slot) /\ Len(Added(t)) = NewSize
      /\ Place \in 1 .. NewSize /\ Added(t)[Place] = NewSlot(t)
      /\ \A i \in 1 .. NewSize : i # Place =>
           Added(t)[i] = IF i <= vec_size THEN vector[i] ELSE NoSlot
      /\ Place <= vec_size => vector[Place] = NoSlot
  BY <1>2, Addition
<1>5. NoSlot \notin Unfinished
  BY BlankSlot
<1>6. CASE UNCHANGED vectorVars
  <2>1. \A u \in Topics : tmp'[u] # "empty"
    BY <1>1 DEF FollowInv, recorderVars
  <2> QED
    BY <1>1, <1>6, <2>1, FollowKept DEF vectorVars, recorderVars
<1>7. ASSUME vec_size' = NewSize, vector' = Expanded \/ vector' = Added(t)
      PROVE  FollowInv'
  <2>1. Len(vector') = NewSize /\ Good'
    BY <1>3, <1>4, <1>7 DEF Good
  <2>2. \A k \in 1 .. NewSize : vector'[k] \in Unfinished =>
          \/ k \in 1 .. Len(vector) /\ vector'[k] = vector[k]
          \/ vector'[k] = NewSlot(t) /\ k # read_file
    <3> TAKE k \in 1 .. NewSize
    <3> HAVE vector'[k] \in Unfinished
    <3>1. CASE vector' = Expanded
      BY <1>2, <1>3, <1>5, <3>1
    <3>2. CASE vector' = Added(t)
      <4>1. CASE k = Place
        BY <1>2, <1>4, <1>5, <3>2, <4>1
      <4>2. CASE k # Place
        BY <1>2, <1>4, <1>5, <3>2, <4>2
      <4> QED
        BY <4>1, <4>2
    <3> QED
      BY <1>7, <3>1, <3>2
  <2>3. read_file > 0 => vector'[read_file] = vector[read_file]
    <3> HAVE read_file > 0
    <3>1. read_file \in 1 .. vec_size /\ read_file \in 1 .. NewSize /\ vector[read_file] # NoSlot
      BY <1>2, <1>3, <1>5
    <3>2. CASE vector' = Expanded
      BY <1>3, <3>1, <3>2
    <3>3. CASE vector' = Added(t)
      BY <1>4, <3>1, <3>3
    <3> QED
      BY <1>7, <3>2, <3>3
  <2>4. \A k \in 1 .. Len(vector') : vector'[k] \in Unfinished /\ k # read_file' =>
          vector'[k].dseq = 0 /\ vector'[k].file = NoFile
    BY <1>1, <1>4, <2>1, <2>2 DEF FollowInv
  <2>5. read_file' > 0 => InPlace(vector[read_file], pc)
    BY <1>1 DEF FollowInv
  <2>6. read_file' > 0 => InPlace(vector'[read_file], pc')
    BY <1>1, <2>3, <2>5 DEF InPlace
  <2> QED
    BY <1>1, <2>1, <2>4, <2>6 DEF FollowInv, InPlace, Base, recorderVars
<1>8. Added(t) = [Expanded EXCEPT ![FirstSlot(Expanded, NoTopic)] = [NoSlot EXCEPT !.topic = t]]
  BY DEF Added, NewSlot
<1> QED
  BY <1>6, <1>7, <1>8 DEF Req, Steady

LEMMA CallRecvFollows ==
  ASSUME IFollow, NEW t \in Timeouts, CallRecv(t)
  PROVE  FollowInv'
<1>1. /\ UNCHANGED <<cuts, tmp, vector, vec_size, read_file>> /\ out'.rc # "EPROTO"
      /\ pc' # "opentmp"
  BY DEF CallRecv, ReadStep, recorderVars, vectorVars
<1> QED
  BY <1>1, FollowKept DEF IFollow, FollowInv

LEMMA ReopenFollows ==
  ASSUME IFollow, Reopen
  PROVE  FollowInv'
<1>1. /\ Len(vector') = 0 /\ 1 .. Len(vector') = {} /\ vec_size' = 0 /\ read_file' = 0
      /\ out'.rc # "EPROTO" /\ tmp' = tmp
  BY EmptySeq DEF Reopen, Answer, recorderVars
<1> QED
  BY <1>1 DEF IFollow, FollowInv, Good

(* A slot is completed or begins to be. *)
LEMMA SlotFollows ==
  ASSUME IFollow, UNCHANGED <<cuts, tmp, vec_size>>, out'.rc # "EPROTO", vector \in Seq(Slot),
         NEW i \in 1 .. Len(vector), NEW s, vector' = [vector EXCEPT ![i] = s],
         read_file \in {0, i},
         \/ read_file' = i /\ InPlace(s, pc')
         \/ read_file' = 0 /\ s \notin Unfinished
  PROVE  FollowInv'
<1>1. /\ Len(vector') = Len(vector) /\ vector'[i] = s
      /\ \A k \in 1 .. Len(vector) : k # i => vector'[k] = vector[k]
  BY LenProperties
<1>2. Good' /\ \A t \in Topics : tmp'[t] # "empty"
  BY <1>1 DEF IFollow, FollowInv, Good
<1>3. \A k \in 1 .. Len(vector') : vector'[k] \in Unfinished /\ k # read_file' =>
        vector'[k].dseq = 0 /\ vector'[k].file = NoFile
  BY <1>1 DEF IFollow, FollowInv
<1>4. read_file' > 0 => InPlace(vector'[read_file'], pc')
  BY <1>1
<1> QED
  BY <1>2, <1>3, <1>4 DEF FollowInv, InPlace, Base

LEMMA RecvSubFollows ==
  ASSUME IFollow, RecvSub
  PROVE  FollowInv'
<1>1. /\ pc = "sub" /\ pc # "idle" /\ IInv /\ UNCHANGED <<cuts, tmp, subs, vec_size>>
      /\ pc' # "opentmp" /\ FollowInv
  BY DEF RecvSub, recorderVars, IFollow, Wait, Answer, Deliver, ReadStep
<1>2. /\ out.rc = "none" /\ read_file = 0 /\ vector \in Seq(Slot)
      /\ \A t \in Topics : tmp'[t] # "empty"
  <2>1. StepInv
    BY <1>1, InCall DEF HandleInv
  <2> QED
    BY <1>1, <2>1, InCall DEF StepInv, FollowInv
<1>3. CASE queue = <<>>
  <2>1. UNCHANGED <<vector, read_file>> /\ out'.rc # "EPROTO"
    BY <1>2, <1>3 DEF RecvSub, Wait, Answer
  <2> QED
    BY <1>1, <1>2, <2>1, FollowKept
<1>4. CASE queue # <<>>
  <2> DEFINE m == Head(queue)
             i == Find(m.topic)
  <2>1. \/ Deliver(m) /\ UNCHANGED <<vector, read_file>>
        \/ SlotsOf(m.topic) = {}
        \/ /\ SlotsOf(m.topic) # {} /\ vector[i].fseq # -1
           /\ read_file' = i
           /\ vector' = [vector EXCEPT ![i].fseq = 0]
           /\ pc' = ReadStep(i)
           /\ UNCHANGED out
    BY <1>4 DEF RecvSub
  <2>2. m.topic \in Topics /\ subs[m.topic] > 0
    <3>1. queue \in Seq(Msg) /\ QueueInv /\ \A k \in 1 .. Len(queue) : queue[k].topic \in Topics
      BY <1>1, InCall DEF HandleInv
    <3>2. 1 \in 1 .. Len(queue) /\ m = queue[1]
      BY <1>4, <3>1, EmptySeq, HeadTailProperties, LenProperties
    <3> QED
      BY <3>1, <3>2 DEF QueueInv
  <2>3. /\ SlotsOf(m.topic) # {} /\ i \in 1 .. Len(vector) /\ vector[i] \in Slot
        /\ vector[i].topic = m.topic
    BY <1>1, <2>2, FoundSlot
  <2>4. CASE Deliver(m) /\ UNCHANGED <<vector, read_file>>
    <3>1. out'.rc # "EPROTO"
      BY <2>4 DEF Deliver
    <3> QED
      BY <1>1, <1>2, <2>4, <3>1, FollowKept
  <2>5. CASE /\ vector[i].fseq # -1
             /\ read_file' = i
             /\ vector' = [vector EXCEPT ![i].fseq = 0]
             /\ pc' = ReadStep(i)
             /\ UNCHANGED out
    <3> DEFINE s == [vector[i] EXCEPT !.fseq = 0]
    <3>1. /\ s.topic = m.topic /\ s.dseq = vector[i].dseq /\ s.fseq = 0
          /\ s.file = vector[i].file
          /\ vector' = [vector EXCEPT ![i] = s]
      BY <2>3, <2>5 DEF Slot
    <3>2. vector[i].dseq = 0 /\ vector[i].file = NoFile
      <4>1. vector[i] \in Unfinished
        BY <2>2, <2>3, <2>5, BlankSlot DEF Unfinished
      <4>2. i # read_file
        BY <1>2, <2>3
      <4> QED
        BY <1>1, <2>3, <4>1, <4>2 DEF FollowInv
    <3>3. InPlace(s, pc')
      <4>1. Len(cuts[m.topic]) \in Nat
        BY <1>1, <2>2, LenProperties DEF IInv, TypeOK
      <4> HIDE DEF s
      <4> QED
        BY <1>1, <3>1, <3>2, <4>1 DEF InPlace, Base
    <3>4. out'.rc # "EPROTO"
      BY <1>2, <2>5
    <3> HIDE DEF s, i
    <3> QED
      BY <1>1, <1>2, <2>3, <2>5, <3>1, <3>3, <3>4, SlotFollows
  <2> QED
    BY <2>1, <2>3, <2>4, <2>5
<1> QED
  BY <1>3, <1>4

LEMMA OpenSeqFileFollows ==
  ASSUME IFollow, OpenSeqFile
  PROVE  FollowInv'
<1> DEFINE s == vector[read_file]
           t == s.topic
<1>1. /\ pc = "open" /\ pc # "idle" /\ IInv /\ UNCHANGED <<cuts, tmp, vec_size, read_file>>
      /\ FollowInv /\ \A u \in Topics : tmp'[u] # "empty"
  BY DEF OpenSeqFile, recorderVars, IFollow, FollowInv
<1>2. /\ out.rc = "none" /\ read_file > 0 /\ s.file = NoFile /\ vector \in Seq(Slot)
  BY <1>1, InCall DEF HandleInv, StepInv
<1>3. /\ t \in Topics /\ t # NoTopic /\ s.fseq \in Nat /\ read_file \in 1 .. Len(vector)
      /\ s \in Slot
  BY <1>1, <1>2, KeptSlot
<1>4. Len(cuts[t]) \in Nat /\ s.fseq <= Len(cuts[t]) /\ s.dseq = Base(t, s.fseq)
  <2>1. Len(cuts[t]) \in Nat
    BY <1>1, <1>3, LenProperties DEF IInv, TypeOK
  <2> QED
    BY <1>1, <1>2, <2>1 DEF FollowInv, InPlace
<1>5. CASE Answer("EINVAL") /\ UNCHANGED vector
  BY <1>1, <1>5, FollowKept DEF Answer
<1>6. CASE s.fseq < Len(cuts[t]) /\ Opened(read_file, s.fseq, TRUE, NextFile(s.fseq))
  <2> DEFINE f == [no |-> s.fseq, at |-> Base(t, s.fseq), closed |-> TRUE]
             r == [s EXCEPT !.file = f, !.fseq = s.fseq + 1]
  <2>1. /\ vector' = [vector EXCEPT ![read_file] = r] /\ out' = out
    BY <1>6 DEF Opened, NextFile
  <2>2. r.topic = t /\ r.file = f /\ r.fseq = s.fseq + 1 /\ r.dseq = s.dseq
    <3> HIDE DEF f
    <3> QED
      BY <1>3 DEF Slot
  <2>3. f.no = s.fseq /\ f.at = Base(t, s.fseq) /\ f.closed = TRUE /\ f # NoFile
    <3>1. f.no # NoFile.no
      BY <1>3 DEF NoFile
    <3> QED
      BY <3>1
  <2> HIDE DEF r, f, s
  <2>4. InPlace(r, pc')
    BY <1>3, <1>4, <1>6, <2>2, <2>3 DEF InPlace
  <2> QED
    BY <1>1, <1>2, <1>3, <2>1, <2>4, SlotFollows
<1>7. CASE /\ ~(s.fseq < Len(cuts[t])) /\ UNCHANGED <<vector, out>>
  BY <1>1, <1>2, <1>3, <1>4, <1>7, FollowKept
<1> QED
  BY <1>3, <1>5, <1>6, <1>7 DEF OpenSeqFile

LEMMA OpenTmpFileFollows ==
  ASSUME IFollow, OpenTmpFile
  PROVE  FollowInv'
<1> DEFINE s == vector[read_file]
           t == s.topic
<1>1. /\ pc = "opentmp" /\ pc # "idle" /\ IInv /\ UNCHANGED <<cuts, tmp, vec_size, read_file>>
      /\ FollowInv /\ \A u \in Topics : tmp[u] # "empty" /\ tmp'[u] # "empty"
  BY DEF OpenTmpFile, recorderVars, IFollow, FollowInv
<1>2. /\ out.rc = "none" /\ read_file > 0 /\ s.file = NoFile /\ vector \in Seq(Slot)
  BY <1>1, InCall DEF HandleInv, StepInv
<1>3. /\ t \in Topics /\ s.fseq \in Nat /\ read_file \in 1 .. Len(vector) /\ s \in Slot
  BY <1>1, <1>2, KeptSlot
<1>4. s.fseq = Len(cuts[t]) /\ s.dseq = Base(t, s.fseq)
  BY <1>1, <1>2 DEF FollowInv, InPlace
<1>5. CASE Opened(read_file, Len(cuts[t]), FALSE, s.fseq)
  <2> DEFINE n == Len(cuts[t])
             f == [no |-> n, at |-> Base(t, n), closed |-> FALSE]
             r == [s EXCEPT !.file = f, !.fseq = s.fseq]
  <2>1. /\ vector' = [vector EXCEPT ![read_file] = r] /\ out' = out
    BY <1>5 DEF Opened
  <2>2. r.topic = t /\ r.file = f /\ r.fseq = s.fseq /\ r.dseq = s.dseq
    <3> HIDE DEF f
    <3> QED
      BY <1>3 DEF Slot
  <2>3. f.no = n /\ f.at = Base(t, n) /\ f.closed = FALSE /\ f # NoFile
    <3>1. n \in Nat
      BY <1>3, <1>4
    <3>2. f.no # NoFile.no
      <4> HIDE DEF n
      <4> QED
        BY <3>1 DEF NoFile
    <3> QED
      BY <3>2
  <2> HIDE DEF r, f, s
  <2>4. InPlace(r, pc')
    BY <1>3, <1>4, <2>2, <2>3 DEF InPlace
  <2> QED
    BY <1>1, <1>2, <1>3, <2>1, <2>4, SlotFollows
<1>6. CASE UNCHANGED vector /\ (Wait(left, "open") \/ Answer("ETIMEDOUT"))
  <2>1. out'.rc # "EPROTO"
    BY <1>2, <1>6 DEF Wait, Answer
  <2> QED
    BY <1>1, <1>4, <1>6, <2>1, FollowKept
<1>7. \/ Opened(read_file, Len(cuts[t]), FALSE, s.fseq)
      \/ UNCHANGED vector /\ (Wait(left, "open") \/ Answer("ETIMEDOUT"))
  BY <1>1, <1>3 DEF OpenTmpFile
<1> QED
  BY <1>5, <1>6, <1>7

LEMMA ReadFileFollows ==
  ASSUME Beats = {}, IFollow, ReadFile
  PROVE  FollowInv'
<1> DEFINE s == vector[read_file]
           t == s.topic
           f == s.file
           n == f.at + 1
<1>1. /\ pc = "read" /\ pc # "idle" /\ IInv /\ UNCHANGED <<cuts, tmp, vec_size>>
      /\ FollowInv /\ \A u \in Topics : tmp'[u] # "empty"
  BY DEF ReadFile, recorderVars, IFollow, FollowInv
<1>2. /\ out.rc = "none" /\ read_file > 0 /\ f # NoFile /\ vector \in Seq(Slot)
  BY <1>1, InCall DEF HandleInv, StepInv
<1>3. /\ t \in Topics /\ s.fseq \in Nat /\ s.dseq \in Nat /\ read_file \in 1 .. Len(vector)
      /\ s \in Slot /\ data.seq \in Nat /\ s.dseq < data.seq
  BY <1>1, <1>2, KeptSlot
<1>4. f \in [no : Nat, at : Nat, closed : BOOLEAN] /\ n \in Nat
  BY <1>2, <1>3 DEF Slot
<1>5. /\ s.dseq = f.at
      /\ IF f.closed THEN s.fseq = f.no + 1 /\ s.fseq <= Len(cuts[t])
         ELSE f.no = Len(cuts[t])
  BY <1>1, <1>2 DEF FollowInv, InPlace
<1>6. Len(cuts[t]) \in Nat
  BY <1>1, <1>3, LenProperties DEF IInv, TypeOK
<1>7. \A m : HandOut(m) => out'.rc # "EPROTO"
  BY DEF HandOut, Deliver
<1>8. Follows(s, n) /\ n <= data.seq
  BY <1>3, <1>4, <1>5 DEF Follows
<1>9. CASE /\ vector' = [vector EXCEPT ![read_file].file.at = n, ![read_file].dseq = n]
           /\ HandOut([topic |-> t, seq |-> n])
           /\ UNCHANGED read_file
  <2> DEFINE r == [s EXCEPT !.file.at = n, !.dseq = n]
  <2>1. /\ r.topic = t /\ r.dseq = n /\ r.fseq = s.fseq
        /\ r.file = [f EXCEPT !.at = n]
        /\ vector' = [vector EXCEPT ![read_file] = r]
    BY <1>3, <1>9 DEF Slot
  <2>2. r.file.at = n /\ r.file.no = f.no /\ r.file.closed = f.closed /\ r.file # NoFile
    <3>1. r.file.at = n /\ r.file.no = f.no /\ r.file.closed = f.closed
      <4> HIDE DEF r, n, f
      <4> QED
        BY <1>4, <2>1
    <3>2. f.no # NoFile.no
      BY <1>4 DEF NoFile
    <3> QED
      BY <3>1, <3>2
  <2>3. out'.rc # "EPROTO"
    BY <1>7, <1>9
  <2> HIDE DEF r, n, f, s
  <2>4. InPlace(r, pc')
    BY <1>5, <2>1, <2>2 DEF InPlace
  <2> QED
    BY <1>1, <1>2, <1>3, <1>9, <2>1, <2>3, <2>4, SlotFollows
<1>10. CASE /\ vector' = [vector EXCEPT ![read_file].file = NoFile, ![read_file].fseq = -1,
                                        ![read_file].dseq = n]
            /\ read_file' = 0
            /\ HandOut(data)
  <2> DEFINE r == [s EXCEPT !.file = NoFile, !.fseq = -1, !.dseq = n]
  <2>1. /\ r \notin Unfinished
        /\ vector' = [vector EXCEPT ![read_file] = r]
    BY <1>3, <1>10 DEF Slot, Unfinished
  <2>2. out'.rc # "EPROTO"
    BY <1>7, <1>10
  <2> HIDE DEF r, n, f, s
  <2> QED
    BY <1>1, <1>2, <1>3, <1>10, <2>1, <2>2, SlotFollows
<1>11. CASE /\ f.at = FileEnd(t, f.no) /\ (f.closed \/ f.no < Len(cuts[t]))
            /\ vector' = [vector EXCEPT ![read_file].file = NoFile]
            /\ pc' = "open"
            /\ UNCHANGED <<read_file, out>>
  <2> DEFINE r == [s EXCEPT !.file = NoFile]
  <2>1. /\ r.topic = t /\ r.dseq = s.dseq /\ r.fseq = s.fseq /\ r.file = NoFile
        /\ vector' = [vector EXCEPT ![read_file] = r]
    BY <1>3, <1>11 DEF Slot
  <2>2. f.closed /\ s.fseq = f.no + 1 /\ s.fseq <= Len(cuts[t]) /\ f.no < Len(cuts[t])
    BY <1>4, <1>5, <1>6, <1>11
  <2>3. s.dseq = Base(t, s.fseq)
    BY <1>4, <1>5, <1>11, <2>2 DEF FileEnd, Base
  <2> HIDE DEF r, n, f, s
  <2>4. InPlace(r, pc')
    BY <1>11, <2>1, <2>2, <2>3 DEF InPlace
  <2> QED
    BY <1>1, <1>2, <1>3, <1>11, <2>1, <2>4, SlotFollows
<1>12. CASE Wait(left, "read") /\ UNCHANGED <<vector, read_file>>
  <2>1. out'.rc # "EPROTO" /\ pc' # "opentmp"
    BY <1>2, <1>12 DEF Wait, Answer
  <2> QED
    BY <1>1, <1>12, <2>1, FollowKept
<1>13. CASE FromFile(read_file, n)
  <2>1. ~(~Follows(s, n) \/ (n > data.seq /\ ~(\E b \in Beats : b[1] = t)))
    BY <1>3, <1>4, <1>8
  <2>2. CASE ~Reaches(n)
    BY <1>9, <1>13, <2>1, <2>2, Zenon DEF FromFile
  <2>3. CASE Reaches(n)
    BY <1>10, <1>13, <2>1, <2>3, Zenon DEF FromFile
  <2> QED
    BY <2>2, <2>3
<1> QED
  BY <1>11, <1>12, <1>13 DEF ReadFile

(* fsub.c:361, "subscriptions are sent first, this cannot happen": however *)
(* the recorder and the subscription interleave, and whatever is lost on   *)
(* the way, each message read is the one that follows and none is beyond   *)
(* the kept one, as long as nothing is cancelled and the recorder leaves   *)
(* alone the file that is read.                                            *)
THEOREM FilesFollow ==
  ASSUME Beats = {}, Steady
  PROVE  Spec => []NoProtoError
<1>1. Init => IFollow
  BY InitFollow
<1>2. ASSUME IFollow, [Next]_vars
      PROVE  IFollow'
  <2>1. FollowInv'
    <3>1. CASE UNCHANGED vars
      BY <1>2, <3>1, FollowKept DEF IFollow, FollowInv, InPlace, vars, recorderVars, vectorVars,
                                    callVars
    <3>2. ASSUME NEW t \in Topics, Publish(t) \/ Recorder(t) \/ Rotate(t)
          PROVE  FollowInv'
      BY <1>2, <3>2, RecorderFollows
    <3>3. ASSUME NEW t \in Topics, Req(t)
          PROVE  FollowInv'
      BY <1>2, <3>3, ReqFollows
    <3>4. \A t \in Topics : ~Cancel(t)
      BY DEF Cancel, Steady
    <3>5. ASSUME NEW timeout \in Timeouts, CallRecv(timeout)
          PROVE  FollowInv'
      BY <1>2, <3>5, CallRecvFollows
    <3>6. CASE Reopen
      BY <1>2, <3>6, ReopenFollows
    <3>7. CASE Handle
      <4>1. ~RecvFails
        BY DEF RecvFails, Steady
      <4> QED
        BY <1>2, <3>7, <4>1, RecvSubFollows, OpenSeqFileFollows, OpenTmpFileFollows,
           ReadFileFollows DEF Handle
    <3> QED
      BY <1>2, <3>1, <3>2, <3>3, <3>4, <3>5, <3>6, <3>7 DEF Next
  <2>2. IInv'
    BY <1>2, NextKeepsIt DEF IFollow
  <2> QED
    BY <2>1, <2>2 DEF IFollow
<1>3. IFollow => NoProtoError
  BY DEF IFollow, FollowInv, NoProtoError
<1> QED
  BY <1>1, <1>2, <1>3, PTL DEF Spec
=============================================================================
