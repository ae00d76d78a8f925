--------------------------- MODULE MdsFileProofs ---------------------------
(***************************************************************************)
(* Theorems about MdsFile, for every number and size of batches, every     *)
(* timeout, fault, failing call and use of the handle.                     *)
(***************************************************************************)
EXTENDS MdsFile, SequenceTheorems, TLAPS

(* The inductive invariant, in parts.                                      *)

(* The batches lie one behind the other, numbered on, and the file ends    *)
(* somewhere in the last of them.                                          *)
FileOK ==
  /\ \A k \in 1 .. Len(batches) :
       /\ batches[k].at = StartAt(k)
       /\ batches[k].first = FirstAt(k) /\ batches[k].first >= 1
  /\ \A i, j \in 1 .. Len(batches) : i < j =>
       /\ EndOf(batches[i]) <= batches[j].at
       /\ batches[i].first + batches[i].nr <= batches[j].first
  /\ size <= FileEnd
  /\ batches # <<>> => StartAt(Len(batches)) <= size

(* A handle is told that its file is closed only when the file was renamed *)
(* and the calls of a handle need it to be open.                           *)
HandleOK ==
  /\ pc # "idle" => open
  /\ open /\ closed => renamed
  /\ pc = "poll" => op = "read"
  /\ open => 1 <= offset

(* What is buffered is counted, and a batch is read into an empty buffer.  *)
QueueOK ==
  /\ Len(queue) <= nr_msg
  /\ \/ pc \in {"head", "segs", "body", "poll"}
     \/ pc = "result" /\ (op = "lseek" \/ rc # "more")
     => queue = <<>>

(* Where the fd is inside a batch.                                         *)
BatchOK ==
  /\ open => pos <= size
  /\ pc \in {"segs", "body"} =>
       /\ bh \in 1 .. Len(batches)
       /\ batches[bh].at = offset
       /\ batches[bh].nr > 0
  /\ pc = "segs" => pos = offset + 2 /\ seg = 0
  /\ pc = "body" =>
       LET full == offset + 2 + batches[bh].nr + 2 * seg IN
       /\ seg < batches[bh].nr
       /\ offset + 2 + batches[bh].nr <= pos
       /\ pos <= full
       /\ closed => pos = full \/ pos = size
       /\ op = "lseek" => seg = 0

(* What a result says of the file: a closed file cannot change under it.   *)
FaultHere  == \E i \in 1 .. Len(batches) : batches[i].at = offset /\ batches[i].fault # "none"
TornHere   == renamed /\ offset < size /\ size < FileEnd

(* A handle that went astray over a wrong length stands inside of a batch. *)
NoBatchHere == \A i \in 1 .. Len(batches) : batches[i].at # offset
StrayHere   == WrongBefore(offset) /\ offset < size /\ NoBatchHere

ResultOK ==
  pc = "result" =>
    /\ rc = "eob" /\ closed => offset = size
    /\ rc = "EAGAIN" /\ closed /\ op = "read" => TornHere \/ StrayHere
    /\ rc = "EPROTO" => FaultHere \/ StrayHere

(* The answer of the last call stands until the next one.                  *)
ReturnOK ==
  /\ ret # "none" => pc = "idle"
  /\ ret \in {"eof", "EPROTO"} => open

IInv ==
  /\ TypeOK /\ FileOK /\ HandleOK /\ QueueOK /\ BatchOK /\ ResultOK /\ ReturnOK
  /\ BufferIsNext /\ FdAtBatch /\ EofComplete /\ NoFalseAlarm

-----------------------------------------------------------------------------
(* Facts about the layout. *)

LEMMA LenType ==
  TypeOK => Len(batches) \in Nat /\ Len(queue) \in Nat
  BY LenProperties DEF TypeOK

LEMMA BatchType ==
  ASSUME TypeOK, NEW i \in 1 .. Len(batches)
  PROVE  /\ batches[i] \in Batch
         /\ batches[i].at \in Nat /\ batches[i].first \in Nat
         /\ batches[i].nr \in Nat
         /\ EndOf(batches[i]) = batches[i].at + 2 + 3 * batches[i].nr
         /\ EndOf(batches[i]) \in Nat
         /\ batches[i].at + 2 <= EndOf(batches[i])
<1>1. batches \in Seq(Batch)
  BY DEF TypeOK
<1>2. batches[i] \in Batch
  BY <1>1, ElementOfSeq
<1>3. batches[i].at \in Nat /\ batches[i].first \in Nat /\ batches[i].nr \in Nat
  BY <1>2 DEF Batch
<1> QED
  BY <1>2, <1>3 DEF SizeOf, EndOf

LEMMA StartType ==
  ASSUME TypeOK, NEW k \in 1 .. Len(batches) + 1
  PROVE  StartAt(k) \in Nat /\ StartAt(k) >= 1 /\ FirstAt(k) \in Nat
<1>1. k = 1 \/ k - 1 \in 1 .. Len(batches)
  BY LenType
<1> QED
  BY <1>1, BatchType, SMTT(40) DEF StartAt, FirstAt

LEMMA FirstPositive ==
  ASSUME TypeOK, FileOK, NEW k \in 1 .. Len(batches) + 1
  PROVE  FirstAt(k) >= 1
<1>1. k = 1 \/ k - 1 \in 1 .. Len(batches)
  BY LenType
<1>2. CASE k = 1
  BY <1>2 DEF FirstAt
<1>3. CASE k # 1 /\ k - 1 \in 1 .. Len(batches)
  <2>1. batches[k - 1].first >= 1 /\ batches[k - 1].first \in Nat /\ batches[k - 1].nr \in Nat
    BY <1>3, BatchType DEF FileOK
  <2> QED
    BY <1>3, <2>1 DEF FirstAt
<1> QED
  BY <1>1, <1>2, <1>3

LEMMA WholeType ==
  ASSUME TypeOK
  PROVE  Whole \in Nat /\ Whole <= Len(batches) /\ Whole + 1 >= Len(batches)
<1>1. batches # <<>> => Len(batches) # 0
  BY EmptySeq DEF TypeOK
<1> QED
  BY <1>1, LenType DEF Whole

LEMMA RecordedType ==
  ASSUME TypeOK, FileOK
  PROVE  Recorded \in Nat
<1>1. Whole + 1 \in 1 .. Len(batches) + 1
  BY WholeType, LenType
<1>2. FirstAt(Whole + 1) \in Nat /\ FirstAt(Whole + 1) >= 1
  BY <1>1, StartType, FirstPositive
<1> QED
  BY <1>2 DEF Recorded

(* A batch ends where the next one starts.                                 *)
LEMMA NextStart ==
  ASSUME TypeOK, NEW i \in 1 .. Len(batches)
  PROVE  /\ i + 1 \in 1 .. Len(batches) + 1
         /\ StartAt(i + 1) = EndOf(batches[i])
         /\ FirstAt(i + 1) = batches[i].first + batches[i].nr
  BY LenType DEF StartAt, FirstAt

LEMMA EndsInFile ==
  ASSUME TypeOK, FileOK, NEW i \in 1 .. Len(batches)
  PROVE  EndOf(batches[i]) <= FileEnd
<1>1. Len(batches) \in 1 .. Len(batches)
  BY LenType
<1>2. FileEnd = EndOf(batches[Len(batches)])
  BY <1>1, NextStart DEF FileEnd
<1>3. CASE i = Len(batches)
  BY <1>2, <1>3, BatchType
<1>4. CASE i < Len(batches)
  <2>1. EndOf(batches[i]) <= batches[Len(batches)].at
    BY <1>1, <1>4 DEF FileOK
  <2> QED
    BY <1>1, <1>2, <2>1, BatchType
<1> QED
  BY <1>3, <1>4, LenType

(* A batch that starts in the k-th batch is the k-th batch.                *)
LEMMA InBatchUnique ==
  ASSUME TypeOK, FileOK,
         NEW k \in 1 .. Len(batches) + 1, NEW i \in 1 .. Len(batches),
         InBatch(k, batches[i].at)
  PROVE  i = k
<1>1. StartAt(k) <= batches[i].at /\ StartAt(k) \in Nat
  BY StartType DEF InBatch
<1>2. CASE k = Len(batches) + 1
  <2>1. EndOf(batches[i]) <= StartAt(k)
    BY <1>2, EndsInFile DEF FileEnd
  <2> QED
    BY <1>1, <2>1, BatchType
<1>3. CASE k \in 1 .. Len(batches)
  <2>1. batches[k].at <= batches[i].at /\ batches[i].at < EndOf(batches[k])
    BY <1>1, <1>3, LenType DEF FileOK, InBatch
  <2>2. ~(i < k)
    BY <1>3, <2>1, BatchType DEF FileOK
  <2>3. ~(k < i)
    BY <1>3, <2>1, BatchType DEF FileOK
  <2> QED
    BY <2>2, <2>3, <1>3
<1> QED
  BY <1>2, <1>3, LenType

(* A handle that stays where it is in its file keeps what it holds, also   *)
(* when messages go from the buffer to the application.                    *)
LEMMA BufferShifted ==
  ASSUME BufferIsNext, UNCHANGED <<batches, size, open, offset>>,
         consumed' + Len(queue') = consumed + Len(queue),
         \A i \in 1 .. Len(queue') : queue'[i] = consumed' + i
  PROVE  BufferIsNext'
  BY DEF BufferIsNext, InBatch, WrongBefore, StartAt, FirstAt, EndOf, SizeOf

LEMMA BufferSame ==
  ASSUME BufferIsNext, UNCHANGED <<batches, size, open, offset, consumed, queue>>
  PROVE  BufferIsNext'
  BY BufferShifted DEF BufferIsNext

-----------------------------------------------------------------------------
(* The recorder. *)

(* A new batch leaves the ones before it, and where they start, alone.     *)
LEMMA BeginBatchFile ==
  ASSUME TypeOK, FileOK, NEW n \in Nat, NEW f \in Faults \cup {"none"}, BeginBatch(n, f)
  PROVE  /\ Len(batches') = Len(batches) + 1
         /\ \A i \in 1 .. Len(batches) : batches'[i] = batches[i]
         /\ \A k \in 1 .. Len(batches) + 1 : StartAt(k)' = StartAt(k) /\ FirstAt(k)' = FirstAt(k)
         /\ batches'[Len(batches) + 1].at = FileEnd /\ batches'[Len(batches) + 1].nr = n
         /\ batches' \in Seq(Batch)
         /\ FileOK'
<1> DEFINE new == [at |-> size, first |-> FirstAt(Len(batches) + 1), nr |-> n, fault |-> f]
<1>1. Len(batches) + 1 \in 1 .. Len(batches) + 1
  BY LenType
<1>2. new \in Batch
  BY <1>1, StartType DEF Batch, TypeOK
<1>3. batches' = Append(batches, new) /\ size' = size /\ size = FileEnd
  BY DEF BeginBatch
<1>4. /\ Len(batches') = Len(batches) + 1
      /\ batches' \in Seq(Batch)
      /\ \A i \in 1 .. Len(batches) : batches'[i] = batches[i]
      /\ batches'[Len(batches) + 1] = new
  BY <1>2, <1>3, AppendProperties DEF TypeOK
<1>5. \A k \in 1 .. Len(batches) + 1 : StartAt(k)' = StartAt(k) /\ FirstAt(k)' = FirstAt(k)
  <2> TAKE k \in 1 .. Len(batches) + 1
  <2>1. k = 1 \/ k - 1 \in 1 .. Len(batches)
    BY LenType
  <2> QED
    BY <2>1, <1>4 DEF StartAt, FirstAt, EndOf, SizeOf
<1>6. FileOK'
  <2>1. \A k \in 1 .. Len(batches') :
          /\ batches'[k].at = StartAt(k)'
          /\ batches'[k].first = FirstAt(k)' /\ batches'[k].first >= 1
    <3> TAKE k \in 1 .. Len(batches')
    <3>1. CASE k \in 1 .. Len(batches)
      BY <3>1, <1>4, <1>5 DEF FileOK
    <3>2. CASE k = Len(batches) + 1
      BY <3>2, <1>1, <1>3, <1>4, <1>5, FirstPositive DEF FileEnd
    <3> QED
      BY <3>1, <3>2, <1>4, LenType
  <2>2. \A i, j \in 1 .. Len(batches') : i < j =>
          /\ EndOf(batches'[i]) <= batches'[j].at
          /\ batches'[i].first + batches'[i].nr <= batches'[j].first
    <3> SUFFICES ASSUME NEW i \in 1 .. Len(batches'), NEW j \in 1 .. Len(batches'), i < j
                 PROVE  /\ EndOf(batches'[i]) <= batches'[j].at
                        /\ batches'[i].first + batches'[i].nr <= batches'[j].first
      OBVIOUS
    <3>1. i \in 1 .. Len(batches)
      BY <1>4, LenType
    <3>2. CASE j \in 1 .. Len(batches)
      BY <3>1, <3>2, <1>4 DEF FileOK, EndOf, SizeOf
    <3>3. CASE j = Len(batches) + 1
      <4>1. EndOf(batches[i]) <= FileEnd
        BY <3>1, EndsInFile
      <4>2. batches[i].first + batches[i].nr <= FirstAt(Len(batches) + 1)
        <5>1. Len(batches) \in 1 .. Len(batches)
          BY <3>1, LenType
        <5>2. FirstAt(Len(batches) + 1) = batches[Len(batches)].first + batches[Len(batches)].nr
          BY <5>1, NextStart
        <5>3. CASE i = Len(batches)
          BY <5>2, <5>3, <5>1, BatchType
        <5>4. CASE i < Len(batches)
          <6>1. batches[i].first + batches[i].nr <= batches[Len(batches)].first
            BY <3>1, <5>1, <5>4 DEF FileOK
          <6>2. /\ batches[Len(batches)].first \in Nat /\ batches[Len(batches)].nr \in Nat
                /\ batches[i].first \in Nat /\ batches[i].nr \in Nat
            BY <5>1, <3>1, BatchType
          <6> QED
            BY <6>1, <6>2, <5>2, SMTT(40)
        <5> QED
          BY <3>1, <5>3, <5>4, LenType
      <4> QED
        BY <3>1, <3>3, <4>1, <4>2, <1>3, <1>4 DEF EndOf, SizeOf
    <3> QED
      BY <3>2, <3>3, <1>4, LenType
  <2> PICK L \in Nat : L = Len(batches)
    BY LenType
  <2>3. size' <= FileEnd'
    <3>1. batches'[L + 1].at = size /\ batches'[L + 1].nr = n
      BY <1>4, <1>3
    <3>2. StartAt(L + 2)' = size + 2 + 3 * n
      <4>1. L + 2 # 1 /\ L + 2 - 1 = L + 1
        OBVIOUS
      <4>2. StartAt(L + 2)' = EndOf(batches'[L + 1])
        BY <4>1 DEF StartAt, EndOf, SizeOf
      <4>3. size \in Nat
        BY DEF TypeOK
      <4> QED
        BY <3>1, <4>2, <4>3 DEF EndOf, SizeOf
    <3>3. FileEnd' = StartAt(L + 2)'
      BY <1>4 DEF FileEnd
    <3> QED
      BY <3>2, <3>3, <1>3 DEF TypeOK
  <2>4. StartAt(Len(batches))' <= size'
    <3>1. StartAt(L + 1)' = size
      BY <1>3, <1>5 DEF FileEnd
    <3>2. StartAt(Len(batches))' = StartAt(L + 1)'
      BY <1>4
    <3> QED
      BY <3>1, <3>2, <1>3 DEF TypeOK
  <2> QED
    BY <2>1, <2>2, <2>3, <2>4 DEF FileOK
<1> QED
  BY <1>3, <1>4, <1>5, <1>6

LEMMA BeginBatchKeeps ==
  ASSUME IInv, NEW n \in Nat, NEW f \in Faults \cup {"none"}, BeginBatch(n, f)
  PROVE  IInv'
<1> USE DEF IInv
<1>1. /\ ~renamed /\ size' = size
      /\ UNCHANGED <<renamed, newSize, streamVars, callVars, consumed, mark>>
  BY DEF BeginBatch
<1>2. /\ Len(batches') = Len(batches) + 1
      /\ \A i \in 1 .. Len(batches) : batches'[i] = batches[i]
      /\ \A k \in 1 .. Len(batches) + 1 : StartAt(k)' = StartAt(k) /\ FirstAt(k)' = FirstAt(k)
      /\ batches' \in Seq(Batch)
      /\ FileOK'
  BY BeginBatchFile
<1>3. TypeOK'
  BY <1>1, <1>2 DEF TypeOK, streamVars, callVars
<1>4. HandleOK' /\ QueueOK' /\ ReturnOK' /\ FdAtBatch'
  BY <1>1 DEF HandleOK, QueueOK, ReturnOK, FdAtBatch, streamVars, callVars
<1>5. BatchOK'
  BY <1>1, <1>2, LenType DEF BatchOK, streamVars, callVars
<1>6. /\ WrongBefore(offset) => WrongBefore(offset)'
      /\ NoBatchHere /\ offset < size => NoBatchHere'
  <2>1. DOMAIN batches = 1 .. Len(batches) /\ DOMAIN batches' = 1 .. Len(batches) + 1
    BY <1>2, LenProperties DEF TypeOK
  <2>2. offset' = offset /\ batches'[Len(batches) + 1].at = size
    BY <1>1, BeginBatchFile DEF BeginBatch, streamVars
  <2>3. WrongBefore(offset) => WrongBefore(offset)'
    BY <1>2, <2>1, <2>2, LenType DEF WrongBefore
  <2>4. ASSUME NoBatchHere, offset < size PROVE NoBatchHere'
    <3>1. size # offset
      BY <2>4 DEF TypeOK
    <3> QED
      BY <1>2, <2>2, <2>4, <3>1, LenType DEF NoBatchHere
  <2> QED
    BY <2>3, <2>4
<1>7. ResultOK'
  BY <1>1, <1>2, <1>6, LenType DEF ResultOK, HandleOK, FaultHere, StrayHere, streamVars, callVars
<1>8. BufferIsNext'
  <2>1. ASSUME open
        PROVE  \E k \in 1 .. Len(batches') + 1 :
                 /\ InBatch(k, offset)'
                 /\ offset = StartAt(k)' \/ WrongBefore(offset)'
                 /\ consumed + Len(queue) + 1 = FirstAt(k)'
    <3>1. PICK k \in 1 .. Len(batches) + 1 :
            /\ InBatch(k, offset)
            /\ offset = StartAt(k) \/ WrongBefore(offset)
            /\ consumed + Len(queue) + 1 = FirstAt(k)
      BY <2>1 DEF BufferIsNext
    <3>2. /\ k \in 1 .. Len(batches') + 1
          /\ offset = StartAt(k)' \/ WrongBefore(offset)'
          /\ consumed + Len(queue) + 1 = FirstAt(k)'
      BY <1>2, <1>6, <3>1, LenType
    <3>3. StartAt(k)' <= offset
      BY <1>2, <3>1 DEF InBatch
    <3>4. k <= Len(batches') => offset < EndOf(batches'[k])
      <4>1. CASE k \in 1 .. Len(batches)
        BY <1>2, <3>1, <4>1, LenType DEF InBatch
      <4>2. CASE k = Len(batches) + 1
        <5>1. batches'[k].at = size /\ batches'[k].nr = n
          BY <4>2, BeginBatchFile, <1>1 DEF BeginBatch
        <5>2. offset <= size /\ size \in Nat /\ offset \in Nat
          BY <2>1 DEF BufferIsNext, TypeOK
        <5> HIDE DEF IInv
        <5> QED
          BY <5>1, <5>2 DEF EndOf, SizeOf
      <4> QED
        BY <4>1, <4>2, LenType
    <3> QED
      BY <1>1, <3>2, <3>3, <3>4 DEF InBatch, EndOf, SizeOf, streamVars
  <2> QED
    BY <1>1, <2>1 DEF BufferIsNext, InBatch, EndOf, SizeOf, streamVars
<1>9. EofComplete'
  BY <1>1 DEF EofComplete, callVars
<1>10. NoFalseAlarm'
  <2>1. DOMAIN batches = 1 .. Len(batches) /\ DOMAIN batches' = 1 .. Len(batches) + 1
    BY <1>2, LenProperties DEF TypeOK
  <2>2. ret' = ret /\ offset' = offset /\ size' = size
    BY <1>1 DEF callVars, streamVars
  <2>3. CASE ret = "EPROTO" /\ FaultHere
    BY <1>2, <2>1, <2>2, <2>3, LenType DEF NoFalseAlarm, FaultHere
  <2>4. CASE ret = "EPROTO" /\ StrayHere
    BY <1>6, <2>1, <2>2, <2>4, <1>2 DEF NoFalseAlarm, StrayHere, NoBatchHere
  <2>5. ret = "EPROTO" => FaultHere \/ StrayHere
    BY <1>1, <2>1 DEF NoFalseAlarm, FaultHere, StrayHere, NoBatchHere
  <2> QED
    BY <2>2, <2>3, <2>4, <2>5 DEF NoFalseAlarm
<1> QED
  BY <1>2, <1>3, <1>4, <1>5, <1>7, <1>8, <1>9, <1>10

LEMMA WriteUnitKeeps ==
  ASSUME IInv, WriteUnit
  PROVE  IInv'
<1> USE DEF IInv
<1>1. /\ ~renamed /\ size' = size + 1 /\ size < FileEnd /\ size \in Nat
      /\ UNCHANGED <<batches, renamed, newSize, streamVars, callVars, consumed, mark>>
  BY DEF WriteUnit, TypeOK
<1>2. TypeOK'
  BY <1>1 DEF TypeOK, streamVars, callVars
<1>3. FileOK'
  <2>1. FileEnd \in Nat /\ FileEnd' = FileEnd
    BY <1>1, StartType, LenType DEF FileEnd, StartAt
  <2>2. Len(batches) # 0 => StartAt(Len(batches)) \in Nat
    BY StartType, LenType
  <2>3. \A k : StartAt(k)' = StartAt(k) /\ FirstAt(k)' = FirstAt(k)
    BY <1>1 DEF StartAt, FirstAt
  <2>4. size' <= FileEnd'
    BY <1>1, <2>1
  <2>5. batches # <<>> => StartAt(Len(batches)) <= size'
    <3>1. ASSUME batches # <<>> PROVE StartAt(Len(batches)) \in Nat
      BY <3>1, <2>2, EmptySeq DEF TypeOK
    <3> QED
      BY <1>1, <3>1 DEF FileOK
  <2>6. StartAt(Len(batches))' = StartAt(Len(batches))
    BY <1>1 DEF StartAt
  <2> QED
    BY <1>1, <2>3, <2>4, <2>5, <2>6 DEF FileOK
<1>4. HandleOK' /\ QueueOK' /\ ReturnOK' /\ FdAtBatch'
  BY <1>1 DEF HandleOK, QueueOK, ReturnOK, FdAtBatch, streamVars, callVars
<1>5. BatchOK'
  BY <1>1 DEF BatchOK, HandleOK, TypeOK, streamVars, callVars
<1>6. ResultOK'
  BY <1>1 DEF ResultOK, HandleOK, FaultHere, StrayHere, NoBatchHere, WrongBefore, TypeOK,
              streamVars, callVars
<1>7. BufferIsNext'
  BY <1>1 DEF BufferIsNext, InBatch, WrongBefore, StartAt, FirstAt, EndOf, SizeOf, TypeOK, streamVars
<1>8. EofComplete' /\ NoFalseAlarm'
  BY <1>1 DEF EofComplete, NoFalseAlarm, WrongBefore, TypeOK, streamVars, callVars
<1> QED
  BY <1>2, <1>3, <1>4, <1>5, <1>6, <1>7, <1>8

LEMMA WriteFileHeadKeeps ==
  ASSUME IInv, WriteFileHead
  PROVE  IInv'
<1> USE DEF IInv
<1>1. /\ ~renamed /\ size' = 1 /\ size = 0
      /\ UNCHANGED <<batches, renamed, newSize, streamVars, callVars, consumed, mark>>
  BY DEF WriteFileHead
<1>2. ~open
  BY <1>1 DEF HandleOK, BufferIsNext, TypeOK
<1>3. TypeOK'
  BY <1>1 DEF TypeOK, streamVars, callVars
<1>4. FileOK'
  <2>1. FileEnd \in Nat /\ FileEnd >= 1 /\ FileEnd' = FileEnd
    BY <1>1, StartType, LenType DEF FileEnd, StartAt
  <2>2. Len(batches) # 0 => StartAt(Len(batches)) \in Nat
    BY StartType, LenType
  <2> QED
    BY <1>1, <2>1, <2>2, LenType DEF FileOK, StartAt, FirstAt
<1>5. HandleOK' /\ QueueOK' /\ ReturnOK' /\ FdAtBatch'
  BY <1>1 DEF HandleOK, QueueOK, ReturnOK, FdAtBatch, streamVars, callVars
<1>6. BatchOK' /\ ResultOK' /\ BufferIsNext'
  BY <1>1, <1>2 DEF BatchOK, ResultOK, BufferIsNext, HandleOK, streamVars, callVars
<1>7. EofComplete' /\ NoFalseAlarm'
  BY <1>1, <1>2 DEF EofComplete, NoFalseAlarm, ReturnOK, streamVars, callVars
<1> QED
  BY <1>3, <1>4, <1>5, <1>6, <1>7

LEMMA RenameKeeps ==
  ASSUME IInv, Rename \/ WriteNewFile
  PROVE  IInv'
<1> USE DEF IInv
<1>1. /\ renamed => renamed'
      /\ renamed' \in BOOLEAN /\ newSize' \in Int
      /\ UNCHANGED <<batches, size, streamVars, callVars, consumed, mark>>
  <2>1. renamed \in BOOLEAN /\ newSize \in Int
    BY DEF TypeOK
  <2>2. CASE Rename
    BY <2>1, <2>2 DEF Rename
  <2>3. CASE WriteNewFile
    BY <2>1, <2>3 DEF WriteNewFile
  <2> QED
    BY <2>2, <2>3
<1>2. TypeOK'
  BY <1>1 DEF TypeOK, streamVars, callVars
<1>3. FileOK'
  BY <1>1 DEF FileOK, FileEnd, StartAt, FirstAt
<1>4. HandleOK' /\ QueueOK' /\ ReturnOK' /\ FdAtBatch' /\ BatchOK'
  BY <1>1 DEF HandleOK, QueueOK, ReturnOK, FdAtBatch, BatchOK, streamVars, callVars
<1>5. ResultOK'
  BY <1>1 DEF ResultOK, FaultHere, TornHere, StrayHere, NoBatchHere, WrongBefore, FileEnd, StartAt,
              streamVars, callVars
<1>6. BufferIsNext'
  BY <1>1, BufferSame DEF streamVars
<1>7. Recorded' = Recorded /\ FileEnd' = FileEnd
  <2>1. FileEnd' = FileEnd
    BY <1>1 DEF FileEnd, StartAt
  <2>2. Whole' = Whole
    BY <1>1, <2>1 DEF Whole
  <2> QED
    BY <1>1, <2>1, <2>2 DEF Recorded, FirstAt
<1>8. EofComplete'
  BY <1>1, <1>7 DEF EofComplete, streamVars, callVars
<1>9. NoFalseAlarm'
  BY <1>1, <1>7 DEF NoFalseAlarm, WrongBefore, streamVars, callVars
<1> QED
  BY <1>2, <1>3, <1>4, <1>5, <1>6, <1>8, <1>9

-----------------------------------------------------------------------------
(* The handle never changes the file. *)

LEMMA FileSame ==
  ASSUME FileOK, UNCHANGED fileVars
  PROVE  /\ FileOK'
         /\ FileEnd' = FileEnd /\ Recorded' = Recorded
         /\ \A k : StartAt(k)' = StartAt(k) /\ FirstAt(k)' = FirstAt(k)
<1>1. UNCHANGED <<batches, size, renamed, newSize>>
  BY DEF fileVars
<1>2. \A k : StartAt(k)' = StartAt(k) /\ FirstAt(k)' = FirstAt(k)
  BY <1>1 DEF StartAt, FirstAt
<1>3. FileEnd' = FileEnd
  BY <1>1 DEF FileEnd, StartAt
<1>4. Whole' = Whole
  BY <1>1, <1>3 DEF Whole
<1>5. Recorded' = Recorded
  BY <1>1, <1>4 DEF Recorded, FirstAt
<1>6. FileOK'
  BY <1>1, <1>2, <1>3 DEF FileOK, StartAt
<1> QED
  BY <1>2, <1>3, <1>5, <1>6

LEMMA OpenKeeps ==
  ASSUME IInv, Open
  PROVE  IInv'
<1> USE DEF IInv
<1>1. UNCHANGED <<batches, size, renamed, newSize, pc, op, to, bh, seg, rc, mark>> /\ pc = "idle"
  BY DEF Open, fileVars
<1>2. FileOK' /\ \A k : StartAt(k)' = StartAt(k) /\ FirstAt(k)' = FirstAt(k)
  BY <1>1, FileSame DEF fileVars
<1>3. CASE size = 0
  <2>1. /\ ret' = "open_EPROTO"
        /\ UNCHANGED <<open, closed, offset, pos, nr_msg, queue, consumed>>
    BY <1>3 DEF Open
  <2>2. TypeOK'
    BY <1>1, <2>1 DEF TypeOK
  <2>3. HandleOK' /\ QueueOK' /\ BatchOK' /\ ResultOK' /\ ReturnOK' /\ FdAtBatch'
    BY <1>1, <2>1 DEF HandleOK, QueueOK, BatchOK, ResultOK, ReturnOK, FdAtBatch
  <2>4. ~open
    BY DEF Open
  <2>5. BufferIsNext' /\ EofComplete' /\ NoFalseAlarm'
    BY <2>1, <2>4 DEF BufferIsNext, EofComplete, NoFalseAlarm
  <2> QED
    BY <1>2, <2>2, <2>3, <2>5
<1>4. CASE size # 0
  <2>1. /\ open' = TRUE /\ closed' = renamed
        /\ offset' = 1 /\ pos' = 1
        /\ nr_msg' = 0 /\ queue' = <<>>
        /\ consumed' = 0
        /\ ret' = "none"
    BY <1>4 DEF Open
  <2>2. TypeOK'
    BY <1>1, <2>1 DEF TypeOK
  <2>3. HandleOK' /\ QueueOK' /\ ResultOK' /\ ReturnOK' /\ FdAtBatch'
    BY <1>1, <2>1 DEF HandleOK, QueueOK, ResultOK, ReturnOK, FdAtBatch
  <2>4. BatchOK'
    BY <1>1, <2>1, <1>4 DEF BatchOK, TypeOK
  <2>5. BufferIsNext'
    <3>1. 1 \in 1 .. Len(batches') + 1
      BY <1>1, LenType
    <3>2. StartAt(1)' = 1 /\ FirstAt(1)' = 1
      BY DEF StartAt, FirstAt
    <3>3. 1 <= size
      BY <1>4 DEF TypeOK
    <3>4. InBatch(1, 1)'
      <4>1. ASSUME 1 <= Len(batches) PROVE 1 < EndOf(batches[1])
        <5>1. 1 \in 1 .. Len(batches)
          BY <4>1, LenType
        <5>2. batches[1].at = 1
          BY <5>1 DEF FileOK, StartAt
        <5> QED
          BY <5>1, <5>2, BatchType
      <4> QED
        BY <1>1, <4>1 DEF InBatch, StartAt, EndOf, SizeOf
    <3> QED
      BY <1>1, <2>1, <3>1, <3>2, <3>3, <3>4 DEF BufferIsNext
  <2>6. EofComplete' /\ NoFalseAlarm'
    BY <2>1 DEF EofComplete, NoFalseAlarm
  <2> QED
    BY <1>2, <2>2, <2>3, <2>4, <2>5, <2>6
<1> QED
  BY <1>3, <1>4

LEMMA CloseKeeps ==
  ASSUME IInv, Close
  PROVE  IInv'
<1> USE DEF IInv
<1>1. /\ UNCHANGED <<batches, size, renamed, newSize, closed, offset, pos, pc, op, to, bh, seg,
                     rc, consumed, mark>>
      /\ pc = "idle" /\ open' = FALSE /\ queue' = <<>> /\ nr_msg' = 0 /\ ret' = "none"
  BY DEF Close, fileVars
<1>2. FileOK'
  BY <1>1, FileSame DEF fileVars
<1>3. TypeOK'
  <2>1. queue' \in Seq(Nat)
    BY <1>1, EmptySeq
  <2> QED
    BY <1>1, <2>1 DEF TypeOK
<1>4. HandleOK' /\ QueueOK' /\ BatchOK' /\ ResultOK' /\ ReturnOK' /\ FdAtBatch'
  BY <1>1 DEF HandleOK, QueueOK, BatchOK, ResultOK, ReturnOK, FdAtBatch
<1>5. BufferIsNext' /\ EofComplete' /\ NoFalseAlarm'
  BY <1>1 DEF BufferIsNext, EofComplete, NoFalseAlarm
<1> QED
  BY <1>2, <1>3, <1>4, <1>5

LEMMA CallReadKeeps ==
  ASSUME IInv, NEW t \in Timeouts, CallRead(t)
  PROVE  IInv'
<1> USE DEF IInv
<1>1. /\ UNCHANGED <<batches, size, renamed, newSize, open, closed, offset, pos, nr_msg, queue,
                     bh, seg, rc, consumed, mark>>
      /\ open /\ pc = "idle" /\ op' = "read" /\ to' = t /\ pc' = "ready" /\ ret' = "none"
  BY DEF CallRead, fileVars, streamVars
<1>2. FileOK' /\ \A k : StartAt(k)' = StartAt(k) /\ FirstAt(k)' = FirstAt(k)
  BY <1>1, FileSame DEF fileVars
<1>3. TypeOK'
  BY <1>1, MdsFileAssumption DEF TypeOK, Steps, MdsFileAssumption
<1>4. HandleOK' /\ QueueOK' /\ BatchOK' /\ ResultOK' /\ ReturnOK' /\ FdAtBatch'
  BY <1>1 DEF HandleOK, QueueOK, BatchOK, ResultOK, ReturnOK, FdAtBatch
<1>5. BufferIsNext'
  BY <1>1, BufferSame
<1>6. EofComplete' /\ NoFalseAlarm'
  BY <1>1 DEF EofComplete, NoFalseAlarm
<1> QED
  BY <1>2, <1>3, <1>4, <1>5, <1>6

LEMMA CallLseekKeeps ==
  ASSUME IInv, CallLseek
  PROVE  IInv'
<1> USE DEF IInv
<1>1. /\ UNCHANGED <<batches, size, renamed, newSize, open, closed, offset, pos, to, bh, seg, rc>>
      /\ open /\ pc = "idle" /\ op' = "lseek" /\ pc' = "head" /\ ret' = "none"
      /\ queue' = <<>> /\ nr_msg' = 0 /\ consumed' = consumed + Len(queue)
      /\ mark' = Recorded
  BY DEF CallLseek, fileVars
<1>2. FileOK' /\ \A k : StartAt(k)' = StartAt(k) /\ FirstAt(k)' = FirstAt(k)
  BY <1>1, FileSame DEF fileVars
<1>3. TypeOK'
  BY <1>1, RecordedType, LenType DEF TypeOK, Steps
<1>4. HandleOK' /\ QueueOK' /\ BatchOK' /\ ResultOK' /\ ReturnOK' /\ FdAtBatch'
  BY <1>1 DEF HandleOK, QueueOK, BatchOK, ResultOK, ReturnOK, FdAtBatch
<1>5. BufferIsNext'
  <2>1. Len(queue') = 0 /\ Len(queue) \in Nat /\ consumed \in Nat
    BY <1>1, LenType DEF TypeOK
  <2>2. consumed' + Len(queue') = consumed + Len(queue)
    BY <1>1, <2>1
  <2> QED
    BY <1>1, <2>1, <2>2, BufferShifted
<1>6. EofComplete' /\ NoFalseAlarm'
  BY <1>1 DEF EofComplete, NoFalseAlarm
<1> QED
  BY <1>2, <1>3, <1>4, <1>5, <1>6

LEMMA ReadyKeeps ==
  ASSUME IInv, Ready
  PROVE  IInv'
<1> USE DEF IInv
<1>1. /\ UNCHANGED <<batches, size, renamed, newSize, open, closed, offset, pos, op, to, bh, seg,
                     rc, mark>>
      /\ pc = "ready" /\ open /\ ret = "none"
  BY DEF Ready, fileVars, HandleOK, ReturnOK
<1>2. FileOK' /\ \A k : StartAt(k)' = StartAt(k) /\ FirstAt(k)' = FirstAt(k)
  BY <1>1, FileSame DEF fileVars
<1>3. CASE /\ nr_msg > 0 /\ queue # <<>>
           /\ nr_msg' = nr_msg - 1 /\ queue' = Tail(queue) /\ consumed' = Head(queue)
           /\ Return("data")
  <2>1. /\ Len(queue) \in Nat /\ Len(queue) >= 1 /\ queue' \in Seq(Nat)
        /\ Len(queue') = Len(queue) - 1 /\ Head(queue) = queue[1]
        /\ \A i \in 1 .. Len(queue') : queue'[i] = queue[i + 1]
    BY <1>3, HeadTailProperties, EmptySeq, LenType DEF TypeOK
  <2>2. Head(queue) \in Nat /\ nr_msg' \in Nat
    BY <1>3, HeadTailProperties DEF TypeOK
  <2>3. queue[1] = consumed + 1
    BY <1>1, <2>1 DEF BufferIsNext
  <2>4. TypeOK'
    BY <1>1, <1>3, <2>1, <2>2 DEF TypeOK, Steps, Return
  <2>5. HandleOK' /\ BatchOK' /\ ResultOK' /\ ReturnOK' /\ FdAtBatch'
    BY <1>1, <1>3 DEF HandleOK, BatchOK, ResultOK, ReturnOK, FdAtBatch, Return
  <2>6. QueueOK'
    BY <1>1, <1>3, <2>1 DEF QueueOK, Return, TypeOK
  <2>7. BufferIsNext'
    <3>1. consumed \in Nat /\ consumed' = consumed + 1
      BY <1>3, <2>1, <2>3 DEF TypeOK
    <3>2. consumed' + Len(queue') = consumed + Len(queue)
      BY <2>1, <3>1
    <3>3. \A i \in 1 .. Len(queue') : queue'[i] = consumed' + i
      <4> TAKE i \in 1 .. Len(queue')
      <4>1. i + 1 \in 1 .. Len(queue)
        BY <2>1
      <4>2. queue[i + 1] = consumed + (i + 1)
        BY <1>1, <4>1 DEF BufferIsNext
      <4> QED
        BY <2>1, <3>1, <4>2
    <3> QED
      BY <1>1, <3>2, <3>3, BufferShifted
  <2>8. EofComplete' /\ NoFalseAlarm'
    BY <1>3 DEF EofComplete, NoFalseAlarm, Return
  <2> QED
    BY <1>2, <2>4, <2>5, <2>6, <2>7, <2>8
<1>4. CASE /\ \/ nr_msg > 0 /\ queue = <<>> /\ pc' = "abort"
              \/ nr_msg = 0 /\ pc' = "head"
           /\ UNCHANGED <<nr_msg, queue, consumed, ret>>
  <2>1. pc' = "head" => queue = <<>>
    BY <1>4, EmptySeq, LenType DEF QueueOK, TypeOK
  <2>2. TypeOK'
    BY <1>1, <1>4 DEF TypeOK, Steps
  <2>3. HandleOK' /\ QueueOK' /\ BatchOK' /\ ResultOK' /\ ReturnOK' /\ FdAtBatch'
    BY <1>1, <1>4, <2>1 DEF HandleOK, QueueOK, BatchOK, ResultOK, ReturnOK, FdAtBatch
  <2>4. BufferIsNext'
    BY <1>1, <1>4, BufferSame
  <2>5. EofComplete' /\ NoFalseAlarm'
    BY <1>1, <1>4 DEF EofComplete, NoFalseAlarm
  <2> QED
    BY <1>2, <2>2, <2>3, <2>4, <2>5
<1> QED
  BY <1>3, <1>4 DEF Ready

(* A batch is given up. *)
LEMMA GiveUpKeeps ==
  ASSUME IInv, pc \in {"head", "segs", "body"},
         NEW r \in {"eob", "EAGAIN", "EPROTO", "ENOMEM", "EIO"}, GiveUp(r),
         UNCHANGED <<fileVars, open, closed, op, to, ret, mark>>,
         r = "eob" /\ closed => offset = size,
         r = "EAGAIN" /\ closed /\ op = "read" => TornHere \/ StrayHere,
         r = "EPROTO" => FaultHere \/ StrayHere
  PROVE  IInv'
<1> USE DEF IInv
<1>1. /\ UNCHANGED <<batches, size, renamed, newSize, open, closed, offset, nr_msg, queue, op, to,
                     bh, seg, ret, consumed, mark>>
      /\ rc' = r /\ pc' = "result" /\ pos' = offset
  BY DEF GiveUp, fileVars
<1>2. open /\ ret = "none" /\ queue = <<>>
  BY DEF HandleOK, ReturnOK, QueueOK
<1>3. /\ FileOK' /\ FileEnd' = FileEnd
      /\ \A k : StartAt(k)' = StartAt(k) /\ FirstAt(k)' = FirstAt(k)
  BY FileSame
<1>4. TypeOK'
  BY <1>1 DEF TypeOK, Steps
<1>5. HandleOK' /\ QueueOK' /\ ReturnOK' /\ FdAtBatch'
  BY <1>1, <1>2 DEF HandleOK, QueueOK, ReturnOK, FdAtBatch
<1>6. BatchOK'
  BY <1>1, <1>2 DEF BatchOK, BufferIsNext
<1>7. ResultOK'
  BY <1>1, <1>3 DEF ResultOK, FaultHere, TornHere, StrayHere, NoBatchHere, WrongBefore
<1>8. BufferIsNext'
  BY <1>1, BufferSame
<1>9. EofComplete' /\ NoFalseAlarm'
  BY <1>1, <1>2 DEF EofComplete, NoFalseAlarm
<1> QED
  BY <1>3, <1>4, <1>5, <1>6, <1>7, <1>8, <1>9

(* A batch is taken that is in the file in full. *)
LEMMA TakeKeeps ==
  ASSUME IInv, pc \in {"head", "body"},
         NEW i \in 1 .. Len(batches), batches[i].at = offset, EndOf(batches[i]) <= size,
         Take(batches[i]),
         UNCHANGED <<fileVars, open, closed, op, to, ret, mark>>
  PROVE  IInv'
<1> USE DEF IInv
<1> DEFINE b == batches[i]
<1>1. /\ UNCHANGED <<batches, size, renamed, newSize, open, closed, op, to, bh, seg, ret, mark>>
      /\ rc' = "more" /\ pc' = "result" /\ pos' = EndOf(b) /\ offset' = EndOf(b)
      /\ nr_msg' = nr_msg + b.nr
  BY DEF Take, fileVars
<1>2. open /\ ret = "none" /\ queue = <<>> /\ Len(queue) = 0
  BY EmptySeq DEF HandleOK, ReturnOK, QueueOK
<1>3. /\ FileOK'
      /\ \A k : StartAt(k)' = StartAt(k) /\ FirstAt(k)' = FirstAt(k)
  BY FileSame
<1>4. /\ b.nr \in Nat /\ b.first \in Nat /\ EndOf(b) \in Nat /\ b.at + 2 <= EndOf(b)
      /\ nr_msg \in Nat /\ consumed \in Nat /\ offset \in Nat /\ size \in Nat
  BY BatchType DEF TypeOK
<1>5. consumed + 1 = b.first
  <2>1. PICK k \in 1 .. Len(batches) + 1 :
          InBatch(k, offset) /\ consumed + Len(queue) + 1 = FirstAt(k)
    BY <1>2 DEF BufferIsNext
  <2>2. k = i
    BY <2>1, InBatchUnique
  <2>3. consumed + 1 = FirstAt(i)
    BY <1>2, <1>4, <2>1, <2>2
  <2> QED
    BY <2>3 DEF FileOK
<1>6. /\ queue' \in Seq(Nat) /\ consumed' \in Nat
      /\ Len(queue') <= nr_msg'
      /\ op = "lseek" => queue' = <<>>
      /\ Len(queue') \in Nat /\ consumed' + Len(queue') + 1 = b.first + b.nr
      /\ \A j \in 1 .. Len(queue') : queue'[j] = consumed' + j
  <2>1. CASE op = "read"
    <3>1. queue' = queue \o Numbers(b) /\ consumed' = consumed
      BY <2>1 DEF Take
    <3>2. /\ Numbers(b) \in Seq(Nat) /\ Len(Numbers(b)) = b.nr
          /\ \A j \in 1 .. b.nr : Numbers(b)[j] = consumed + j
      <4>1. \A j \in 1 .. b.nr : b.first + j - 1 \in Nat /\ b.first + j - 1 = consumed + j
        BY <1>4, <1>5, SMTT(40)
      <4>2. Numbers(b) \in [1 .. b.nr -> Nat]
        BY <4>1 DEF Numbers
      <4>3. Numbers(b) \in Seq(Nat) /\ Len(Numbers(b)) = b.nr
        BY <1>4, <4>2, SeqDef, LenProperties, SMTT(40)
      <4> QED
        BY <4>1, <4>3 DEF Numbers
    <3>3. queue' = Numbers(b)
      BY <1>2, <3>1, <3>2
    <3>4. Len(queue') = b.nr /\ queue' \in Seq(Nat) /\ consumed' \in Nat
      BY <1>4, <3>1, <3>2, <3>3
    <3>5. Len(queue') <= nr_msg' /\ consumed' + Len(queue') + 1 = b.first + b.nr
      <4> HIDE DEF b
      <4>1. nr_msg' = nr_msg + b.nr /\ consumed' = consumed
        BY <1>1, <3>1
      <4>2. Len(queue') <= nr_msg'
        BY <1>4, <3>4, <4>1
      <4>3. consumed' + Len(queue') + 1 = b.first + b.nr
        <5>1. consumed' + Len(queue') + 1 = consumed + b.nr + 1
          BY <3>4, <4>1
        <5>2. consumed + b.nr + 1 = (consumed + 1) + b.nr
          BY <1>4, SMTT(40)
        <5> QED
          BY <1>5, <5>1, <5>2
      <4> QED
        BY <4>2, <4>3
    <3>6. \A j \in 1 .. Len(queue') : queue'[j] = consumed' + j
      BY <3>1, <3>2, <3>3, <3>4
    <3> QED
      BY <1>4, <2>1, <3>4, <3>5, <3>6
  <2>2. CASE op = "lseek"
    <3>1. queue' = queue /\ consumed' = consumed + b.nr
      BY <2>2 DEF Take
    <3>2. queue' = <<>> /\ queue' \in Seq(Nat) /\ Len(queue') = 0
      BY <1>2, <3>1, EmptySeq
    <3>3. nr_msg' \in Nat /\ consumed' \in Nat
      BY <1>1, <1>4, <3>1, SMTT(40)
    <3>4. consumed' + Len(queue') + 1 = b.first + b.nr
      BY <1>4, <1>5, <3>1, <3>2
    <3>5. \A j \in 1 .. Len(queue') : queue'[j] = consumed' + j
      BY <3>2
    <3> QED
      BY <3>2, <3>3, <3>4, <3>5
  <2> QED
    BY <2>1, <2>2 DEF TypeOK
<1>7. TypeOK'
  <2>1. nr_msg' \in Nat /\ pos' \in Nat /\ offset' \in Nat
    BY <1>1, <1>4
  <2> QED
    BY <1>1, <1>6, <2>1 DEF TypeOK, Steps
<1>8. HandleOK' /\ QueueOK' /\ ReturnOK' /\ FdAtBatch' /\ ResultOK'
  BY <1>1, <1>2, <1>4, <1>6 DEF HandleOK, QueueOK, ReturnOK, FdAtBatch, ResultOK
<1>9. BatchOK'
  BY <1>1 DEF BatchOK
<1>10. BufferIsNext'
  <2>1. i + 1 \in 1 .. Len(batches') + 1
    BY <1>1, LenType
  <2>2. offset' = StartAt(i + 1)' /\ consumed' + Len(queue') + 1 = FirstAt(i + 1)'
    BY <1>1, <1>3, <1>6, NextStart
  <2>3. InBatch(i + 1, EndOf(b))
    <3>1. ASSUME i + 1 <= Len(batches) PROVE EndOf(b) < EndOf(batches[i + 1])
      <4>1. i + 1 \in 1 .. Len(batches)
        BY <3>1, LenType
      <4>2. batches[i + 1].at = EndOf(b)
        BY <4>1, NextStart DEF FileOK
      <4> QED
        BY <4>1, <4>2, BatchType
    <3> QED
      BY <1>4, <3>1, NextStart DEF InBatch
  <2>4. InBatch(i + 1, offset)'
    BY <1>1, <2>3 DEF InBatch, StartAt, EndOf, SizeOf
  <2> QED
    BY <1>1, <1>6, <2>1, <2>2, <2>4 DEF BufferIsNext
<1>11. EofComplete' /\ NoFalseAlarm'
  BY <1>1, <1>2 DEF EofComplete, NoFalseAlarm
<1> QED
  BY <1>3, <1>7, <1>8, <1>9, <1>10, <1>11

(* A handle goes astray, or on. *)
LEMMA StrayKeeps ==
  ASSUME IInv, pc \in {"head", "body"},
         NEW o \in Nat, NEW n \in Nat, offset < o, o <= size, WrongBefore(o), Stray(o, n),
         UNCHANGED <<fileVars, open, closed, op, to, ret, mark>>
  PROVE  IInv'
<1> USE DEF IInv
<1>1. /\ UNCHANGED <<batches, size, renamed, newSize, open, closed, op, to, bh, seg, ret, mark, queue>>
      /\ rc' = "more" /\ pc' = "result" /\ pos' = o /\ offset' = o
      /\ nr_msg' = nr_msg + n
  BY DEF Stray, fileVars
<1>2. open /\ ret = "none" /\ queue = <<>> /\ Len(queue) = 0 /\ nr_msg \in Nat
  BY EmptySeq DEF HandleOK, ReturnOK, QueueOK, TypeOK
<1>3. FileOK'
  BY FileSame
<1>4. PICK k \in 1 .. Len(batches) + 1 : InBatch(k, o) /\ consumed' = FirstAt(k) - 1
  BY DEF Stray
<1>5. FirstAt(k) \in Nat /\ FirstAt(k) >= 1
  BY StartType, FirstPositive
<1>6. consumed' \in Nat /\ consumed' + Len(queue') + 1 = FirstAt(k)
  BY <1>1, <1>2, <1>4, <1>5
<1>7. TypeOK'
  BY <1>1, <1>2, <1>6 DEF TypeOK, Steps
<1>8. HandleOK' /\ QueueOK' /\ ReturnOK' /\ FdAtBatch' /\ ResultOK' /\ BatchOK'
  <2>1. 0 <= nr_msg' /\ 1 <= offset'
    BY <1>1, <1>2 DEF HandleOK, TypeOK
  <2> QED
    BY <1>1, <1>2, <2>1 DEF HandleOK, QueueOK, ReturnOK, FdAtBatch, ResultOK, BatchOK
<1>9. BufferIsNext'
  <2>1. InBatch(k, offset)' /\ WrongBefore(offset)'
    BY <1>1, <1>4 DEF InBatch, WrongBefore, StartAt, EndOf, SizeOf
  <2>2. k \in 1 .. Len(batches') + 1 /\ consumed' + Len(queue') + 1 = FirstAt(k)'
    BY <1>1, <1>6 DEF FirstAt
  <2> QED
    BY <1>1, <1>2, <2>1, <2>2 DEF BufferIsNext
<1>10. EofComplete' /\ NoFalseAlarm'
  BY <1>1, <1>2 DEF EofComplete, NoFalseAlarm
<1> QED
  BY <1>3, <1>7, <1>8, <1>9, <1>10

(* What a _read returns is what is there, up to what was asked for. *)
LEMMA ReadValue ==
  ASSUME TypeOK, pos <= size, NEW n \in Nat
  PROVE  /\ Read(n) \in Nat /\ Read(n) <= n /\ pos + Read(n) <= size
         /\ Read(n) < n => pos + Read(n) = size
  BY DEF Read, TypeOK

(* A handle that stands at the end of the file, or at a batch of which     *)
(* only this much is there, has consumed what is there in full.            *)
LEMMA ReadThrough ==
  ASSUME TypeOK, FileOK, BufferIsNext, open, queue = <<>>, offset = size
  PROVE  consumed = Recorded
<1>1. PICK k \in 1 .. Len(batches) + 1 :
        InBatch(k, offset) /\ consumed + Len(queue) + 1 = FirstAt(k)
  BY DEF BufferIsNext
<1>2. FirstAt(k) = consumed + 1 /\ consumed \in Nat /\ size \in Nat
  BY <1>1, EmptySeq DEF TypeOK
<1>3. k = Whole + 1
  <2>1. CASE k = Len(batches) + 1
    <3>1. size >= FileEnd
      BY <1>1, <2>1 DEF FileEnd, InBatch
    <3>2. Whole = Len(batches)
      BY <1>2, <3>1 DEF Whole
    <3> QED
      BY <2>1, <3>2, LenType
  <2>2. CASE k \in 1 .. Len(batches)
    <3>1. Len(batches) \in 1 .. Len(batches) /\ batches # <<>>
      BY <2>2, LenType, EmptySeq
    <3>2. size < EndOf(batches[k]) /\ EndOf(batches[k]) <= FileEnd
      BY <1>1, <2>2, EndsInFile, LenType DEF InBatch
    <3>3. batches[Len(batches)].at <= size
      BY <3>1 DEF FileOK
    <3>4. ~(k < Len(batches))
      BY <1>2, <2>2, <3>1, <3>2, <3>3, BatchType DEF FileOK
    <3>5. FileEnd \in Nat
      BY StartType, LenType DEF FileEnd
    <3>6. ~(size >= FileEnd)
      BY <1>2, <2>2, <3>2, <3>5, BatchType
    <3>7. Whole = Len(batches) - 1
      BY <3>1, <3>6 DEF Whole
    <3> QED
      BY <2>2, <3>4, <3>7, LenType
  <2> QED
    BY <2>1, <2>2, LenType
<1>4. Recorded = FirstAt(k) - 1
  BY <1>3, WholeType DEF Recorded
<1> QED
  BY <1>2, <1>4

(* A file that ends inside a batch is torn once it is closed. *)
LEMMA EndsInBatch ==
  ASSUME TypeOK, FileOK, HandleOK, open, closed,
         NEW i \in 1 .. Len(batches), batches[i].at = offset,
         offset < size, size < EndOf(batches[i])
  PROVE  TornHere
<1>1. EndOf(batches[i]) <= FileEnd /\ EndOf(batches[i]) \in Nat /\ size \in Nat
  BY EndsInFile, BatchType DEF TypeOK
<1>2. FileEnd \in Nat
  BY StartType, LenType DEF FileEnd
<1>3. size < FileEnd
  BY <1>1, <1>2
<1> QED
  BY <1>3 DEF TornHere, HandleOK

(* Only a handle that went astray stands where no batch starts. *)
LEMMA NoBatchStrays ==
  ASSUME TypeOK, FileOK, BufferIsNext, open, offset < size, NoBatchHere
  PROVE  StrayHere
<1>1. PICK k \in 1 .. Len(batches) + 1 : offset = StartAt(k) \/ WrongBefore(offset)
  BY DEF BufferIsNext
<1>2. offset # StartAt(k)
  <2>1. CASE k = Len(batches) + 1
    BY <2>1 DEF FileOK, FileEnd, TypeOK
  <2>2. CASE k \in 1 .. Len(batches)
    BY <2>2 DEF FileOK, NoBatchHere
  <2> QED
    BY <2>1, <2>2, LenType
<1> QED
  BY <1>1, <1>2 DEF StrayHere

LEMMA ReadHeadKeeps ==
  ASSUME IInv, ReadHead
  PROVE  IInv'
<1> USE DEF IInv
<1>1. /\ pc = "head" /\ open /\ pos = offset /\ pos <= size /\ pos \in Nat /\ size \in Nat
      /\ queue = <<>> /\ ret = "none"
      /\ UNCHANGED <<fileVars, open, closed, op, to, ret, mark>>
  BY DEF ReadHead, HandleOK, FdAtBatch, BatchOK, QueueOK, ReturnOK, TypeOK
<1>2. Read(2) \in Nat /\ pos + Read(2) <= size /\ (Read(2) < 2 => pos + Read(2) = size)
  BY <1>1, ReadValue
<1>3. CASE rc' = "EIO" /\ pc' = "result" /\ UNCHANGED <<pos, offset, nr_msg, queue, consumed, bh, seg>>
  <2>1. GiveUp("EIO")
    BY <1>1, <1>3 DEF GiveUp
  <2> QED
    BY <1>1, <2>1, GiveUpKeeps
<1>4. CASE Read(2) = 0 /\ GiveUp("eob")
  BY <1>1, <1>2, <1>4, GiveUpKeeps
<1>5. CASE Read(2) = 1 /\ GiveUp("EAGAIN")
  <2>1. size = offset + 1
    BY <1>1, <1>2, <1>5
  <2>2. ASSUME closed PROVE TornHere \/ StrayHere
    <3>1. CASE \E i \in 1 .. Len(batches) : batches[i].at = offset
      <4>1. PICK i \in 1 .. Len(batches) : batches[i].at = offset
        BY <3>1
      <4>2. offset + 2 <= EndOf(batches[i]) /\ EndOf(batches[i]) \in Nat
        BY <4>1, BatchType
      <4>3. offset < size /\ size < EndOf(batches[i])
        BY <1>1, <2>1, <4>2
      <4> QED
        BY <1>1, <2>2, <4>1, <4>3, EndsInBatch
    <3>2. CASE NoBatchHere
      BY <1>1, <2>1, <3>2, NoBatchStrays
    <3> QED
      BY <3>1, <3>2 DEF NoBatchHere
  <2> QED
    BY <1>1, <1>5, <2>2, GiveUpKeeps
<1>6. ASSUME NEW i \in DOMAIN batches, Read(2) = 2, batches[i].at = pos,
             \/ batches[i].nr > 0 /\ bh' = i /\ seg' = 0 /\ GoOn("segs", 2)
             \/ /\ batches[i].nr = 0
                /\ IF batches[i].fault = "body" \/ (op = "read" /\ batches[i].fault = "hdr")
                   THEN GiveUp("EPROTO")
                   ELSE Take(batches[i])
      PROVE  IInv'
  <2>1. i \in 1 .. Len(batches)
    BY <1>6, LenProperties DEF TypeOK
  <2>2. EndOf(batches[i]) = batches[i].at + 2 + 3 * batches[i].nr /\ batches[i].nr \in Nat
    BY <2>1, BatchType
  <2>3. CASE GiveUp("EPROTO") /\ batches[i].fault # "none"
    <3>1. FaultHere
      BY <1>1, <1>6, <2>1, <2>3 DEF FaultHere
    <3> QED
      BY <1>1, <2>3, <3>1, GiveUpKeeps
  <2>4. CASE batches[i].nr = 0 /\ Take(batches[i])
    <3>1. EndOf(batches[i]) <= size
      BY <1>1, <1>2, <1>6, <2>2, <2>4
    <3> QED
      BY <1>1, <1>6, <2>1, <2>4, <3>1, TakeKeeps
  <2>5. CASE batches[i].nr > 0 /\ bh' = i /\ seg' = 0 /\ GoOn("segs", 2)
    <3>1. /\ UNCHANGED <<batches, size, renamed, newSize, open, closed, offset, nr_msg, queue, op,
                         to, rc, ret, consumed, mark>>
          /\ pc' = "segs" /\ pos' = pos + 2 /\ bh' = i /\ seg' = 0 /\ pos' <= size
      BY <1>1, <1>2, <1>6, <2>5 DEF GoOn, fileVars
    <3>2. FileOK' /\ \A k : StartAt(k)' = StartAt(k) /\ FirstAt(k)' = FirstAt(k)
      BY <1>1, FileSame
    <3>3. TypeOK'
      BY <1>1, <2>1, <3>1 DEF TypeOK, Steps
    <3>4. HandleOK' /\ QueueOK' /\ ReturnOK' /\ FdAtBatch' /\ ResultOK'
      BY <1>1, <3>1 DEF HandleOK, QueueOK, ReturnOK, FdAtBatch, ResultOK
    <3>5. BatchOK'
      BY <1>1, <1>6, <2>1, <2>5, <3>1 DEF BatchOK
    <3>6. BufferIsNext'
      BY <3>1, BufferSame
    <3>7. EofComplete' /\ NoFalseAlarm'
      BY <1>1, <3>1 DEF EofComplete, NoFalseAlarm
    <3> QED
      BY <3>2, <3>3, <3>4, <3>5, <3>6, <3>7
  <2> QED
    BY <1>6, <2>3, <2>4, <2>5
<1> QED
  BY <1>3, <1>4, <1>5, <1>6 DEF ReadHead

LEMMA ReadStrayKeeps ==
  ASSUME IInv, ReadStray
  PROVE  IInv'
<1> USE DEF IInv
<1>1. /\ pc = "head" /\ open /\ pos = offset /\ pos \in Nat /\ size \in Nat
      /\ UNCHANGED <<fileVars, open, closed, op, to, ret, mark>>
  BY DEF ReadStray, HandleOK, FdAtBatch, BatchOK, TypeOK
<1>2. offset + 2 <= size
  <2>1. Read(2) = 2 /\ pos <= size
    BY DEF ReadStray, BatchOK, HandleOK
  <2> QED
    BY <1>1, <2>1, ReadValue
<1>3. NoBatchHere
  BY <1>1, LenProperties DEF ReadStray, NoBatchHere, TypeOK
<1>4. StrayHere
  BY <1>1, <1>2, <1>3, NoBatchStrays
<1>5. ASSUME NEW r \in {"EAGAIN", "EPROTO", "ENOMEM", "EIO"}, GiveUp(r)
      PROVE  IInv'
  BY <1>1, <1>4, <1>5, GiveUpKeeps
<1>6. ASSUME NEW o \in offset + 2 .. size, NEW n \in {0, 1}, Stray(o, n)
      PROVE  IInv'
  <2>1. o \in Nat /\ offset < o /\ o <= size
    BY <1>1
  <2>2. WrongBefore(o)
    BY <1>1, <1>4, <2>1, BatchType, LenProperties DEF StrayHere, WrongBefore
  <2> QED
    BY <1>1, <1>6, <2>1, <2>2, StrayKeeps
<1> QED
  BY <1>1, <1>2, <1>5, <1>6 DEF ReadStray

(* The call goes on inside a batch. *)
LEMMA GoOnKeeps ==
  ASSUME IInv, pc \in {"segs", "body"}, NEW n \in Nat, GoOn("body", n),
         bh' = bh, seg' \in Nat, pos + n <= size, BatchOK',
         UNCHANGED <<fileVars, open, closed, op, to, ret, mark>>
  PROVE  IInv'
<1> USE DEF IInv
<1>1. /\ UNCHANGED <<batches, size, renamed, newSize, open, closed, offset, nr_msg, queue, op,
                     to, bh, rc, ret, consumed, mark>>
      /\ pc' = "body" /\ pos' = pos + n
  BY DEF GoOn, fileVars
<1>2. open /\ ret = "none" /\ queue = <<>> /\ pos \in Nat
  BY DEF HandleOK, ReturnOK, QueueOK, TypeOK
<1>3. FileOK' /\ \A k : StartAt(k)' = StartAt(k) /\ FirstAt(k)' = FirstAt(k)
  BY FileSame
<1>4. TypeOK'
  BY <1>1, <1>2 DEF TypeOK, Steps
<1>5. HandleOK' /\ QueueOK' /\ ReturnOK' /\ FdAtBatch' /\ ResultOK'
  BY <1>1, <1>2 DEF HandleOK, QueueOK, ReturnOK, FdAtBatch, ResultOK
<1>6. BufferIsNext'
  BY <1>1, BufferSame
<1>7. EofComplete' /\ NoFalseAlarm'
  BY <1>1, <1>2 DEF EofComplete, NoFalseAlarm
<1> QED
  BY <1>3, <1>4, <1>5, <1>6, <1>7

LEMMA ReadSegmentsKeeps ==
  ASSUME IInv, ReadSegments
  PROVE  IInv'
<1> USE DEF IInv
<1> DEFINE b == batches[bh]
<1>1. /\ pc = "segs" /\ open /\ bh \in 1 .. Len(batches) /\ b.at = offset /\ b.nr > 0
      /\ pos = offset + 2 /\ pos <= size /\ pos \in Nat /\ size \in Nat /\ offset \in Nat
      /\ UNCHANGED <<fileVars, open, closed, op, to, ret, mark>>
  BY DEF ReadSegments, HandleOK, BatchOK, TypeOK
<1>2. /\ b.nr \in Nat /\ EndOf(b) = offset + 2 + 3 * b.nr
      /\ Read(b.nr) \in Nat /\ pos + Read(b.nr) <= size
      /\ Read(b.nr) < b.nr => pos + Read(b.nr) = size
  BY <1>1, BatchType, ReadValue
<1>3. CASE Fails("EIO") \/ Fails("ENOMEM")
  BY <1>1, <1>3, GiveUpKeeps DEF Fails
<1>4. CASE Read(b.nr) < b.nr /\ GiveUp("EAGAIN")
  <2>1. offset < size /\ size < EndOf(b)
    BY <1>1, <1>2, <1>4
  <2>2. closed => TornHere
    BY <1>1, <2>1, EndsInBatch
  <2> QED
    BY <1>1, <1>4, <2>2, GiveUpKeeps
<1>5. CASE op = "read" /\ b.fault \in {"hdr", "type", "length"} /\ GiveUp("EPROTO")
  <2>1. FaultHere
    BY <1>1, <1>5 DEF FaultHere
  <2> QED
    BY <1>1, <1>5, <2>1, GiveUpKeeps
<1>6. CASE Read(b.nr) = b.nr /\ GoOn("body", b.nr) /\ UNCHANGED <<bh, seg>>
  <2>1. seg = 0 /\ seg \in Nat
    BY <1>1 DEF BatchOK, TypeOK
  <2>2. BatchOK'
    <3>1. pc' = "body" /\ pos' = pos + b.nr /\ bh' = bh /\ seg' = 0 /\ offset' = offset
      BY <1>6, <2>1 DEF GoOn
    <3>2. batches' = batches /\ size' = size
      BY <1>1 DEF fileVars
    <3>3. pos' = offset + 2 + b.nr /\ pos' <= size
      BY <1>1, <1>2, <1>6, <3>1
    <3> HIDE DEF IInv
    <3> QED
      BY <1>1, <1>2, <3>1, <3>2, <3>3 DEF BatchOK
  <2> QED
    BY <1>1, <1>2, <1>6, <2>1, <2>2, GoOnKeeps
<1> QED
  BY <1>3, <1>4, <1>5, <1>6 DEF ReadSegments

LEMMA ReadBodyKeeps ==
  ASSUME IInv, ReadBody
  PROVE  IInv'
<1> USE DEF IInv
<1> DEFINE b == batches[bh]
           full == offset + 2 + b.nr + 2 * seg
<1>1. /\ pc = "body" /\ op = "read" /\ open /\ bh \in 1 .. Len(batches) /\ b.at = offset
      /\ pos <= size /\ pos \in Nat /\ size \in Nat /\ offset \in Nat /\ seg \in Nat
      /\ UNCHANGED <<fileVars, open, closed, op, to, ret, mark>>
  BY DEF ReadBody, HandleOK, BatchOK, TypeOK
<1>2. /\ seg < b.nr /\ offset + 2 + b.nr <= pos /\ pos <= full
      /\ closed => pos = full \/ pos = size
  BY <1>1 DEF BatchOK
<1>3. /\ b.nr \in Nat /\ EndOf(b) = offset + 2 + 3 * b.nr
      /\ Read(2) \in Nat /\ Read(2) <= 2 /\ pos + Read(2) <= size
      /\ Read(2) < 2 => pos + Read(2) = size
  BY <1>1, BatchType, ReadValue
<1>4. CASE Fails("EIO")
  BY <1>1, <1>4, GiveUpKeeps DEF Fails
<1>5. CASE Read(2) = 0 /\ GiveUp("EAGAIN")
  <2>1. offset < size /\ size < EndOf(b)
    BY <1>1, <1>2, <1>3, <1>5
  <2>2. closed => TornHere
    BY <1>1, <2>1, EndsInBatch
  <2> QED
    BY <1>1, <1>5, <2>2, GiveUpKeeps
<1>6. CASE /\ Read(2) > 0 /\ seg + 1 < b.nr
           /\ seg' = seg + 1 /\ GoOn("body", Read(2)) /\ UNCHANGED bh
  <2>1. BatchOK'
    <3>1. /\ pc' = "body" /\ pos' = pos + Read(2) /\ bh' = bh /\ seg' = seg + 1
          /\ offset' = offset /\ closed' = closed /\ op' = "read"
      BY <1>1, <1>6 DEF GoOn
    <3>2. batches' = batches /\ size' = size
      BY <1>1 DEF fileVars
    <3>3. /\ seg' < b.nr /\ offset + 2 + b.nr <= pos' /\ pos' <= size
          /\ pos' <= offset + 2 + b.nr + 2 * seg'
      BY <1>1, <1>2, <1>3, <1>6, <3>1, SMTT(40)
    <3>4. closed => pos' = offset + 2 + b.nr + 2 * seg' \/ pos' = size
      BY <1>1, <1>2, <1>3, <1>6, <3>1, SMTT(40)
    <3>5. /\ batches'[bh'] = b /\ bh' \in 1 .. Len(batches') /\ b.at = offset' /\ b.nr > 0
          /\ open' => pos' <= size'
      BY <1>1, <1>2, <1>3, <3>1, <3>2, <3>3
    <3> HIDE DEF IInv, b
    <3> QED
      BY <3>1, <3>2, <3>3, <3>4, <3>5 DEF BatchOK
  <2> QED
    BY <1>1, <1>3, <1>6, <2>1, GoOnKeeps
<1>7. CASE seg + 1 = b.nr /\ Read(2) > 0 /\ pos + Read(2) # EndOf(b) /\ GiveUp("EAGAIN")
  <2>1. ASSUME closed PROVE offset < size /\ size < EndOf(b)
    <3>1. EndOf(b) = full + 2 /\ full \in Nat
      <4> HIDE DEF b
      <4>1. b.nr = seg + 1
        BY <1>7
      <4>2. EndOf(b) = offset + 2 + 3 * (seg + 1) /\ full = offset + 2 + (seg + 1) + 2 * seg
        BY <1>3, <4>1
      <4> QED
        BY <1>1, <4>2
    <3>2. CASE pos = full
      <4>1. Read(2) # 2
        BY <1>7, <3>1, <3>2
      <4>2. Read(2) < 2
        BY <1>3, <4>1
      <4>3. size = full + Read(2)
        BY <1>3, <3>2, <4>2
      <4>4. size < EndOf(b)
        <5> HIDE DEF full, b
        <5> QED
          BY <1>3, <3>1, <4>2, <4>3
      <4>5. offset < pos
        BY <1>1, <1>2, <1>3
      <4> QED
        BY <1>1, <4>4, <4>5
    <3>3. CASE pos = size
      BY <1>1, <1>3, <1>7, <3>3
    <3> QED
      BY <1>2, <2>1, <3>2, <3>3
  <2>2. closed => TornHere
    BY <1>1, <2>1, EndsInBatch
  <2> QED
    BY <1>1, <1>7, <2>2, GiveUpKeeps
<1>8. CASE b.fault = "body" /\ GiveUp("EPROTO")
  <2>1. FaultHere
    BY <1>1, <1>8 DEF FaultHere
  <2> QED
    BY <1>1, <1>8, <2>1, GiveUpKeeps
<1>9. CASE pos + Read(2) = EndOf(b) /\ Take(b)
  BY <1>1, <1>3, <1>9, TakeKeeps
<1> QED
  BY <1>4, <1>5, <1>6, <1>7, <1>8, <1>9 DEF ReadBody, BodiesAreShort

LEMMA SkipBodyKeeps ==
  ASSUME IInv, SkipBody
  PROVE  IInv'
<1> USE DEF IInv
<1> DEFINE b == batches[bh]
<1>1. /\ pc = "body" /\ op = "lseek" /\ open /\ bh \in 1 .. Len(batches) /\ b.at = offset
      /\ pos <= size /\ pos \in Nat /\ size \in Nat /\ offset \in Nat
      /\ UNCHANGED <<fileVars, open, closed, op, to, ret, mark>>
  BY DEF SkipBody, HandleOK, BatchOK, TypeOK
<1>2. b.nr \in Nat /\ EndOf(b) = offset + 2 + 3 * b.nr /\ pos = offset + 2 + b.nr
  <2>1. b.nr \in Nat /\ EndOf(b) = offset + 2 + 3 * b.nr
    BY <1>1, BatchType
  <2> QED
    BY <1>1, <2>1 DEF BatchOK
<1>3. /\ Read(2 * b.nr) \in Nat /\ pos + Read(2 * b.nr) <= size
      /\ Read(2 * b.nr) < 2 * b.nr => pos + Read(2 * b.nr) = size
  <2>1. 2 * b.nr \in Nat
    BY <1>2
  <2> QED
    BY <1>1, <2>1, ReadValue
<1>4. CASE Fails("EIO") \/ Fails("ENOMEM")
  BY <1>1, <1>4, GiveUpKeeps DEF Fails
<1>5. CASE Read(2 * b.nr) < 2 * b.nr /\ GiveUp("EAGAIN")
  <2>1. offset < size /\ size < EndOf(b)
    BY <1>1, <1>2, <1>3, <1>5, SMTT(40)
  <2>2. closed => TornHere
    BY <1>1, <2>1, EndsInBatch
  <2> QED
    BY <1>1, <1>5, <2>2, GiveUpKeeps
<1>6. CASE Read(2 * b.nr) = 2 * b.nr /\ Take(b)
  <2>1. EndOf(b) <= size
    BY <1>1, <1>2, <1>3, <1>6
  <2> QED
    BY <1>1, <1>6, <2>1, TakeKeeps
<1>7. ASSUME NEW r \in {"EAGAIN", "ENOMEM", "EIO"}, GiveUp(r)
      PROVE  IInv'
  BY <1>1, <1>7, GiveUpKeeps
<1>8. ASSUME b.fault = "length", NEW o \in pos .. size, Stray(o, b.nr)
      PROVE  IInv'
  <2>1. o \in Nat /\ offset < o /\ o <= size
    BY <1>1, <1>2
  <2>2. WrongBefore(o)
    BY <1>1, <1>8, <2>1, LenProperties DEF WrongBefore, TypeOK
  <2> QED
    BY <1>1, <1>2, <1>8, <2>1, <2>2, StrayKeeps
<1> QED
  BY <1>4, <1>5, <1>6, <1>7, <1>8 DEF SkipBody

LEMMA ReadResultKeeps ==
  ASSUME IInv, ReadResult
  PROVE  IInv'
<1> USE DEF IInv
<1>1. /\ UNCHANGED <<batches, size, renamed, newSize, open, closed, offset, pos, nr_msg, queue, op,
                     to, bh, seg, rc, consumed, mark>>
      /\ pc = "result" /\ op = "read" /\ open
      /\ rc # "more" => queue = <<>>
  BY DEF ReadResult, fileVars, streamVars, HandleOK, QueueOK
<1>2. /\ FileOK' /\ FileEnd' = FileEnd /\ Recorded' = Recorded
      /\ \A k : StartAt(k)' = StartAt(k) /\ FirstAt(k)' = FirstAt(k)
  BY <1>1, FileSame DEF fileVars
<1>3. BufferIsNext'
  BY <1>1, BufferSame
<1>4. CASE pc' \in {"ready", "poll"} /\ UNCHANGED ret /\ (pc' = "poll" => rc # "more")
  <2>1. TypeOK'
    BY <1>1, <1>4 DEF TypeOK, Steps
  <2>2. HandleOK' /\ QueueOK' /\ BatchOK' /\ ResultOK' /\ ReturnOK' /\ FdAtBatch'
    BY <1>1, <1>4 DEF HandleOK, QueueOK, BatchOK, ResultOK, ReturnOK, FdAtBatch
  <2>3. EofComplete' /\ NoFalseAlarm'
    BY <1>1, <1>4 DEF EofComplete, NoFalseAlarm, ReturnOK
  <2> QED
    BY <1>2, <1>3, <2>1, <2>2, <2>3
<1>5. ASSUME NEW r \in {"eof", "EPROTO", "ENOMEM", "EIO", "EAGAIN", "ETIMEDOUT"}, Return(r),
             r = "eof" => rc = "eob" /\ closed,
             r = "EPROTO" => rc = "EPROTO" \/ (rc = "EAGAIN" /\ closed)
      PROVE  IInv'
  <2>1. pc' = "idle" /\ ret' = r
    BY <1>5 DEF Return
  <2>2. TypeOK'
    BY <1>1, <2>1 DEF TypeOK, Steps
  <2>3. HandleOK' /\ QueueOK' /\ BatchOK' /\ ResultOK' /\ ReturnOK' /\ FdAtBatch'
    BY <1>1, <2>1 DEF HandleOK, QueueOK, BatchOK, ResultOK, ReturnOK, FdAtBatch
  <2>4. EofComplete'
    <3>1. ASSUME r = "eof" PROVE renamed /\ queue = <<>> /\ consumed = Recorded
      <4>1. renamed /\ queue = <<>> /\ offset = size
        BY <1>1, <1>5, <3>1 DEF HandleOK, ResultOK
      <4>2. consumed = Recorded
        BY <1>1, <4>1, ReadThrough
      <4> QED
        BY <4>1, <4>2
    <3> QED
      BY <1>1, <1>2, <2>1, <3>1 DEF EofComplete
  <2>5. NoFalseAlarm'
    <3>1. r = "EPROTO" => FaultHere \/ TornHere \/ StrayHere
      BY <1>1, <1>5 DEF ResultOK
    <3>2. DOMAIN batches = 1 .. Len(batches)
      BY LenProperties DEF TypeOK
    <3> QED
      BY <1>1, <1>2, <2>1, <3>1, <3>2
      DEF NoFalseAlarm, FaultHere, TornHere, StrayHere, NoBatchHere, WrongBefore
  <2> QED
    BY <1>2, <1>3, <2>2, <2>3, <2>4, <2>5
<1>6. CASE rc = "more" /\ pc' = "ready" /\ UNCHANGED ret
  BY <1>4, <1>6
<1>7. CASE rc = "eob" /\ closed /\ Return("eof")
  BY <1>5, <1>7
<1>8. CASE rc \in {"EPROTO", "ENOMEM", "EIO"} /\ Return(rc)
  BY <1>5, <1>8
<1>9. CASE rc = "EAGAIN" /\ closed /\ Return("EPROTO")
  BY <1>5, <1>9
<1>10. CASE /\ rc \in {"eob", "EAGAIN"}
            /\ \/ Return("EAGAIN")
               \/ Return("ETIMEDOUT")
               \/ pc' = "poll" /\ UNCHANGED ret
  BY <1>4, <1>5, <1>10
<1> QED
  BY <1>6, <1>7, <1>8, <1>9, <1>10 DEF ReadResult

LEMMA PollKeeps ==
  ASSUME IInv, Poll
  PROVE  IInv'
<1> USE DEF IInv
<1>1. /\ UNCHANGED <<batches, size, renamed, newSize, open, offset, pos, nr_msg, queue, op, to, bh,
                     seg, rc, ret, consumed, mark>>
      /\ pc = "poll" /\ op = "read" /\ open /\ pc' = "head" /\ queue = <<>> /\ ret = "none"
      /\ closed' = (closed \/ LooksRenamed)
  BY DEF Poll, fileVars, HandleOK, QueueOK, ReturnOK
<1>2. /\ FileOK'
      /\ \A k : StartAt(k)' = StartAt(k) /\ FirstAt(k)' = FirstAt(k)
  BY <1>1, FileSame DEF fileVars
<1>3. LooksRenamed => renamed
  BY <1>1 DEF LooksRenamed, NameSize, BufferIsNext, TypeOK
<1>4. closed' \in BOOLEAN /\ (closed' => renamed)
  BY <1>1, <1>3 DEF HandleOK
<1>5. TypeOK'
  BY <1>1, <1>4 DEF TypeOK, Steps
<1>6. HandleOK' /\ QueueOK' /\ BatchOK' /\ ResultOK' /\ ReturnOK' /\ FdAtBatch'
  BY <1>1, <1>4 DEF HandleOK, QueueOK, BatchOK, ResultOK, ReturnOK, FdAtBatch
<1>7. BufferIsNext'
  BY <1>1, BufferSame
<1>8. EofComplete' /\ NoFalseAlarm'
  BY <1>1 DEF EofComplete, NoFalseAlarm
<1> QED
  BY <1>2, <1>5, <1>6, <1>7, <1>8

LEMMA LseekResultKeeps ==
  ASSUME IInv, LseekResult
  PROVE  IInv'
<1> USE DEF IInv
<1>1. /\ UNCHANGED <<batches, size, renamed, newSize, open, closed, offset, pos, queue, op, to, bh,
                     seg, rc, consumed, mark>>
      /\ pc = "result" /\ op = "lseek" /\ open /\ queue = <<>> /\ ret = "none"
  BY DEF LseekResult, fileVars, HandleOK, QueueOK, ReturnOK
<1>2. /\ FileOK'
      /\ \A k : StartAt(k)' = StartAt(k) /\ FirstAt(k)' = FirstAt(k)
  BY <1>1, FileSame DEF fileVars
<1>3. /\ nr_msg' \in {0, nr_msg}
      /\ \/ pc' = "head" /\ ret' = "none"
         \/ pc' = "idle" /\ ret' = "ok"
         \/ pc' = "idle" /\ ret' = rc /\ rc \in {"EPROTO", "ENOMEM", "EIO"}
  BY <1>1 DEF LseekResult, Return
<1>4. TypeOK'
  BY <1>1, <1>3 DEF TypeOK, Steps
<1>5. HandleOK' /\ BatchOK' /\ ResultOK' /\ ReturnOK' /\ FdAtBatch'
  BY <1>1, <1>3 DEF HandleOK, BatchOK, ResultOK, ReturnOK, FdAtBatch
<1>6. QueueOK'
  BY <1>1, <1>3 DEF QueueOK, TypeOK
<1>7. BufferIsNext'
  BY <1>1, BufferSame
<1>8. EofComplete'
  BY <1>3 DEF EofComplete
<1>9. NoFalseAlarm'
  <2>1. DOMAIN batches = 1 .. Len(batches)
    BY LenProperties DEF TypeOK
  <2> QED
    BY <1>1, <1>3, <2>1
    DEF NoFalseAlarm, ResultOK, FaultHere, StrayHere, NoBatchHere, WrongBefore
<1> QED
  BY <1>2, <1>4, <1>5, <1>6, <1>7, <1>8, <1>9

-----------------------------------------------------------------------------
(* The theorems. *)

LEMMA InitIInv ==
  Init => IInv
<1> SUFFICES ASSUME Init PROVE IInv
  OBVIOUS
<1> USE DEF Init
<1>1. Len(batches) = 0 /\ Len(queue) = 0 /\ batches \in Seq(Batch) /\ queue \in Seq(Nat)
  BY EmptySeq
<1>2. TypeOK
  <2> HIDE DEF Init
  <2>1. newSize \in Int /\ size \in Nat /\ offset \in Nat /\ pos \in Nat /\ nr_msg \in Nat
        /\ bh \in Nat /\ seg \in Nat /\ consumed \in Nat /\ mark \in Nat
    BY DEF Init
  <2>2. renamed \in BOOLEAN /\ open \in BOOLEAN /\ closed \in BOOLEAN
    BY DEF Init
  <2>3. pc = "idle" /\ op = "read" /\ to = "zero" /\ rc = "eob" /\ ret = "none"
    BY DEF Init
  <2> QED
    BY <1>1, <2>1, <2>2, <2>3 DEF TypeOK, Steps
<1>3. FileOK
  <2>1. 0 + 1 = 1
    OBVIOUS
  <2>2. FileEnd = 1
    BY <1>1, <2>1 DEF FileEnd, StartAt
  <2> QED
    BY <1>1, <2>2 DEF FileOK
<1>4. HandleOK /\ QueueOK /\ BatchOK /\ ResultOK /\ ReturnOK
  BY <1>1 DEF HandleOK, QueueOK, BatchOK, ResultOK, ReturnOK
<1>5. BufferIsNext /\ FdAtBatch /\ EofComplete /\ NoFalseAlarm
  BY DEF BufferIsNext, FdAtBatch, EofComplete, NoFalseAlarm
<1> QED
  BY <1>2, <1>3, <1>4, <1>5 DEF IInv

LEMMA StutterKeeps ==
  ASSUME IInv, UNCHANGED vars
  PROVE  IInv'
<1> USE DEF IInv
<1>1. UNCHANGED <<batches, size, renamed, newSize, open, closed, offset, pos, nr_msg, queue, pc, op,
                  to, bh, seg, rc, ret, consumed, mark>>
  BY DEF vars, fileVars, streamVars, callVars
<1>2. /\ FileOK' /\ FileEnd' = FileEnd /\ Recorded' = Recorded
      /\ \A k : StartAt(k)' = StartAt(k) /\ FirstAt(k)' = FirstAt(k)
  BY <1>1, FileSame DEF fileVars
<1>3. TypeOK'
  BY <1>1 DEF TypeOK
<1>4. HandleOK' /\ QueueOK' /\ BatchOK' /\ ReturnOK' /\ FdAtBatch'
  BY <1>1 DEF HandleOK, QueueOK, BatchOK, ReturnOK, FdAtBatch
<1>5. ResultOK'
  BY <1>1, <1>2 DEF ResultOK, FaultHere, TornHere, StrayHere, NoBatchHere, WrongBefore
<1>6. BufferIsNext'
  BY <1>1, BufferSame
<1>7. EofComplete'
  BY <1>1, <1>2 DEF EofComplete
<1>8. NoFalseAlarm'
  BY <1>1, <1>2 DEF NoFalseAlarm, WrongBefore
<1> QED
  BY <1>2, <1>3, <1>4, <1>5, <1>6, <1>7, <1>8

LEMMA NextIInv ==
  IInv /\ [Next]_vars => IInv'
<1> SUFFICES ASSUME IInv, [Next]_vars PROVE IInv'
  OBVIOUS
<1>1. CASE Recorder
  <2>1. MaxBatch \in Nat
    BY MdsFileAssumption DEF MdsFileAssumption
  <2>2. ASSUME NEW n \in 0 .. MaxBatch, NEW f \in Faults \cup {"none"}, BeginBatch(n, f)
        PROVE  IInv'
    <3>1. n \in Nat
      BY <2>1
    <3> QED
      BY <2>2, <3>1, BeginBatchKeeps
  <2> QED
    BY <1>1, <2>2, WriteFileHeadKeeps, WriteUnitKeeps, RenameKeeps DEF Recorder
<1>2. CASE Application
  BY <1>2, OpenKeeps, CloseKeeps, CallReadKeeps, CallLseekKeeps DEF Application
<1>3. CASE Handle
  BY <1>3, ReadyKeeps, ReadHeadKeeps, ReadStrayKeeps, ReadSegmentsKeeps, ReadBodyKeeps, SkipBodyKeeps,
     ReadResultKeeps, PollKeeps, LseekResultKeeps DEF Handle, Stream
<1>4. CASE UNCHANGED vars
  BY <1>4, StutterKeeps
<1> QED
  BY <1>1, <1>2, <1>3, <1>4 DEF Next

THEOREM IInvHolds ==
  Spec => []IInv
  BY InitIInv, NextIInv, PTL DEF Spec

(* Every variable always has its type. *)
THEOREM TypeCorrect ==
  Spec => []TypeOK
<1>1. IInv => TypeOK
  BY DEF IInv
<1> QED
  BY <1>1, IInvHolds, PTL

(* The buffer of mds_file_read always holds exactly the messages that come *)
(* next, however the recorder's writes and the reader's _read()s overlap.  *)
THEOREM BufferCorrect ==
  Spec => []BufferIsNext
<1>1. IInv => BufferIsNext
  BY DEF IInv
<1> QED
  BY <1>1, IInvHolds, PTL

(* Every batch that could not be taken has put the fd back.                *)
THEOREM FdCorrect ==
  Spec => []FdAtBatch
<1>1. IInv => FdAtBatch
  BY DEF IInv
<1> QED
  BY <1>1, IInvHolds, PTL

(* mds_file_read returns 0 only after every message of the file.           *)
THEOREM EofCorrect ==
  Spec => []EofComplete
<1>1. IInv => EofComplete
  BY DEF IInv
<1> QED
  BY <1>1, IInvHolds, PTL

(* A file that is only being written is never called inconsistent.         *)
THEOREM AlarmCorrect ==
  Spec => []NoFalseAlarm
<1>1. IInv => NoFalseAlarm
  BY DEF IInv
<1> QED
  BY <1>1, IInvHolds, PTL

-----------------------------------------------------------------------------
(* The handle and the file: MdsFile implements MsgFile, and               *)
(* mds_file_lseek skips to the newest message.                             *)

(* What is recorded. *)

LEMMA FirstGrows ==
  ASSUME TypeOK, FileOK, NEW k \in 1 .. Len(batches)
  PROVE  FirstAt(k) <= FirstAt(Len(batches)) /\ FirstAt(k) <= FirstAt(Len(batches) + 1)
<1>1. Len(batches) \in 1 .. Len(batches)
  BY LenType
<1>2. /\ batches[k].first \in Nat /\ batches[Len(batches)].first \in Nat
      /\ batches[k].nr \in Nat /\ batches[Len(batches)].nr \in Nat
  BY <1>1, BatchType
<1>3. batches[k].first <= batches[Len(batches)].first
  <2>1. CASE k = Len(batches)
    BY <2>1, <1>2
  <2>2. CASE k < Len(batches)
    <3>1. batches[k].first + batches[k].nr <= batches[Len(batches)].first
      BY <1>1, <2>2 DEF FileOK
    <3> QED
      BY <1>2, <3>1
  <2> QED
    BY <2>1, <2>2, LenType
<1>4. /\ FirstAt(k) = batches[k].first /\ FirstAt(Len(batches)) = batches[Len(batches)].first
      /\ FirstAt(Len(batches) + 1) = batches[Len(batches)].first + batches[Len(batches)].nr
  BY <1>1, NextStart DEF FileOK
<1>5. batches[Len(batches)].first <= batches[Len(batches)].first + batches[Len(batches)].nr
  BY <1>2
<1> QED
  BY <1>2, <1>3, <1>4, <1>5

(* A handle never has more than what is in the file. *)
LEMMA ConsumedBound ==
  IInv /\ open => consumed + Len(queue) <= Recorded
<1> SUFFICES ASSUME IInv, open PROVE consumed + Len(queue) <= Recorded
  OBVIOUS
<1> USE DEF IInv
<1>1. PICK k \in 1 .. Len(batches) + 1 :
        InBatch(k, offset) /\ consumed + Len(queue) + 1 = FirstAt(k)
  BY DEF BufferIsNext
<1>2. offset <= size /\ size \in Nat /\ offset \in Nat
  BY DEF BufferIsNext, TypeOK
<1>3. consumed + Len(queue) \in Nat
  BY LenType DEF TypeOK
<1>4. FirstAt(k) <= FirstAt(Whole + 1)
  <2>1. CASE k = Len(batches) + 1
    <3>1. size >= FileEnd
      <4>1. StartAt(k) <= offset /\ StartAt(k) \in Nat
        BY <1>1, StartType DEF InBatch
      <4> QED
        BY <1>2, <2>1, <4>1 DEF FileEnd
    <3>2. Whole = Len(batches)
      BY <3>1 DEF Whole
    <3> QED
      BY <2>1, <3>2, StartType
  <2>2. CASE k \in 1 .. Len(batches)
    <3>1. Whole + 1 = Len(batches) \/ Whole + 1 = Len(batches) + 1
      BY WholeType, LenType
    <3> QED
      BY <2>2, <3>1, FirstGrows
  <2> QED
    BY <2>1, <2>2, LenType
<1>5. FirstAt(k) \in Nat /\ FirstAt(Whole + 1) \in Nat
  <2>1. Whole + 1 \in 1 .. Len(batches) + 1
    BY WholeType, LenType
  <2> QED
    BY <2>1, StartType
<1>6. consumed + Len(queue) + 1 <= FirstAt(Whole + 1)
  BY <1>1, <1>4
<1> QED
  BY <1>3, <1>5, <1>6 DEF Recorded

(* The recorder only ever adds to it. *)
LEMMA RecordedGrows ==
  ASSUME IInv, Recorder
  PROVE  Recorded' >= Recorded /\ (renamed => Recorded' = Recorded)
<1> USE DEF IInv
<1> PICK L \in Nat : L = Len(batches)
  BY LenType
<1>1. Recorded \in Nat
  BY RecordedType
<1>2. batches = <<>> <=> L = 0
  BY EmptySeq DEF TypeOK
<1>3. CASE WriteFileHead
  <2>1. UNCHANGED batches /\ size = 0 /\ size' = 1 /\ ~renamed
    BY <1>3 DEF WriteFileHead
  <2>2. L = 0
    <3>1. ASSUME L # 0 PROVE FALSE
      <4>1. StartAt(L) <= size /\ StartAt(L) >= 1 /\ StartAt(L) \in Nat
        BY <1>2, <3>1, StartType DEF FileOK
      <4> QED
        BY <2>1, <4>1
    <3> QED
      BY <3>1
  <2>3. Whole = 0 /\ Whole' = 0
    BY <1>2, <2>1, <2>2 DEF Whole
  <2>4. Recorded' = Recorded
    BY <2>1, <2>3 DEF Recorded, FirstAt
  <2> QED
    BY <1>1, <2>4
<1>4. ASSUME NEW n \in 0 .. MaxBatch, NEW f \in Faults \cup {"none"}, BeginBatch(n, f)
      PROVE  Recorded' >= Recorded /\ (renamed => Recorded' = Recorded)
  <2>1. n \in Nat /\ size = FileEnd /\ size' = size /\ size \in Nat
    BY <1>4, MdsFileAssumption DEF BeginBatch, MdsFileAssumption, TypeOK
  <2>2. /\ Len(batches') = L + 1
        /\ FirstAt(L + 1)' = FirstAt(L + 1)
        /\ batches'[L + 1].at = size /\ batches'[L + 1].nr = n
    <3>1. batches' = Append(batches, [at |-> size, first |-> FirstAt(Len(batches) + 1),
                                      nr |-> n, fault |-> f])
      BY <1>4 DEF BeginBatch
    <3>2. L \in Nat /\ L + 1 \in 1 .. L + 1
      BY LenType
    <3>3. /\ Len(batches') = Len(batches) + 1
          /\ \A k \in 1 .. Len(batches) + 1 : FirstAt(k)' = FirstAt(k)
          /\ batches'[Len(batches) + 1].at = FileEnd /\ batches'[Len(batches) + 1].nr = n
      BY <1>4, <2>1, BeginBatchFile
    <3> QED
      BY <2>1, <3>2, <3>3
  <2>3. Whole = L
    BY <2>1 DEF Whole
  <2>4. FileEnd' = size + 2 + 3 * n
    <3>1. L + 2 # 1 /\ L + 2 - 1 = L + 1 /\ Len(batches') + 1 = L + 2
      BY <2>2
    <3>2. FileEnd' = EndOf(batches'[L + 1])
      BY <3>1 DEF FileEnd, StartAt, EndOf, SizeOf
    <3> QED
      BY <2>1, <2>2, <3>2 DEF EndOf, SizeOf
  <2>5. ~(size' >= FileEnd') /\ batches' # <<>>
    BY <2>1, <2>2, <2>4
  <2>6. Whole' = L
    BY <2>2, <2>5 DEF Whole
  <2>7. Recorded' = FirstAt(L + 1)' - 1 /\ Recorded = FirstAt(L + 1) - 1
    BY <2>3, <2>6 DEF Recorded
  <2> QED
    BY <1>1, <2>2, <2>7
<1>5. CASE WriteUnit
  <2>1. UNCHANGED batches /\ size' = size + 1 /\ ~renamed /\ size \in Nat /\ size < FileEnd
    BY <1>5 DEF WriteUnit, TypeOK
  <2>2. FileEnd' = FileEnd /\ \A k : FirstAt(k)' = FirstAt(k)
    BY <2>1 DEF FileEnd, StartAt, FirstAt
  <2>3. CASE L = 0
    <3>1. Whole = 0 /\ Whole' = 0
      BY <1>2, <2>1, <2>3 DEF Whole
    <3>2. Recorded' = Recorded
      BY <2>1, <3>1 DEF Recorded, FirstAt
    <3> QED
      BY <1>1, <3>2
  <2>4. CASE L # 0
    <3>1. FileEnd \in Nat
      BY StartType DEF FileEnd
    <3>2. ~(size >= FileEnd)
      BY <2>1, <3>1
    <3>3. Whole = L - 1
      BY <1>2, <2>4, <3>2 DEF Whole
    <3>4. Whole' = L \/ Whole' = L - 1
      BY <2>1 DEF Whole
    <3>5. FirstAt(L) <= FirstAt(L + 1) /\ FirstAt(L) \in Nat /\ FirstAt(L + 1) \in Nat
      BY <2>4, FirstGrows, StartType
    <3>6. CASE Whole' = L
      <4>1. Recorded' = FirstAt(L + 1) - 1 /\ Recorded = FirstAt(L) - 1
        BY <2>2, <3>3, <3>6 DEF Recorded
      <4> QED
        BY <2>1, <3>5, <4>1
    <3>7. CASE Whole' = L - 1
      <4>1. Recorded' = FirstAt(L) - 1 /\ Recorded = FirstAt(L) - 1
        BY <2>2, <3>3, <3>7 DEF Recorded
      <4> QED
        BY <1>1, <4>1
    <3> QED
      BY <3>4, <3>6, <3>7
  <2> QED
    BY <2>3, <2>4
<1>6. CASE Rename \/ WriteNewFile
  <2>1. UNCHANGED <<batches, size>>
    BY <1>6 DEF Rename, WriteNewFile
  <2>2. FileEnd' = FileEnd
    BY <2>1 DEF FileEnd, StartAt
  <2>3. Whole' = Whole
    BY <2>1, <2>2 DEF Whole
  <2>4. Recorded' = Recorded
    BY <2>1, <2>3 DEF Recorded, FirstAt
  <2> QED
    BY <1>1, <2>4
<1> QED
  BY <1>3, <1>4, <1>5, <1>6 DEF Recorder

-----------------------------------------------------------------------------
(* Every step of a handle and of the recorder is one of MsgFile. *)

Bounds ==
  Recorded \in Nat /\ (open => consumed + Len(queue) <= Recorded)

LEMMA NextBounds ==
  IInv /\ [Next]_vars => Bounds'
<1>1. IInv => Bounds
  BY ConsumedBound, RecordedType DEF IInv, Bounds
<1> QED
  BY <1>1, NextIInv, PTL

LEMMA InitRefines ==
  Init => M!Init
<1> SUFFICES ASSUME Init PROVE M!Init
  OBVIOUS
<1>1. Len(batches) = 0 /\ batches = <<>>
  BY EmptySeq DEF Init
<1>2. Whole = 0
  BY <1>1 DEF Whole
<1>3. Recorded = 0
  BY <1>2 DEF Recorded, FirstAt
<1> QED
  BY <1>3 DEF Init, M!Init

LEMMA RecorderRefines ==
  ASSUME IInv, Recorder
  PROVE  [M!Next]_(M!vars)
<1> USE DEF IInv
<1>1. Recorded \in Nat /\ Recorded' >= Recorded /\ (renamed => Recorded' = Recorded)
  BY RecordedType, RecordedGrows
<1>2. UNCHANGED <<consumed, ret>>
  BY DEF Recorder, WriteFileHead, BeginBatch, WriteUnit, Rename, WriteNewFile, callVars
<1>3. CASE renamed' = renamed
  <2>1. Recorded' \in Nat
    BY NextBounds DEF Next, Bounds
  <2>2. CASE Recorded' = Recorded
    BY <1>2, <1>3, <2>2 DEF M!vars
  <2>3. CASE Recorded' > Recorded
    <3>1. ~renamed
      BY <1>1, <2>3
    <3> QED
      BY <1>2, <1>3, <2>1, <2>3, <3>1 DEF M!Next, M!Record
  <2> QED
    BY <1>1, <2>1, <2>2, <2>3
<1>4. CASE Rename
  <2>1. UNCHANGED <<batches, size>> /\ ~renamed /\ renamed' = TRUE
    BY <1>4 DEF Rename
  <2>2. Recorded' = Recorded
    <3>1. FileEnd' = FileEnd
      BY <2>1 DEF FileEnd, StartAt
    <3>2. Whole' = Whole
      BY <2>1, <3>1 DEF Whole
    <3> QED
      BY <2>1, <3>2 DEF Recorded, FirstAt
  <2> QED
    BY <1>2, <2>1, <2>2 DEF M!Next, M!Seal
<1> QED
  BY <1>3, <1>4 DEF Recorder, WriteFileHead, BeginBatch, WriteUnit, Rename, WriteNewFile

(* What a step of the handle means to MsgFile: it neither changes the file *)
(* nor what is recorded of it.                                             *)
LEMMA HandleSame ==
  ASSUME IInv, UNCHANGED fileVars
  PROVE  Recorded' = Recorded /\ renamed' = renamed /\ Recorded \in Nat /\ consumed \in Nat
  BY FileSame, RecordedType DEF IInv, fileVars, TypeOK

(* The answer "end of file" is withdrawn, or was not given.                *)
LEMMA ResumeRefines ==
  ASSUME IInv, UNCHANGED fileVars, consumed' = consumed, ret' # "eof"
  PROVE  [M!Next]_(M!vars)
  BY HandleSame DEF M!Next, M!Resume

(* Messages are skipped that are there.                                    *)
LEMMA SkipRefines ==
  ASSUME IInv, [Next]_vars, UNCHANGED fileVars, open', consumed' \in Nat, Len(queue') = 0,
         consumed' >= consumed, ret' # "eof"
  PROVE  [M!Next]_(M!vars)
<1>1. Recorded' = Recorded /\ renamed' = renamed /\ Recorded \in Nat /\ consumed \in Nat
  BY HandleSame
<1>2. consumed' <= Recorded
  <2>1. consumed' + Len(queue') <= Recorded'
    BY NextBounds DEF Bounds
  <2>2. consumed' + Len(queue') = consumed'
    <3>1. consumed' \in Nat /\ Len(queue') = 0
      OBVIOUS
    <3>2. \A x \in Nat : \A y \in {0} : x + y = x
      OBVIOUS
    <3> QED
      BY <3>1, <3>2
  <2> QED
    BY <1>1, <2>1, <2>2
<1>3. CASE consumed' = consumed
  BY <1>3, ResumeRefines
<1>4. CASE consumed < consumed'
  BY <1>1, <1>2, <1>4 DEF M!Next, M!Skip
<1> QED
  BY <1>1, <1>3, <1>4

LEMMA ApplicationRefines ==
  ASSUME IInv, Application
  PROVE  [M!Next]_(M!vars)
<1>1. CASE Open
  <2>1. UNCHANGED fileVars /\ ret' # "eof"
    BY <1>1 DEF Open
  <2>2. CASE size = 0
    BY <1>1, <2>1, <2>2, ResumeRefines DEF Open
  <2>3. CASE size # 0
    <3>1. consumed' = 0
      BY <1>1, <2>3 DEF Open
    <3> QED
      BY <2>1, <3>1, HandleSame DEF M!Next, M!Restart
  <2> QED
    BY <2>2, <2>3
<1>2. CASE Close
  BY <1>2, ResumeRefines DEF Close
<1>3. CASE \E t \in Timeouts : CallRead(t)
  BY <1>3, ResumeRefines DEF CallRead
<1>4. CASE CallLseek
  <2>1. /\ UNCHANGED fileVars /\ ret' # "eof" /\ open' /\ queue' = <<>>
        /\ consumed' = consumed + Len(queue)
    BY <1>4 DEF CallLseek
  <2>2. consumed \in Nat /\ Len(queue) \in Nat
    BY LenType DEF IInv, TypeOK
  <2>3. consumed' \in Nat /\ consumed' >= consumed /\ Len(queue') = 0
    BY <2>1, <2>2, EmptySeq
  <2>4. [Next]_vars
    BY DEF Next
  <2> QED
    BY <2>1, <2>3, <2>4, SkipRefines
<1> QED
  BY <1>1, <1>2, <1>3, <1>4 DEF Application

LEMMA TakeRefines ==
  ASSUME IInv, [Next]_vars, UNCHANGED <<fileVars, open, op, ret>>, pc \in {"head", "body"},
         NEW i \in 1 .. Len(batches), Take(batches[i])
  PROVE  [M!Next]_(M!vars)
<1> USE DEF IInv
<1>1. open /\ ret' # "eof" /\ queue = <<>> /\ UNCHANGED fileVars /\ open' = open
  BY DEF HandleOK, ReturnOK, QueueOK
<1>2. CASE op = "read"
  <2>1. consumed' = consumed
    BY <1>2 DEF Take
  <2> QED
    BY <1>1, <2>1, ResumeRefines
<1>3. CASE op = "lseek"
  <2>1. consumed' = consumed + batches[i].nr /\ queue' = <<>>
    BY <1>1, <1>3 DEF Take
  <2>2. batches[i].nr \in Nat /\ consumed \in Nat
    BY BatchType DEF TypeOK
  <2>3. consumed' \in Nat /\ consumed' >= consumed /\ Len(queue') = 0
    BY <2>1, <2>2, EmptySeq
  <2> QED
    BY <1>1, <2>3, SkipRefines
<1> QED
  BY <1>2, <1>3 DEF TypeOK

(* Batches that end before an earlier place also end before a later one.   *)
LEMMA FirstInBatch ==
  ASSUME TypeOK, FileOK, NEW j \in 1 .. Len(batches) + 1, NEW k \in 1 .. Len(batches) + 1,
         NEW o \in Nat, NEW p \in Nat, o <= p, InBatch(j, o), InBatch(k, p)
  PROVE  FirstAt(j) <= FirstAt(k)
<1>1. FirstAt(j) \in Nat /\ FirstAt(k) \in Nat
  BY StartType
<1>2. ~(k < j)
  <2>1. SUFFICES ASSUME k < j PROVE FALSE
    OBVIOUS
  <2>2. k \in 1 .. Len(batches) /\ k <= Len(batches)
    BY <2>1, LenType
  <2>3. EndOf(batches[k]) <= StartAt(j)
    <3>1. CASE j = Len(batches) + 1
      BY <2>2, <3>1, EndsInFile DEF FileEnd
    <3>2. CASE j \in 1 .. Len(batches)
      BY <2>1, <2>2, <3>2 DEF FileOK
    <3> QED
      BY <3>1, <3>2, LenType
  <2>4. StartAt(j) <= o /\ p < EndOf(batches[k]) /\ StartAt(j) \in Nat
    BY <2>2, StartType DEF InBatch
  <2> QED
    BY <2>2, <2>3, <2>4, BatchType
<1>3. CASE j = k
  BY <1>1, <1>3
<1>4. CASE j < k
  <2>1. j \in 1 .. Len(batches)
    BY <1>4, LenType
  <2>2. CASE k = Len(batches) + 1
    BY <2>1, <2>2, FirstGrows
  <2>3. CASE k \in 1 .. Len(batches)
    <3>1. FirstAt(j) = batches[j].first /\ FirstAt(k) = batches[k].first
      BY <2>1, <2>3 DEF FileOK
    <3>2. batches[j].first + batches[j].nr <= batches[k].first
      BY <1>4, <2>1, <2>3 DEF FileOK
    <3> QED
      BY <2>1, <2>3, <3>1, <3>2, BatchType
  <2> QED
    BY <2>2, <2>3, LenType
<1> QED
  BY <1>2, <1>3, <1>4, LenType

(* A handle that goes astray drops messages that are there, never more,    *)
(* and none comes back.                                                    *)
LEMMA StrayRefines ==
  ASSUME IInv, [Next]_vars, UNCHANGED <<fileVars, open, op, ret>>, pc \in {"head", "body"},
         NEW o \in Nat, NEW n \in Nat, offset <= o, Stray(o, n)
  PROVE  [M!Next]_(M!vars)
<1> USE DEF IInv
<1>1. open /\ ret' # "eof" /\ queue = <<>> /\ queue' = <<>> /\ Len(queue) = 0
  BY EmptySeq DEF HandleOK, ReturnOK, QueueOK, Stray
<1>2. PICK j \in 1 .. Len(batches) + 1 :
        InBatch(j, offset) /\ consumed + Len(queue) + 1 = FirstAt(j)
  BY <1>1 DEF BufferIsNext
<1>3. PICK k \in 1 .. Len(batches) + 1 : InBatch(k, o) /\ consumed' = FirstAt(k) - 1
  BY DEF Stray
<1>4. FirstAt(j) <= FirstAt(k) /\ FirstAt(k) \in Nat /\ FirstAt(k) >= 1
  BY <1>2, <1>3, FirstInBatch, StartType, FirstPositive DEF TypeOK
<1>5. consumed \in Nat /\ consumed + 1 = FirstAt(j)
  BY <1>1, <1>2 DEF TypeOK
<1>6. consumed' \in Nat /\ consumed' >= consumed
  BY <1>3, <1>4, <1>5
<1> QED
  BY <1>1, <1>6, SkipRefines

LEMMA StreamRefines ==
  ASSUME IInv, Stream
  PROVE  [M!Next]_(M!vars)
<1>1. /\ [Next]_vars /\ UNCHANGED <<fileVars, open, op, ret>>
      /\ pc \in {"head", "segs", "body"} /\ ret' # "eof"
  BY DEF Next, Handle, Stream, ReadHead, ReadStray, ReadSegments, ReadBody, SkipBody, IInv, ReturnOK
<1>2. CASE consumed' = consumed
  BY <1>1, <1>2, ResumeRefines
<1>3. CASE \E i \in 1 .. Len(batches) : pc # "segs" /\ Take(batches[i])
  BY <1>1, <1>3, TakeRefines
<1>4. DOMAIN batches = 1 .. Len(batches)
  BY LenProperties DEF IInv, TypeOK
<1>5. pc = "body" => bh \in 1 .. Len(batches)
  BY DEF IInv, BatchOK
<1>6. CASE ReadHead
  BY <1>2, <1>3, <1>4, <1>6 DEF ReadHead, GiveUp, GoOn
<1>7. CASE ReadSegments
  BY <1>2, <1>7 DEF ReadSegments, GiveUp, GoOn, Fails
<1>8. CASE ReadBody
  BY <1>2, <1>3, <1>5, <1>8 DEF ReadBody, GiveUp, GoOn, Fails
<1>9. ASSUME NEW o \in pos .. size, NEW n \in Nat, Stray(o, n), pc \in {"head", "body"}
      PROVE  [M!Next]_(M!vars)
  <2>1. pos \in Nat /\ size \in Nat /\ offset \in Nat /\ offset <= pos
    <3>1. CASE pc = "head"
      BY <3>1 DEF IInv, HandleOK, FdAtBatch, TypeOK
    <3>2. CASE pc = "body"
      BY <3>2, BatchType DEF IInv, BatchOK, TypeOK
    <3> QED
      BY <1>9, <3>1, <3>2
  <2>2. o \in Nat /\ offset <= o
    BY <2>1
  <2> QED
    BY <1>1, <1>9, <2>2, StrayRefines
<1>10. CASE SkipBody
  <2>1. pc = "body" /\ batches[bh].nr \in Nat
    BY <1>5, <1>10, BatchType DEF SkipBody, IInv
  <2>2. CASE \E o \in pos .. size : Stray(o, batches[bh].nr)
    BY <1>9, <2>1, <2>2
  <2> QED
    BY <1>2, <1>3, <1>5, <1>10, <2>1, <2>2 DEF SkipBody, GiveUp, Fails
<1>11. CASE ReadStray
  <2>1. pc = "head" /\ pos \in Nat /\ size \in Nat /\ Read(2) = 2 /\ pos + Read(2) <= size
    BY <1>11, ReadValue DEF ReadStray, IInv, TypeOK, BatchOK, HandleOK
  <2>2. ASSUME NEW o \in pos + 2 .. size, NEW n \in {0, 1}, Stray(o, n)
        PROVE  [M!Next]_(M!vars)
    BY <1>9, <2>1, <2>2
  <2> QED
    BY <1>2, <1>11, <2>1, <2>2 DEF ReadStray, GiveUp
<1> QED
  BY <1>6, <1>7, <1>8, <1>10, <1>11 DEF Stream

LEMMA ReadyRefines ==
  ASSUME IInv, Ready
  PROVE  [M!Next]_(M!vars)
<1> USE DEF IInv
<1>1. UNCHANGED fileVars /\ open /\ [Next]_vars /\ ret = "none"
  BY DEF Ready, HandleOK, ReturnOK, Next, Handle
<1>2. CASE consumed' = consumed /\ ret' = ret
  BY <1>1, <1>2, ResumeRefines
<1>3. CASE queue # <<>> /\ consumed' = Head(queue) /\ ret' = "data"
  <2>1. Len(queue) \in Nat /\ Len(queue) >= 1 /\ Head(queue) = queue[1]
    BY <1>3, EmptySeq, LenType, HeadTailProperties DEF TypeOK
  <2>2. consumed' = consumed + 1
    BY <1>1, <1>3, <2>1 DEF BufferIsNext
  <2>3. consumed + Len(queue) <= Recorded
    BY <1>1, ConsumedBound
  <2>4. /\ Recorded' = Recorded /\ renamed' = renamed
        /\ Recorded \in Nat /\ consumed \in Nat
    BY <1>1, HandleSame
  <2>5. consumed < Recorded
    BY <2>1, <2>3, <2>4
  <2> QED
    BY <1>3, <2>2, <2>4, <2>5 DEF M!Next, M!Deliver
<1> QED
  BY <1>2, <1>3 DEF Ready, Return

LEMMA ResultRefines ==
  ASSUME IInv, ReadResult \/ Poll \/ LseekResult
  PROVE  [M!Next]_(M!vars)
<1>1. UNCHANGED fileVars /\ consumed' = consumed /\ [Next]_vars /\ ret = "none"
  BY DEF ReadResult, Poll, LseekResult, Next, Handle, IInv, ReturnOK
<1>2. CASE ret' # "eof"
  BY <1>1, <1>2, ResumeRefines
<1>3. CASE ret' = "eof"
  <2>1. EofComplete'
    BY <1>1, NextIInv DEF IInv
  <2>2. renamed' /\ consumed' = Recorded'
    BY <1>3, <2>1 DEF EofComplete
  <2> QED
    BY <1>1, <1>3, <2>2, HandleSame DEF M!Next, M!End
<1> QED
  BY <1>2, <1>3

LEMMA NextRefines ==
  IInv /\ [Next]_vars => [M!Next]_(M!vars)
<1> SUFFICES ASSUME IInv, [Next]_vars PROVE [M!Next]_(M!vars)
  OBVIOUS
<1>1. CASE UNCHANGED vars
  <2>1. UNCHANGED fileVars /\ consumed' = consumed /\ ret' = ret
    BY <1>1 DEF vars, callVars
  <2> QED
    BY <2>1, HandleSame DEF M!vars
<1> QED
  BY <1>1, RecorderRefines, ApplicationRefines, StreamRefines, ReadyRefines, ResultRefines
  DEF Next, Handle

(* The handle, with its buffer, its fd and its batches torn at any unit,   *)
(* implements the message file it promises to be.                          *)
THEOREM FileRefines ==
  Spec => ImplementsMsgFile
  BY InitRefines, NextRefines, IInvHolds, PTL DEF Spec, M!Spec, ImplementsMsgFile
-----------------------------------------------------------------------------
(* mds_file_lseek. *)

(* What was in the file when the call began is skipped when it finds an    *)
(* end, and an end is found by a single _read that comes out short, or by  *)
(* lengths that are wrong.                                                 *)
SeekOK ==
  /\ mark <= Recorded
  /\ pc = "result" /\ op = "lseek" /\ rc \in {"eob", "EAGAIN"} =>
       mark <= consumed \/ WrongBefore(offset + 1)
  /\ SeeksToNewest

(* A handle that stands at a batch which is not there in full has consumed *)
(* what is there in full.                                                  *)
LEMMA ReadThroughTorn ==
  ASSUME TypeOK, FileOK, BufferIsNext, open, queue = <<>>,
         NEW i \in 1 .. Len(batches), batches[i].at = offset, size < EndOf(batches[i])
  PROVE  consumed = Recorded
<1>1. PICK k \in 1 .. Len(batches) + 1 :
        InBatch(k, offset) /\ consumed + Len(queue) + 1 = FirstAt(k)
  BY DEF BufferIsNext
<1>2. i = k
  BY <1>1, InBatchUnique
<1>3. FirstAt(i) = consumed + 1 /\ consumed \in Nat /\ size \in Nat
  BY <1>1, <1>2, EmptySeq DEF TypeOK
<1>4. Len(batches) \in 1 .. Len(batches) /\ batches # <<>>
  BY LenType, EmptySeq
<1>5. batches[Len(batches)].at <= size
  BY <1>4 DEF FileOK
<1>6. i = Len(batches)
  <2>1. ASSUME i < Len(batches) PROVE FALSE
    <3>1. EndOf(batches[i]) <= batches[Len(batches)].at
      BY <1>4, <2>1 DEF FileOK
    <3>2. EndOf(batches[i]) \in Nat /\ batches[Len(batches)].at \in Nat /\ size \in Nat
      BY <1>3, <1>4, BatchType
    <3>3. size < EndOf(batches[i])
      OBVIOUS
    <3> QED
      BY <1>5, <3>1, <3>2, <3>3
  <2> QED
    BY <2>1, LenType
<1>7. FileEnd = EndOf(batches[i]) /\ FileEnd \in Nat
  BY <1>6, NextStart, BatchType DEF FileEnd
<1>8. Whole = i - 1
  BY <1>3, <1>4, <1>6, <1>7 DEF Whole
<1>9. Recorded = FirstAt(i) - 1
  BY <1>8 DEF Recorded
<1> QED
  BY <1>3, <1>9

(* The steps of mds_file_lseek that find an end. *)
LEMMA SkippedAll ==
  ASSUME IInv, Stream, pc' = "result", op = "lseek", rc' \in {"eob", "EAGAIN"}
  PROVE  /\ consumed' = consumed /\ offset' = offset /\ batches' = batches
         /\ consumed = Recorded \/ WrongBefore(offset + 1)
<1> USE DEF IInv
<1>1. /\ pc \in {"head", "segs", "body"} /\ open /\ queue = <<>> /\ pos <= size
      /\ pos \in Nat /\ size \in Nat /\ offset \in Nat /\ batches' = batches
  BY DEF Stream, ReadHead, ReadStray, ReadSegments, ReadBody, SkipBody, HandleOK, QueueOK, BatchOK,
         TypeOK, fileVars
<1>2. consumed' = consumed /\ offset' = offset
  BY DEF Stream, ReadHead, ReadStray, ReadSegments, ReadBody, SkipBody, GiveUp, Take, Stray, GoOn,
         Fails
<1> SUFFICES consumed = Recorded \/ WrongBefore(offset + 1)
  BY <1>1, <1>2
<1>3. ASSUME NoBatchHere, offset < size PROVE WrongBefore(offset + 1)
  <2>1. WrongBefore(offset)
    BY <1>1, <1>3, NoBatchStrays DEF StrayHere
  <2> QED
    BY <1>1, <2>1, BatchType, LenProperties DEF WrongBefore
<1>4. CASE ReadHead
  <2>1. pc = "head" /\ pos = offset
    BY <1>1, <1>4 DEF ReadHead, FdAtBatch
  <2>2. Read(2) \in Nat /\ pos + Read(2) <= size /\ (Read(2) < 2 => pos + Read(2) = size)
    BY <1>1, ReadValue
  <2>3. Read(2) \in {0, 1}
    BY <1>4 DEF ReadHead, GiveUp, Take, GoOn
  <2>4. CASE Read(2) = 0
    BY <1>1, <2>1, <2>2, <2>4, ReadThrough
  <2>5. CASE Read(2) = 1
    <3>1. size = offset + 1
      BY <2>1, <2>2, <2>5
    <3>2. CASE \E i \in 1 .. Len(batches) : batches[i].at = offset
      <4>1. PICK i \in 1 .. Len(batches) : batches[i].at = offset
        BY <3>2
      <4>2. size < EndOf(batches[i])
        BY <1>1, <3>1, <4>1, BatchType
      <4> QED
        BY <1>1, <4>1, <4>2, ReadThroughTorn
    <3>3. CASE NoBatchHere
      BY <1>1, <1>3, <3>1, <3>3
    <3> QED
      BY <3>2, <3>3 DEF NoBatchHere
  <2> QED
    BY <2>3, <2>4, <2>5
<1>5. CASE ReadStray
  <2>1. pos = offset /\ Read(2) = 2
    BY <1>1, <1>5 DEF ReadStray, FdAtBatch
  <2>2. offset < size
    BY <1>1, <2>1, ReadValue
  <2>3. NoBatchHere
    BY <1>5, <2>1, LenProperties DEF ReadStray, NoBatchHere, TypeOK
  <2> QED
    BY <1>3, <2>2, <2>3
<1>6. CASE ReadSegments
  <2> DEFINE b == batches[bh]
  <2>1. bh \in 1 .. Len(batches) /\ b.at = offset /\ b.nr > 0 /\ pos = offset + 2
    BY <1>6 DEF ReadSegments, BatchOK
  <2>2. b.nr \in Nat /\ EndOf(b) = offset + 2 + 3 * b.nr
    BY <2>1, BatchType
  <2>3. Read(b.nr) < b.nr
    BY <1>6 DEF ReadSegments, Fails, GiveUp, GoOn
  <2>4. pos + Read(b.nr) = size /\ Read(b.nr) \in Nat
    BY <1>1, <2>2, <2>3, ReadValue
  <2> HIDE DEF IInv
  <2>5. size < EndOf(b)
    BY <1>1, <2>1, <2>2, <2>3, <2>4
  <2> QED
    BY <1>1, <2>1, <2>3, <2>5, ReadThroughTorn DEF IInv
<1>7. CASE SkipBody
  <2> DEFINE b == batches[bh]
  <2>1. bh \in 1 .. Len(batches) /\ b.at = offset
    BY <1>7 DEF SkipBody, BatchOK
  <2>2. b.nr \in Nat /\ EndOf(b) = offset + 2 + 3 * b.nr /\ 2 * b.nr \in Nat
    BY <2>1, BatchType
  <2>3. CASE b.fault = "length"
    <3>1. b.at < offset + 1
      BY <1>1, <2>1
    <3> QED
      BY <2>1, <2>3, <3>1, LenProperties DEF WrongBefore, TypeOK
  <2>4. CASE b.fault # "length"
    <3>1. pos = offset + 2 + b.nr
      <4>1. pc = "body" /\ op = "lseek"
        BY <1>7 DEF SkipBody
      <4>2. seg = 0
        BY <4>1 DEF BatchOK
      <4>3. offset + 2 + b.nr <= pos /\ pos <= offset + 2 + b.nr + 2 * seg
        BY <4>1 DEF BatchOK
      <4> HIDE DEF IInv
      <4> QED
        BY <1>1, <2>2, <4>2, <4>3
    <3>2. Read(2 * b.nr) < 2 * b.nr
      BY <1>7, <2>4 DEF SkipBody, Fails, GiveUp, Take
    <3>3. pos + Read(2 * b.nr) = size
      BY <1>1, <2>2, <3>2, ReadValue
    <3>4. size < EndOf(b)
      BY <1>1, <2>2, <3>1, <3>2, <3>3, SMTT(40) DEF Read
    <3> QED
      BY <1>1, <2>1, <3>4, ReadThroughTorn
  <2> QED
    BY <2>3, <2>4
<1> QED
  BY <1>4, <1>5, <1>6, <1>7 DEF Stream, ReadBody

(* A wrong length stays in the file. *)
LEMMA WrongStays ==
  ASSUME IInv, Recorder, WrongBefore(offset + 1)
  PROVE  WrongBefore(offset + 1)' /\ offset' = offset
<1>1. offset' = offset
  BY DEF Recorder, WriteFileHead, BeginBatch, WriteUnit, Rename, WriteNewFile, streamVars
<1>2. PICK i \in 1 .. Len(batches) : batches[i].fault = "length" /\ batches[i].at < offset + 1
  BY LenProperties DEF WrongBefore, IInv, TypeOK
<1>3. ASSUME NEW n \in 0 .. MaxBatch, NEW f \in Faults \cup {"none"}, BeginBatch(n, f)
      PROVE  WrongBefore(offset + 1)'
  <2>1. n \in Nat
    BY MdsFileAssumption DEF MdsFileAssumption
  <2>2. Len(batches') = Len(batches) + 1 /\ batches'[i] = batches[i] /\ batches' \in Seq(Batch)
    BY <1>3, <2>1, BeginBatchFile DEF IInv
  <2>3. i \in DOMAIN batches'
    BY <2>2, LenType, LenProperties DEF IInv
  <2> QED
    BY <1>1, <1>2, <2>2, <2>3 DEF WrongBefore
<1>4. CASE batches' = batches
  BY <1>1, <1>4 DEF WrongBefore
<1> QED
  BY <1>1, <1>3, <1>4 DEF Recorder, WriteFileHead, WriteUnit, Rename, WriteNewFile

LEMMA SeekKeeps ==
  IInv /\ SeekOK /\ [Next]_vars => SeekOK'
<1> SUFFICES ASSUME IInv, SeekOK, [Next]_vars PROVE SeekOK'
  OBVIOUS
<1>1. ret # "none" => pc = "idle"
  BY DEF IInv, ReturnOK
<1>2. Recorded \in Nat /\ mark \in Nat /\ consumed \in Nat
  BY RecordedType DEF IInv, TypeOK
<1>3. CASE Recorder
  <2>1. Recorded' >= Recorded /\ Recorded' \in Nat
    BY <1>3, RecordedGrows, NextBounds DEF Bounds
  <2>2. UNCHANGED <<pc, op, rc, ret, consumed, mark>>
    BY <1>3 DEF Recorder, WriteFileHead, BeginBatch, WriteUnit, Rename, WriteNewFile,
                callVars
  <2>3. WrongBefore(offset + 1) => WrongBefore(offset + 1)'
    BY <1>3, WrongStays
  <2> QED
    BY <1>2, <2>1, <2>2, <2>3 DEF SeekOK, SeeksToNewest
<1>4. CASE Application
  <2>1. UNCHANGED fileVars
    BY <1>4 DEF Application, Open, Close, CallRead, CallLseek
  <2>2. Recorded' = Recorded
    BY <2>1, HandleSame
  <2>3. mark' \in {mark, Recorded} /\ pc' # "result" /\ ret' # "ok"
    BY <1>4 DEF Application, Open, Close, CallRead, CallLseek
  <2> QED
    BY <1>2, <2>2, <2>3 DEF SeekOK, SeeksToNewest
<1>5. CASE Stream
  <2>1. /\ UNCHANGED fileVars /\ mark' = mark /\ ret' = ret /\ op' = op /\ ret = "none"
    BY <1>1, <1>5 DEF Stream, ReadHead, ReadStray, ReadSegments, ReadBody, SkipBody
  <2>2. Recorded' = Recorded
    BY <2>1, HandleSame
  <2>3. ASSUME pc' = "result", op = "lseek", rc' \in {"eob", "EAGAIN"}
        PROVE  mark <= consumed' \/ WrongBefore(offset + 1)'
    <3>1. /\ consumed' = consumed /\ offset' = offset /\ batches' = batches
          /\ consumed = Recorded \/ WrongBefore(offset + 1)
      BY <1>5, <2>3, SkippedAll
    <3> QED
      BY <3>1 DEF SeekOK, WrongBefore
  <2> QED
    BY <1>2, <2>1, <2>2, <2>3 DEF SeekOK, SeeksToNewest
<1>6. CASE Ready \/ ReadResult \/ Poll \/ LseekResult
  <2>1. /\ UNCHANGED fileVars /\ mark' = mark /\ op' = op /\ rc' = rc /\ pc' # "result"
        /\ ret = "none"
    BY <1>1, <1>6 DEF Ready, ReadResult, Poll, LseekResult, Return
  <2>2. Recorded' = Recorded
    BY <2>1, HandleSame
  <2>3. ret' = "ok" => /\ pc = "result" /\ op = "lseek" /\ rc \in {"eob", "EAGAIN"}
                       /\ consumed' = consumed /\ offset' = offset /\ batches' = batches
    BY <1>6, <2>1 DEF Ready, ReadResult, Poll, LseekResult, Return, fileVars
  <2> QED
    BY <2>1, <2>2, <2>3 DEF SeekOK, SeeksToNewest, WrongBefore
<1>7. CASE UNCHANGED vars
  <2>1. UNCHANGED <<fileVars, batches, offset, pc, op, rc, ret, consumed, mark>>
    BY <1>7 DEF vars, fileVars, streamVars, callVars
  <2>2. Recorded' = Recorded
    BY <2>1, HandleSame
  <2> QED
    BY <2>1, <2>2 DEF SeekOK, SeeksToNewest, WrongBefore
<1> QED
  BY <1>3, <1>4, <1>5, <1>6, <1>7 DEF Next, Handle

(* mds_file_lseek that returns 0 has left nothing behind that was in the   *)
(* file when it was called, unless it met lengths that are wrong.          *)
THEOREM SeekCorrect ==
  Spec => []SeeksToNewest
<1>1. Init => SeekOK
  <2> SUFFICES ASSUME Init PROVE SeekOK
    OBVIOUS
  <2>1. IInv
    BY InitIInv
  <2>2. Recorded \in Nat /\ mark = 0 /\ pc = "idle" /\ ret = "none"
    BY <2>1, RecordedType DEF IInv, Init
  <2> QED
    BY <2>2 DEF SeekOK, SeeksToNewest
<1>2. SeekOK => SeeksToNewest
  BY DEF SeekOK
<1> QED
  BY <1>1, <1>2, SeekKeeps, IInvHolds, PTL DEF Spec
=============================================================================
