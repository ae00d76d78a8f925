------------------------------ MODULE MCUtil ------------------------------
(***************************************************************************)
(* The pure parts of the program over bounded inputs: a state holds one    *)
(* input of one part, and the properties compare what the code computes of *)
(* it with what it should be.  Lists have a state of their own.            *)
(***************************************************************************)
EXTENDS Codec, Names, Clock, LinkedList

CONSTANTS
  MaxBatch,     (* bound: messages of a batch                              *)
  NameChars     (* the characters topics are made of                       *)

(* The instruments below have up to two digits. *)
ASSUME MCUtilAssumption == MaxBatch \in Nat /\ Width >= 2

VARIABLE input

vars == <<input, heap, content>>

-----------------------------------------------------------------------------
(* The inputs.                                                             *)

(* The fields of message i are numbers of its own; a byte may be zero.     *)
Fields(type, i) == [j \in 1 .. Size(type) |-> Host(10 * i + j - 11)]
Batches ==
  UNION {{[i \in 1 .. n |-> Message(types[i], Fields(types[i], i))] :
            types \in [1 .. n -> Types]} : n \in 0 .. MaxBatch}

(* What a unit of a file may have changed into: another number, in the    *)
(* order of the network, or another checksum, or none.                     *)
OthersThan(u) ==
  (IF "num" \in DOMAIN u THEN {Net(n) : n \in 0 .. 5}
   ELSE {Checksum(<<>>), Swap(Checksum(<<Host(99)>>))}) \ {u}

(* 1 and 2 are the markets; 0 is the instrument of the lost numbers.       *)
Instruments == {0, 7, 12, 99}
Markets == {<<"S", "H">>, <<"S", "Z">>, <<"S", "X">>, <<"S", "Z", "0">>}

PickBatch ==
  \E b \in Batches : input' = [part |-> "batch", msgs |-> b]
PickChange ==
  \E b \in Batches : \E i \in DOMAIN Encode(b) : \E u \in OthersThan(Encode(b)[i]) :
    input' = [part |-> "change", msgs |-> b, at |-> i, unit |-> u]
PickCut ==
  \E b \in Batches : \E n \in 0 .. Len(Encode(b)) - 1 :
    input' = [part |-> "cut", msgs |-> b, keep |-> n]
PickTopic ==
  \E n \in 1 .. Width + 1 : \E s \in [1 .. n -> NameChars] : \E m \in Markets :
    input' = [part |-> "topic", text |-> s \o <<".">> \o m]
PickFile ==
  \E e \in {1, 2} : \E i \in Instruments : \E seq \in {-1, 0, 10} :
    input' = [part |-> "file", exch |-> e, instr |-> i, seq |-> seq]
PickWait ==
  \E start, waited \in {Tick * n : n \in 0 .. Long \div Tick - 1} :
    \E timeout \in 1 .. Long \div 2 - 1 :
      input' = [part |-> "wait", start |-> start, now |-> start + waited, timeout |-> timeout]
PickInfinite ==
  \E start, waited \in {Tick * n : n \in 0 .. Long \div Tick - 1} :
    input' = [part |-> "wait", start |-> start, now |-> start + waited, timeout |-> -1]

PickLists == input' = [part |-> "lists"]

Init == input = [part |-> "none"] /\ ListsInit

PickInput ==
  /\ input.part = "none"
  /\ \/ PickBatch \/ PickChange \/ PickCut \/ PickTopic
     \/ PickFile \/ PickWait \/ PickInfinite \/ PickLists
  /\ UNCHANGED lists

UseLists == input.part = "lists" /\ ListsNext /\ UNCHANGED input

Next == PickInput \/ UseLists

Spec == Init /\ [][Next]_vars

-----------------------------------------------------------------------------
(* Properties.                                                             *)

(* encode.c and read_v1.c agree: a batch is read as the messages it was    *)
(* made of, whatever follows it, and the reader goes on where it ends.     *)
ReadsBack ==
  input.part = "batch" =>
    LET units == Encode(input.msgs) IN
    Read(units \o <<Host(1)>>) = [rc |-> "data", msgs |-> input.msgs, used |-> Len(units)]

(* encode.h:15, the two checksums: a batch in which one word has changed   *)
(* is refused with EPROTO before any message of it is delivered, except    *)
(* that a larger nr_payload makes the reader wait for what it announces.   *)
ChangeIsNoticed ==
  input.part = "change" =>
    LET units == [Encode(input.msgs) EXCEPT ![input.at] = input.unit]
        larger == input.at = 3 /\ Number(input.unit) > Len(input.msgs) IN
    \/ Read(units).rc = "EPROTO"
    \/ larger /\ Read(units).rc = "EAGAIN"

(* data.h:28-29: of a batch that is not all there yet nothing is taken,    *)
(* and of one that is, mds_file_lseek skips what mds_file_read would read. *)
SkipsWhatIsRead ==
  /\ input.part = "cut" =>
       LET units == SubSeq(Encode(input.msgs), 1, input.keep) IN
       /\ Read(units) = Failed(IF input.keep = 0 THEN "end" ELSE "EAGAIN")
       /\ Skip(units) = Read(units)
  /\ input.part = "batch" =>
       LET units == Encode(input.msgs) \o Encode(input.msgs) IN
       Skip(units).rc = "data" /\ Skip(units).used = Read(units).used

(* data.h:111-121 and file.c:16: the name of every file of every topic is  *)
(* parsed as that topic and that number, and its topic as itself.          *)
NamesReadBack ==
  input.part = "file" =>
    /\ ParseFileName(FileName(input.exch, input.instr, input.seq)) =
         [ok |-> TRUE, exch |-> input.exch, instr |-> input.instr, seq |-> input.seq]
    /\ ParseTopic(Topic(input.exch, input.instr)) =
         [ok |-> TRUE, exch |-> input.exch, instr |-> input.instr]

(* data.c:3: a text parse_topic accepts is the topic the publisher uses    *)
(* for that market and instrument, unless it has a sign or a blank in it.  *)
OneTextPerTopic ==
  input.part = "topic" =>
    LET p == ParseTopic(input.text)
        odd == \E c \in {"+", "-", " "} : Contains(input.text, c) IN
    p.ok => odd \/ input.text = Topic(p.exch, p.instr)

(* Between the call and now the clock has passed zero.                     *)
PassedZero == input.start \div Long # input.now \div Long

(* mdspxy.h:309, mdspxy.h:366: a finite wait that looks at the clock at or *)
(* after its end does end, though the clock wrapped meanwhile; in          *)
(* open_file unless the clock passed zero since.                           *)
NotLate ==
  input.part = "wait" /\ input.timeout > 0 /\ input.now - input.start >= input.timeout =>
    /\ RecvExpires(input.start, input.now, input.timeout)
    /\ OpenExpires(input.start, input.now, input.timeout) \/ PassedZero

(* file.c:320, sub.c:305-307: a wait of mds_file_read or mds_sub_recv that *)
(* is given no end (timeout -1) has none, though a clock that wraps goes   *)
(* back and what has elapsed is then nearly the largest uint64_t.          *)
EndlessWaits ==
  input.part = "wait" /\ input.timeout = -1 =>
    ~RecvExpires(input.start, input.now, input.timeout)
=============================================================================
