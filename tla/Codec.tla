------------------------------- MODULE Codec -------------------------------
(***************************************************************************)
(* The batches of a message file: how encode_body and encode_head          *)
(* (src/src/encode.c) make one of a list of messages, and how              *)
(* read__mds_istream_v1 and lseek_mds_istream_v1 (src/src/read_v1.c) take  *)
(* it apart.  Reading in pieces is MdsFile; here the bytes are there.      *)
(*                                                                         *)
(* A file is a sequence of units: fields of a record and words of a head.  *)
(* A unit is a number or a checksum, in the byte order of the host or of   *)
(* the network.  A checksum is the sequence of the units it was computed   *)
(* over: byteCrc32 (utils.c:67) tells any two apart that differ in one     *)
(* unit, and is taken to tell apart what differs in more.                  *)
(***************************************************************************)
EXTENDS Integers, Sequences

(* The types of records, and what each has of fields: "wide" is converted, *)
(* "byte" needs no conversion, "raw" is left as it is: `seq' of all but    *)
(* losted_chlseq, and TradingPhaseCode.                                    *)
Layout == <<<<"wide", "byte">>,                         (* losted_chlseq    *)
            <<"raw", "byte", "wide">>,                  (* local_l2order    *)
            <<"raw", "byte", "wide", "wide">>,          (* local_l2trade    *)
            <<"raw", "wide", "raw", "wide", "wide">>>>  (* local_l2snapshot *)

Types == DOMAIN Layout

(* mmsg_size. *)
Size(type) == IF type \in Types THEN Len(Layout[type]) ELSE -1

-----------------------------------------------------------------------------
(* Units.  Zero looks the same in either order.                            *)
Host(n) == [num |-> n, net |-> FALSE]
Checksum(units) == [sum |-> units, net |-> FALSE]

IsZero(u) == u \in {Host(0), Checksum(<<>>)}

(* htonl and its like, and ntohl: the same swap. *)
Swap(u) == IF IsZero(u) THEN u ELSE [u EXCEPT !.net = ~@]

Net(n) == Swap(Host(n))

(* What a word of a head is once swapped; one that was in host order means *)
(* nothing.                                                                *)
Number(u) == IF Swap(u).net THEN -1 ELSE Swap(u).num

(* byteCrc32(units, init). *)
Crc(units, init) == Checksum(init.sum \o units)

-----------------------------------------------------------------------------
(* A message: its type and its fields as the host has them.                *)
Message(type, fields) == [type |-> type, fields |-> fields]

(* encode_chlseq and its like, and decode_chlseq and its like.             *)
Converted(type, fields) ==
  [i \in 1 .. Len(fields) |->
     IF Layout[type][i] = "wide" THEN Swap(fields[i]) ELSE fields[i]]

(* Variant of Restored: what is not converted is swapped as well. *)
AllSwapped(type, fields) == [i \in 1 .. Len(fields) |-> Swap(fields[i])]

Restored(type, fields) == Converted(type, fields)

-----------------------------------------------------------------------------
(* encode_body and encode_head.                                            *)
Pad == Host(-1)

(* The words of the head that say what follows: of each message its type  *)
(* and its length.                                                         *)
Segments(msgs) ==
  [j \in 1 .. 2 * Len(msgs) |->
     LET type == msgs[(j + 1) \div 2].type IN
     Net(IF j % 2 = 1 THEN type ELSE Size(type))]

(* The bodies of the first i messages, one after the other. *)
BodiesUpto(msgs) ==
  LET bodies[i \in 0 .. Len(msgs)] ==
        IF i = 0 THEN <<>>
        ELSE bodies[i - 1] \o Converted(msgs[i].type, msgs[i].fields) IN
  bodies

Bodies(msgs) == BodiesUpto(msgs)[Len(msgs)]

(* Variant of HeadSum: the second checksum does not go on from the first.  *)
SumOfSegments(head, segs) == Crc(segs, Checksum(<<>>))

(* The checksum of the head, which has none itself yet. *)
HeadSum(head, segs) == Crc(segs, Crc(head, Checksum(<<>>)))

Encode(msgs) ==
  LET body == Bodies(msgs)
      segs == Segments(msgs)
      head == <<Checksum(<<>>), Swap(Crc(body, Checksum(<<>>))), Net(Len(msgs)), Pad>> IN
  <<Swap(HeadSum(head, segs))>> \o Tail(head) \o segs \o body

-----------------------------------------------------------------------------
(* The readers.  What they return: a result, the messages, and how many    *)
(* units further the offset is.                                            *)
Failed(rc) == [rc |-> rc, msgs |-> <<>>, used |-> 0]

HeadUnits == 4
HeadWord(units, i) == units[HeadUnits + i]
SegType(units, i) == Number(HeadWord(units, 2 * i - 1))
SegLength(units, i) == Number(HeadWord(units, 2 * i))

(* Where the body of each message ends, counted in units of the bodies;    *)
(* the first begins where message 0 would end.                             *)
BodyEnds(units, nr) ==
  LET end[i \in 0 .. nr] == IF i = 0 THEN 0 ELSE end[i - 1] + SegLength(units, i) IN
  end

(* read__mds_istream_v1: the checks in the order of the code.              *)
Read(units) ==
  LET head  == <<Checksum(<<>>)>> \o SubSeq(units, 2, HeadUnits)
      nr    == Number(units[3])
      segs  == SubSeq(units, HeadUnits + 1, HeadUnits + 2 * nr)
      start == HeadUnits + 2 * nr
      ends  == BodyEnds(units, nr)
      end   == start + ends[nr]
      body  == SubSeq(units, start + 1, end)
      Fields(i) == SubSeq(body, ends[i - 1] + 1, ends[i]) IN
  CASE Len(units) = 0 -> Failed("end")
    [] Len(units) \in 1 .. HeadUnits - 1 -> Failed("EAGAIN")
    [] Len(units) >= HeadUnits ->
  IF nr = 0
  THEN IF ~IsZero(units[2]) \/ HeadSum(head, <<>>) # Swap(units[1])
       THEN Failed("EPROTO")
       ELSE [rc |-> "data", msgs |-> <<>>, used |-> HeadUnits]
  ELSE IF Len(units) < start
  THEN Failed("EAGAIN")
  ELSE IF \/ HeadSum(head, segs) # Swap(units[1])
          \/ \E i \in 1 .. nr : Size(SegType(units, i)) # SegLength(units, i)
  THEN Failed("EPROTO")
  ELSE IF Len(units) < end
  THEN Failed("EAGAIN")
  ELSE IF Crc(body, Checksum(<<>>)) # Swap(units[2])
  THEN Failed("EPROTO")
  ELSE [rc |-> "data", used |-> end,
        msgs |-> [i \in 1 .. nr |-> Message(SegType(units, i),
                                            Restored(SegType(units, i), Fields(i)))]]

(* Variant of SkippedBody: as if all bodies had the size of the first. *)
FirstTimesCount(units, nr) == nr * SegLength(units, 1)

(* lseek_mds_istream_v1: the size of the bodies, from the lengths alone.   *)
SkippedBody(units, nr) == BodyEnds(units, nr)[nr]

(* lseek_mds_istream_v1: no checksum is looked at.                         *)
Skip(units) ==
  LET nr    == Number(units[3])
      start == HeadUnits + 2 * nr
      end   == start + SkippedBody(units, nr) IN
  CASE Len(units) = 0 -> Failed("end")
    [] Len(units) \in 1 .. HeadUnits - 1 -> Failed("EAGAIN")
    [] Len(units) >= HeadUnits ->
  IF nr = 0
  THEN IF IsZero(units[2]) THEN [Failed("data") EXCEPT !.used = HeadUnits]
                           ELSE Failed("EPROTO")
  ELSE IF Len(units) < start THEN Failed("EAGAIN")
  ELSE IF Len(units) < end THEN Failed("EAGAIN")
  ELSE [Failed("data") EXCEPT !.used = end]
=============================================================================
