----------------------------- MODULE UtilProofs -----------------------------
(***************************************************************************)
(* Theorems about the pure parts of the program: the waits on a clock that *)
(* wraps, the batches of a file, topics and the names of files.            *)
(***************************************************************************)
EXTENDS MCUtil, SelectionProofs

-----------------------------------------------------------------------------
(* The clock.                                                              *)

(* % and \div next to their modulus. *)
LEMMA ModNear ==
  ASSUME NEW m \in Nat, m > 0, NEW x \in Int
  PROVE  /\ 0 <= x /\ x < m => x % m = x /\ x \div m = 0
         /\ m <= x /\ x < 2 * m => x % m = x - m /\ x \div m = 1
         /\ -m <= x /\ x < 0 => x % m = x + m
  OBVIOUS

(* The constants: half a long is a whole number of ticks, and a uint64_t   *)
(* has room for more than four longs.                                      *)
LEMMA ClockConstants ==
  /\ Tick \in Nat /\ Tick >= 2 /\ UInt64 \in Nat /\ Long \in Nat
         /\ \E q \in Nat : q > 0 /\ Long = 2 * (Tick * q) /\ Long \div 2 = Tick * q
         /\ UInt64 >= 5 * Long
<1> USE ClockAssumption DEF ClockAssumption
<1>1. \E q \in Nat : q > 0 /\ Long = 2 * (Tick * q) /\ Long \div 2 = Tick * q
  <2> DEFINE q == Long \div (2 * Tick)
  <2>1. q \in Nat /\ Long = (2 * Tick) * q + (Long % (2 * Tick))
    OBVIOUS
  <2>2. q > 0
    BY <2>1
  <2>3. Long = 2 * (Tick * q)
    BY <2>1
  <2>4. Long \div 2 = Tick * q /\ q \in Nat
    BY <2>1, <2>3
  <2> HIDE DEF q
  <2> QED
    BY <2>2, <2>3, <2>4
<1>2. UInt64 >= 5 * Long
  <2> DEFINE q == UInt64 \div Long
  <2>1. q \in Nat /\ UInt64 = Long * q + (UInt64 % Long)
    OBVIOUS
  <2>2. q > 4
    BY <2>1
  <2> QED
    BY <2>1, <2>2
<1> QED
  BY <1>1, <1>2

(* The clock over two turns: twice it counts from zero, and twice it is    *)
(* negative, that is, huge.                                                *)
LEMMA NowIs ==
  ASSUME NEW h \in Nat, h > 0, Long = 2 * h, NEW t \in Nat, t < 4 * h
  PROVE  /\ Now(t) = IF t < h THEN t
                     ELSE IF t < 2 * h THEN UInt64 - 2 * h + t
                     ELSE IF t < 3 * h THEN t - 2 * h
                     ELSE UInt64 - 4 * h + t
         /\ t \div Long = IF t < 2 * h THEN 0 ELSE 1
<1>1. Long \in Nat /\ Long > 0 /\ Long \div 2 = h
  OBVIOUS
<1>2. /\ t < 2 * h => t % Long = t /\ t \div Long = 0
      /\ 2 * h <= t => t % Long = t - 2 * h /\ t \div Long = 1
  BY <1>1, ModNear
<1>3. UInt64 \in Nat
  BY ClockConstants
<1> QED
  BY <1>1, <1>2, <1>3 DEF Now

(* The ticks: no wait is one microsecond short of a turn of the clock.     *)
LEMMA NotOneShort ==
  ASSUME NEW n \in Nat
  PROVE  Tick * n # Long - 1
<1>1. PICK q \in Nat : Long = 2 * (Tick * q) /\ Tick \in Nat /\ Tick >= 2
  BY ClockConstants
<1>2. SUFFICES ASSUME Tick * n = Long - 1
               PROVE  FALSE
  OBVIOUS
<1>3. Tick * (2 * q - n) = 1
  BY <1>1, <1>2
<1>4. 2 * q - n \in Int
  OBVIOUS
<1>5. 2 * q - n > 0
  BY <1>1, <1>3, <1>4
<1> QED
  BY <1>1, <1>3, <1>4, <1>5

(* A wait: when the call came, when it looks at the clock, and its end.    *)
(* The start is anywhere in one turn of the clock.                         *)
IsWait(start, now, timeout) ==
  /\ start \in 0 .. Long - 1
  /\ \E n \in Nat : Tick * n < Long /\ now = start + Tick * n
  /\ timeout \in 1 .. Long \div 2 - 1 \/ timeout = -1

(* What has elapsed is the time that passed, until the clock becomes       *)
(* negative; from then on it is nearly a turn of a uint64_t.               *)
LEMMA ElapsedIs ==
  ASSUME NEW h \in Nat, h > 0, Long = 2 * h,
         NEW s \in Nat, s < 2 * h, NEW w \in Nat, w < 2 * h
  PROVE  Elapsed(s, s + w) =
           IF (s < h /\ s + w < h) \/ (h <= s /\ s + w < 3 * h)
           THEN w ELSE UInt64 - 2 * h + w
<1>1. UInt64 \in Nat /\ UInt64 >= 10 * h
  BY ClockConstants
<1>2. /\ Now(s) = IF s < h THEN s ELSE UInt64 - 2 * h + s
      /\ Now(s + w) = IF s + w < h THEN s + w
                      ELSE IF s + w < 2 * h THEN UInt64 - 2 * h + (s + w)
                      ELSE IF s + w < 3 * h THEN s + w - 2 * h
                      ELSE UInt64 - 4 * h + (s + w)
  BY NowIs
<1> DEFINE d == Now(s + w) - Now(s)
<1>3. d \in Int /\ -UInt64 <= d /\ d < UInt64
  BY <1>1, <1>2
<1>4. d % UInt64 = IF d >= 0 THEN d ELSE d + UInt64
  <2> HIDE DEF d
  <2> QED
    BY <1>1, <1>3, ModNear
<1>5. d = IF s < h THEN IF s + w < h THEN w
                        ELSE IF s + w < 2 * h THEN UInt64 - 2 * h + w
                        ELSE w - 2 * h
          ELSE IF s + w < 2 * h THEN w
               ELSE IF s + w < 3 * h THEN w - UInt64
               ELSE w - 2 * h
  BY <1>1, <1>2
<1>6. Elapsed(s, s + w) = d % UInt64
  BY DEF Elapsed
<1> HIDE DEF d
<1> QED
  BY <1>1, <1>4, <1>5, <1>6

(* The deadline of open_file. *)
LEMMA DeadlineIs ==
  ASSUME NEW h \in Nat, h > 0, Long = 2 * h,
         NEW s \in Nat, s < 2 * h, NEW to \in Nat, to < UInt64
  PROVE  /\ s < h => Deadline(s, to) = IF s + to < UInt64 THEN s + to ELSE s + to - UInt64
         /\ h <= s => Deadline(s, to) = IF to < 2 * h - s THEN UInt64 - 2 * h + s + to
                                        ELSE s + to - 2 * h
<1>1. UInt64 \in Nat /\ UInt64 >= 10 * h
  BY ClockConstants
<1>2. Now(s) = IF s < h THEN s ELSE UInt64 - 2 * h + s
  <2>1. s < 4 * h
    OBVIOUS
  <2> QED
    BY <2>1, NowIs
<1> DEFINE d == Now(s) + to
<1>3. d \in Nat /\ d < 2 * UInt64
  BY <1>1, <1>2
<1>4. d % UInt64 = IF d < UInt64 THEN d ELSE d - UInt64
  <2> HIDE DEF d
  <2> QED
    BY <1>1, <1>3, ModNear
<1>5. Deadline(s, to) = d % UInt64
  BY DEF Deadline
<1> QED
  BY <1>1, <1>2, <1>4, <1>5

(* What a wait of the runs is. *)
LEMMA WaitIs ==
  ASSUME NEW start, NEW now, NEW timeout, IsWait(start, now, timeout)
  PROVE  \E h, w \in Nat :
           /\ h > 0 /\ Long = 2 * h /\ w < 2 * h /\ w # 2 * h - 1 /\ now = start + w
           /\ start \in Nat /\ start < 2 * h
           /\ timeout = -1 \/ (timeout \in Nat /\ 0 < timeout /\ timeout < h)
<1>1. PICK q \in Nat : q > 0 /\ Long = 2 * (Tick * q) /\ Long \div 2 = Tick * q
  BY ClockConstants
<1>2. PICK n \in Nat : Tick * n < Long /\ now = start + Tick * n
  BY DEF IsWait
<1>3. /\ Tick \in Nat /\ Tick >= 2
      /\ Tick * q \in Nat /\ Tick * q > 0 /\ Tick * n \in Nat
  BY <1>1, ClockConstants
<1>4. Tick * n # Long - 1
  BY NotOneShort
<1> DEFINE h == Tick * q
           w == Tick * n
<1>5. /\ h \in Nat /\ w \in Nat /\ h > 0 /\ Long = 2 * h /\ Long \div 2 = h
      /\ w < Long /\ w # Long - 1 /\ now = start + w
  BY <1>1, <1>2, <1>3, <1>4
<1> HIDE DEF h, w
<1>6. start \in Nat /\ start < 2 * h
  BY <1>5 DEF IsWait
<1>7. timeout = -1 \/ (timeout \in Nat /\ 0 < timeout /\ timeout < h)
  BY <1>5 DEF IsWait
<1> QED
  BY <1>5, <1>6, <1>7

(* A wait that is over, as mdspxy.h:309 and mdspxy.h:366 have it.          *)
LEMMA WaitsEnd ==
  ASSUME NEW start, NEW now, NEW timeout, IsWait(start, now, timeout),
         timeout > 0, now - start >= timeout
  PROVE  /\ RecvExpires(start, now, timeout)
         /\ OpenExpires(start, now, timeout) \/ start \div Long # now \div Long
<1>1. PICK h, w \in Nat :
        /\ h > 0 /\ Long = 2 * h /\ w < 2 * h /\ w # 2 * h - 1 /\ now = start + w
        /\ start \in Nat /\ start < 2 * h
        /\ timeout = -1 \/ (timeout \in Nat /\ 0 < timeout /\ timeout < h)
  BY WaitIs
<1>2. timeout \in Nat /\ timeout < h /\ timeout <= w
  BY <1>1
<1>3. UInt64 \in Nat /\ UInt64 >= 10 * h
  BY <1>1, ClockConstants
<1>4. timeout % UInt64 = timeout
  BY <1>2, <1>3, ModNear
<1>5. RecvExpires(start, now, timeout)
  <2>1. Elapsed(start, now) = w \/ Elapsed(start, now) = UInt64 - 2 * h + w
    BY <1>1, ElapsedIs
  <2> QED
    BY <1>1, <1>2, <1>3, <1>4, <2>1 DEF RecvExpires
<1>6. ASSUME start \div Long = now \div Long
      PROVE  Now(now) >= Deadline(start, timeout)
  <2>1. start < 2 * h /\ now < 2 * h /\ now \in Nat
    <3>1. now \in Nat /\ now < 4 * h
      BY <1>1
    <3> QED
      BY <1>1, <1>6, <3>1, NowIs
  <2>2. /\ Now(start) = IF start < h THEN start ELSE UInt64 - 2 * h + start
        /\ Now(now) = IF now < h THEN now ELSE UInt64 - 2 * h + now
    BY <1>1, <2>1, NowIs
  <2>3. /\ start < h => Deadline(start, timeout) = start + timeout
        /\ h <= start => Deadline(start, timeout) = UInt64 - 2 * h + start + timeout
    BY <1>1, <1>2, <1>3, <2>1, DeadlineIs
  <2> QED
    BY <1>1, <1>2, <1>3, <2>1, <2>2, <2>3
<1> QED
  BY <1>2, <1>5, <1>6 DEF OpenExpires

(* A wait that was given no end. *)
LEMMA WaitsLast ==
  ASSUME NEW start, NEW now, IsWait(start, now, -1)
  PROVE  ~ RecvExpires(start, now, -1)
<1>1. PICK h, w \in Nat :
        /\ h > 0 /\ Long = 2 * h /\ w < 2 * h /\ w # 2 * h - 1 /\ now = start + w
        /\ start \in Nat /\ start < 2 * h
  BY WaitIs
<1>2. UInt64 \in Nat /\ UInt64 >= 10 * h
  BY <1>1, ClockConstants
<1>3. Elapsed(start, now) = w \/ Elapsed(start, now) = UInt64 - 2 * h + w
  BY <1>1, ElapsedIs
<1>4. (-1) % UInt64 = UInt64 - 1
  BY <1>1, <1>2, ModNear
<1> QED
  BY <1>1, <1>2, <1>3, <1>4 DEF RecvExpires

(* The waits of the runs. *)
LEMMA InputIsWait ==
  ASSUME PickWait \/ PickInfinite
  PROVE  input'.part = "wait" /\ IsWait(input'.start, input'.now, input'.timeout)
<1>1. Long \in Nat /\ Tick \in Nat /\ Tick >= 2 /\ Long > 0
  BY ClockAssumption DEF ClockAssumption
<1> DEFINE Ticks == {Tick * n : n \in 0 .. Long \div Tick - 1}
<1>2. ASSUME NEW k \in Ticks
      PROVE  k \in 0 .. Long - 1 /\ \E n \in Nat : Tick * n < Long /\ k = Tick * n
  <2>1. PICK n \in 0 .. Long \div Tick - 1 : k = Tick * n
    OBVIOUS
  <2>2. Long \div Tick \in Nat /\ Tick * (Long \div Tick) <= Long
    BY <1>1
  <2>3. n \in Nat /\ n + 1 <= Long \div Tick
    BY <2>1, <2>2
  <2>4. Tick * (n + 1) <= Tick * (Long \div Tick) /\ Tick * (n + 1) = Tick * n + Tick
    BY <1>1, <2>2, <2>3
  <2>5. Tick * n \in Nat
    BY <1>1, <2>3
  <2> QED
    BY <1>1, <2>1, <2>2, <2>3, <2>4, <2>5
<1>3. \E start, waited \in Ticks : \E timeout \in (1 .. Long \div 2 - 1) \cup {-1} :
        input' = [part |-> "wait", start |-> start, now |-> start + waited, timeout |-> timeout]
  BY DEF PickWait, PickInfinite
<1> HIDE DEF Ticks
<1>4. PICK start \in Ticks, waited \in Ticks, timeout \in (1 .. Long \div 2 - 1) \cup {-1} :
        input' = [part |-> "wait", start |-> start, now |-> start + waited, timeout |-> timeout]
  BY <1>3
<1>5. /\ input'.part = "wait" /\ input'.start = start
      /\ input'.now = start + waited /\ input'.timeout = timeout
  BY <1>4
<1>6. PICK n \in Nat : Tick * n < Long /\ waited = Tick * n
  BY <1>2
<1>7. IsWait(start, start + waited, timeout)
  BY <1>2, <1>6 DEF IsWait
<1> QED
  BY <1>5, <1>7

(* What a step can make of the input. *)
LEMMA NextPart ==
  ASSUME [Next]_vars
  PROVE  \/ PickWait \/ PickInfinite \/ PickLists \/ input' = input
         \/ PickBatch \/ PickChange \/ PickCut \/ PickTopic \/ PickFile
  BY DEF Next, PickInput, UseLists, vars

LEMMA OtherPart ==
  ASSUME PickBatch \/ PickChange \/ PickCut \/ PickTopic \/ PickFile \/ PickLists
  PROVE  input'.part # "wait"
  BY DEF PickBatch, PickChange, PickCut, PickTopic, PickFile, PickLists

(* mdspxy.h:309, mdspxy.h:366: whatever the clock shows when it is called, *)
(* a wait that is over by its timeout ends the next time it looks, in      *)
(* open_file unless the clock has passed zero.                             *)
THEOREM WaitsAreNotLate == Spec => []NotLate
<1>1. Init => NotLate
  BY DEF Init, NotLate
<1>2. ASSUME NotLate, [Next]_vars
      PROVE  NotLate'
  <2>1. CASE PickWait \/ PickInfinite
    BY <2>1, InputIsWait, WaitsEnd DEF NotLate, PassedZero
  <2>2. CASE input' = input
    BY <1>2, <2>2 DEF NotLate, PassedZero
  <2>3. CASE PickBatch \/ PickChange \/ PickCut \/ PickTopic \/ PickFile \/ PickLists
    BY <2>3, OtherPart DEF NotLate
  <2> QED
    BY <1>2, <2>1, <2>2, <2>3, NextPart
<1> QED
  BY <1>1, <1>2, PTL DEF Spec

(* file.c:320, sub.c:305-307: on a clock of any width and any resolution   *)
(* above one, a wait of mds_file_read or mds_sub_recv with timeout -1      *)
(* never ends: what has elapsed is the largest uint64_t only between two   *)
(* values of the clock that are one apart, and there are none.             *)
THEOREM EndlessWaitsLast == Spec => []EndlessWaits
<1>1. Init => EndlessWaits
  BY DEF Init, EndlessWaits
<1>2. ASSUME EndlessWaits, [Next]_vars
      PROVE  EndlessWaits'
  <2>1. CASE PickWait \/ PickInfinite
    <3>1. IsWait(input'.start, input'.now, input'.timeout)
      BY <2>1, InputIsWait
    <3> QED
      BY <3>1, WaitsLast DEF EndlessWaits
  <2>2. CASE input' = input
    BY <1>2, <2>2 DEF EndlessWaits
  <2>3. CASE PickBatch \/ PickChange \/ PickCut \/ PickTopic \/ PickFile \/ PickLists
    BY <2>3, OtherPart DEF EndlessWaits
  <2> QED
    BY <1>2, <2>1, <2>2, <2>3, NextPart
<1> QED
  BY <1>1, <1>2, PTL DEF Spec

-----------------------------------------------------------------------------
(* The batches of a file.                                                  *)

(* Units: numbers, checksums of numbers, and the checksum of a head, which *)
(* is over both.  Zero has one form.                                       *)
Num == {u \in [num : Int, net : BOOLEAN] : u.num = 0 => ~ u.net}
Sums(S) == {u \in [sum : Seq(S), net : BOOLEAN] : u.sum = <<>> => ~ u.net}
HeadWords == Num \cup Sums(Num)
Units == HeadWords \cup Sums(HeadWords)

(* Any message of any batch. *)
Records == {m \in [type : Types, fields : Seq(Num)] : Len(m.fields) = Size(m.type)}

LEMMA Kinds ==
  ASSUME NEW u, NEW v,
         \E x, y : u = [num |-> x, net |-> y], \E x, y : v = [sum |-> x, net |-> y]
  PROVE  u # v /\ "num" \in DOMAIN u /\ "num" \notin DOMAIN v
<1>1. PICK x, y : u = [num |-> x, net |-> y]
  OBVIOUS
<1>2. PICK z, w : v = [sum |-> z, net |-> w]
  OBVIOUS
<1>3. DOMAIN u = {"num", "net"} /\ DOMAIN v = {"sum", "net"}
  BY <1>1, <1>2
<1>4. "num" \in DOMAIN u /\ "num" \notin DOMAIN v
  BY <1>3
<1> QED
  BY <1>4

LEMMA NumIs ==
  ASSUME NEW u \in Num
  PROVE  /\ u = [num |-> u.num, net |-> u.net] /\ u.num \in Int /\ u.net \in BOOLEAN
         /\ u.num = 0 => u.net = FALSE
         /\ IsZero(u) <=> u.num = 0
         /\ Swap(u) = IF u.num = 0 THEN u ELSE [num |-> u.num, net |-> ~ u.net]
<1>1. /\ u = [num |-> u.num, net |-> u.net] /\ u.num \in Int /\ u.net \in BOOLEAN
      /\ u.num = 0 => u.net = FALSE
  BY DEF Num
<1>2. u # Checksum(<<>>)
  BY <1>1, Kinds DEF Checksum
<1>3. IsZero(u) <=> u.num = 0
  <2>1. IsZero(u) <=> u = [num |-> 0, net |-> FALSE]
    BY <1>2 DEF IsZero, Host
  <2>2. u.num = 0 => u = [num |-> 0, net |-> FALSE]
    BY <1>1
  <2>3. [num |-> 0, net |-> FALSE].num = 0
    OBVIOUS
  <2> QED
    BY <2>1, <2>2, <2>3
<1>4. [u EXCEPT !.net = ~ u.net] = [num |-> u.num, net |-> ~ u.net]
  BY <1>1
<1> QED
  BY <1>1, <1>3, <1>4 DEF Swap

LEMMA SwapNum ==
  ASSUME NEW u \in Num
  PROVE  Swap(u) \in Num /\ Swap(Swap(u)) = u
<1>1. Swap(u) \in Num
  <2>1. /\ u.num \in Int /\ u.net \in BOOLEAN
        /\ Swap(u) = IF u.num = 0 THEN u ELSE [num |-> u.num, net |-> ~ u.net]
    BY NumIs
  <2>2. u.num # 0 => [num |-> u.num, net |-> ~ u.net] \in Num
    BY <2>1 DEF Num
  <2> QED
    BY <2>1, <2>2
<1>2. Swap(Swap(u)) = u
  <2> DEFINE v == Swap(u)
  <2>1. v = IF u.num = 0 THEN u ELSE [num |-> u.num, net |-> ~ u.net]
    BY NumIs
  <2>2. Swap(v) = IF v.num = 0 THEN v ELSE [num |-> v.num, net |-> ~ v.net]
    BY <1>1, NumIs
  <2> HIDE DEF v
  <2>3. u = [num |-> u.num, net |-> u.net] /\ u.net \in BOOLEAN
    BY NumIs
  <2>4. Swap(v) = u
    BY <2>1, <2>2, <2>3
  <2> QED
    BY <2>4 DEF v
<1> QED
  BY <1>1, <1>2

LEMMA NetNumber ==
  ASSUME NEW n \in Int
  PROVE  Host(n) \in Num /\ Net(n) \in Num /\ Number(Net(n)) = n
<1>1. Host(n) \in Num
  BY DEF Host, Num
<1>2. Net(n) \in Num /\ Swap(Net(n)) = Host(n)
  BY <1>1, SwapNum DEF Net
<1> QED
  BY <1>1, <1>2 DEF Number, Host

LEMMA SumIs ==
  ASSUME NEW S, NEW u \in Sums(S)
  PROVE  /\ u = [sum |-> u.sum, net |-> u.net] /\ u.sum \in Seq(S) /\ u.net \in BOOLEAN
         /\ u.sum = <<>> => u.net = FALSE
         /\ IsZero(u) <=> u.sum = <<>>
         /\ Swap(u) = IF u.sum = <<>> THEN u ELSE [sum |-> u.sum, net |-> ~ u.net]
<1>1. /\ u = [sum |-> u.sum, net |-> u.net] /\ u.sum \in Seq(S) /\ u.net \in BOOLEAN
      /\ u.sum = <<>> => u.net = FALSE
  BY DEF Sums
<1>2. u # Host(0)
  BY <1>1, Kinds DEF Host
<1>3. IsZero(u) <=> u.sum = <<>>
  <2>1. IsZero(u) <=> u = [sum |-> <<>>, net |-> FALSE]
    BY <1>2 DEF IsZero, Checksum
  <2>2. u.sum = <<>> => u = [sum |-> <<>>, net |-> FALSE]
    BY <1>1
  <2>3. [sum |-> <<>>, net |-> FALSE].sum = <<>>
    OBVIOUS
  <2> QED
    BY <2>1, <2>2, <2>3
<1>4. [u EXCEPT !.net = ~ u.net] = [sum |-> u.sum, net |-> ~ u.net]
  BY <1>1
<1> QED
  BY <1>1, <1>3, <1>4 DEF Swap

LEMMA SwapSum ==
  ASSUME NEW S, NEW u \in Sums(S)
  PROVE  Swap(u) \in Sums(S) /\ Swap(Swap(u)) = u
<1>1. Swap(u) \in Sums(S)
  <2>1. /\ u.sum \in Seq(S) /\ u.net \in BOOLEAN
        /\ Swap(u) = IF u.sum = <<>> THEN u ELSE [sum |-> u.sum, net |-> ~ u.net]
    BY SumIs
  <2>2. u.sum # <<>> => [sum |-> u.sum, net |-> ~ u.net] \in Sums(S)
    BY <2>1 DEF Sums
  <2> QED
    BY <2>1, <2>2
<1>2. Swap(Swap(u)) = u
  <2> DEFINE v == Swap(u)
  <2>1. v = IF u.sum = <<>> THEN u ELSE [sum |-> u.sum, net |-> ~ u.net]
    BY SumIs
  <2>2. Swap(v) = IF v.sum = <<>> THEN v ELSE [sum |-> v.sum, net |-> ~ v.net]
    BY <1>1, SumIs
  <2> HIDE DEF v
  <2>3. u = [sum |-> u.sum, net |-> u.net] /\ u.net \in BOOLEAN
    BY SumIs
  <2>4. Swap(v) = u
    BY <2>1, <2>2, <2>3
  <2> QED
    BY <2>4 DEF v
<1> QED
  BY <1>1, <1>2

LEMMA SumOf ==
  ASSUME NEW S, NEW s \in Seq(S)
  PROVE  /\ Checksum(s) \in Sums(S) /\ Checksum(s).sum = s
         /\ Crc(s, Checksum(<<>>)) = Checksum(s)
         /\ \A t \in Seq(S) : Crc(t, Checksum(s)) = Checksum(s \o t)
  BY ConcatEmptySeq DEF Checksum, Sums, Crc

(* A recursive function of a number exists. *)
LEMMA Recursion ==
  ASSUME NEW T, NEW x \in T, NEW n \in Nat, NEW g \in [1 .. n -> [T -> T]]
  PROVE  \E f \in [0 .. n -> T] : f[0] = x /\ \A i \in 1 .. n : f[i] = g[i][f[i - 1]]
<1> DEFINE Sol(f, k) == /\ f \in [0 .. k -> T] /\ f[0] = x
                        /\ \A i \in 1 .. k : f[i] = g[i][f[i - 1]]
           N == {k \in Nat : k <= n => \E f : Sol(f, k)}
<1>1. 0 \in N
  <2>1. Sol([i \in 0 .. 0 |-> x], 0)
    OBVIOUS
  <2> QED
    BY <2>1
<1>2. ASSUME NEW k \in Nat, k \in N
      PROVE  k + 1 \in N
  <2>1. SUFFICES ASSUME k + 1 <= n
                 PROVE  \E f : Sol(f, k + 1)
    OBVIOUS
  <2>2. PICK f : Sol(f, k)
    BY <1>2, <2>1
  <2> DEFINE last == g[k + 1][f[k]]
             e == [i \in 0 .. k + 1 |-> IF i = k + 1 THEN last ELSE f[i]]
  <2>3. f \in [0 .. k -> T] /\ f[0] = x /\ \A i \in 1 .. k : f[i] = g[i][f[i - 1]]
    BY <2>2
  <2>4. last \in T
    <3>1. f[k] \in T /\ k + 1 \in 1 .. n
      BY <2>1, <2>3
    <3>2. g[k + 1] \in [T -> T]
      BY <3>1
    <3> QED
      BY <3>1, <3>2
  <2>5. e[k + 1] = last /\ \A i \in 0 .. k : e[i] = f[i]
    OBVIOUS
  <2>6. e \in [0 .. k + 1 -> T]
    <3>1. \A i \in 0 .. k + 1 : i # k + 1 => f[i] \in T
      BY <2>3
    <3> HIDE DEF last
    <3> QED
      BY <2>4, <3>1
  <2> HIDE DEF e
  <2>7. e[0] = x
    BY <2>3, <2>5
  <2>8. ASSUME NEW i \in 1 .. k + 1
        PROVE  e[i] = g[i][e[i - 1]]
    <3>1. i - 1 \in 0 .. k /\ e[i - 1] = f[i - 1]
      BY <2>5
    <3>2. CASE i = k + 1
      <4>1. i - 1 = k
        BY <3>2
      <4> QED
        BY <2>5, <3>1, <3>2, <4>1
    <3>3. CASE i \in 1 .. k
      BY <2>3, <2>5, <3>1, <3>3
    <3> QED
      BY <3>2, <3>3
  <2>9. Sol(e, k + 1)
    BY <2>6, <2>7, <2>8
  <2> QED
    BY <2>9
<1>3. Nat \subseteq N
  <2> HIDE DEF N
  <2> QED
    BY <1>1, <1>2, NatSetInduction
<1>4. PICK f : Sol(f, n)
  BY <1>3
<1> QED
  BY <1>4

(* What the layouts say. *)
LEMMA Sizes ==
  ASSUME NEW type \in Types
  PROVE  type \in 1 .. 4 /\ Size(type) \in Nat /\ Size(type) > 0
<1>1. type \in 1 .. 4
  BY DEF Types, Layout
<1>2. Size(type) = Len(Layout[type])
  BY DEF Size
<1>3. CASE type = 1
  BY <1>2, <1>3 DEF Layout
<1>4. CASE type = 2
  BY <1>2, <1>4 DEF Layout
<1>5. CASE type = 3
  BY <1>2, <1>5 DEF Layout
<1>6. CASE type = 4
  BY <1>2, <1>6 DEF Layout
<1> QED
  BY <1>1, <1>3, <1>4, <1>5, <1>6

LEMMA RecordIs ==
  ASSUME NEW msgs \in Seq(Records), NEW i \in 1 .. Len(msgs)
  PROVE  LET m == msgs[i] IN
         /\ m = Message(m.type, m.fields) /\ m.type \in Types /\ m.fields \in Seq(Num)
         /\ Len(m.fields) = Size(m.type)
<1>1. msgs[i] \in Records
  BY ElementOfSeq
<1> QED
  BY <1>1 DEF Records, Message

(* Converting keeps the length, and converting back gives the fields.      *)
LEMMA ConvertedIs ==
  ASSUME NEW type, NEW fields \in Seq(Num)
  PROVE  /\ Converted(type, fields) \in Seq(Num) /\ Len(Converted(type, fields)) = Len(fields)
         /\ Restored(type, Converted(type, fields)) = fields
<1> DEFINE c == Converted(type, fields)
<1>1. Len(fields) \in Nat /\ \A i \in 1 .. Len(fields) : fields[i] \in Num
  BY LenProperties, ElementOfSeq
<1>2. c = [i \in 1 .. Len(fields) |->
             IF Layout[type][i] = "wide" THEN Swap(fields[i]) ELSE fields[i]]
  BY DEF Converted
<1>3. \A i \in 1 .. Len(fields) :
        /\ (IF Layout[type][i] = "wide" THEN Swap(fields[i]) ELSE fields[i]) \in Num
        /\ Swap(Swap(fields[i])) = fields[i]
  BY <1>1, SwapNum
<1> HIDE DEF c
<1>4. c \in [1 .. Len(fields) -> Num]
  BY <1>2, <1>3
<1>5. c \in Seq(Num) /\ Len(c) = Len(fields)
  BY <1>1, <1>4
<1>6. Restored(type, c) = fields
  <2>1. Restored(type, c) = [i \in 1 .. Len(c) |->
                               IF Layout[type][i] = "wide" THEN Swap(c[i]) ELSE c[i]]
    BY DEF Restored, Converted
  <2>2. \A i \in 1 .. Len(fields) :
          (IF Layout[type][i] = "wide" THEN Swap(c[i]) ELSE c[i]) = fields[i]
    BY <1>2, <1>3
  <2>3. fields = [i \in 1 .. Len(fields) |-> fields[i]]
    OBVIOUS
  <2>4. Restored(type, c) = [i \in 1 .. Len(fields) |-> fields[i]]
    BY <1>5, <2>1, <2>2
  <2> QED
    BY <2>3, <2>4
<1> QED
  BY <1>5, <1>6 DEF c

(* The bodies, one message after the other. *)
LEMMA BodiesStep ==
  ASSUME NEW msgs \in Seq(Records)
  PROVE  LET b == BodiesUpto(msgs) IN
         /\ b[0] = <<>> /\ \A i \in 0 .. Len(msgs) : b[i] \in Seq(Num)
         /\ \A i \in 1 .. Len(msgs) :
              b[i] = b[i - 1] \o Converted(msgs[i].type, msgs[i].fields)
<1> DEFINE n == Len(msgs)
           T == Seq(Num)
           Body(i) == Converted(msgs[i].type, msgs[i].fields)
           E(f) == [i \in 0 .. n |-> IF i = 0 THEN <<>> ELSE f[i - 1] \o Body(i)]
           g == [i \in 1 .. n |-> [t \in T |-> t \o Body(i)]]
           b == BodiesUpto(msgs)
<1>1. n \in Nat /\ \A i \in 1 .. n : Body(i) \in T
  BY LenProperties, RecordIs, ConvertedIs
<1>2. b = CHOOSE f : f = E(f)
  BY DEF BodiesUpto
<1> HIDE DEF n, T, Body, b
<1>3. <<>> \in T /\ \A t \in T, i \in 1 .. n : t \o Body(i) \in T
  BY <1>1, EmptySeq, ConcatProperties DEF T
<1>4. g \in [1 .. n -> [T -> T]]
  BY <1>3
<1>5. \A i \in 1 .. n, t \in T : g[i][t] = t \o Body(i)
  OBVIOUS
<1> HIDE DEF g
<1>6. PICK f \in [0 .. n -> T] : f[0] = <<>> /\ \A i \in 1 .. n : f[i] = g[i][f[i - 1]]
  <2> DEFINE x == <<>>
  <2>1. n \in Nat /\ x \in T
    BY <1>1, <1>3
  <2> HIDE DEF x
  <2>2. \E f \in [0 .. n -> T] : f[0] = x /\ \A i \in 1 .. n : f[i] = g[i][f[i - 1]]
    BY ONLY <1>4, <2>1, Recursion, SMTT(60)
  <2> QED
    BY <2>2 DEF x
<1>7. \A i \in 1 .. n : f[i] = f[i - 1] \o Body(i)
  <2> TAKE i \in 1 .. n
  <2>1. f[i - 1] \in T
    BY <1>1, <1>6
  <2> QED
    BY <1>5, <1>6, <2>1
<1>8. f = E(f)
  <2>1. \A i \in 0 .. n : f[i] = IF i = 0 THEN <<>> ELSE f[i - 1] \o Body(i)
    BY <1>1, <1>6, <1>7
  <2>2. f = [i \in 0 .. n |-> f[i]]
    BY <1>6
  <2> QED
    BY <2>1, <2>2
<1> DEFINE G == E(b)
<1>9. b = G
  <2> HIDE DEF E
  <2> QED
    BY <1>2, <1>8
<1>10. \A i \in 0 .. n : G[i] = IF i = 0 THEN <<>> ELSE b[i - 1] \o Body(i)
  OBVIOUS
<1> HIDE DEF G
<1>11. /\ b[0] = <<>>
       /\ \A i \in 1 .. n : b[i] = b[i - 1] \o Body(i)
  <2>1. 0 \in 0 .. n
    BY <1>1
  <2>2. b[0] = <<>>
    BY <1>9, <1>10, <2>1
  <2>3. \A i \in 1 .. n : i \in 0 .. n /\ i # 0
    BY <1>1
  <2>4. \A i \in 1 .. n : b[i] = b[i - 1] \o Body(i)
    BY <1>9, <1>10, <2>3
  <2> QED
    BY <2>2, <2>4
<1> DEFINE N == {k \in Nat : k <= n => b[k] \in T}
<1>12. 0 \in N
  BY <1>3, <1>11
<1>13. ASSUME NEW k \in Nat, k \in N
       PROVE  k + 1 \in N
  <2>1. SUFFICES ASSUME k + 1 <= n
                 PROVE  b[k + 1] \in T
    OBVIOUS
  <2>2. k + 1 \in 1 .. n /\ (k + 1) - 1 = k /\ b[k] \in T
    BY <1>1, <1>13, <2>1
  <2>3. b[k + 1] = b[k] \o Body(k + 1)
    BY <1>11, <2>2
  <2> QED
    BY <1>3, <2>2, <2>3
<1>14. Nat \subseteq N
  <2> HIDE DEF N
  <2> QED
    BY <1>12, <1>13, NatSetInduction
<1>15. \A i \in 0 .. n : b[i] \in T
  BY <1>1, <1>14
<1> QED
  BY <1>11, <1>15 DEF b, n, Body, T

(* Where each body is in the bodies of all. *)
LEMMA BodiesParts ==
  ASSUME NEW msgs \in Seq(Records)
  PROVE  LET b == BodiesUpto(msgs) IN
         /\ \A i \in 0 .. Len(msgs) : Len(b[i]) \in Nat /\ Len(b[i]) <= Len(Bodies(msgs))
         /\ \A i \in 1 .. Len(msgs) :
              /\ Len(b[i]) = Len(b[i - 1]) + Size(msgs[i].type)
              /\ \A j \in 1 .. Size(msgs[i].type) :
                   Bodies(msgs)[Len(b[i - 1]) + j] = Converted(msgs[i].type, msgs[i].fields)[j]
<1> DEFINE n == Len(msgs)
           b == BodiesUpto(msgs)
           Body(i) == Converted(msgs[i].type, msgs[i].fields)
           size(i) == Size(msgs[i].type)
<1>1. /\ b[0] = <<>> /\ \A i \in 0 .. n : b[i] \in Seq(Num)
      /\ \A i \in 1 .. n : b[i] = b[i - 1] \o Body(i)
  BY BodiesStep
<1>2. n \in Nat /\ \A i \in 0 .. n : Len(b[i]) \in Nat
  BY <1>1, LenProperties
<1>3. \A i \in 1 .. n : Body(i) \in Seq(Num) /\ Len(Body(i)) = size(i) /\ size(i) \in Nat
  BY RecordIs, ConvertedIs, Sizes
<1> HIDE DEF n, b, Body, size
<1>4. ASSUME NEW i \in 1 .. n
      PROVE  /\ Len(b[i]) = Len(b[i - 1]) + size(i)
             /\ \A j \in 1 .. Len(b[i - 1]) : b[i][j] = b[i - 1][j]
             /\ \A j \in 1 .. size(i) : b[i][Len(b[i - 1]) + j] = Body(i)[j]
  <2> DEFINE c == b[i - 1]
  <2>1. b[i] = c \o Body(i) /\ c \in Seq(Num) /\ Len(c) \in Nat
    BY <1>1, <1>2
  <2> HIDE DEF c
  <2>2. /\ Len(b[i]) = Len(c) + size(i)
        /\ \A j \in 1 .. Len(c) + size(i) :
             b[i][j] = IF j <= Len(c) THEN c[j] ELSE Body(i)[j - Len(c)]
    <3> DEFINE e == Body(i)
    <3>1. e \in Seq(Num) /\ Len(e) = size(i) /\ b[i] = c \o e
      BY <1>3, <2>1
    <3> HIDE DEF e
    <3>2. /\ Len(c \o e) = Len(c) + Len(e)
          /\ \A j \in 1 .. Len(c) + Len(e) :
               (c \o e)[j] = IF j <= Len(c) THEN c[j] ELSE e[j - Len(c)]
      BY <2>1, <3>1, ConcatProperties
    <3> QED
      BY <3>1, <3>2 DEF e
  <2>3. \A j \in 1 .. Len(c) : b[i][j] = c[j]
    BY <1>3, <2>1, <2>2
  <2>4. \A j \in 1 .. size(i) : b[i][Len(c) + j] = Body(i)[j]
    <3> TAKE j \in 1 .. size(i)
    <3>1. Len(c) + j \in 1 .. Len(c) + size(i) /\ ~ (Len(c) + j <= Len(c)) /\ (Len(c) + j) - Len(c) = j
      BY <1>3, <2>1
    <3> QED
      BY <2>2, <3>1
  <2> QED
    BY <2>2, <2>3, <2>4 DEF c
<1> DEFINE Fits(i, k) == Len(b[i]) <= Len(b[k]) /\ \A j \in 1 .. Len(b[i]) : b[k][j] = b[i][j]
           N == {d \in Nat : \A i \in 0 .. n : i + d <= n => Fits(i, i + d)}
<1>5. 0 \in N
  <2>1. \A i \in 0 .. n : i + 0 = i /\ Fits(i, i)
    BY <1>2
  <2> HIDE DEF Fits
  <2> QED
    BY <2>1
<1>6. ASSUME NEW d \in Nat, d \in N
      PROVE  d + 1 \in N
  <2>1. SUFFICES ASSUME NEW i \in 0 .. n, i + (d + 1) <= n
                 PROVE  Fits(i, i + (d + 1))
    <3> HIDE DEF Fits
    <3> QED
      OBVIOUS
  <2> DEFINE k == i + d
  <2>2. k + 1 \in 1 .. n /\ (k + 1) - 1 = k /\ i + (d + 1) = k + 1 /\ k \in 0 .. n /\ k <= n
    BY <1>2, <2>1
  <2>3. Fits(i, k)
    BY <1>6, <2>2
  <2> HIDE DEF k
  <2>4. /\ Len(b[k + 1]) = Len(b[k]) + size(k + 1)
        /\ \A j \in 1 .. Len(b[k]) : b[k + 1][j] = b[k][j]
    BY <1>4, <2>2
  <2>5. Fits(i, k + 1)
    <3>1. /\ Len(b[i]) \in Nat /\ Len(b[k]) \in Nat /\ size(k + 1) \in Nat
      BY <1>2, <1>3, <2>2
    <3> QED
      BY <2>3, <2>4, <3>1
  <2> QED
    BY <2>2, <2>5
<1>7. Nat \subseteq N
  <2> HIDE DEF N
  <2> QED
    BY <1>5, <1>6, NatSetInduction
<1>8. \A i \in 0 .. n : Fits(i, n)
  <2> TAKE i \in 0 .. n
  <2>1. n - i \in Nat /\ i + (n - i) = n /\ n <= n
    BY <1>2
  <2>2. n - i \in N
    BY <1>7, <2>1
  <2> HIDE DEF Fits
  <2> QED
    BY <2>1, <2>2
<1>9. Bodies(msgs) = b[n]
  BY DEF Bodies, b, n
<1>10. \A i \in 0 .. n : Len(b[i]) \in Nat /\ Len(b[i]) <= Len(Bodies(msgs))
  BY <1>2, <1>8, <1>9
<1>11. ASSUME NEW i \in 1 .. n
       PROVE  /\ Len(b[i]) = Len(b[i - 1]) + size(i)
              /\ \A j \in 1 .. size(i) : Bodies(msgs)[Len(b[i - 1]) + j] = Body(i)[j]
  <2>1. i \in 0 .. n /\ i - 1 \in 0 .. n
    BY <1>2
  <2>2. \A j \in 1 .. size(i) : Len(b[i - 1]) + j \in 1 .. Len(b[i])
    BY <1>2, <1>3, <1>4, <2>1
  <2> QED
    BY <1>4, <1>8, <1>9, <2>1, <2>2
<1> QED
  BY <1>10, <1>11 DEF b, n, Body, size

(* The words of the segments. *)
LEMMA SegmentsIs ==
  ASSUME NEW msgs \in Seq(Records)
  PROVE  /\ Len(msgs) \in Nat /\ Segments(msgs) \in Seq(Num)
         /\ Len(Segments(msgs)) = 2 * Len(msgs)
         /\ \A i \in 1 .. Len(msgs) :
              /\ Segments(msgs)[2 * i - 1] = Net(msgs[i].type)
              /\ Segments(msgs)[2 * i] = Net(Size(msgs[i].type))
<1> DEFINE n == Len(msgs)
           type(i) == msgs[i].type
           W(j) == Net(IF j % 2 = 1 THEN type((j + 1) \div 2) ELSE Size(type((j + 1) \div 2)))
           s == Segments(msgs)
<1>1. n \in Nat /\ \A i \in 1 .. n : type(i) \in Int /\ Size(type(i)) \in Int
  BY LenProperties, RecordIs, Sizes
<1>2. s = [j \in 1 .. 2 * n |-> W(j)]
  BY DEF Segments
<1> HIDE DEF n, type, s
<1>3. \A j \in 1 .. 2 * n : W(j) \in Num
  <2> TAKE j \in 1 .. 2 * n
  <2>1. (j + 1) \div 2 \in 1 .. n
    BY <1>1
  <2> QED
    BY <1>1, <2>1, NetNumber
<1>4. s \in [1 .. 2 * n -> Num] /\ \A j \in 1 .. 2 * n : s[j] = W(j)
  <2> HIDE DEF W
  <2> QED
    BY <1>2, <1>3
<1>5. ASSUME NEW i \in 1 .. n
      PROVE  s[2 * i - 1] = Net(type(i)) /\ s[2 * i] = Net(Size(type(i)))
  <2>1. /\ 2 * i - 1 \in 1 .. 2 * n /\ 2 * i \in 1 .. 2 * n
        /\ (2 * i - 1) % 2 = 1 /\ ((2 * i - 1) + 1) \div 2 = i
        /\ (2 * i) % 2 # 1 /\ (2 * i + 1) \div 2 = i
    BY <1>1
  <2> QED
    BY <1>4, <2>1
<1>6. s \in Seq(Num) /\ Len(s) = 2 * n
  <2>1. 2 * n \in Nat
    BY <1>1
  <2> QED
    BY <1>4, <2>1
<1> QED
  BY <1>1, <1>5, <1>6 DEF n, type, s

(* The head that the first checksum of a batch is over. *)
WholeHead(msgs) ==
  <<Checksum(<<>>), Swap(Checksum(Bodies(msgs))), Net(Len(msgs)), Pad>>

LEMMA BodiesIs ==
  ASSUME NEW msgs \in Seq(Records)
  PROVE  /\ Bodies(msgs) \in Seq(Num) /\ Len(Bodies(msgs)) \in Nat
         /\ Len(msgs) = 0 => Bodies(msgs) = <<>> /\ msgs = <<>>
         /\ Len(msgs) > 0 => Len(Bodies(msgs)) > 0
<1>1. Len(msgs) \in Nat
  BY LenProperties
<1>2. /\ BodiesUpto(msgs)[0] = <<>>
      /\ \A i \in 0 .. Len(msgs) : BodiesUpto(msgs)[i] \in Seq(Num)
  BY BodiesStep
<1>3. Bodies(msgs) \in Seq(Num) /\ (Len(msgs) = 0 => Bodies(msgs) = <<>>)
  BY <1>1, <1>2 DEF Bodies
<1>4. Len(msgs) > 0 => Len(Bodies(msgs)) > 0
  <2> SUFFICES ASSUME Len(msgs) > 0
               PROVE  Len(Bodies(msgs)) > 0
    OBVIOUS
  <2>1. 1 \in 1 .. Len(msgs) /\ 0 \in 0 .. Len(msgs) /\ 1 \in 0 .. Len(msgs) /\ 1 - 1 = 0
    BY <1>1
  <2>2. /\ Len(BodiesUpto(msgs)[0]) \in Nat /\ Len(BodiesUpto(msgs)[1]) <= Len(Bodies(msgs))
        /\ Len(BodiesUpto(msgs)[1]) = Len(BodiesUpto(msgs)[0]) + Size(msgs[1].type)
        /\ Len(BodiesUpto(msgs)[1]) \in Nat
    <3> DEFINE b == BodiesUpto(msgs)
    <3>1. /\ \A i \in 0 .. Len(msgs) : Len(b[i]) \in Nat /\ Len(b[i]) <= Len(Bodies(msgs))
          /\ \A i \in 1 .. Len(msgs) : Len(b[i]) = Len(b[i - 1]) + Size(msgs[i].type)
      BY BodiesParts
    <3> HIDE DEF b
    <3>2. /\ Len(b[0]) \in Nat /\ Len(b[1]) <= Len(Bodies(msgs))
          /\ Len(b[1]) = Len(b[0]) + Size(msgs[1].type) /\ Len(b[1]) \in Nat
      BY <2>1, <3>1
    <3> QED
      BY <3>2 DEF b
  <2>3. Size(msgs[1].type) \in Nat /\ Size(msgs[1].type) > 0
    BY <2>1, RecordIs, Sizes
  <2>4. Len(Bodies(msgs)) \in Nat
    BY <1>3, LenProperties
  <2> QED
    BY <2>2, <2>3, <2>4
<1> QED
  BY <1>1, <1>3, <1>4, EmptySeq, LenProperties

LEMMA WholeHeadIs ==
  ASSUME NEW msgs \in Seq(Records)
  PROVE  LET h == WholeHead(msgs) IN
         /\ h \in Seq(HeadWords) /\ Len(h) = 4
         /\ h[1] = Checksum(<<>>) /\ h[2] = Swap(Checksum(Bodies(msgs)))
         /\ h[3] = Net(Len(msgs)) /\ h[4] = Pad
         /\ Checksum(<<>>) \in HeadWords
<1>1. Checksum(<<>>) \in Sums(Num) /\ Swap(Checksum(Bodies(msgs))) \in Sums(Num)
  BY BodiesIs, EmptySeq, SumOf, SwapSum
<1>2. Net(Len(msgs)) \in Num /\ Pad \in Num
  BY SegmentsIs, NetNumber DEF Pad
<1> QED
  BY <1>1, <1>2 DEF WholeHead, HeadWords

(* What encode_body and encode_head make of the messages. *)
LEMMA EncodeIs ==
  ASSUME NEW msgs \in Seq(Records)
  PROVE  LET u == Encode(msgs)
             n == Len(msgs) IN
         /\ u \in Seq(Units) /\ Len(u) = 4 + 2 * n + Len(Bodies(msgs)) /\ n \in Nat
         /\ u[1] = Swap(Checksum(WholeHead(msgs) \o Segments(msgs)))
         /\ u[2] = Swap(Checksum(Bodies(msgs))) /\ u[3] = Net(n) /\ u[4] = Pad
         /\ \A j \in 1 .. 2 * n : u[4 + j] = Segments(msgs)[j]
         /\ \A j \in 1 .. Len(Bodies(msgs)) : u[4 + 2 * n + j] = Bodies(msgs)[j]
<1> DEFINE n == Len(msgs)
           body == Bodies(msgs)
           segs == Segments(msgs)
           head == WholeHead(msgs)
           first == Swap(Checksum(head \o segs))
           front == <<first>> \o Tail(head)
           u == Encode(msgs)
<1>1. body \in Seq(Num) /\ Len(body) \in Nat
  BY BodiesIs
<1>2. segs \in Seq(Num) /\ Len(segs) = 2 * n /\ n \in Nat
  BY SegmentsIs
<1>3. /\ head \in Seq(HeadWords) /\ Len(head) = 4
      /\ head[2] = Swap(Checksum(body)) /\ head[3] = Net(n) /\ head[4] = Pad
  BY WholeHeadIs
<1>4. Num \subseteq HeadWords /\ HeadWords \subseteq Units /\ Sums(HeadWords) \subseteq Units
  BY DEF HeadWords, Units
<1>5. segs \in Seq(HeadWords) /\ segs \in Seq(Units) /\ body \in Seq(Units)
  BY <1>1, <1>2, <1>4, SeqMonotonic
<1>6. Crc(body, Checksum(<<>>)) = Checksum(body)
  BY <1>1, SumOf
<1>7. HeadSum(head, segs) = Checksum(head \o segs)
  BY <1>3, <1>5, SumOf DEF HeadSum
<1>8. first \in Units
  <2>1. head \o segs \in Seq(HeadWords)
    BY <1>3, <1>5, ConcatProperties
  <2>2. Checksum(head \o segs) \in Sums(HeadWords)
    BY <2>1, SumOf
  <2>3. Swap(Checksum(head \o segs)) \in Sums(HeadWords)
    BY <2>2, SwapSum
  <2> QED
    BY <1>4, <2>3
<1>9. u = (front \o segs) \o body
  <2>1. Encode(msgs) =
          LET h == <<Checksum(<<>>), Swap(Crc(body, Checksum(<<>>))), Net(n), Pad>> IN
          <<Swap(HeadSum(h, segs))>> \o Tail(h) \o segs \o body
    BY DEF Encode
  <2>2. <<Checksum(<<>>), Swap(Crc(body, Checksum(<<>>))), Net(n), Pad>> = head
    BY <1>6 DEF WholeHead
  <2>3. Encode(msgs) = <<Swap(HeadSum(head, segs))>> \o Tail(head) \o segs \o body
    BY <2>1, <2>2
  <2> QED
    BY <1>7, <2>3
<1>10. /\ front \in Seq(Units) /\ Len(front) = 4 /\ front[1] = first
       /\ front[2] = head[2] /\ front[3] = head[3] /\ front[4] = head[4]
  <2> DEFINE t == Tail(head)
             f == <<first>>
  <2>1. head # <<>> /\ head \in Seq(Units)
    BY <1>3, <1>4, SeqMonotonic, EmptySeq
  <2> HIDE DEF head, first
  <2>2. t \in Seq(Units) /\ Len(t) = 3 /\ \A i \in 1 .. Len(t) : t[i] = head[i + 1]
    BY <1>3, <2>1, HeadTailProperties
  <2> HIDE DEF t
  <2>3. t[1] = head[2] /\ t[2] = head[3] /\ t[3] = head[4]
    BY <2>2
  <2>4. f \in Seq(Units) /\ Len(f) = 1 /\ f[1] = first
    BY <1>8
  <2> HIDE DEF f
  <2>5. /\ f \o t \in Seq(Units) /\ Len(f \o t) = 1 + 3
        /\ \A i \in 1 .. 1 + 3 : (f \o t)[i] = IF i <= 1 THEN f[i] ELSE t[i - 1]
    <3>1. /\ f \o t \in Seq(Units) /\ Len(f \o t) = Len(f) + Len(t)
          /\ \A i \in 1 .. Len(f) + Len(t) :
               (f \o t)[i] = IF i <= Len(f) THEN f[i] ELSE t[i - Len(f)]
      <4>1. f \in Seq(Units) /\ t \in Seq(Units)
        BY <2>2, <2>4
      <4> QED
        BY ONLY <4>1, ConcatProperties
    <3> QED
      BY <2>2, <2>4, <3>1
  <2>6. front = f \o t
    BY DEF f, t
  <2> HIDE DEF front
  <2>7. front[1] = f[1] /\ front[2] = t[1] /\ front[3] = t[2] /\ front[4] = t[3]
    BY <2>5, <2>6
  <2> QED
    BY <2>3, <2>4, <2>5, <2>6, <2>7
<1> HIDE DEF front, segs, body, head, first, u, n
<1> DEFINE c == front \o segs
<1>11. /\ c \in Seq(Units) /\ Len(c) = 4 + 2 * n
       /\ \A i \in 1 .. 4 + 2 * n : c[i] = IF i <= 4 THEN front[i] ELSE segs[i - 4]
  <2>1. /\ front \o segs \in Seq(Units) /\ Len(front \o segs) = Len(front) + Len(segs)
        /\ \A i \in 1 .. Len(front) + Len(segs) :
             (front \o segs)[i] = IF i <= Len(front) THEN front[i] ELSE segs[i - Len(front)]
    BY <1>5, <1>10, ConcatProperties
  <2>2. Len(front) = 4 /\ Len(segs) = 2 * n
    BY <1>2, <1>10
  <2> QED
    BY <2>1, <2>2
<1> HIDE DEF c
<1>12. /\ c \o body \in Seq(Units) /\ Len(c \o body) = Len(c) + Len(body)
       /\ \A i \in 1 .. Len(c) + Len(body) :
            (c \o body)[i] = IF i <= Len(c) THEN c[i] ELSE body[i - Len(c)]
  BY <1>5, <1>11, ConcatProperties
<1>13. u = c \o body
  BY <1>9 DEF c
<1>14. /\ u \in Seq(Units) /\ Len(u) = 4 + 2 * n + Len(body)
       /\ \A i \in 1 .. 4 : u[i] = front[i]
       /\ \A j \in 1 .. 2 * n : u[4 + j] = segs[j]
       /\ \A j \in 1 .. Len(body) : u[4 + 2 * n + j] = body[j]
  <2>1. u \in Seq(Units) /\ Len(u) = 4 + 2 * n + Len(body)
    BY <1>11, <1>12, <1>13
  <2>2. \A i \in 1 .. 4 : u[i] = front[i]
    BY <1>1, <1>2, <1>11, <1>12, <1>13
  <2>3. ASSUME NEW j \in 1 .. 2 * n
        PROVE  u[4 + j] = segs[j]
    <3>1. 4 + j \in 1 .. 4 + 2 * n /\ ~ (4 + j <= 4) /\ (4 + j) - 4 = j /\ 4 + j \in 1 .. Len(c) + Len(body)
          /\ 4 + j <= Len(c)
      BY <1>1, <1>2, <1>11
    <3> QED
      BY <1>11, <1>12, <1>13, <3>1
  <2>4. ASSUME NEW j \in 1 .. Len(body)
        PROVE  u[4 + 2 * n + j] = body[j]
    <3>1. /\ 4 + 2 * n + j \in 1 .. Len(c) + Len(body) /\ ~ (4 + 2 * n + j <= Len(c))
          /\ (4 + 2 * n + j) - Len(c) = j
      BY <1>1, <1>2, <1>11
    <3> QED
      BY <1>12, <1>13, <3>1
  <2> QED
    BY <2>1, <2>2, <2>3, <2>4
<1> QED
  BY <1>2, <1>3, <1>10, <1>14 DEF u, n, body, segs, head, first

(* What Read looks at. *)
HeadOf(units) == <<Checksum(<<>>)>> \o SubSeq(units, 2, HeadUnits)
SegsOf(units, nr) == SubSeq(units, HeadUnits + 1, HeadUnits + 2 * nr)
EndOf(units, nr) == HeadUnits + 2 * nr + BodyEnds(units, nr)[nr]
BodyOf(units, nr) == SubSeq(units, HeadUnits + 2 * nr + 1, EndOf(units, nr))
GoodHead(units, nr) ==
  /\ HeadSum(HeadOf(units), SegsOf(units, nr)) = Swap(units[1])
  /\ \A i \in 1 .. nr : Size(SegType(units, i)) = SegLength(units, i)
FieldsOf(units, nr, i) ==
  LET ends == BodyEnds(units, nr) IN SubSeq(BodyOf(units, nr), ends[i - 1] + 1, ends[i])
MessagesOf(units, nr) ==
  [i \in 1 .. nr |-> Message(SegType(units, i), Restored(SegType(units, i), FieldsOf(units, nr, i)))]

(* Read and Skip, case by case. *)
LEMMA ReadShort ==
  ASSUME NEW units, Len(units) \in Nat, Len(units) < 4
  PROVE  /\ Len(units) = 0 => Read(units) = Failed("end") /\ Skip(units) = Failed("end")
         /\ Len(units) > 0 => Read(units) = Failed("EAGAIN") /\ Skip(units) = Failed("EAGAIN")
<1>1. Len(units) = 0 \/ Len(units) \in 1 .. HeadUnits - 1
  <2> DEFINE l == Len(units)
  <2>1. l \in Nat /\ l < 4
    OBVIOUS
  <2> HIDE DEF l
  <2>2. l = 0 \/ l \in 1 .. HeadUnits - 1
    BY <2>1 DEF HeadUnits
  <2> QED
    BY <2>2 DEF l
<1>2. ~ (Len(units) >= HeadUnits)
  BY DEF HeadUnits
<1>3. CASE Len(units) = 0
  BY <1>2, <1>3 DEF Read, Skip
<1>4. CASE Len(units) \in 1 .. HeadUnits - 1
  <2>1. Len(units) # 0 /\ Len(units) > 0
    BY <1>4
  <2>2. Read(units) = Failed("EAGAIN")
    BY <1>2, <1>4, <2>1 DEF Read
  <2>3. Skip(units) = Failed("EAGAIN")
    BY <1>2, <1>4, <2>1 DEF Skip
  <2> QED
    BY <2>1, <2>2, <2>3
<1> QED
  BY <1>1, <1>3, <1>4

LEMMA ReadLong ==
  ASSUME NEW units, Len(units) \in Nat, Len(units) >= 4, NEW nr, nr = Number(units[3])
  PROVE  Read(units) =
           IF nr = 0
           THEN IF ~ IsZero(units[2]) \/ HeadSum(HeadOf(units), <<>>) # Swap(units[1])
                THEN Failed("EPROTO")
                ELSE [rc |-> "data", msgs |-> <<>>, used |-> HeadUnits]
           ELSE IF Len(units) < HeadUnits + 2 * nr THEN Failed("EAGAIN")
           ELSE IF ~ GoodHead(units, nr) THEN Failed("EPROTO")
           ELSE IF Len(units) < EndOf(units, nr) THEN Failed("EAGAIN")
           ELSE IF Crc(BodyOf(units, nr), Checksum(<<>>)) # Swap(units[2]) THEN Failed("EPROTO")
           ELSE [rc |-> "data", used |-> EndOf(units, nr), msgs |-> MessagesOf(units, nr)]
<1>1. Len(units) # 0 /\ ~ (Len(units) \in 1 .. HeadUnits - 1) /\ Len(units) >= HeadUnits
  <2> DEFINE l == Len(units)
  <2>1. l \in Nat /\ l >= 4
    OBVIOUS
  <2> HIDE DEF l
  <2>2. l # 0 /\ ~ (l \in 1 .. HeadUnits - 1) /\ l >= HeadUnits
    BY <2>1 DEF HeadUnits
  <2> QED
    BY <2>2 DEF l
<1>2. /\ HeadSum(HeadOf(units), SegsOf(units, nr)) # Swap(units[1])
         \/ \E i \in 1 .. nr : Size(SegType(units, i)) # SegLength(units, i)
      <=> ~ GoodHead(units, nr)
  BY DEF GoodHead
<1> QED
  BY <1>1, <1>2, Zenon DEF Read, HeadOf, SegsOf, EndOf, BodyOf, FieldsOf, MessagesOf

LEMMA SkipLong ==
  ASSUME NEW units, Len(units) \in Nat, Len(units) >= 4, NEW nr, nr = Number(units[3])
  PROVE  Skip(units) =
           IF nr = 0
           THEN IF IsZero(units[2]) THEN [Failed("data") EXCEPT !.used = HeadUnits]
                                    ELSE Failed("EPROTO")
           ELSE IF Len(units) < HeadUnits + 2 * nr THEN Failed("EAGAIN")
           ELSE IF Len(units) < EndOf(units, nr) THEN Failed("EAGAIN")
           ELSE [Failed("data") EXCEPT !.used = EndOf(units, nr)]
<1>1. Len(units) # 0 /\ ~ (Len(units) \in 1 .. HeadUnits - 1) /\ Len(units) >= HeadUnits
  <2> DEFINE l == Len(units)
  <2>1. l \in Nat /\ l >= 4
    OBVIOUS
  <2> HIDE DEF l
  <2>2. l # 0 /\ ~ (l \in 1 .. HeadUnits - 1) /\ l >= HeadUnits
    BY <2>1 DEF HeadUnits
  <2> QED
    BY <2>2 DEF l
<1> QED
  BY <1>1, Zenon DEF Skip, SkippedBody, EndOf

(* The bodies end where the lengths in the head say. *)
LEMMA BodyEndsIs ==
  ASSUME NEW msgs \in Seq(Records), NEW units,
         \A i \in 1 .. Len(msgs) : SegLength(units, i) = Size(msgs[i].type)
  PROVE  \A i \in 0 .. Len(msgs) :
           BodyEnds(units, Len(msgs))[i] = Len(BodiesUpto(msgs)[i])
<1> DEFINE n == Len(msgs)
           b == BodiesUpto(msgs)
           e == BodyEnds(units, n)
           L(i) == SegLength(units, i)
           E(f) == [i \in 0 .. n |-> IF i = 0 THEN 0 ELSE f[i - 1] + L(i)]
           g == [i \in 1 .. n |-> [t \in Int |-> t + L(i)]]
<1>1. n \in Nat /\ \A i \in 1 .. n : L(i) \in Int /\ L(i) = Size(msgs[i].type)
  BY LenProperties, RecordIs, Sizes
<1>2. e = CHOOSE f : f = E(f)
  BY DEF BodyEnds
<1>3. /\ \A i \in 0 .. n : Len(b[i]) \in Nat
      /\ \A i \in 1 .. n : Len(b[i]) = Len(b[i - 1]) + Size(msgs[i].type)
  BY BodiesParts
<1>4. Len(b[0]) = 0
  BY BodiesStep, EmptySeq
<1> HIDE DEF n, b, e, L
<1>5. g \in [1 .. n -> [Int -> Int]]
  BY <1>1
<1>6. \A i \in 1 .. n, t \in Int : g[i][t] = t + L(i)
  OBVIOUS
<1> HIDE DEF g
<1>7. PICK f \in [0 .. n -> Int] : f[0] = 0 /\ \A i \in 1 .. n : f[i] = g[i][f[i - 1]]
  <2> DEFINE T == Int
             x == 0
  <2>1. n \in Nat /\ x \in T
    BY <1>1
  <2>2. g \in [1 .. n -> [T -> T]]
    BY <1>5
  <2> HIDE DEF x, T
  <2>3. \E f \in [0 .. n -> T] : f[0] = x /\ \A i \in 1 .. n : f[i] = g[i][f[i - 1]]
    BY ONLY <2>1, <2>2, Recursion, SMTT(60)
  <2> QED
    BY <2>3 DEF x, T
<1>8. \A i \in 1 .. n : f[i] = f[i - 1] + L(i)
  <2> TAKE i \in 1 .. n
  <2>1. f[i - 1] \in Int
    BY <1>1, <1>7
  <2> QED
    BY <1>6, <1>7, <2>1
<1>9. f = E(f)
  <2>1. \A i \in 0 .. n : f[i] = IF i = 0 THEN 0 ELSE f[i - 1] + L(i)
    BY <1>1, <1>7, <1>8
  <2>2. f = [i \in 0 .. n |-> f[i]]
    BY <1>7
  <2> QED
    BY <2>1, <2>2
<1> DEFINE G == E(e)
<1>10. e = G
  <2> HIDE DEF E
  <2> QED
    BY <1>2, <1>9
<1>11. \A i \in 0 .. n : G[i] = IF i = 0 THEN 0 ELSE e[i - 1] + L(i)
  OBVIOUS
<1> HIDE DEF G
<1>12. e[0] = 0 /\ \A i \in 1 .. n : e[i] = e[i - 1] + L(i)
  <2>1. 0 \in 0 .. n
    BY <1>1
  <2>2. e[0] = 0
    BY <1>10, <1>11, <2>1
  <2>3. \A i \in 1 .. n : i \in 0 .. n /\ i # 0
    BY <1>1
  <2> QED
    BY <1>10, <1>11, <2>2, <2>3
<1> DEFINE N == {k \in Nat : k <= n => e[k] = Len(b[k])}
<1>13. 0 \in N
  BY <1>4, <1>12
<1>14. ASSUME NEW k \in Nat, k \in N
       PROVE  k + 1 \in N
  <2>1. SUFFICES ASSUME k + 1 <= n
                 PROVE  e[k + 1] = Len(b[k + 1])
    OBVIOUS
  <2>2. k + 1 \in 1 .. n /\ (k + 1) - 1 = k /\ e[k] = Len(b[k])
    BY <1>1, <1>14, <2>1
  <2>3. e[k + 1] = e[k] + L(k + 1) /\ L(k + 1) = Size(msgs[k + 1].type)
    BY <1>1, <1>12, <2>2
  <2>4. Len(b[k + 1]) = Len(b[k]) + Size(msgs[k + 1].type)
    BY <1>3, <2>2
  <2> QED
    BY <2>2, <2>3, <2>4
<1>15. Nat \subseteq N
  <2> HIDE DEF N
  <2> QED
    BY <1>13, <1>14, NatSetInduction
<1> QED
  BY <1>1, <1>15 DEF n, b, e

(* A file whose first k units, as far as it goes, are those of the batch.  *)
Begins(units, msgs, k) ==
  /\ units \in Seq(Units)
  /\ \A j \in 1 .. Len(units) : j <= k => units[j] = Encode(msgs)[j]

(* The head of a file. *)
LEMMA HeadOfIs ==
  ASSUME NEW units \in Seq(Units), Len(units) >= 4
  PROVE  /\ HeadOf(units) \in Seq(Units) /\ Len(HeadOf(units)) = 4
         /\ HeadOf(units)[1] = Checksum(<<>>)
         /\ \A j \in 2 .. 4 : HeadOf(units)[j] = units[j]
<1> DEFINE s == SubSeq(units, 2, 4)
           f == <<Checksum(<<>>)>>
<1>1. Len(units) \in Nat /\ \A j \in 2 .. 4 : units[j] \in Units
  BY LenProperties, ElementOfSeq
<1>2. s \in Seq(Units) /\ Len(s) = 3 /\ \A i \in 1 .. 3 : s[i] = units[i + 1]
  <2>1. /\ s \in Seq(Units) /\ Len(s) = IF 2 <= 4 THEN 4 - 2 + 1 ELSE 0
        /\ \A i \in 1 .. 4 - 2 + 1 : s[i] = units[2 + i - 1]
    BY <1>1, SubSeqProperties
  <2> HIDE DEF s
  <2>2. Len(s) = 3 /\ \A i \in 1 .. 3 : 2 + i - 1 = i + 1 /\ i \in 1 .. 4 - 2 + 1
    BY <2>1
  <2> QED
    BY <2>1, <2>2
<1>3. f \in Seq(Units) /\ Len(f) = 1 /\ f[1] = Checksum(<<>>)
  <2>1. Checksum(<<>>) \in Units
    BY EmptySeq, SumOf DEF Units, HeadWords
  <2> QED
    BY <2>1
<1>4. HeadOf(units) = f \o s
  BY DEF HeadOf, HeadUnits
<1> HIDE DEF s, f
<1>5. /\ f \o s \in Seq(Units) /\ Len(f \o s) = Len(f) + Len(s)
      /\ \A i \in 1 .. Len(f) + Len(s) : (f \o s)[i] = IF i <= Len(f) THEN f[i] ELSE s[i - Len(f)]
  <2>1. f \in Seq(Units) /\ s \in Seq(Units)
    BY <1>2, <1>3
  <2> QED
    BY ONLY <2>1, ConcatProperties
<1>6. \A j \in 2 .. 4 : /\ j \in 1 .. Len(f) + Len(s) /\ ~ (j <= Len(f))
                        /\ j - Len(f) \in 1 .. 3 /\ (j - Len(f)) + 1 = j
  BY <1>2, <1>3
<1> QED
  BY <1>2, <1>3, <1>4, <1>5, <1>6

(* What the readers find in such a file. *)
LEMMA BeginsHead ==
  ASSUME NEW msgs \in Seq(Records), NEW units, NEW k \in Nat, Begins(units, msgs, k),
         Len(units) >= 4, k >= 4
  PROVE  /\ HeadOf(units) = WholeHead(msgs) /\ Number(units[3]) = Len(msgs)
         /\ Swap(units[1]) = Checksum(WholeHead(msgs) \o Segments(msgs))
         /\ Swap(units[2]) = Checksum(Bodies(msgs))
         /\ Len(msgs) = 0 => IsZero(units[2])
<1> DEFINE u == Encode(msgs)
           n == Len(msgs)
           h == WholeHead(msgs)
<1>1. /\ Len(u) = 4 + 2 * n + Len(Bodies(msgs)) /\ n \in Nat
      /\ u[1] = Swap(Checksum(h \o Segments(msgs)))
      /\ u[2] = Swap(Checksum(Bodies(msgs))) /\ u[3] = Net(n) /\ u[4] = Pad
  BY EncodeIs
<1>2. Bodies(msgs) \in Seq(Num) /\ Len(Bodies(msgs)) \in Nat /\ (n = 0 => Bodies(msgs) = <<>>)
  BY BodiesIs
<1>3. /\ h \in Seq(HeadWords) /\ Len(h) = 4 /\ h[1] = Checksum(<<>>)
      /\ h[2] = Swap(Checksum(Bodies(msgs))) /\ h[3] = Net(n) /\ h[4] = Pad
  BY WholeHeadIs
<1>4. units \in Seq(Units) /\ Len(units) \in Nat
  BY LenProperties DEF Begins
<1>5. Swap(u[1]) = Checksum(h \o Segments(msgs)) /\ Swap(u[2]) = Checksum(Bodies(msgs))
  <2>1. Num \subseteq HeadWords
    BY DEF HeadWords
  <2>2. Segments(msgs) \in Seq(HeadWords)
    BY <2>1, SegmentsIs, SeqMonotonic
  <2>3. h \o Segments(msgs) \in Seq(HeadWords)
    BY <1>3, <2>2, ConcatProperties
  <2>4. Checksum(h \o Segments(msgs)) \in Sums(HeadWords)
    BY <2>3, SumOf
  <2>5. Checksum(Bodies(msgs)) \in Sums(Num)
    BY <1>2, SumOf
  <2> QED
    BY <1>1, <2>4, <2>5, SwapSum
<1>6. n = 0 => IsZero(u[2])
  BY <1>1, <1>2 DEF Swap, IsZero
<1> HIDE DEF u, n, h
<1>7. \A j \in 1 .. 4 : units[j] = u[j]
  <2>1. \A j \in 1 .. 4 : j \in 1 .. Len(units) /\ j <= k
    BY <1>4
  <2> QED
    BY <2>1 DEF Begins, u
<1>8. units[1] = u[1] /\ units[2] = u[2] /\ units[3] = u[3] /\ units[4] = u[4]
  BY <1>7
<1>9. HeadOf(units) = h
  <2>1. /\ HeadOf(units) \in Seq(Units) /\ Len(HeadOf(units)) = 4
        /\ HeadOf(units)[1] = Checksum(<<>>)
        /\ \A j \in 2 .. 4 : HeadOf(units)[j] = units[j]
    BY <1>4, HeadOfIs
  <2>2. h \in Seq(Units)
    BY <1>3, SeqMonotonic DEF Units
  <2>3. HeadOf(units)[2] = units[2] /\ HeadOf(units)[3] = units[3] /\ HeadOf(units)[4] = units[4]
    BY <2>1
  <2>4. \A j \in 1 .. 4 : HeadOf(units)[j] = h[j]
    <3> TAKE j \in 1 .. 4
    <3>1. j = 1 \/ j = 2 \/ j = 3 \/ j = 4
      OBVIOUS
    <3> QED
      BY <1>1, <1>3, <1>8, <2>1, <2>3, <3>1
  <2> QED
    BY <1>3, <2>1, <2>2, <2>4, SeqEqual
<1>10. Number(units[3]) = n
  BY <1>1, <1>8, NetNumber
<1> QED
  BY <1>5, <1>6, <1>8, <1>9, <1>10 DEF h, n

(* With the whole head there: it is good, and it says where the bodies     *)
(* end.                                                                    *)
LEMMA BeginsSegments ==
  ASSUME NEW msgs \in Seq(Records), NEW units, NEW k \in Nat, Begins(units, msgs, k),
         Len(units) >= 4 + 2 * Len(msgs), k >= 4 + 2 * Len(msgs)
  PROVE  /\ SegsOf(units, Len(msgs)) = Segments(msgs)
         /\ GoodHead(units, Len(msgs))
         /\ \A i \in 1 .. Len(msgs) : SegType(units, i) = msgs[i].type
         /\ \A i \in 0 .. Len(msgs) :
              BodyEnds(units, Len(msgs))[i] = Len(BodiesUpto(msgs)[i])
         /\ EndOf(units, Len(msgs)) = Len(Encode(msgs))
<1> DEFINE n == Len(msgs)
           u == Encode(msgs)
           h == WholeHead(msgs)
           segs == Segments(msgs)
           body == Bodies(msgs)
           q == SegsOf(units, n)
<1>1. /\ Len(u) = 4 + 2 * n + Len(body) /\ n \in Nat
      /\ \A j \in 1 .. 2 * n : u[4 + j] = segs[j]
  BY EncodeIs
<1>2. Len(body) \in Nat /\ body \in Seq(Num)
  BY BodiesIs
<1>3. /\ segs \in Seq(Num) /\ Len(segs) = 2 * n
      /\ \A i \in 1 .. n : segs[2 * i - 1] = Net(msgs[i].type) /\ segs[2 * i] = Net(Size(msgs[i].type))
  BY SegmentsIs
<1>4. units \in Seq(Units) /\ Len(units) \in Nat /\ Len(units) >= 4 + 2 * n /\ Len(units) >= 4
      /\ k >= 4 + 2 * n /\ k >= 4
  <2>1. units \in Seq(Units) /\ Len(units) \in Nat
    BY LenProperties DEF Begins
  <2> QED
    BY <1>1, <2>1
<1>5. /\ HeadOf(units) = h
      /\ Swap(units[1]) = Checksum(h \o segs)
  BY <1>4, BeginsHead
<1>6. h \in Seq(HeadWords) /\ Num \subseteq HeadWords
  BY WholeHeadIs DEF HeadWords
<1>7. n = 0 => body = <<>> /\ segs = <<>>
  <2>1. n = 0 => Len(segs) = 0
    BY <1>3
  <2> QED
    BY <1>3, <2>1, BodiesIs, EmptySeq
<1> HIDE DEF u, n, h, segs, body
<1>8. \A j \in 1 .. 2 * n : units[4 + j] = segs[j]
  <2> TAKE j \in 1 .. 2 * n
  <2>1. 4 + j \in 1 .. Len(units) /\ 4 + j <= k
    BY <1>1, <1>4
  <2>2. units[4 + j] = u[4 + j]
    BY <2>1 DEF Begins, u
  <2> QED
    BY <1>1, <2>2
<1>9. q = segs
  <2> DEFINE lo == 5
             hi == 4 + 2 * n
  <2>1. q = SubSeq(units, lo, hi)
    BY DEF SegsOf, HeadUnits
  <2>2. lo \in Int /\ hi \in Int /\ hi - lo + 1 = 2 * n
    BY <1>1
  <2>3. \A i \in lo .. hi : units[i] \in Units
    BY <1>1, <1>4, ElementOfSeq
  <2> HIDE DEF q
  <2>4. /\ q \in Seq(Units) /\ Len(q) = (IF lo <= hi THEN hi - lo + 1 ELSE 0)
        /\ \A i \in 1 .. hi - lo + 1 : q[i] = units[lo + i - 1]
    <3> HIDE DEF lo, hi
    <3> QED
      BY <2>1, <2>2, <2>3, SubSeqProperties
  <2>5. Len(q) = 2 * n
    <3>1. ~ (lo <= hi) => 2 * n = 0
      BY <1>1
    <3> HIDE DEF lo, hi
    <3> QED
      BY <2>2, <2>4, <3>1
  <2>6. \A i \in 1 .. 2 * n : q[i] = segs[i]
    <3> TAKE i \in 1 .. 2 * n
    <3>1. lo + i - 1 = 4 + i
      BY <1>1
    <3> HIDE DEF lo, hi
    <3>2. q[i] = units[4 + i]
      BY <2>2, <2>4, <3>1
    <3> QED
      BY <1>8, <3>2
  <2>7. segs \in Seq(Units)
    BY <1>3, SeqMonotonic DEF Units, HeadWords
  <2> QED
    BY <1>3, <2>4, <2>5, <2>6, <2>7, SeqEqual
<1>10. \A i \in 1 .. n : /\ SegType(units, i) = msgs[i].type
                         /\ SegLength(units, i) = Size(msgs[i].type)
                         /\ Size(msgs[i].type) \in Nat
  <2> TAKE i \in 1 .. n
  <2>1. 2 * i - 1 \in 1 .. 2 * n /\ 2 * i \in 1 .. 2 * n
    BY <1>1
  <2>2. msgs[i].type \in Int /\ Size(msgs[i].type) \in Nat
    BY RecordIs, Sizes DEF n
  <2>3. units[4 + (2 * i - 1)] = Net(msgs[i].type) /\ units[4 + 2 * i] = Net(Size(msgs[i].type))
    BY <1>3, <1>8, <2>1
  <2>4. SegType(units, i) = Number(units[4 + (2 * i - 1)]) /\ SegLength(units, i) = Number(units[4 + 2 * i])
    BY DEF SegType, SegLength, HeadWord, HeadUnits
  <2> QED
    BY <2>2, <2>3, <2>4, NetNumber
<1>11. GoodHead(units, n)
  <2>1. HeadSum(HeadOf(units), q) = Checksum(h \o segs)
    <3>1. segs \in Seq(HeadWords)
      BY <1>3, <1>6, SeqMonotonic
    <3> HIDE DEF q
    <3>2. HeadSum(h, segs) = Checksum(h \o segs)
      BY <1>6, <3>1, SumOf DEF HeadSum
    <3> QED
      BY <1>5, <1>9, <3>2
  <2> QED
    BY <1>5, <1>10, <2>1 DEF GoodHead
<1>12. \A i \in 0 .. n : BodyEnds(units, n)[i] = Len(BodiesUpto(msgs)[i])
  BY <1>10, BodyEndsIs DEF n
<1>13. EndOf(units, n) = Len(u)
  <2>1. n \in 0 .. n
    BY <1>1
  <2>2. BodyEnds(units, n)[n] = Len(body)
    BY <1>12, <2>1 DEF Bodies, n, body
  <2> QED
    BY <1>1, <2>2 DEF EndOf, HeadUnits
<1> QED
  BY <1>9, <1>10, <1>11, <1>12, <1>13 DEF n, segs, u

(* With the bodies there as well: they are those of msgs.                  *)
LEMMA BeginsBodies ==
  ASSUME NEW msgs \in Seq(Records), NEW units, Begins(units, msgs, Len(Encode(msgs))),
         Len(units) >= Len(Encode(msgs))
  PROVE  /\ BodyOf(units, Len(msgs)) = Bodies(msgs)
         /\ Crc(BodyOf(units, Len(msgs)), Checksum(<<>>)) = Swap(units[2])
         /\ MessagesOf(units, Len(msgs)) = msgs
<1> DEFINE n == Len(msgs)
           u == Encode(msgs)
           body == Bodies(msgs)
           q == BodyOf(units, n)
           b == BodiesUpto(msgs)
<1>1. /\ Len(u) = 4 + 2 * n + Len(body) /\ n \in Nat
      /\ \A j \in 1 .. Len(body) : u[4 + 2 * n + j] = body[j]
  BY EncodeIs
<1>2. Len(body) \in Nat /\ body \in Seq(Num)
  BY BodiesIs
<1>3. units \in Seq(Units) /\ Len(units) \in Nat /\ Len(units) >= 4 + 2 * n /\ Len(units) >= 4
      /\ Len(u) \in Nat /\ Len(u) >= 4 + 2 * n /\ Len(u) >= 4
  <2>1. units \in Seq(Units) /\ Len(units) \in Nat
    BY LenProperties DEF Begins
  <2> QED
    BY <1>1, <1>2, <2>1
<1>4. /\ Swap(units[2]) = Checksum(body)
  BY <1>3, BeginsHead
<1>5. /\ \A i \in 1 .. n : SegType(units, i) = msgs[i].type
      /\ \A i \in 0 .. n : BodyEnds(units, n)[i] = Len(b[i])
      /\ EndOf(units, n) = Len(u)
  BY <1>3, BeginsSegments
<1> HIDE DEF u, n, body, b
<1>6. \A j \in 1 .. Len(body) : units[4 + 2 * n + j] = body[j]
  <2> TAKE j \in 1 .. Len(body)
  <2>1. 4 + 2 * n + j \in 1 .. Len(units) /\ 4 + 2 * n + j <= Len(u)
    BY <1>1, <1>2, <1>3 DEF u
  <2>2. units[4 + 2 * n + j] = u[4 + 2 * n + j]
    BY <2>1 DEF Begins, u
  <2> QED
    BY <1>1, <2>2
<1>7. q = body
  <2> DEFINE lo == 4 + 2 * n + 1
             hi == Len(u)
  <2>1. q = SubSeq(units, lo, hi)
    BY <1>5 DEF BodyOf, HeadUnits
  <2>2. lo \in Int /\ hi \in Int /\ hi - lo + 1 = Len(body)
    BY <1>1, <1>2
  <2>3. \A i \in lo .. hi : units[i] \in Units
    <3>1. \A i \in lo .. hi : i \in 1 .. Len(units)
      BY <1>1, <1>2, <1>3 DEF u
    <3> QED
      BY <1>3, <3>1, ElementOfSeq
  <2> HIDE DEF q
  <2>4. /\ q \in Seq(Units) /\ Len(q) = (IF lo <= hi THEN hi - lo + 1 ELSE 0)
        /\ \A i \in 1 .. hi - lo + 1 : q[i] = units[lo + i - 1]
    <3> HIDE DEF lo, hi
    <3> QED
      BY <2>1, <2>2, <2>3, SubSeqProperties
  <2>5. Len(q) = Len(body)
    <3>1. ~ (lo <= hi) => Len(body) = 0
      BY <1>1, <1>2
    <3> HIDE DEF lo, hi
    <3> QED
      BY <2>2, <2>4, <3>1
  <2>6. \A i \in 1 .. Len(body) : q[i] = body[i]
    <3> TAKE i \in 1 .. Len(body)
    <3>1. lo + i - 1 = 4 + 2 * n + i
      BY <1>1
    <3> HIDE DEF lo, hi
    <3>2. q[i] = units[4 + 2 * n + i]
      BY <2>2, <2>4, <3>1
    <3> QED
      BY <1>6, <3>2
  <2>7. body \in Seq(Units)
    BY <1>2, SeqMonotonic DEF Units, HeadWords
  <2> QED
    BY <2>4, <2>5, <2>6, <2>7, SeqEqual
<1>8. Crc(q, Checksum(<<>>)) = Swap(units[2])
  BY <1>2, <1>4, <1>7, SumOf
<1>9. ASSUME NEW i \in 1 .. n
      PROVE  Message(SegType(units, i), Restored(SegType(units, i), FieldsOf(units, n, i))) = msgs[i]
  <2> DEFINE m == msgs[i]
             c == Converted(m.type, m.fields)
             s == FieldsOf(units, n, i)
             lo == Len(b[i - 1]) + 1
             hi == Len(b[i])
  <2>1. m = Message(m.type, m.fields) /\ m.fields \in Seq(Num) /\ Len(m.fields) = Size(m.type)
        /\ m.type \in Types
    BY RecordIs DEF n
  <2>2. c \in Seq(Num) /\ Len(c) = Size(m.type) /\ Restored(m.type, c) = m.fields
    BY <2>1, ConvertedIs
  <2>3. Size(m.type) \in Nat
    BY <2>1, Sizes
  <2>4. /\ Len(b[i - 1]) \in Nat /\ Len(b[i]) <= Len(body)
        /\ Len(b[i]) = Len(b[i - 1]) + Size(m.type)
        /\ \A j \in 1 .. Size(m.type) : body[Len(b[i - 1]) + j] = c[j]
    <3>1. /\ \A k \in 0 .. n : Len(b[k]) \in Nat /\ Len(b[k]) <= Len(body)
          /\ Len(b[i]) = Len(b[i - 1]) + Size(m.type)
          /\ \A j \in 1 .. Size(m.type) : body[Len(b[i - 1]) + j] = c[j]
      BY BodiesParts DEF n, b, body
    <3>2. i - 1 \in 0 .. n /\ i \in 0 .. n
      BY <1>1
    <3> HIDE DEF m, c
    <3> QED
      BY <3>1, <3>2
  <2>5. s = SubSeq(body, lo, hi)
    <3>1. i - 1 \in 0 .. n /\ i \in 0 .. n
      BY <1>1
    <3>2. BodyEnds(units, n)[i - 1] = Len(b[i - 1]) /\ BodyEnds(units, n)[i] = Len(b[i])
      BY <1>5, <3>1
    <3> HIDE DEF q
    <3> QED
      BY <1>7, <3>2 DEF FieldsOf, q
  <2> HIDE DEF m, c, s
  <2>6. lo \in Int /\ hi \in Int /\ hi - lo + 1 = Size(m.type)
    BY <2>3, <2>4
  <2>7. \A k \in lo .. hi : body[k] \in Num
    <3>1. \A k \in lo .. hi : k \in 1 .. Len(body)
      BY <1>2, <2>3, <2>4
    <3> QED
      BY <1>2, <3>1, ElementOfSeq
  <2>8. /\ s \in Seq(Num) /\ Len(s) = (IF lo <= hi THEN hi - lo + 1 ELSE 0)
        /\ \A k \in 1 .. hi - lo + 1 : s[k] = body[lo + k - 1]
    <3> HIDE DEF lo, hi
    <3> QED
      BY <2>5, <2>6, <2>7, SubSeqProperties
  <2>9. Len(s) = Len(c)
    <3>1. ~ (lo <= hi) => Size(m.type) = 0
      BY <2>3, <2>4
    <3> HIDE DEF lo, hi
    <3> QED
      BY <2>2, <2>6, <2>8, <3>1
  <2>10. \A k \in 1 .. Len(c) : s[k] = c[k]
    <3> TAKE k \in 1 .. Len(c)
    <3>1. lo + k - 1 = Len(b[i - 1]) + k /\ k \in 1 .. Size(m.type)
      BY <2>2, <2>3, <2>4
    <3> HIDE DEF lo, hi
    <3>2. s[k] = body[Len(b[i - 1]) + k]
      BY <2>6, <2>8, <3>1
    <3> QED
      BY <2>4, <3>1, <3>2
  <2>11. s = c
    BY <2>2, <2>8, <2>9, <2>10, SeqEqual
  <2>12. SegType(units, i) = m.type
    BY <1>5 DEF m
  <2> QED
    BY <2>1, <2>2, <2>11, <2>12 DEF s, m
<1>10. MessagesOf(units, n) = msgs
  <2>1. MessagesOf(units, n) = [i \in 1 .. n |-> msgs[i]]
    BY <1>9 DEF MessagesOf
  <2>2. msgs = [i \in 1 .. n |-> msgs[i]]
    BY DEF n
  <2> QED
    BY <2>1, <2>2
<1> QED
  BY <1>7, <1>8, <1>10 DEF n, body

(* A batch that is there is read as what it was made of, and skipped.      *)
LEMMA WholeIsRead ==
  ASSUME NEW msgs \in Seq(Records), NEW units, Begins(units, msgs, Len(Encode(msgs))),
         Len(units) >= Len(Encode(msgs))
  PROVE  /\ Read(units) = [rc |-> "data", msgs |-> msgs, used |-> Len(Encode(msgs))]
         /\ Skip(units) = [Failed("data") EXCEPT !.used = Len(Encode(msgs))]
<1> DEFINE n == Len(msgs)
           u == Encode(msgs)
<1>1. Len(u) = 4 + 2 * n + Len(Bodies(msgs)) /\ n \in Nat /\ Len(Bodies(msgs)) \in Nat
  BY EncodeIs, BodiesIs
<1>2. Len(units) \in Nat /\ Len(units) >= 4 + 2 * n /\ Len(units) >= 4
      /\ Len(u) \in Nat /\ Len(u) >= 4 + 2 * n /\ Len(u) >= 4
  <2>1. Len(units) \in Nat
    BY LenProperties DEF Begins
  <2> QED
    BY <1>1, <2>1
<1>3. /\ Number(units[3]) = n /\ HeadOf(units) = WholeHead(msgs)
      /\ Swap(units[1]) = Checksum(WholeHead(msgs) \o Segments(msgs))
      /\ n = 0 => IsZero(units[2])
  BY <1>2, BeginsHead
<1>4. /\ GoodHead(units, n) /\ EndOf(units, n) = Len(u) /\ SegsOf(units, n) = Segments(msgs)
  BY <1>2, BeginsSegments
<1>5. Crc(BodyOf(units, n), Checksum(<<>>)) = Swap(units[2]) /\ MessagesOf(units, n) = msgs
  BY BeginsBodies
<1>6. n = 0 => /\ msgs = <<>> /\ Len(u) = HeadUnits
               /\ HeadSum(HeadOf(units), <<>>) = Swap(units[1])
  <2> SUFFICES ASSUME n = 0
               PROVE  /\ msgs = <<>> /\ Len(u) = HeadUnits
                      /\ HeadSum(HeadOf(units), <<>>) = Swap(units[1])
    OBVIOUS
  <2>1. msgs = <<>> /\ Len(Bodies(msgs)) = 0
    BY BodiesIs, EmptySeq
  <2>2. Segments(msgs) = <<>>
    <3>1. Segments(msgs) \in Seq(Num) /\ Len(Segments(msgs)) = 2 * n
      BY SegmentsIs
    <3>2. Len(Segments(msgs)) = 0
      BY <3>1
    <3> QED
      BY <3>1, <3>2, EmptySeq
  <2>3. HeadSum(HeadOf(units), SegsOf(units, n)) = Swap(units[1])
    BY <1>4 DEF GoodHead
  <2> QED
    BY <1>1, <1>4, <2>1, <2>2, <2>3 DEF HeadUnits
<1>7. ~ (Len(units) < EndOf(units, n)) /\ ~ (Len(units) < HeadUnits + 2 * n)
  BY <1>1, <1>2, <1>4 DEF HeadUnits
<1> HIDE DEF n, u
<1>8. Read(units) = [rc |-> "data", msgs |-> msgs, used |-> Len(u)]
  BY <1>2, <1>3, <1>4, <1>5, <1>6, <1>7, ReadLong
<1>9. Skip(units) = [Failed("data") EXCEPT !.used = Len(u)]
  BY <1>2, <1>3, <1>4, <1>6, <1>7, SkipLong
<1> QED
  BY <1>8, <1>9 DEF u

(* Of one that is not all there yet nothing is taken. *)
LEMMA PartIsNotRead ==
  ASSUME NEW msgs \in Seq(Records), NEW units, Begins(units, msgs, Len(Encode(msgs))),
         Len(units) < Len(Encode(msgs))
  PROVE  /\ Read(units) = Failed(IF Len(units) = 0 THEN "end" ELSE "EAGAIN")
         /\ Skip(units) = Read(units)
<1> DEFINE n == Len(msgs)
           u == Encode(msgs)
<1>1. Len(u) = 4 + 2 * n + Len(Bodies(msgs)) /\ n \in Nat /\ Len(Bodies(msgs)) \in Nat
  BY EncodeIs, BodiesIs
<1>2. Len(units) \in Nat
  BY LenProperties DEF Begins
<1>3. CASE Len(units) < 4
  <2>1. Len(units) = 0 \/ (Len(units) > 0 /\ Len(units) # 0)
    BY <1>2
  <2> QED
    BY <1>2, <1>3, <2>1, ReadShort
<1>4. CASE Len(units) >= 4
  <2>1. Number(units[3]) = n
    BY <1>4, BeginsHead
  <2>2. n # 0
    <3>1. n = 0 => Len(Bodies(msgs)) = 0
      BY BodiesIs, EmptySeq
    <3> QED
      BY <1>1, <1>2, <1>4, <3>1
  <2>3. Len(units) # 0
    BY <1>4
  <2>4. CASE Len(units) < HeadUnits + 2 * n
    <3>1. Read(units) = Failed("EAGAIN")
      BY <1>2, <1>4, <2>1, <2>2, <2>4, ReadLong
    <3>2. Skip(units) = Failed("EAGAIN")
      BY <1>2, <1>4, <2>1, <2>2, <2>4, SkipLong
    <3> QED
      BY <2>3, <3>1, <3>2
  <2>5. CASE ~ (Len(units) < HeadUnits + 2 * n)
    <3>1. Len(units) >= 4 + 2 * n
      BY <1>1, <1>2, <2>5 DEF HeadUnits
    <3>2. GoodHead(units, n) /\ EndOf(units, n) = Len(u)
      BY <3>1, BeginsSegments
    <3>3. Len(units) < EndOf(units, n)
      BY <3>2
    <3>4. Read(units) = Failed("EAGAIN")
      BY <1>2, <1>4, <2>1, <2>2, <2>5, <3>2, <3>3, ReadLong
    <3>5. Skip(units) = Failed("EAGAIN")
      BY <1>2, <1>4, <2>1, <2>2, <2>5, <3>3, SkipLong
    <3> QED
      BY <2>3, <3>4, <3>5
  <2> QED
    BY <2>4, <2>5
<1> QED
  BY <1>2, <1>3, <1>4

(* What a word of a file may have become: another of its kind.             *)
Changes(u, v) ==
  /\ v # u
  /\ \/ u \in Num /\ v \in Num
     \/ u \in Sums(HeadWords) /\ v \in Sums(HeadWords)

(* Equal where it matters. *)
LEMMA SubSeqSame ==
  ASSUME NEW S, NEW s, NEW t, NEW m \in Int, NEW n \in Int,
         \A i \in m .. n : s[i] \in S /\ s[i] = t[i]
  PROVE  SubSeq(s, m, n) = SubSeq(t, m, n) /\ SubSeq(s, m, n) \in Seq(S)
<1> DEFINE a == SubSeq(s, m, n)
           b == SubSeq(t, m, n)
<1>1. \A i \in m .. n : t[i] \in S
  OBVIOUS
<1>2. /\ a \in Seq(S) /\ Len(a) = IF m <= n THEN n - m + 1 ELSE 0
      /\ \A i \in 1 .. n - m + 1 : a[i] = s[m + i - 1]
  BY SubSeqProperties
<1>3. /\ b \in Seq(S) /\ Len(b) = IF m <= n THEN n - m + 1 ELSE 0
      /\ \A i \in 1 .. n - m + 1 : b[i] = t[m + i - 1]
  BY <1>1, SubSeqProperties
<1> HIDE DEF a, b
<1>4. Len(a) = Len(b)
  BY <1>2, <1>3
<1>5. \A i \in 1 .. Len(a) : a[i] = b[i]
  <2> TAKE i \in 1 .. Len(a)
  <2>1. i \in 1 .. n - m + 1 /\ m + i - 1 \in m .. n
    BY <1>2
  <2> QED
    BY <1>2, <1>3, <2>1
<1>6. a = b
  BY <1>2, <1>3, <1>4, <1>5, SeqEqual
<1> QED
  BY <1>2, <1>6 DEF a, b

(* The checksum over the head and what follows it tells of a change in     *)
(* either.                                                                 *)
LEMMA HeadSumTells ==
  ASSUME NEW h \in Seq(Units), NEW g \in Seq(Units), Len(h) = 4, Len(g) = 4,
         NEW s \in Seq(Units), NEW t \in Seq(Units),
         HeadSum(h, s) = Checksum(g \o t)
  PROVE  /\ \A i \in 1 .. 4 : h[i] = g[i]
         /\ Len(s) = Len(t) /\ \A i \in 1 .. Len(s) : s[i] = t[i]
<1>1. h \o s = g \o t
  <2>1. HeadSum(h, s) = Checksum(h \o s)
    BY SumOf DEF HeadSum
  <2>2. h \o s \in Seq(Units) /\ g \o t \in Seq(Units)
    BY ConcatProperties
  <2>3. Checksum(h \o s).sum = h \o s /\ Checksum(g \o t).sum = g \o t
    BY <2>2, SumOf
  <2> QED
    BY <2>1, <2>3
<1>2. /\ Len(h \o s) = Len(h) + Len(s)
      /\ \A i \in 1 .. Len(h) + Len(s) : (h \o s)[i] = IF i <= Len(h) THEN h[i] ELSE s[i - Len(h)]
  BY ConcatProperties
<1>3. /\ Len(g \o t) = Len(g) + Len(t)
      /\ \A i \in 1 .. Len(g) + Len(t) : (g \o t)[i] = IF i <= Len(g) THEN g[i] ELSE t[i - Len(g)]
  BY ConcatProperties
<1>4. Len(s) \in Nat /\ Len(t) \in Nat
  BY LenProperties
<1> DEFINE x == h \o s
           y == g \o t
<1>5. /\ Len(x) = 4 + Len(s) /\ Len(y) = 4 + Len(t) /\ x = y
      /\ \A i \in 1 .. 4 + Len(s) : x[i] = IF i <= 4 THEN h[i] ELSE s[i - 4]
      /\ \A i \in 1 .. 4 + Len(t) : y[i] = IF i <= 4 THEN g[i] ELSE t[i - 4]
  BY <1>1, <1>2, <1>3
<1> HIDE DEF x, y
<1>6. Len(s) = Len(t)
  BY <1>4, <1>5
<1>7. \A i \in 1 .. 4 : h[i] = g[i]
  BY <1>4, <1>5
<1>8. \A i \in 1 .. Len(s) : s[i] = t[i]
  <2> TAKE i \in 1 .. Len(s)
  <2>1. /\ 4 + i \in 1 .. 4 + Len(s) /\ 4 + i \in 1 .. 4 + Len(t) /\ ~ (4 + i <= 4)
        /\ (4 + i) - 4 = i
    BY <1>4, <1>6
  <2> QED
    BY <1>5, <2>1
<1> QED
  BY <1>6, <1>7, <1>8

(* A word of a batch that has changed is noticed: only a larger number of  *)
(* messages makes the reader wait.                                         *)
LEMMA ChangeIsSeen ==
  ASSUME NEW msgs \in Seq(Records), NEW at \in 1 .. Len(Encode(msgs)), NEW unit,
         Changes(Encode(msgs)[at], unit)
  PROVE  LET units == [Encode(msgs) EXCEPT ![at] = unit] IN
         \/ Read(units).rc = "EPROTO"
         \/ /\ at = 3 /\ Number(unit) > Len(msgs)
            /\ Read(units).rc = "EAGAIN"
<1> DEFINE n == Len(msgs)
           u == Encode(msgs)
           body == Bodies(msgs)
           segs == Segments(msgs)
           h == WholeHead(msgs)
           units == [u EXCEPT ![at] = unit]
           nr == Number(units[3])
<1>1. /\ u \in Seq(Units) /\ Len(u) = 4 + 2 * n + Len(body) /\ n \in Nat
      /\ u[1] = Swap(Checksum(h \o segs))
      /\ u[2] = Swap(Checksum(body)) /\ u[3] = Net(n) /\ u[4] = Pad
      /\ \A j \in 1 .. 2 * n : u[4 + j] = segs[j]
      /\ \A j \in 1 .. Len(body) : u[4 + 2 * n + j] = body[j]
  BY EncodeIs
<1>2. /\ body \in Seq(Num) /\ Len(body) \in Nat
      /\ segs \in Seq(Num) /\ Len(segs) = 2 * n
  BY BodiesIs, SegmentsIs
<1>3. /\ h \in Seq(HeadWords) /\ Len(h) = 4
      /\ h[2] = u[2] /\ h[3] = u[3] /\ h[4] = u[4]
  BY <1>1, WholeHeadIs
<1>4. Num \subseteq HeadWords /\ HeadWords \subseteq Units /\ Sums(HeadWords) \subseteq Units
  BY DEF HeadWords, Units
<1>5. /\ h \in Seq(Units) /\ segs \in Seq(Units) /\ body \in Seq(Units)
      /\ segs \in Seq(HeadWords) /\ h \o segs \in Seq(HeadWords)
  <2>1. /\ h \in Seq(Units) /\ segs \in Seq(HeadWords)
    BY <1>2, <1>3, <1>4, SeqMonotonic
  <2>2. segs \in Seq(Units) /\ body \in Seq(Units)
    BY <1>2, <1>4, SeqMonotonic
  <2> QED
    BY <1>3, <2>1, <2>2, ConcatProperties
<1>6. Len(u) \in Nat /\ Len(u) >= 4 + 2 * n /\ Len(u) >= 4
  BY <1>1, <1>2
<1>7. unit \in Units /\ unit # u[at] /\ at \in 1 .. Len(u)
  BY <1>4 DEF Changes
<1>8. /\ units \in Seq(Units) /\ Len(units) = Len(u)
      /\ \A j \in 1 .. Len(u) : units[j] = IF j = at THEN unit ELSE u[j]
  BY <1>1, <1>7, ExceptSeq
<1>9. Swap(u[1]) = Checksum(h \o segs) /\ Swap(u[2]) = Checksum(body)
  <2>1. Checksum(h \o segs) \in Sums(HeadWords) /\ Checksum(body) \in Sums(Num)
    BY <1>2, <1>5, SumOf
  <2> QED
    BY <1>1, <2>1, SwapSum
<1> HIDE DEF u, body, segs, h, n, units
<1>10. /\ HeadOf(units) \in Seq(Units) /\ Len(HeadOf(units)) = 4
       /\ \A j \in 2 .. 4 : HeadOf(units)[j] = units[j]
  BY <1>6, <1>8, HeadOfIs
<1>11. \/ <<>> \in Seq(Units) /\ SegsOf(units, nr) \in Seq(Units)
       \/ Len(units) < 4 + 2 * nr
       \/ nr \notin Int
  <2> SUFFICES ASSUME nr \in Int, ~ (Len(units) < 4 + 2 * nr)
               PROVE  <<>> \in Seq(Units) /\ SegsOf(units, nr) \in Seq(Units)
    OBVIOUS
  <2>1. \A i \in 5 .. 4 + 2 * nr : units[i] \in Units
    <3>1. \A i \in 5 .. 4 + 2 * nr : i \in 1 .. Len(units)
      BY <1>6, <1>8
    <3> QED
      BY <1>8, <3>1, ElementOfSeq
  <2>2. 4 + 2 * nr \in Int /\ 5 \in Int /\ 4 + 1 = 5
    OBVIOUS
  <2> DEFINE hi == 4 + 2 * nr
  <2>3. SegsOf(units, nr) = SubSeq(units, 5, hi)
    BY <2>2 DEF SegsOf, HeadUnits
  <2> HIDE DEF hi
  <2>4. SubSeq(units, 5, hi) \in Seq(Units)
    BY <2>1, <2>2, SubSeqSame DEF hi
  <2> QED
    BY <2>3, <2>4, EmptySeq
<1>12. Read(units) =
           IF nr = 0
           THEN IF ~ IsZero(units[2]) \/ HeadSum(HeadOf(units), <<>>) # Swap(units[1])
                THEN Failed("EPROTO")
                ELSE [rc |-> "data", msgs |-> <<>>, used |-> HeadUnits]
           ELSE IF Len(units) < HeadUnits + 2 * nr THEN Failed("EAGAIN")
           ELSE IF ~ GoodHead(units, nr) THEN Failed("EPROTO")
           ELSE IF Len(units) < EndOf(units, nr) THEN Failed("EAGAIN")
           ELSE IF Crc(BodyOf(units, nr), Checksum(<<>>)) # Swap(units[2]) THEN Failed("EPROTO")
           ELSE [rc |-> "data", used |-> EndOf(units, nr), msgs |-> MessagesOf(units, nr)]
  BY <1>6, <1>8, ReadLong
<1>13. Failed("EPROTO").rc = "EPROTO" /\ Failed("EAGAIN").rc = "EAGAIN"
  BY DEF Failed
<1>14. Number(u[3]) = n
  BY <1>1, NetNumber
<1> HIDE DEF nr
<1>15. CASE at = 1
  <2>1. units[1] = unit /\ nr = n
    <3>1. units[1] = unit /\ units[3] = u[3]
      BY <1>6, <1>8, <1>15
    <3> QED
      BY <1>14, <3>1 DEF nr
  <2>2. HeadOf(units) = h
    <3>1. \A j \in 2 .. 4 : HeadOf(units)[j] = h[j]
      <4> TAKE j \in 2 .. 4
      <4>1. j \in 1 .. Len(u) /\ j # 1 /\ (j = 2 \/ j = 3 \/ j = 4)
        BY <1>6
      <4>2. units[j] = u[j] /\ HeadOf(units)[j] = units[j]
        BY <1>8, <1>10, <1>15, <4>1
      <4> QED
        BY <1>3, <4>1, <4>2
    <3>2. HeadOf(units)[1] = h[1]
      BY <1>6, <1>8, HeadOfIs, WholeHeadIs DEF h
    <3>3. \A j \in 1 .. Len(h) : HeadOf(units)[j] = h[j]
      <4> TAKE j \in 1 .. Len(h)
      <4>1. j = 1 \/ j \in 2 .. 4
        BY <1>3
      <4> QED
        BY <3>1, <3>2, <4>1
    <3> QED
      BY <1>3, <1>5, <1>10, <3>3, SeqEqual
  <2>3. HeadSum(h, segs) # Swap(units[1])
    <3>1. HeadSum(h, segs) = Swap(u[1])
      BY <1>5, <1>9, SumOf DEF HeadSum
    <3>2. Swap(Swap(unit)) = unit /\ Swap(Swap(u[1])) = u[1]
      BY <1>15, SwapNum, SwapSum DEF Changes, u
    <3> QED
      BY <1>7, <1>15, <2>1, <3>1, <3>2
  <2>4. CASE n = 0
    <3>1. segs = <<>>
      BY <1>2, <2>4, EmptySeq
    <3>2. Read(units) = Failed("EPROTO")
      BY <1>12, <2>1, <2>2, <2>3, <2>4, <3>1
    <3> QED
      BY <1>13, <3>2 DEF u, units
  <2>5. CASE n # 0
    <3>1. SegsOf(units, n) = segs
      <4>1. SegsOf(u, n) = segs
        <5>1. Begins(u, msgs, 4 + 2 * n) /\ 4 + 2 * n \in Nat
          BY <1>1 DEF Begins, u
        <5> QED
          BY <1>6, <5>1, BeginsSegments DEF n, segs
      <4>2. \A i \in 5 .. 4 + 2 * n : units[i] \in Units /\ units[i] = u[i]
        <5> TAKE i \in 5 .. 4 + 2 * n
        <5>1. i \in 1 .. Len(u) /\ i # 1
          BY <1>1, <1>6
        <5> QED
          BY <1>1, <1>8, <1>15, <5>1, ElementOfSeq
      <4> DEFINE hi == 4 + 2 * n
      <4>3. /\ hi \in Int /\ 5 \in Int
            /\ SegsOf(units, n) = SubSeq(units, 5, hi) /\ SegsOf(u, n) = SubSeq(u, 5, hi)
        BY <1>1 DEF SegsOf, HeadUnits
      <4>4. \A i \in 5 .. hi : units[i] \in Units /\ units[i] = u[i]
        BY <4>2
      <4> HIDE DEF hi
      <4>5. SubSeq(units, 5, hi) = SubSeq(u, 5, hi)
        BY ONLY <4>3, <4>4, SubSeqSame
      <4> QED
        BY <4>1, <4>3, <4>5
    <3>2. ~ GoodHead(units, n)
      BY <2>2, <2>3, <3>1 DEF GoodHead
    <3>3. ~ (Len(units) < HeadUnits + 2 * n)
      BY <1>1, <1>6, <1>8 DEF HeadUnits
    <3>4. Read(units) = Failed("EPROTO")
      BY <1>12, <2>1, <2>5, <3>2, <3>3
    <3> QED
      BY <1>13, <3>4 DEF u, units
  <2> QED
    BY <2>4, <2>5
<1>16. CASE at \in 2 .. 4
  <2>1. units[1] = u[1] /\ units[at] = unit
    BY <1>6, <1>8, <1>16
  <2>2. HeadOf(units)[at] # h[at]
    <3>1. at = 2 \/ at = 3 \/ at = 4
      BY <1>16
    <3> QED
      BY <1>3, <1>7, <1>10, <1>16, <2>1, <3>1
  <2>3. \A s \in Seq(Units) : HeadSum(HeadOf(units), s) # Swap(units[1])
    <3>1. ASSUME NEW s \in Seq(Units), HeadSum(HeadOf(units), s) = Swap(units[1])
          PROVE  FALSE
      <4>1. HeadSum(HeadOf(units), s) = Checksum(h \o segs)
        BY <1>9, <2>1, <3>1
      <4>2. \A i \in 1 .. 4 : HeadOf(units)[i] = h[i]
        BY <1>3, <1>5, <1>10, <4>1, HeadSumTells
      <4> QED
        BY <1>16, <2>2, <4>2
    <3> QED
      BY <3>1
  <2>4. nr \in Int /\ (at # 3 => nr = n) /\ (at = 3 => nr = Number(unit))
    <3>1. units[3] = IF at = 3 THEN unit ELSE u[3]
      BY <1>6, <1>8
    <3>2. at = 3 => unit \in Num
      <4>1. u[3] \in Num
        BY <1>1, NetNumber
      <4>2. ASSUME u[3] \in Sums(HeadWords)
            PROVE  FALSE
        BY <4>1, <4>2, NumIs, SumIs, Kinds
      <4> QED
        BY <4>2 DEF Changes, u
    <3>3. unit \in Num => Number(unit) \in Int
      <4>1. ASSUME unit \in Num
            PROVE  Number(unit) \in Int
        <5> DEFINE w == Swap(unit)
        <5>1. w \in Num
          BY <4>1, SwapNum
        <5> HIDE DEF w
        <5>2. w.net \in BOOLEAN /\ w.num \in Int
          BY <5>1, NumIs
        <5>3. Number(unit) = IF w.net THEN -1 ELSE w.num
          BY DEF Number, w
        <5> QED
          BY <5>2, <5>3
      <4> QED
        BY <4>1
    <3> QED
      BY <1>1, <1>14, <3>1, <3>2, <3>3 DEF nr
  <2>5. CASE nr = 0
    <3>1. HeadSum(HeadOf(units), <<>>) # Swap(units[1])
      BY <2>3, EmptySeq
    <3> QED
      BY <1>12, <1>13, <2>5, <3>1 DEF u, units
  <2>6. CASE nr # 0 /\ Len(units) < HeadUnits + 2 * nr
    <3>1. Read(units).rc = "EAGAIN"
      BY <1>12, <1>13, <2>6
    <3>2. nr > n
      BY <1>1, <1>6, <1>8, <2>4, <2>6 DEF HeadUnits
    <3>3. at = 3 /\ Number(unit) > n
      BY <1>1, <2>4, <3>2
    <3> QED
      BY <3>1, <3>3 DEF u, units, n
  <2>7. CASE nr # 0 /\ ~ (Len(units) < HeadUnits + 2 * nr)
    <3>1. SegsOf(units, nr) \in Seq(Units)
      BY <1>11, <2>4, <2>7 DEF HeadUnits
    <3>2. ~ GoodHead(units, nr)
      BY <2>3, <3>1 DEF GoodHead
    <3>3. Read(units).rc = "EPROTO"
      BY <1>12, <1>13, <2>7, <3>2
    <3> QED
      BY <3>3 DEF u, units
  <2> QED
    BY <2>5, <2>6, <2>7
<1>17. CASE at \in 5 .. 4 + 2 * n
  <2>1. Begins(units, msgs, 4)
    <3> SUFFICES ASSUME NEW j \in 1 .. Len(units), j <= 4
                 PROVE  units[j] = u[j]
      BY <1>8 DEF Begins, u
    <3>1. j # at
      BY <1>1, <1>17
    <3> QED
      BY <1>8, <3>1
  <2>2. /\ HeadOf(units) = h /\ Number(units[3]) = n
        /\ Swap(units[1]) = Checksum(h \o segs)
    BY <1>6, <1>8, <2>1, BeginsHead DEF h, n, segs
  <2>3. nr = n
    BY <2>2 DEF nr
  <2>4. n # 0 /\ at - 4 \in 1 .. 2 * n /\ ~ (Len(units) < HeadUnits + 2 * n)
    BY <1>1, <1>6, <1>8, <1>17 DEF HeadUnits
  <2>5. /\ SegsOf(units, n) \in Seq(Units) /\ Len(SegsOf(units, n)) = 2 * n
        /\ SegsOf(units, n)[at - 4] = unit
    <3>1. \A i \in 5 .. 4 + 2 * n : units[i] \in Units
      <4>1. \A i \in 5 .. 4 + 2 * n : i \in 1 .. Len(units)
        BY <1>1, <1>6, <1>8
      <4> QED
        BY <1>8, <4>1, ElementOfSeq
    <3> DEFINE hi == 4 + 2 * n
               q == SubSeq(units, 5, hi)
    <3>2. /\ hi \in Int /\ 5 \in Int /\ \A i \in 5 .. hi : units[i] \in Units
          /\ SegsOf(units, n) = q
      BY <1>1, <3>1 DEF SegsOf, HeadUnits
    <3> HIDE DEF hi
    <3>3. /\ q \in Seq(Units) /\ Len(q) = IF 5 <= hi THEN hi - 5 + 1 ELSE 0
          /\ \A i \in 1 .. hi - 5 + 1 : q[i] = units[5 + i - 1]
      BY ONLY <3>2, SubSeqProperties
    <3> HIDE DEF q
    <3>4. /\ at - 4 \in 1 .. hi - 5 + 1 /\ 5 + (at - 4) - 1 = at /\ hi - 5 + 1 = 2 * n /\ 5 <= hi
      BY <1>1, <1>17, <2>4 DEF hi
    <3>5. units[at] = unit
      BY <1>7, <1>8
    <3> QED
      BY <3>2, <3>3, <3>4, <3>5
  <2>6. segs[at - 4] # unit
    <3>1. u[4 + (at - 4)] = segs[at - 4] /\ 4 + (at - 4) = at
      BY <1>1, <2>4
    <3> QED
      BY <1>7, <3>1
  <2>7. HeadSum(h, SegsOf(units, n)) # Swap(units[1])
    <3> SUFFICES ASSUME HeadSum(h, SegsOf(units, n)) = Checksum(h \o segs)
                 PROVE  FALSE
      BY <2>2
    <3>1. \A i \in 1 .. Len(SegsOf(units, n)) : SegsOf(units, n)[i] = segs[i]
      <4> DEFINE q == SegsOf(units, n)
      <4>1. /\ q \in Seq(Units) /\ HeadSum(h, q) = Checksum(h \o segs)
            /\ h \in Seq(Units) /\ Len(h) = 4 /\ segs \in Seq(Units)
        BY <1>3, <1>5, <2>5
      <4> HIDE DEF q
      <4>2. \A i \in 1 .. Len(q) : q[i] = segs[i]
        BY <4>1, HeadSumTells
      <4> QED
        BY <4>2 DEF q
    <3> QED
      BY <2>4, <2>5, <2>6, <3>1
  <2>8. Read(units) = Failed("EPROTO")
    BY <1>12, <2>2, <2>3, <2>4, <2>7 DEF GoodHead
  <2> QED
    BY <1>13, <2>8 DEF u, units
<1>18. CASE at \in 4 + 2 * n + 1 .. Len(u)
  <2>1. Begins(units, msgs, 4 + 2 * n) /\ 4 + 2 * n \in Nat /\ 4 + 2 * n >= 4
    <3>1. ASSUME NEW j \in 1 .. Len(units), j <= 4 + 2 * n
          PROVE  units[j] = u[j]
      <4>1. j # at
        <5>1. at > 4 + 2 * n /\ at \in Int
          BY <1>1, <1>6, <1>18
        <5> QED
          BY <1>1, <3>1, <5>1
      <4> QED
        BY <1>8, <4>1
    <3>2. Begins(units, msgs, 4 + 2 * n)
      BY <1>8, <3>1 DEF Begins, u
    <3> QED
      BY <1>1, <3>2
  <2>2. Number(units[3]) = n /\ Swap(units[2]) = Checksum(body)
    BY <1>6, <1>8, <2>1, BeginsHead DEF n, body
  <2>3. nr = n
    BY <2>2 DEF nr
  <2>4. GoodHead(units, n) /\ EndOf(units, n) = Len(u)
    BY <1>6, <1>8, <2>1, BeginsSegments DEF n, u
  <2>5. n # 0
    <3>1. Len(body) # 0
      BY <1>1, <1>2, <1>18
    <3> QED
      BY <3>1, BodiesIs, EmptySeq DEF n, body
  <2>6. /\ ~ (Len(units) < HeadUnits + 2 * n) /\ ~ (Len(units) < EndOf(units, n))
        /\ at - (4 + 2 * n) \in 1 .. Len(body)
    BY <1>1, <1>2, <1>6, <1>8, <1>18, <2>4 DEF HeadUnits
  <2>7. BodyOf(units, n) \in Seq(Units) /\ BodyOf(units, n)[at - (4 + 2 * n)] = unit
    <3> DEFINE lo == 4 + 2 * n + 1
               hi == Len(u)
               q == SubSeq(units, lo, hi)
               k == at - (4 + 2 * n)
    <3>1. \A i \in lo .. hi : units[i] \in Units
      <4>1. \A i \in lo .. hi : i \in 1 .. Len(units)
        BY <1>1, <1>6, <1>8
      <4> QED
        BY <1>8, <4>1, ElementOfSeq
    <3>2. lo \in Int /\ hi \in Int /\ BodyOf(units, n) = q
      BY <1>1, <1>6, <2>4 DEF BodyOf, HeadUnits
    <3>3. k \in 1 .. hi - lo + 1 /\ lo + k - 1 = at
      BY <1>1, <1>6, <1>18
    <3> HIDE DEF lo, hi, k
    <3>4. /\ q \in Seq(Units)
          /\ \A i \in 1 .. hi - lo + 1 : q[i] = units[lo + i - 1]
      BY ONLY <3>1, <3>2, SubSeqProperties
    <3> HIDE DEF q
    <3>5. units[at] = unit
      BY <1>7, <1>8
    <3>6. q \in Seq(Units) /\ q[k] = unit
      BY <3>3, <3>4, <3>5
    <3> QED
      BY <3>2, <3>6 DEF k
  <2>8. BodyOf(units, n) # body
    <3>1. u[4 + 2 * n + (at - (4 + 2 * n))] = body[at - (4 + 2 * n)]
      BY <1>1, <2>6
    <3>2. 4 + 2 * n + (at - (4 + 2 * n)) = at
      BY <1>1, <1>18
    <3> QED
      BY <1>7, <2>7, <3>1, <3>2
  <2>9. Crc(BodyOf(units, n), Checksum(<<>>)) # Swap(units[2])
    <3>1. /\ Crc(BodyOf(units, n), Checksum(<<>>)) = Checksum(BodyOf(units, n))
          /\ Checksum(BodyOf(units, n)).sum = BodyOf(units, n)
          /\ Checksum(body).sum = body
      BY <1>5, <2>7, SumOf
    <3> QED
      BY <2>2, <2>8, <3>1
  <2>10. Read(units) = Failed("EPROTO")
    BY <1>12, <2>3, <2>4, <2>5, <2>6, <2>9
  <2> QED
    BY <1>13, <2>10 DEF u, units
<1> QED
  BY <1>1, <1>6, <1>7, <1>15, <1>16, <1>17, <1>18

-----------------------------------------------------------------------------
(* What the runs give the readers.                                         *)
LEMMA BatchesAre ==
  ASSUME NEW b \in Batches
  PROVE  b \in Seq(Records)
<1>1. PICK n \in 0 .. MaxBatch :
        b \in {[i \in 1 .. n |-> Message(types[i], Fields(types[i], i))] : types \in [1 .. n -> Types]}
  BY DEF Batches
<1>2. PICK types \in [1 .. n -> Types] :
        b = [i \in 1 .. n |-> Message(types[i], Fields(types[i], i))]
  BY <1>1
<1>3. n \in Nat
  BY MCUtilAssumption DEF MCUtilAssumption
<1>4. ASSUME NEW i \in 1 .. n
      PROVE  Message(types[i], Fields(types[i], i)) \in Records
  <2>1. types[i] \in Types /\ Size(types[i]) \in Nat
    BY <1>2, Sizes
  <2> DEFINE s == Size(types[i])
             F(j) == Host(10 * i + j - 11)
             f == [j \in 1 .. s |-> F(j)]
  <2>2. \A j \in 1 .. s : F(j) \in Num
    BY <2>1, NetNumber
  <2>3. s \in Nat /\ Fields(types[i], i) = f
    BY <2>1 DEF Fields
  <2> HIDE DEF s, F
  <2>4. f \in Seq(Num) /\ Len(f) = s
    BY <2>2, <2>3
  <2> QED
    BY <2>1, <2>3, <2>4 DEF Records, Message, s
<1> DEFINE M(i) == Message(types[i], Fields(types[i], i))
<1>5. \A i \in 1 .. n : M(i) \in Records
  BY <1>4
<1> HIDE DEF M
<1>6. [i \in 1 .. n |-> M(i)] \in Seq(Records)
  BY <1>3, <1>5
<1> QED
  BY <1>2, <1>6 DEF M

(* Every word of a batch is a number or a checksum, and changes as such.   *)
LEMMA OthersChange ==
  ASSUME NEW msgs \in Seq(Records), NEW i \in 1 .. Len(Encode(msgs)),
         NEW v \in OthersThan(Encode(msgs)[i])
  PROVE  Changes(Encode(msgs)[i], v)
<1> DEFINE u == Encode(msgs)[i]
<1>1. u \in Units
  <2>1. Encode(msgs) \in Seq(Units)
    BY EncodeIs
  <2> QED
    BY <2>1, ElementOfSeq
<1>2. u \in Num \/ u \in Sums(HeadWords)
  <2>1. Sums(Num) \subseteq Sums(HeadWords)
    <3>1. Seq(Num) \subseteq Seq(HeadWords)
      BY SeqMonotonic DEF HeadWords
    <3> QED
      BY <3>1 DEF Sums
  <2> QED
    BY <1>1, <2>1 DEF Units, HeadWords
<1> HIDE DEF u
<1>3. CASE u \in Num
  <2>1. "num" \in DOMAIN u
    BY <1>3 DEF Num
  <2>2. v \in {Net(n) : n \in 0 .. 5} /\ v # u
    BY <2>1 DEF OthersThan, u
  <2>3. v \in Num
    BY <2>2, NetNumber
  <2> QED
    BY <1>3, <2>2, <2>3 DEF Changes, u
<1>4. CASE u \in Sums(HeadWords)
  <2>1. "num" \notin DOMAIN u
    BY <1>4 DEF Sums
  <2>2. v \in {Checksum(<<>>), Swap(Checksum(<<Host(99)>>))} /\ v # u
    BY <2>1 DEF OthersThan, u
  <2>3. Checksum(<<>>) \in Sums(HeadWords)
    BY SumOf, EmptySeq
  <2>4. Swap(Checksum(<<Host(99)>>)) \in Sums(HeadWords)
    <3>1. Host(99) \in HeadWords
      BY NetNumber DEF HeadWords
    <3>2. <<Host(99)>> \in Seq(HeadWords)
      BY <3>1
    <3> QED
      BY <3>2, SumOf, SwapSum
  <2> QED
    BY <1>4, <2>2, <2>3, <2>4 DEF Changes, u
<1> QED
  BY <1>2, <1>3, <1>4

LEMMA InputIsBatch ==
  /\ PickBatch => input'.part = "batch" /\ input'.msgs \in Seq(Records)
  /\ PickChange => /\ input'.part = "change" /\ input'.msgs \in Seq(Records)
                   /\ input'.at \in 1 .. Len(Encode(input'.msgs))
                   /\ Changes(Encode(input'.msgs)[input'.at], input'.unit)
  /\ PickCut => /\ input'.part = "cut" /\ input'.msgs \in Seq(Records)
                /\ input'.keep \in 0 .. Len(Encode(input'.msgs)) - 1
<1>1. PickBatch => input'.part = "batch" /\ input'.msgs \in Seq(Records)
  BY BatchesAre DEF PickBatch
<1>2. ASSUME PickChange
      PROVE  /\ input'.part = "change" /\ input'.msgs \in Seq(Records)
             /\ input'.at \in 1 .. Len(Encode(input'.msgs))
             /\ Changes(Encode(input'.msgs)[input'.at], input'.unit)
  <2>1. PICK b \in Batches : \E i \in DOMAIN Encode(b) : \E u \in OthersThan(Encode(b)[i]) :
               input' = [part |-> "change", msgs |-> b, at |-> i, unit |-> u]
    BY <1>2 DEF PickChange
  <2>2. PICK i \in DOMAIN Encode(b) : \E u \in OthersThan(Encode(b)[i]) :
               input' = [part |-> "change", msgs |-> b, at |-> i, unit |-> u]
    BY <2>1
  <2>3. PICK u \in OthersThan(Encode(b)[i]) :
               input' = [part |-> "change", msgs |-> b, at |-> i, unit |-> u]
    BY <2>2
  <2>4. b \in Seq(Records) /\ i \in 1 .. Len(Encode(b))
    BY BatchesAre, EncodeIs, LenProperties
  <2>5. Changes(Encode(b)[i], u)
    BY <2>4, OthersChange
  <2> QED
    BY <2>3, <2>4, <2>5
<1>3. PickCut => /\ input'.part = "cut" /\ input'.msgs \in Seq(Records)
                 /\ input'.keep \in 0 .. Len(Encode(input'.msgs)) - 1
  BY BatchesAre DEF PickCut
<1> QED
  BY <1>1, <1>2, <1>3

LEMMA NotABatch ==
  ASSUME PickTopic \/ PickFile \/ PickWait \/ PickInfinite \/ PickLists
  PROVE  input'.part # "batch" /\ input'.part # "change" /\ input'.part # "cut"
  BY DEF PickTopic, PickFile, PickWait, PickInfinite, PickLists

LEMMA OnePart ==
  /\ PickBatch => input'.part # "change" /\ input'.part # "cut"
  /\ PickChange => input'.part # "batch" /\ input'.part # "cut"
  /\ PickCut => input'.part # "batch" /\ input'.part # "change"
  BY DEF PickBatch, PickChange, PickCut

(* A batch, and what follows it. *)
LEMMA Followed ==
  ASSUME NEW msgs \in Seq(Records), NEW more \in Seq(Units)
  PROVE  /\ Begins(Encode(msgs) \o more, msgs, Len(Encode(msgs)))
         /\ Len(Encode(msgs) \o more) >= Len(Encode(msgs))
<1> DEFINE u == Encode(msgs)
           w == u \o more
<1>1. u \in Seq(Units) /\ Len(u) \in Nat /\ Len(more) \in Nat
  BY EncodeIs, LenProperties
<1> HIDE DEF u
<1>2. /\ w \in Seq(Units) /\ Len(w) = Len(u) + Len(more)
      /\ \A i \in 1 .. Len(u) + Len(more) : w[i] = IF i <= Len(u) THEN u[i] ELSE more[i - Len(u)]
  BY <1>1, ConcatProperties
<1> HIDE DEF w
<1>3. \A j \in 1 .. Len(w) : j <= Len(u) => w[j] = u[j]
  BY <1>1, <1>2
<1>4. Begins(w, msgs, Len(u))
  BY <1>2, <1>3 DEF Begins, u
<1> QED
  BY <1>1, <1>2, <1>4 DEF w, u

(* encode.c and read_v1.c agree: every batch is read as the messages it    *)
(* was made of, whatever follows it.                                       *)
THEOREM BatchesReadBack == Spec => []ReadsBack
<1>1. Init => ReadsBack
  BY DEF Init, ReadsBack
<1>2. ASSUME ReadsBack, [Next]_vars
      PROVE  ReadsBack'
  <2>1. CASE PickBatch
    <3> DEFINE msgs == input'.msgs
    <3>1. msgs \in Seq(Records)
      BY <2>1, InputIsBatch
    <3>2. <<Host(1)>> \in Seq(Units)
      <4>1. Host(1) \in Units
        BY NetNumber DEF Units, HeadWords
      <4> QED
        BY <4>1
    <3>3. Read(Encode(msgs) \o <<Host(1)>>) = [rc |-> "data", msgs |-> msgs, used |-> Len(Encode(msgs))]
      BY <3>1, <3>2, Followed, WholeIsRead
    <3> QED
      BY <3>3 DEF ReadsBack
  <2>2. CASE input' = input
    BY <1>2, <2>2 DEF ReadsBack
  <2>3. CASE \/ PickChange \/ PickCut
             \/ PickTopic \/ PickFile \/ PickWait \/ PickInfinite \/ PickLists
    BY <2>3, OnePart, NotABatch DEF ReadsBack
  <2> QED
    BY <1>2, <2>1, <2>2, <2>3, NextPart
<1> QED
  BY <1>1, <1>2, PTL DEF Spec

(* encode.h:15: a batch one word of which has changed is refused, or       *)
(* waited for when it announces more messages than there are.              *)
THEOREM ChangesAreNoticed == Spec => []ChangeIsNoticed
<1>1. Init => ChangeIsNoticed
  BY DEF Init, ChangeIsNoticed
<1>2. ASSUME ChangeIsNoticed, [Next]_vars
      PROVE  ChangeIsNoticed'
  <2>1. CASE PickChange
    <3> DEFINE msgs == input'.msgs
               units == [Encode(msgs) EXCEPT ![input'.at] = input'.unit]
    <3>1. /\ msgs \in Seq(Records) /\ input'.at \in 1 .. Len(Encode(msgs))
          /\ Changes(Encode(msgs)[input'.at], input'.unit)
      BY <2>1, InputIsBatch
    <3>2. \/ Read(units).rc = "EPROTO"
          \/ /\ input'.at = 3 /\ Number(input'.unit) > Len(msgs)
             /\ Read(units).rc = "EAGAIN"
      BY <3>1, ChangeIsSeen
    <3> QED
      BY <3>2 DEF ChangeIsNoticed
  <2>2. CASE input' = input
    BY <1>2, <2>2 DEF ChangeIsNoticed
  <2>3. CASE \/ PickBatch \/ PickCut
             \/ PickTopic \/ PickFile \/ PickWait \/ PickInfinite \/ PickLists
    BY <2>3, OnePart, NotABatch DEF ChangeIsNoticed
  <2> QED
    BY <1>2, <2>1, <2>2, <2>3, NextPart
<1> QED
  BY <1>1, <1>2, PTL DEF Spec

(* data.h:28-29: nothing is taken of a batch that is not all there, and    *)
(* mds_file_lseek skips just what mds_file_read would read.                *)
THEOREM SkipsJustWhatIsRead == Spec => []SkipsWhatIsRead
<1>1. Init => SkipsWhatIsRead
  BY DEF Init, SkipsWhatIsRead
<1>2. ASSUME SkipsWhatIsRead, [Next]_vars
      PROVE  SkipsWhatIsRead'
  <2>1. CASE PickBatch
    <3> DEFINE msgs == input'.msgs
               units == Encode(msgs) \o Encode(msgs)
    <3>1. input'.part = "batch" /\ msgs \in Seq(Records)
      BY <2>1, InputIsBatch
    <3>2. /\ Read(units) = [rc |-> "data", msgs |-> msgs, used |-> Len(Encode(msgs))]
          /\ Skip(units) = [Failed("data") EXCEPT !.used = Len(Encode(msgs))]
      BY <3>1, EncodeIs, Followed, WholeIsRead
    <3>3. Skip(units).rc = "data" /\ Skip(units).used = Read(units).used
      BY <3>2 DEF Failed
    <3> QED
      BY <3>1, <3>3 DEF SkipsWhatIsRead
  <2>2. CASE PickCut
    <3> DEFINE msgs == input'.msgs
               keep == input'.keep
               u == Encode(msgs)
               units == SubSeq(u, 1, keep)
    <3>1. input'.part = "cut" /\ msgs \in Seq(Records) /\ keep \in 0 .. Len(u) - 1
      BY <2>2, InputIsBatch
    <3>2. u \in Seq(Units) /\ Len(u) \in Nat
      BY <3>1, EncodeIs, LenProperties
    <3>3. units \in Seq(Units) /\ Len(units) = keep /\ \A j \in 1 .. keep : units[j] = u[j]
      <4>1. \A i \in 1 .. keep : u[i] \in Units
        BY <3>1, <3>2, ElementOfSeq
      <4>2. 1 \in Int /\ keep \in Int /\ keep >= 0
        BY <3>1, <3>2
      <4> HIDE DEF u, keep
      <4>3. /\ units \in Seq(Units) /\ Len(units) = IF 1 <= keep THEN keep - 1 + 1 ELSE 0
            /\ \A j \in 1 .. keep - 1 + 1 : units[j] = u[1 + j - 1]
        BY ONLY <4>1, <4>2, SubSeqProperties
      <4> HIDE DEF units
      <4> QED
        BY <4>2, <4>3
    <3>4. Begins(units, msgs, Len(u)) /\ Len(units) < Len(u)
      <4>1. Len(units) < Len(u)
        BY <3>1, <3>2, <3>3
      <4> QED
        BY <3>3, <4>1 DEF Begins
    <3>5. /\ Read(units) = Failed(IF keep = 0 THEN "end" ELSE "EAGAIN")
          /\ Skip(units) = Read(units)
      BY <3>1, <3>3, <3>4, PartIsNotRead
    <3> QED
      BY <3>1, <3>5 DEF SkipsWhatIsRead
  <2>3. CASE input' = input
    BY <1>2, <2>3 DEF SkipsWhatIsRead
  <2>4. CASE PickChange \/ PickTopic \/ PickFile \/ PickWait \/ PickInfinite \/ PickLists
    BY <2>4, OnePart, NotABatch DEF SkipsWhatIsRead
  <2> QED
    BY <1>2, <2>1, <2>2, <2>3, <2>4, NextPart
<1> QED
  BY <1>1, <1>2, PTL DEF Spec

-----------------------------------------------------------------------------
(* Topics and the names of files.                                          *)

(* The characters of numbers. *)
Numerals == {Digits[i] : i \in 1 .. 10}

LEMMA DigitsAre ==
  /\ \A i \in 1 .. 10 : IsDigit(Digits[i]) /\ DigitOf(Digits[i]) = i - 1
  /\ \A c : IsDigit(c) <=> c \in Numerals
  /\ \A c \in Numerals : /\ DigitOf(c) \in 0 .. 9 /\ Digits[DigitOf(c) + 1] = c
                         /\ DigitOf(c) = 0 <=> c = "0"
                         /\ c \notin {".", "/", "backslash", "+", "-", "tmp"}
  /\ "0" \in Numerals
<1>1. /\ Digits[1] = "0" /\ Digits[2] = "1" /\ Digits[3] = "2" /\ Digits[4] = "3"
      /\ Digits[5] = "4" /\ Digits[6] = "5" /\ Digits[7] = "6" /\ Digits[8] = "7"
      /\ Digits[9] = "8" /\ Digits[10] = "9" /\ Len(Digits) = 10 /\ DOMAIN Digits = 1 .. 10
  BY DEF Digits
<1>2. \A i \in 1 .. 10 : \/ i = 1 \/ i = 2 \/ i = 3 \/ i = 4 \/ i = 5
                         \/ i = 6 \/ i = 7 \/ i = 8 \/ i = 9 \/ i = 10
  OBVIOUS
<1>3. \A i, j \in 1 .. 10 : Digits[i] = Digits[j] => i = j
  BY <1>1, <1>2
<1>4. \A i \in 1 .. 10 : IsDigit(Digits[i])
  BY <1>1 DEF IsDigit, Contains
<1>5. \A i \in 1 .. 10 : DigitOf(Digits[i]) = i - 1
  <2> TAKE i \in 1 .. 10
  <2> DEFINE k == CHOOSE j \in DOMAIN Digits : Digits[j] = Digits[i]
  <2>1. k \in 1 .. 10 /\ Digits[k] = Digits[i]
    BY <1>1
  <2>2. DigitOf(Digits[i]) = k - 1
    BY DEF DigitOf
  <2> HIDE DEF k
  <2> QED
    BY <1>3, <2>1, <2>2
<1>6. \A c : IsDigit(c) <=> c \in Numerals
  BY <1>1 DEF IsDigit, Contains, Numerals
<1>7. ASSUME NEW c \in Numerals
      PROVE  /\ DigitOf(c) \in 0 .. 9 /\ Digits[DigitOf(c) + 1] = c
             /\ DigitOf(c) = 0 <=> c = "0"
             /\ c \notin {".", "/", "backslash", "+", "-", "tmp"}
  <2>1. PICK i \in 1 .. 10 : c = Digits[i]
    BY DEF Numerals
  <2>2. DigitOf(c) = i - 1
    BY <1>5, <2>1
  <2>3. DigitOf(c) \in 0 .. 9 /\ DigitOf(c) + 1 = i
    BY <2>2
  <2>4. i = 1 <=> c = "0"
    <3>1. c = "0" => Digits[i] = Digits[1]
      BY <1>1, <2>1
    <3> QED
      BY <1>1, <1>3, <2>1, <3>1
  <2>5. c \notin {".", "/", "backslash", "+", "-", "tmp"}
    BY <1>1, <1>2, <2>1
  <2>6. Digits[DigitOf(c) + 1] = c
    BY <2>1, <2>3
  <2>7. DigitOf(c) = 0 <=> c = "0"
    BY <2>2, <2>4
  <2> QED
    BY <2>3, <2>5, <2>6, <2>7
<1>8. "0" \in Numerals
  BY <1>1 DEF Numerals
<1> QED
  BY <1>4, <1>5, <1>6, <1>7, <1>8

LEMMA NoDigitIsBlank ==
  ASSUME NEW c \in Numerals
  PROVE  c # " "
<1> DEFINE blank == " "
<1>1. \A i \in 1 .. 10 : \/ i = 1 \/ i = 2 \/ i = 3 \/ i = 4 \/ i = 5
                         \/ i = 6 \/ i = 7 \/ i = 8 \/ i = 9 \/ i = 10
  OBVIOUS
<1>2. \A i \in 1 .. 10 : c = Digits[i] => c \in {"0", "1", "2", "3", "4", "5", "6", "7", "8", "9"}
  BY <1>1 DEF Digits
<1>3. c \in {"0", "1", "2", "3", "4", "5", "6", "7", "8", "9"}
  BY <1>2 DEF Numerals
<1> QED
  BY <1>3, Zenon

(* Every number of a set has a first, and every bounded one a last. *)
LEMMA FirstExists ==
  ASSUME NEW S \in SUBSET Nat, S # {}
  PROVE  Min(S) \in S /\ \A k \in S : Min(S) <= k
<1>1. PICK n \in S : \A k \in S : ~ (<<k, n>> \in OpToRel(<, Nat))
  BY NatLessThanWellFounded, WFMin
<1>2. \A k \in S : ~ (k < n)
  BY <1>1 DEF OpToRel
<1>3. \A k \in S : n <= k
  BY <1>2
<1> QED
  BY <1>3 DEF Min

LEMMA LastExists ==
  ASSUME NEW n \in Nat, NEW S \in SUBSET (0 .. n), S # {}
  PROVE  Max(S) \in S /\ \A k \in S : k <= Max(S)
<1> DEFINE R == {n - k : k \in S}
<1>1. R \in SUBSET Nat /\ R # {}
  <2>1. \A k \in S : n - k \in Nat
    OBVIOUS
  <2> QED
    BY <2>1
<1>2. Min(R) \in R /\ \A k \in R : Min(R) <= k
  BY <1>1, FirstExists
<1>3. PICK m \in S : Min(R) = n - m
  BY <1>2
<1>4. \A k \in S : n - k \in R
  OBVIOUS
<1>5. \A k \in S : n - m <= n - k
  BY <1>2, <1>3, <1>4
<1> HIDE DEF R
<1>6. \A k \in S : m >= k
  BY <1>5
<1>7. Max(S) \in S /\ \A k \in S : Max(S) >= k
  BY <1>6 DEF Max
<1> QED
  BY <1>7

LEMMA FirstOfIs ==
  ASSUME NEW s, Len(s) \in Nat, NEW c
  PROVE  LET p == FirstOf(s, c) IN
         /\ p \in 0 .. Len(s)
         /\ p > 0 => s[p] = c /\ \A i \in 1 .. p - 1 : s[i] # c
         /\ p = 0 => \A i \in 1 .. Len(s) : s[i] # c
<1> DEFINE S == {i \in 1 .. Len(s) : s[i] = c}
<1>1. FirstOf(s, c) = IF S # {} THEN Min(S) ELSE 0
  BY DEF FirstOf, SelectInSeq
<1>2. S # {} => Min(S) \in S /\ \A k \in S : Min(S) <= k
  BY FirstExists
<1>3. CASE S = {}
  BY <1>1, <1>3
<1>4. CASE S # {}
  <2>1. FirstOf(s, c) = Min(S) /\ Min(S) \in 1 .. Len(s) /\ s[Min(S)] = c
    BY <1>1, <1>2, <1>4
  <2>2. \A i \in 1 .. Min(S) - 1 : s[i] # c
    <3> SUFFICES ASSUME NEW i \in 1 .. Min(S) - 1, s[i] = c
                 PROVE  FALSE
      OBVIOUS
    <3>1. i \in S /\ i < Min(S)
      BY <2>1
    <3> QED
      BY <1>2, <1>4, <2>1, <3>1
  <2> QED
    BY <2>1, <2>2
<1> QED
  BY <1>3, <1>4

(* It is the only such place. *)
LEMMA FirstIs ==
  ASSUME NEW s, Len(s) \in Nat, NEW c, NEW p \in 1 .. Len(s),
         s[p] = c, \A i \in 1 .. p - 1 : s[i] # c
  PROVE  FirstOf(s, c) = p
<1> DEFINE q == FirstOf(s, c)
<1>1. /\ q \in 0 .. Len(s)
      /\ q > 0 => s[q] = c /\ \A i \in 1 .. q - 1 : s[i] # c
      /\ q = 0 => \A i \in 1 .. Len(s) : s[i] # c
  BY FirstOfIs
<1> HIDE DEF q
<1>2. q > 0
  BY <1>1
<1>3. ~ (q < p)
  BY <1>1, <1>2
<1>4. ~ (p < q)
  BY <1>1, <1>2
<1> QED
  BY <1>1, <1>3, <1>4 DEF q

LEMMA LastOfIs ==
  ASSUME NEW s, Len(s) \in Nat, NEW c
  PROVE  LastOf(s, c) \in 0 .. Len(s) /\ (LastOf(s, c) > 0 => s[LastOf(s, c)] = c)
<1> DEFINE S == {i \in 1 .. Len(s) : s[i] = c}
<1>1. LastOf(s, c) = IF S # {} THEN Max(S) ELSE 0
  BY DEF LastOf, SelectLastInSeq
<1>2. S # {} => Max(S) \in S
  <2>1. S \in SUBSET (0 .. Len(s))
    OBVIOUS
  <2> HIDE DEF S
  <2> QED
    BY <2>1, LastExists
<1> QED
  BY <1>1, <1>2

LEMMA LeadingIs ==
  ASSUME NEW s, Len(s) \in Nat, NEW c
  PROVE  /\ Leading(s, c) \in 0 .. Len(s)
         /\ \A i \in 1 .. Leading(s, c) : s[i] = c
         /\ Leading(s, c) = Len(s) \/ s[Leading(s, c) + 1] # c
<1> DEFINE R == {n \in 0 .. Len(s) : n = Len(s) \/ s[n + 1] # c}
           m == Min(R)
<1>1. m \in R /\ \A k \in R : m <= k
  <2>1. R \in SUBSET Nat /\ R # {}
    OBVIOUS
  <2> QED
    BY <2>1, FirstExists
<1> HIDE DEF m
<1>2. m \in 0 .. Len(s) /\ (m = Len(s) \/ s[m + 1] # c)
  BY <1>1
<1>3. \A i \in 1 .. m : s[i] = c
  <2> SUFFICES ASSUME NEW i \in 1 .. m, s[i] # c
               PROVE  FALSE
    OBVIOUS
  <2>1. i - 1 \in 0 .. Len(s) /\ (i - 1) + 1 = i /\ i - 1 < m
    BY <1>2
  <2>2. i - 1 \in R
    BY <2>1
  <2>3. m <= i - 1
    BY <1>1, <2>2
  <2> QED
    BY <1>2, <2>1, <2>3
<1> QED
  BY <1>2, <1>3 DEF Leading

LEMMA LeadingIsThat ==
  ASSUME NEW s, Len(s) \in Nat, NEW c, NEW n \in 0 .. Len(s),
         \A i \in 1 .. n : s[i] = c, n = Len(s) \/ s[n + 1] # c
  PROVE  Leading(s, c) = n
<1> DEFINE m == Leading(s, c)
<1>1. /\ m \in 0 .. Len(s)
      /\ \A i \in 1 .. m : s[i] = c
      /\ m = Len(s) \/ s[m + 1] # c
  BY LeadingIs
<1> HIDE DEF m
<1>2. ~ (m < n)
  <2> SUFFICES ASSUME m < n
               PROVE  FALSE
    OBVIOUS
  <2>1. m + 1 \in 1 .. n /\ m # Len(s)
    BY <1>1
  <2> QED
    BY <1>1, <2>1
<1>3. ~ (n < m)
  <2> SUFFICES ASSUME n < m
               PROVE  FALSE
    OBVIOUS
  <2>1. n + 1 \in 1 .. m /\ n # Len(s)
    BY <1>1
  <2> QED
    BY <1>1, <2>1
<1> QED
  BY <1>1, <1>2, <1>3 DEF m

(* Parts of a text. *)
LEMMA FromIs ==
  ASSUME NEW S, NEW s \in Seq(S), NEW i \in 1 .. Len(s) + 1
  PROVE  /\ From(s, i) \in Seq(S) /\ Len(From(s, i)) = Len(s) - i + 1
         /\ \A j \in 1 .. Len(s) - i + 1 : From(s, i)[j] = s[i + j - 1]
<1> DEFINE l == Len(s)
           q == SubSeq(s, i, l)
<1>1. l \in Nat
  BY LenProperties
<1>2. \A j \in i .. l : s[j] \in S
  BY <1>1, ElementOfSeq
<1>3. i \in Int /\ l \in Int /\ i <= l + 1 /\ From(s, i) = q
  BY <1>1 DEF From
<1> HIDE DEF l
<1>4. /\ q \in Seq(S) /\ Len(q) = IF i <= l THEN l - i + 1 ELSE 0
      /\ \A j \in 1 .. l - i + 1 : q[j] = s[i + j - 1]
  BY ONLY <1>2, <1>3, SubSeqProperties
<1> HIDE DEF q
<1>5. Len(q) = l - i + 1
  BY <1>3, <1>4
<1> QED
  BY <1>3, <1>4, <1>5 DEF l

LEMMA UptoIs ==
  ASSUME NEW S, NEW s \in Seq(S), NEW m \in 0 .. Len(s)
  PROVE  /\ SubSeq(s, 1, m) \in Seq(S) /\ Len(SubSeq(s, 1, m)) = m
         /\ \A j \in 1 .. m : SubSeq(s, 1, m)[j] = s[j]
<1> DEFINE l == Len(s)
           q == SubSeq(s, 1, m)
<1>1. l \in Nat /\ m \in 0 .. l
  BY LenProperties
<1>2. \A j \in 1 .. m : s[j] \in S
  BY <1>1, ElementOfSeq
<1>3. 1 \in Int /\ m \in Int /\ m >= 0
  BY <1>1
<1> HIDE DEF l
<1>4. /\ q \in Seq(S) /\ Len(q) = IF 1 <= m THEN m - 1 + 1 ELSE 0
      /\ \A j \in 1 .. m - 1 + 1 : q[j] = s[1 + j - 1]
  BY ONLY <1>2, <1>3, SubSeqProperties
<1> HIDE DEF q
<1>5. Len(q) = m /\ m - 1 + 1 = m /\ \A j \in 1 .. m : 1 + j - 1 = j
  BY <1>3, <1>4
<1> QED
  BY <1>4, <1>5 DEF q

(* sscanf and what mds_file_open makes of it: no number has a slash.       *)
LEMMA SlashIsNoNumber ==
  ASSUME NEW S, NEW s \in Seq(S), NEW p \in 1 .. Len(s), s[p] = "/"
  PROVE  ~ Scanned(s).ok
<1> DEFINE blank == " "
           n == Leading(s, blank)
           text == From(s, n + 1)
           signed == text # <<>> /\ text[1] \in {"+", "-"}
           ds == IF signed THEN Tail(text) ELSE text
<1>1. Len(s) \in Nat
  BY LenProperties
<1>2. s[p] # blank
  OBVIOUS
<1> HIDE DEF blank
<1>3. n \in 0 .. Len(s) /\ \A i \in 1 .. n : s[i] = blank
  BY <1>1, LeadingIs
<1> HIDE DEF n
<1>4. n < p
  BY <1>1, <1>2, <1>3
<1>5. /\ text \in Seq(S) /\ Len(text) = Len(s) - n /\ text[p - n] = "/"
      /\ p - n \in 1 .. Len(text)
  <2>1. n + 1 \in 1 .. Len(s) + 1 /\ Len(s) - (n + 1) + 1 = Len(s) - n
        /\ p - n \in 1 .. Len(s) - n /\ (n + 1) + (p - n) - 1 = p
    BY <1>1, <1>3, <1>4
  <2>2. /\ text \in Seq(S) /\ Len(text) = Len(s) - (n + 1) + 1
        /\ \A j \in 1 .. Len(s) - (n + 1) + 1 : text[j] = s[(n + 1) + j - 1]
    BY <2>1, FromIs
  <2> HIDE DEF text
  <2> QED
    BY <2>1, <2>2
<1> HIDE DEF text
<1>6. text # <<>>
  BY <1>5, EmptySeq
<1>7. ~ IsDigit("/")
  BY DigitsAre
<1>8. \E i \in DOMAIN ds : ~ IsDigit(ds[i])
  <2>1. CASE signed
    <3>1. p - n # 1
      <4>1. text[1] # "/"
        BY <2>1
      <4> QED
        BY <1>5, <4>1
    <3> DEFINE q == p - n
    <3>2. q \in 2 .. Len(text) /\ text[q] = "/" /\ Len(text) \in Nat
      BY <1>1, <1>3, <1>5, <3>1
    <3> HIDE DEF q
    <3>3. /\ Tail(text) \in Seq(S) /\ Len(Tail(text)) = Len(text) - 1
          /\ \A i \in 1 .. Len(Tail(text)) : Tail(text)[i] = text[i + 1]
      BY <1>5, <1>6, HeadTailProperties
    <3>4. q - 1 \in DOMAIN Tail(text) /\ Tail(text)[q - 1] = "/"
      <4>1. q - 1 \in 1 .. Len(Tail(text)) /\ (q - 1) + 1 = q
        BY <3>2, <3>3
      <4> QED
        BY <3>2, <3>3, <4>1, LenProperties
    <3>5. ds = Tail(text)
      BY <2>1
    <3> QED
      BY <1>7, <3>4, <3>5
  <2>2. CASE ~ signed
    <3>1. p - n \in DOMAIN text
      BY <1>5, LenProperties
    <3> QED
      BY <1>5, <1>7, <2>2, <3>1
  <2> QED
    BY <2>1, <2>2
<1>9. Scanned(s) = Bad
  BY <1>8 DEF Scanned, text, n, blank
<1> QED
  BY <1>9 DEF Bad

LEMMA SlashIsNotScaled ==
  ASSUME NEW S, NEW s \in Seq(S), NEW p \in 1 .. Len(s), s[p] = "/"
  PROVE  ~ Scaled(s).ok
<1> DEFINE n == Leading(s, "0")
           rest == From(s, n + 1)
<1>1. Len(s) \in Nat
  BY LenProperties
<1>2. n \in 0 .. Len(s) /\ \A i \in 1 .. n : s[i] = "0"
  BY <1>1, LeadingIs
<1> HIDE DEF n
<1>3. n < p
  <2>1. s[p] # "0"
    OBVIOUS
  <2> QED
    BY <1>1, <1>2, <2>1
<1>4. rest \in Seq(S) /\ rest[p - n] = "/" /\ p - n \in 1 .. Len(rest)
  <2>1. n + 1 \in 1 .. Len(s) + 1 /\ Len(s) - (n + 1) + 1 = Len(s) - n
        /\ p - n \in 1 .. Len(s) - n /\ (n + 1) + (p - n) - 1 = p
    BY <1>1, <1>2, <1>3
  <2>2. /\ rest \in Seq(S) /\ Len(rest) = Len(s) - (n + 1) + 1
        /\ \A j \in 1 .. Len(s) - (n + 1) + 1 : rest[j] = s[(n + 1) + j - 1]
    BY <2>1, FromIs
  <2> HIDE DEF rest
  <2> QED
    BY <2>1, <2>2
<1> HIDE DEF rest
<1>5. rest # <<>>
  BY <1>4, EmptySeq
<1>6. ~ Scanned(rest).ok
  BY <1>4, SlashIsNoNumber
<1> QED
  BY <1>5, <1>6 DEF Scaled, rest, n

LEMMA SlashIsNoMarket ==
  ASSUME NEW s, NEW p, s[p] = "/", p \in {1, 2}
  PROVE  Market(s) = 0
<1>1. s # <<"S", "H">> /\ s # <<"S", "Z">>
  OBVIOUS
<1> QED
  BY <1>1 DEF Market

(* parse_file_name takes no name with a slash. *)
LEMMA SlashIsRefused ==
  ASSUME NEW S, NEW s \in Seq(S), NEW p \in 1 .. Len(s), s[p] = "/"
  PROVE  ~ ParseFileName(s).ok
<1> DEFINE dot == FirstOf(s, ".")
           nr == Scaled(SubSeq(s, 1, dot - 1))
           rest == From(s, dot + 1)
           second == FirstOf(rest, ".")
           m == Market(SubSeq(rest, 1, second - 1))
           suffix == From(rest, second + 1)
<1>1. ParseFileName(s) =
        IF dot < 2 THEN Bad
        ELSE IF ~nr.ok \/ second # 3 \/ m = 0 THEN Bad
        ELSE IF suffix = <<"tmp">> THEN [ok |-> TRUE, exch |-> m, instr |-> nr.v, seq |-> -1]
        ELSE IF ~Scanned(suffix).ok THEN Bad
        ELSE [ok |-> TRUE, exch |-> m, instr |-> nr.v, seq |-> Scanned(suffix).v]
  BY Zenon DEF ParseFileName
<1>2. Len(s) \in Nat
  BY LenProperties
<1>3. dot \in 0 .. Len(s) /\ (dot > 0 => s[dot] = ".")
  BY <1>2, FirstOfIs
<1>4. ~ Bad.ok
  BY DEF Bad
<1> HIDE DEF dot, nr, m, suffix, rest, second
<1>5. CASE dot < 2
  BY <1>1, <1>4, <1>5
<1>6. CASE ~ (dot < 2) /\ p < dot
  <2>1. dot - 1 \in 0 .. Len(s) /\ p \in 1 .. dot - 1
    BY <1>2, <1>3, <1>6
  <2> DEFINE q == SubSeq(s, 1, dot - 1)
  <2>2. q \in Seq(S) /\ Len(q) = dot - 1 /\ q[p] = "/"
    BY <2>1, UptoIs
  <2> HIDE DEF q
  <2>3. ~ Scaled(q).ok
    BY <2>1, <2>2, SlashIsNotScaled
  <2> QED
    BY <1>1, <1>4, <2>3 DEF q, nr
<1>7. CASE ~ (dot < 2) /\ dot < p
  <2> DEFINE q == p - dot
  <2>1. /\ dot + 1 \in 1 .. Len(s) + 1 /\ q \in 1 .. Len(s) - (dot + 1) + 1
        /\ (dot + 1) + q - 1 = p
    BY <1>2, <1>3, <1>7
  <2>2. /\ rest \in Seq(S) /\ Len(rest) = Len(s) - (dot + 1) + 1
        /\ \A j \in 1 .. Len(s) - (dot + 1) + 1 : rest[j] = s[(dot + 1) + j - 1]
    BY <2>1, FromIs DEF rest
  <2>3. rest[q] = "/" /\ q \in 1 .. Len(rest) /\ Len(rest) \in Nat
    BY <2>1, <2>2, LenProperties
  <2> HIDE DEF q
  <2>4. CASE second # 3
    BY <1>1, <1>4, <2>4
  <2>5. CASE second = 3
    <3>1. rest[3] = "." /\ 3 \in 1 .. Len(rest)
      <4>1. second \in 0 .. Len(rest) /\ (second > 0 => rest[second] = ".")
        BY <2>3, FirstOfIs DEF second
      <4> QED
        BY <2>3, <2>5, <4>1
    <3>2. q # 3
      BY <2>3, <3>1
    <3>3. CASE q < 3
      <4>1. q \in {1, 2} /\ 2 \in 0 .. Len(rest) /\ q \in 1 .. 2
        BY <2>3, <3>1, <3>3
      <4>2. SubSeq(rest, 1, 2)[q] = "/"
        BY <2>2, <2>3, <4>1, UptoIs
      <4>3. Market(SubSeq(rest, 1, 2)) = 0
        BY <4>1, <4>2, SlashIsNoMarket
      <4>4. m = 0
        BY <2>5, <4>3 DEF m
      <4> QED
        BY <1>1, <1>4, <4>4
    <3>4. CASE q > 3
      <4>1. /\ 4 \in 1 .. Len(rest) + 1 /\ q - 3 \in 1 .. Len(rest) - 4 + 1 /\ 4 + (q - 3) - 1 = q
        BY <2>3, <3>4
      <4>2. suffix = From(rest, 4)
        BY <2>5 DEF suffix
      <4>3. /\ suffix \in Seq(S) /\ Len(suffix) = Len(rest) - 4 + 1
            /\ \A j \in 1 .. Len(rest) - 4 + 1 : suffix[j] = rest[4 + j - 1]
        BY <2>2, <4>1, <4>2, FromIs
      <4>4. suffix[q - 3] = "/" /\ q - 3 \in 1 .. Len(suffix)
        BY <2>3, <4>1, <4>3
      <4>5. ~ Scanned(suffix).ok
        BY <4>3, <4>4, SlashIsNoNumber
      <4>6. suffix # <<"tmp">>
        <5> SUFFICES ASSUME suffix = <<"tmp">>
                     PROVE  FALSE
          OBVIOUS
        <5>1. Len(suffix) = 1 /\ suffix[1] = "tmp"
          OBVIOUS
        <5>2. q - 3 = 1
          BY <4>4, <5>1
        <5> QED
          BY <4>4, <5>1, <5>2
      <4> QED
        BY <1>1, <1>4, <4>5, <4>6
    <3> QED
      BY <2>3, <3>2, <3>3, <3>4
  <2> QED
    BY <2>4, <2>5
<1>8. p # dot
  BY <1>3
<1> QED
  BY <1>2, <1>3, <1>5, <1>6, <1>7, <1>8

(* The last digit of a number and the others. *)
LEMMA LastDigit ==
  ASSUME NEW k \in Nat
  PROVE  /\ k % 10 \in 0 .. 9 /\ k = 10 * (k \div 10) + (k % 10)
         /\ k >= 10 => k \div 10 \in Nat /\ k \div 10 < k /\ k \div 10 > 0
         /\ Digits[(k % 10) + 1] \in Numerals
         /\ k < 10 => Digits[k + 1] \in Numerals /\ DigitOf(Digits[k + 1]) = k
         /\ DigitOf(Digits[(k % 10) + 1]) = k % 10
<1>1. k % 10 \in 0 .. 9 /\ k = 10 * (k \div 10) + (k % 10)
  OBVIOUS
<1>2. k >= 10 => k \div 10 \in Nat /\ k \div 10 < k /\ k \div 10 > 0
  OBVIOUS
<1>3. \A j \in 0 .. 9 : Digits[j + 1] \in Numerals /\ DigitOf(Digits[j + 1]) = j
  <2> TAKE j \in 0 .. 9
  <2>1. j + 1 \in 1 .. 10 /\ (j + 1) - 1 = j
    OBVIOUS
  <2> QED
    BY <2>1, DigitsAre DEF Numerals
<1>4. k < 10 => k \in 0 .. 9
  OBVIOUS
<1> QED
  BY <1>1, <1>2, <1>3, <1>4

(* There is a function as Decimal is said to be.                           *)
LEMMA DecimalExists ==
  \E D \in [Nat -> Seq(Numerals)] :
    D = [n \in Nat |-> IF n < 10 THEN <<Digits[n + 1]>>
                       ELSE Append(D[n \div 10], Digits[(n % 10) + 1])]
<1> DEFINE T == Seq(Numerals)
           B(f, k) == IF k < 10 THEN <<Digits[k + 1]>>
                      ELSE Append(f[k \div 10], Digits[(k % 10) + 1])
           Sol(f, n) == f \in [0 .. n -> T] /\ \A k \in 0 .. n : f[k] = B(f, k)
           N == {n \in Nat : \E f : Sol(f, n)}
<1>1. ASSUME NEW k \in Nat, NEW f, k >= 10 => f[k \div 10] \in T
      PROVE  B(f, k) \in T
  <2>1. CASE k < 10
    <3>1. Digits[k + 1] \in Numerals
      BY <2>1, LastDigit
    <3> DEFINE d == Digits[k + 1]
    <3> HIDE DEF d
    <3>2. <<d>> \in T
      BY <3>1 DEF d
    <3> QED
      BY <2>1, <3>2 DEF d
  <2>2. CASE ~ (k < 10)
    <3>1. f[k \div 10] \in T
      BY <1>1, <2>2
    <3>2. Digits[(k % 10) + 1] \in Numerals
      BY LastDigit
    <3>3. Append(f[k \div 10], Digits[(k % 10) + 1]) \in T
      BY <3>1, <3>2, AppendProperties
    <3> QED
      BY <2>2, <3>3
  <2> QED
    BY <2>1, <2>2
<1>2. ASSUME NEW k \in Nat, NEW f, NEW g, k >= 10 => f[k \div 10] = g[k \div 10]
      PROVE  B(f, k) = B(g, k)
  BY <1>2
<1> HIDE DEF B, T
<1>3. 0 \in N
  <2> DEFINE f == [k \in 0 .. 0 |-> B(<<>>, k)]
  <2>1. B(<<>>, 0) \in T
    BY <1>1
  <2>2. \A k \in 0 .. 0 : B(f, k) = B(<<>>, k)
    BY <1>2
  <2>3. Sol(f, 0)
    BY <2>1, <2>2
  <2> QED
    BY <2>3
<1>4. ASSUME NEW n \in Nat, n \in N
      PROVE  n + 1 \in N
  <2>1. PICK f : Sol(f, n)
    BY <1>4
  <2> DEFINE last == B(f, n + 1)
             e == [k \in 0 .. n + 1 |-> IF k = n + 1 THEN last ELSE f[k]]
  <2>2. f \in [0 .. n -> T] /\ \A k \in 0 .. n : f[k] = B(f, k)
    BY <2>1
  <2>3. \A k \in 0 .. n + 1 : k >= 10 => k \div 10 \in 0 .. n
    BY LastDigit
  <2>4. last \in T
    <3>1. n + 1 >= 10 => f[(n + 1) \div 10] \in T
      BY <2>2, <2>3
    <3> QED
      BY <1>1, <3>1
  <2> HIDE DEF last
  <2>5. e \in [0 .. n + 1 -> T]
    BY <2>2, <2>4
  <2>6. \A k \in 0 .. n : e[k] = f[k]
    OBVIOUS
  <2>7. \A k \in 0 .. n + 1 : B(e, k) = B(f, k)
    <3> TAKE k \in 0 .. n + 1
    <3>1. k >= 10 => e[k \div 10] = f[k \div 10]
      BY <2>3, <2>6
    <3> HIDE DEF e
    <3> QED
      BY <1>2, <3>1
  <2>8. \A k \in 0 .. n + 1 : e[k] = B(e, k)
    <3> TAKE k \in 0 .. n + 1
    <3>1. k = n + 1 \/ k \in 0 .. n
      OBVIOUS
    <3>2. e[n + 1] = B(f, n + 1)
      BY DEF last
    <3> HIDE DEF e
    <3> QED
      BY <2>2, <2>6, <2>7, <3>1, <3>2
  <2>9. Sol(e, n + 1) /\ n + 1 \in Nat
    BY <2>5, <2>8
  <2> HIDE DEF e, Sol
  <2> QED
    BY <2>9
<1>5. \A n \in Nat : \E f : Sol(f, n)
  <2> HIDE DEF Sol
  <2>1. Nat \subseteq N
    BY <1>3, <1>4, NatSetInduction
  <2> QED
    BY <2>1
<1>6. ASSUME NEW n \in Nat, NEW m \in Nat, NEW f, NEW g, Sol(f, n), Sol(g, m)
      PROVE  \A k \in Nat : k <= n /\ k <= m => f[k] = g[k]
  <2> DEFINE M == {k \in Nat : \A j \in 0 .. k : j <= n /\ j <= m => f[j] = g[j]}
  <2>1. ASSUME NEW k \in Nat, \A j \in 0 .. k - 1 : j <= n /\ j <= m => f[j] = g[j],
               k <= n, k <= m
        PROVE  f[k] = g[k]
    <3>1. k >= 10 => f[k \div 10] = g[k \div 10]
      <4>1. k >= 10 => k \div 10 \in 0 .. k - 1
        BY LastDigit
      <4> QED
        BY <2>1, <4>1
    <3>2. B(f, k) = B(g, k)
      BY <1>2, <3>1
    <3> QED
      BY <1>6, <2>1, <3>2
  <2>2. 0 \in M
    <3>1. 0 <= n /\ 0 <= m => f[0] = g[0]
      BY <2>1
    <3> QED
      BY <3>1
  <2>3. ASSUME NEW k \in Nat, k \in M
        PROVE  k + 1 \in M
    <3>1. \A j \in 0 .. k : j <= n /\ j <= m => f[j] = g[j]
      BY <2>3
    <3>2. k + 1 <= n /\ k + 1 <= m => f[k + 1] = g[k + 1]
      BY <2>1, <3>1
    <3> QED
      BY <3>1, <3>2
  <2>4. Nat \subseteq M
    <3> HIDE DEF M
    <3> QED
      BY <2>2, <2>3, NatSetInduction
  <2> QED
    BY <2>4
<1> DEFINE A(n) == CHOOSE f : Sol(f, n)
           D == [n \in Nat |-> A(n)[n]]
<1>7. \A n \in Nat : Sol(A(n), n)
  BY <1>5
<1> HIDE DEF A
<1>8. \A n \in Nat : D[n] \in T
  BY <1>7
<1>9. ASSUME NEW n \in Nat
      PROVE  D[n] = B(D, n)
  <2>1. n >= 10 => A(n)[n \div 10] = D[n \div 10]
    <3> SUFFICES ASSUME n >= 10
                 PROVE  A(n)[n \div 10] = D[n \div 10]
      OBVIOUS
    <3> DEFINE k == n \div 10
    <3>1. k \in Nat /\ k < n
      BY LastDigit
    <3> HIDE DEF k, Sol
    <3>2. A(n)[k] = A(k)[k]
      BY <1>6, <1>7, <3>1
    <3>3. D[k] = A(k)[k]
      BY <3>1
    <3> QED
      BY <3>2, <3>3 DEF k
  <2>2. B(A(n), n) = B(D, n)
    <3> HIDE DEF D
    <3> QED
      BY <1>2, <2>1
  <2>3. A(n)[n] = B(A(n), n)
    BY <1>7
  <2> QED
    BY <2>2, <2>3
<1>10. D = [n \in Nat |-> B(D, n)]
  <2> DEFINE E == [n \in Nat |-> B(D, n)]
  <2>1. \A n \in Nat : D[n] = E[n]
    BY <1>9
  <2>2. DOMAIN D = Nat /\ DOMAIN E = Nat
    OBVIOUS
  <2> QED
    BY <1>9
<1>11. D \in [Nat -> T]
  BY <1>8
<1> HIDE DEF D
<1> QED
  BY <1>10, <1>11 DEF B, T

LEMMA DecimalStep ==
  ASSUME NEW n \in Nat
  PROVE  Decimal[n] = IF n < 10 THEN <<Digits[n + 1]>>
                      ELSE Append(Decimal[n \div 10], Digits[(n % 10) + 1])
<1>1. Decimal = [k \in Nat |-> IF k < 10 THEN <<Digits[k + 1]>>
                               ELSE Append(Decimal[k \div 10], Digits[(k % 10) + 1])]
  BY DecimalExists, Zenon DEF Decimal
<1> QED
  BY <1>1, Zenon

(* What the digits of a text are worth, one after the other. *)
LEMMA ValueIs ==
  ASSUME NEW ds \in Seq(Numerals)
  PROVE  \E v : /\ v[0] = 0 /\ \A i \in 0 .. Len(ds) : v[i] \in Nat
                /\ \A i \in 1 .. Len(ds) : v[i] = 10 * v[i - 1] + DigitOf(ds[i])
                /\ Value(ds) = v[Len(ds)]
<1> DEFINE n == Len(ds)
           L(i) == DigitOf(ds[i])
           E(f) == [i \in 0 .. n |-> IF i = 0 THEN 0 ELSE 10 * f[i - 1] + L(i)]
           g == [i \in 1 .. n |-> [t \in Nat |-> 10 * t + L(i)]]
           e == CHOOSE f : f = E(f)
<1>1. n \in Nat /\ \A i \in 1 .. n : L(i) \in Nat
  <2>1. n \in Nat
    BY LenProperties
  <2>2. \A i \in 1 .. n : ds[i] \in Numerals
    BY ElementOfSeq
  <2>3. \A c \in Numerals : DigitOf(c) \in 0 .. 9
    BY DigitsAre
  <2> QED
    BY <2>1, <2>2, <2>3
<1>2. Value(ds) = e[n]
  BY DEF Value
<1> HIDE DEF n, L
<1>3. g \in [1 .. n -> [Nat -> Nat]]
  BY <1>1
<1>4. \A i \in 1 .. n, t \in Nat : g[i][t] = 10 * t + L(i)
  OBVIOUS
<1> HIDE DEF g
<1>5. PICK f \in [0 .. n -> Nat] : f[0] = 0 /\ \A i \in 1 .. n : f[i] = g[i][f[i - 1]]
  <2> DEFINE T == Nat
             x == 0
  <2>1. n \in Nat /\ x \in T
    BY <1>1
  <2>2. g \in [1 .. n -> [T -> T]]
    BY <1>3
  <2> HIDE DEF x, T
  <2>3. \E f \in [0 .. n -> T] : f[0] = x /\ \A i \in 1 .. n : f[i] = g[i][f[i - 1]]
    BY ONLY <2>1, <2>2, Recursion, SMTT(60)
  <2> QED
    BY <2>3 DEF x, T
<1>6. \A i \in 1 .. n : f[i] = 10 * f[i - 1] + L(i)
  <2> TAKE i \in 1 .. n
  <2>1. f[i - 1] \in Nat
    BY <1>1, <1>5
  <2> QED
    BY <1>4, <1>5, <2>1
<1>7. f = E(f)
  <2>1. \A i \in 0 .. n : f[i] = IF i = 0 THEN 0 ELSE 10 * f[i - 1] + L(i)
    BY <1>1, <1>5, <1>6
  <2>2. f = [i \in 0 .. n |-> f[i]]
    BY <1>5
  <2> QED
    BY <2>1, <2>2
<1>8. e = E(e)
  <2> HIDE DEF E
  <2> QED
    BY <1>7
<1> HIDE DEF e
<1> DEFINE G == E(e)
<1>9. \A i \in 0 .. n : G[i] = IF i = 0 THEN 0 ELSE 10 * e[i - 1] + L(i)
  OBVIOUS
<1>10. e = G
  BY <1>8
<1> HIDE DEF G
<1>11. e[0] = 0 /\ \A i \in 1 .. n : e[i] = 10 * e[i - 1] + L(i)
  <2>1. 0 \in 0 .. n
    BY <1>1
  <2>2. e[0] = 0
    BY <1>9, <1>10, <2>1
  <2>3. \A i \in 1 .. n : i \in 0 .. n /\ i # 0
    BY <1>1
  <2> QED
    BY <1>9, <1>10, <2>2, <2>3
<1> DEFINE N == {k \in Nat : k <= n => e[k] \in Nat}
<1>12. 0 \in N
  BY <1>11
<1>13. ASSUME NEW k \in Nat, k \in N
       PROVE  k + 1 \in N
  <2>1. SUFFICES ASSUME k + 1 <= n
                 PROVE  e[k + 1] \in Nat
    OBVIOUS
  <2>2. k + 1 \in 1 .. n /\ (k + 1) - 1 = k /\ e[k] \in Nat
    BY <1>1, <1>13, <2>1
  <2>3. e[k + 1] = 10 * e[k] + L(k + 1) /\ L(k + 1) \in Nat
    BY <1>1, <1>11, <2>2
  <2> QED
    BY <2>2, <2>3
<1>14. Nat \subseteq N
  <2> HIDE DEF N
  <2> QED
    BY <1>12, <1>13, NatSetInduction
<1>15. \A i \in 0 .. n : e[i] \in Nat
  BY <1>1, <1>14
<1> QED
  BY <1>2, <1>11, <1>15 DEF n, L

(* Any way of counting them gives the same. *)
LEMMA ValueIsThat ==
  ASSUME NEW ds \in Seq(Numerals), NEW w, w[0] = 0,
         \A i \in 1 .. Len(ds) : w[i] = 10 * w[i - 1] + DigitOf(ds[i])
  PROVE  Value(ds) = w[Len(ds)] /\ Value(ds) \in Nat
<1> DEFINE n == Len(ds)
           L(i) == DigitOf(ds[i])
<1>1. n \in Nat
  BY LenProperties
<1>2. PICK v : /\ v[0] = 0 /\ \A i \in 0 .. n : v[i] \in Nat
               /\ \A i \in 1 .. n : v[i] = 10 * v[i - 1] + L(i)
               /\ Value(ds) = v[n]
  BY ValueIs
<1>3. w[0] = 0 /\ \A i \in 1 .. n : w[i] = 10 * w[i - 1] + L(i)
  OBVIOUS
<1> HIDE DEF n, L
<1> DEFINE N == {k \in Nat : k <= n => v[k] = w[k]}
<1>4. 0 \in N
  BY <1>2, <1>3
<1>5. ASSUME NEW k \in Nat, k \in N
      PROVE  k + 1 \in N
  <2>1. SUFFICES ASSUME k + 1 <= n
                 PROVE  v[k + 1] = w[k + 1]
    OBVIOUS
  <2>2. k + 1 \in 1 .. n /\ (k + 1) - 1 = k /\ v[k] = w[k]
    BY <1>1, <1>5, <2>1
  <2> QED
    BY <1>2, <1>3, <2>2
<1>6. Nat \subseteq N
  <2> HIDE DEF N
  <2> QED
    BY <1>4, <1>5, NatSetInduction
<1>7. v[n] = w[n] /\ v[n] \in Nat
  BY <1>1, <1>2, <1>6
<1> QED
  BY <1>2, <1>7 DEF n

LEMMA ValueStep ==
  ASSUME NEW ds \in Seq(Numerals), NEW c \in Numerals
  PROVE  Value(Append(ds, c)) = 10 * Value(ds) + DigitOf(c) /\ Value(ds) \in Nat
<1> DEFINE n == Len(ds)
           q == Append(ds, c)
<1>1. n \in Nat
  BY LenProperties
<1>2. /\ q \in Seq(Numerals) /\ Len(q) = n + 1
      /\ \A i \in 1 .. n : q[i] = ds[i]
      /\ q[n + 1] = c
  BY AppendProperties
<1> HIDE DEF q
<1>3. PICK v : /\ v[0] = 0 /\ \A i \in 1 .. n + 1 : v[i] = 10 * v[i - 1] + DigitOf(q[i])
               /\ Value(q) = v[n + 1]
  <2>1. \E v : /\ v[0] = 0 /\ \A i \in 1 .. Len(q) : v[i] = 10 * v[i - 1] + DigitOf(q[i])
               /\ Value(q) = v[Len(q)]
    BY <1>2, ValueIs
  <2> QED
    BY <1>2, <2>1
<1>4. Value(ds) = v[n] /\ Value(ds) \in Nat
  <2>1. \A i \in 1 .. n : v[i] = 10 * v[i - 1] + DigitOf(ds[i])
    <3> TAKE i \in 1 .. n
    <3>1. i \in 1 .. n + 1
      BY <1>1
    <3> QED
      BY <1>2, <1>3, <3>1
  <2> QED
    BY <1>3, <2>1, ValueIsThat
<1>5. Value(q) = 10 * v[n] + DigitOf(c)
  <2>1. n + 1 \in 1 .. n + 1 /\ (n + 1) - 1 = n
    BY <1>1
  <2> QED
    BY <1>2, <1>3, <2>1
<1> QED
  BY <1>4, <1>5 DEF q

LEMMA ValueOfOne ==
  ASSUME NEW c \in Numerals
  PROVE  Value(<<>>) = 0 /\ Value(<<c>>) = DigitOf(c) /\ <<c>> = Append(<<>>, c)
<1>1. <<>> \in Seq(Numerals) /\ Len(<<>>) = 0
  BY EmptySeq
<1>2. Value(<<>>) = 0
  <2>1. \E v : v[0] = 0 /\ Value(<<>>) = v[Len(<<>>)]
    BY <1>1, ValueIs
  <2> QED
    BY <1>1, <2>1
<1>3. <<c>> = Append(<<>>, c)
  OBVIOUS
<1>4. Value(Append(<<>>, c)) = 10 * Value(<<>>) + DigitOf(c)
  BY <1>1, ValueStep
<1>5. DigitOf(c) \in 0 .. 9
  BY DigitsAre
<1> QED
  BY <1>2, <1>3, <1>4, <1>5

LEMMA DecimalOfZero ==
  Decimal[0] = <<"0">>
<1>1. 0 \in Nat /\ 0 < 10 /\ 0 + 1 = 1
  OBVIOUS
<1>2. Decimal[0] = <<Digits[0 + 1]>>
  BY <1>1, DecimalStep, Zenon
<1>3. Digits[1] = "0"
  BY DEF Digits
<1> QED
  BY <1>1, <1>2, <1>3

(* %u: the digits of a number are worth the number, and the first of them  *)
(* is not 0 unless the number is.                                          *)
LEMMA DecimalIs ==
  ASSUME NEW n \in Nat
  PROVE  /\ Decimal[n] \in Seq(Numerals) /\ Len(Decimal[n]) \in Nat /\ Len(Decimal[n]) > 0
         /\ Value(Decimal[n]) = n
         /\ n > 0 => Decimal[n][1] # "0"
<1> DEFINE P(k) == /\ Decimal[k] \in Seq(Numerals) /\ Len(Decimal[k]) > 0
                   /\ Value(Decimal[k]) = k
                   /\ k > 0 => Decimal[k][1] # "0"
           N == {k \in Nat : \A j \in 0 .. k : P(j)}
<1>1. ASSUME NEW k \in Nat, \A j \in 0 .. k - 1 : P(j)
      PROVE  P(k)
  <2>1. CASE k < 10
    <3> DEFINE c == Digits[k + 1]
    <3>1. c \in Numerals /\ DigitOf(c) = k
      BY <2>1, LastDigit
    <3>2. Decimal[k] = <<c>>
      BY <2>1, DecimalStep
    <3> HIDE DEF c
    <3>3. <<c>> \in Seq(Numerals) /\ Len(<<c>>) = 1 /\ <<c>>[1] = c
      BY <3>1
    <3>4. Value(<<c>>) = k
      BY <3>1, ValueOfOne
    <3>5. k > 0 => c # "0"
      BY <3>1, DigitsAre
    <3> QED
      BY <3>2, <3>3, <3>4, <3>5
  <2>2. CASE ~ (k < 10)
    <3> DEFINE m == k \div 10
               c == Digits[(k % 10) + 1]
               d == Decimal[m]
    <3>1. /\ m \in Nat /\ m \in 0 .. k - 1 /\ m > 0 /\ k = 10 * m + (k % 10)
          /\ c \in Numerals /\ DigitOf(c) = k % 10
      BY <2>2, LastDigit
    <3>2. Decimal[k] = Append(d, c)
      BY <2>2, DecimalStep
    <3> HIDE DEF c
    <3>3. d \in Seq(Numerals) /\ Len(d) > 0 /\ Value(d) = m /\ d[1] # "0"
      <4> HIDE DEF m
      <4> QED
        BY <1>1, <3>1
    <3> HIDE DEF m, d
    <3>4. Value(Append(d, c)) = 10 * m + (k % 10)
      BY <3>1, <3>3, ValueStep
    <3>5. Len(d) \in Nat
      BY <3>3, LenProperties
    <3>6. /\ Append(d, c) \in Seq(Numerals) /\ Len(Append(d, c)) = Len(d) + 1
          /\ \A i \in 1 .. Len(d) : Append(d, c)[i] = d[i]
      BY <3>1, <3>3, AppendProperties
    <3> DEFINE q == Append(d, c)
    <3> HIDE DEF q
    <3>7. q \in Seq(Numerals) /\ Len(q) > 0 /\ Value(q) = k /\ q[1] # "0"
      BY <3>1, <3>3, <3>4, <3>5, <3>6 DEF q
    <3> QED
      BY <3>2, <3>7 DEF q
  <2> QED
    BY <2>1, <2>2
<1> HIDE DEF P
<1>2. 0 \in N
  BY <1>1
<1>3. ASSUME NEW k \in Nat, k \in N
      PROVE  k + 1 \in N
  <2>1. \A j \in 0 .. k : P(j)
    BY <1>3
  <2>2. P(k + 1)
    BY <1>1, <2>1
  <2> QED
    BY <2>1, <2>2
<1>4. Nat \subseteq N
  <2> HIDE DEF N
  <2> QED
    BY <1>2, <1>3, NatSetInduction
<1>5. P(n)
  BY <1>4
<1> QED
  BY <1>5, LenProperties DEF P

(* Digits that do not begin with 0 are those of the number they are worth. *)
LEMMA DecimalOfValue ==
  ASSUME NEW ds \in Seq(Numerals), ds # <<>>, ds[1] # "0"
  PROVE  Value(ds) \in Nat /\ Value(ds) > 0 /\ Decimal[Value(ds)] = ds
<1> DEFINE P(q) == Value(q) \in Nat /\ Value(q) > 0 /\ Decimal[Value(q)] = q
           N == {k \in Nat : \A q \in Seq(Numerals) : Len(q) = k + 1 /\ q[1] # "0" => P(q)}
<1>1. 0 \in N
  <2> SUFFICES ASSUME NEW q \in Seq(Numerals), Len(q) = 1, q[1] # "0"
               PROVE  P(q)
    OBVIOUS
  <2> DEFINE c == q[1]
  <2>1. c \in Numerals
    BY ElementOfSeq
  <2>2. q = <<c>>
    <3>1. <<c>> \in Seq(Numerals) /\ Len(<<c>>) = 1 /\ <<c>>[1] = c
      BY <2>1
    <3>2. \A i \in 1 .. Len(q) : q[i] = <<c>>[i]
      BY <3>1
    <3> QED
      BY ONLY <3>1, <3>2, q \in Seq(Numerals), Len(q) = 1, SeqEqual
  <2>3. /\ DigitOf(c) \in 0 .. 9 /\ DigitOf(c) # 0 /\ Digits[DigitOf(c) + 1] = c
    BY <2>1, DigitsAre
  <2> HIDE DEF c
  <2>4. Value(q) = DigitOf(c)
    BY <2>1, <2>2, ValueOfOne
  <2> DEFINE x == DigitOf(c)
  <2>5. x \in Nat /\ x < 10 /\ x > 0
    BY <2>3
  <2>6. Decimal[x] = <<Digits[x + 1]>>
    <3> HIDE DEF x
    <3> QED
      BY <2>5, DecimalStep
  <2> QED
    BY <2>2, <2>3, <2>4, <2>5, <2>6
<1>2. ASSUME NEW k \in Nat, k \in N
      PROVE  k + 1 \in N
  <2> SUFFICES ASSUME NEW q \in Seq(Numerals), Len(q) = k + 2, q[1] # "0"
               PROVE  P(q)
    OBVIOUS
  <2> DEFINE f == SubSeq(q, 1, k + 1)
             c == q[k + 2]
  <2>1. c \in Numerals
    BY ElementOfSeq
  <2>2. f \in Seq(Numerals) /\ Len(f) = k + 1 /\ \A j \in 1 .. k + 1 : f[j] = q[j]
    <3>1. k + 1 \in 0 .. Len(q)
      OBVIOUS
    <3> QED
      BY <3>1, UptoIs
  <2> HIDE DEF f, c
  <2>3. q = Append(f, c)
    <3>1. /\ Append(f, c) \in Seq(Numerals) /\ Len(Append(f, c)) = Len(f) + 1
          /\ \A i \in 1 .. Len(f) : Append(f, c)[i] = f[i]
          /\ Append(f, c)[Len(f) + 1] = c
      BY <2>1, <2>2, AppendProperties
    <3>2. \A i \in 1 .. Len(q) : q[i] = Append(f, c)[i]
      <4> TAKE i \in 1 .. Len(q)
      <4>1. i \in 1 .. k + 1 \/ i = (k + 1) + 1
        OBVIOUS
      <4>2. (k + 1) + 1 = k + 2 /\ c = q[k + 2]
        BY DEF c
      <4> QED
        BY <2>2, <3>1, <4>1, <4>2
    <3>3. Len(q) = Len(Append(f, c))
      BY <2>2, <3>1
    <3> QED
      BY <3>1, <3>2, <3>3, SeqEqual
  <2>4. P(f)
    <3>1. 1 \in 1 .. k + 1
      OBVIOUS
    <3> HIDE DEF P
    <3> QED
      BY <1>2, <2>2, <3>1
  <2>5. Value(q) = 10 * Value(f) + DigitOf(c)
    BY <2>1, <2>2, <2>3, ValueStep
  <2>6. DigitOf(c) \in 0 .. 9 /\ Digits[DigitOf(c) + 1] = c
    BY <2>1, DigitsAre
  <2> DEFINE x == Value(q)
             y == Value(f)
             z == DigitOf(c)
  <2>7. x = 10 * y + z /\ z \in 0 .. 9 /\ y \in Nat /\ y > 0
    BY <2>4, <2>5, <2>6
  <2> HIDE DEF x, y, z
  <2>8. x \in Nat /\ x >= 10 /\ x \div 10 = y /\ x % 10 = z
    BY <2>7
  <2>9. Decimal[x] = Append(Decimal[y], Digits[z + 1])
    <3>1. ~ (x < 10)
      BY <2>8
    <3>2. Decimal[x] = Append(Decimal[x \div 10], Digits[(x % 10) + 1])
      BY <2>8, <3>1, DecimalStep
    <3> QED
      BY <2>8, <3>2
  <2>10. Decimal[x] = q
    BY <2>3, <2>4, <2>6, <2>9 DEF y, z
  <2> QED
    BY <2>8, <2>10 DEF x
<1>3. Nat \subseteq N
  <2> HIDE DEF N
  <2> QED
    BY <1>1, <1>2, NatSetInduction
<1>4. Len(ds) \in Nat /\ Len(ds) > 0
  BY EmptySeq, LenProperties
<1>5. Len(ds) - 1 \in N /\ (Len(ds) - 1) + 1 = Len(ds)
  BY <1>3, <1>4
<1> HIDE DEF P
<1>6. P(ds)
  BY <1>5
<1> QED
  BY <1>6 DEF P

(* The characters of the name of a file, and of what else is in a path.    *)
NamePart == Numerals \cup {".", "S", "H", "Z", "/", "tmp"}
PathChars(S) == NamePart \cup S

LEMMA PaddedIs ==
  ASSUME NEW n \in Nat
  PROVE  LET d == Decimal[n]
             z == IF Len(d) >= Width THEN 0 ELSE Width - Len(d)
             p == Padded(n) IN
         /\ z \in Nat /\ p \in Seq(Numerals) /\ Len(p) = z + Len(d)
         /\ \A i \in 1 .. z : p[i] = "0"
         /\ \A i \in 1 .. Len(d) : p[z + i] = d[i]
<1> DEFINE d == Decimal[n]
           l == Len(d)
           z == IF l >= Width THEN 0 ELSE Width - l
           zeros == [i \in 1 .. z |-> "0"]
           p == Padded(n)
<1>1. d \in Seq(Numerals) /\ l \in Nat
  BY DecimalIs
<1>2. Width \in Nat
  BY NamesAssumption DEF NamesAssumption
<1>3. z \in Nat
  BY <1>1, <1>2
<1>4. /\ p = IF l >= Width THEN d ELSE zeros \o d
      /\ l >= Width => z = 0
  BY DEF Padded
<1> HIDE DEF d, z, p
<1> DEFINE Goal == /\ p \in Seq(Numerals) /\ Len(p) = z + l
                   /\ \A i \in 1 .. z : p[i] = "0"
                   /\ \A i \in 1 .. l : p[z + i] = d[i]
<1>5. ASSUME l >= Width
      PROVE  Goal
  <2>1. p = d /\ z = 0 /\ \A i \in 1 .. l : 0 + i = i
    BY <1>1, <1>4, <1>5
  <2> QED
    BY <1>1, <2>1
<1>6. ASSUME ~ (l >= Width)
      PROVE  Goal
  <2>1. p = zeros \o d
    BY <1>4, <1>6
  <2>2. zeros \in Seq(Numerals) /\ Len(zeros) = z /\ \A i \in 1 .. z : zeros[i] = "0"
    BY <1>3, DigitsAre
  <2> HIDE DEF zeros
  <2>3. /\ zeros \o d \in Seq(Numerals) /\ Len(zeros \o d) = z + l
        /\ \A i \in 1 .. z + l : (zeros \o d)[i] = IF i <= z THEN zeros[i] ELSE d[i - z]
    BY <1>1, <2>2, ConcatProperties
  <2>4. \A i \in 1 .. z : p[i] = "0"
    BY <1>1, <1>3, <2>1, <2>2, <2>3
  <2>5. \A i \in 1 .. l : p[z + i] = d[i]
    <3> TAKE i \in 1 .. l
    <3>1. z + i \in 1 .. z + l /\ ~ (z + i <= z) /\ (z + i) - z = i
      BY <1>1, <1>3
    <3> QED
      BY <2>1, <2>3, <3>1
  <2> QED
    BY <2>1, <2>3, <2>4, <2>5
<1>7. Goal
  BY <1>5, <1>6
<1> QED
  BY <1>3, <1>7 DEF d, z, p

(* What there is in the name of a file. *)
LEMMA FileNameIs ==
  ASSUME NEW e, NEW i \in Nat, NEW seq \in Int
  PROVE  FileName(e, i, seq) \in Seq(NamePart)
<1> DEFINE a == Padded(i)
           b == <<".">>
           c == ExchIdstr(e)
           d == IF seq < 0 THEN <<"tmp">> ELSE Decimal[seq]
<1>1. a \in Seq(NamePart)
  <2>1. a \in Seq(Numerals)
    BY PaddedIs
  <2> QED
    BY <2>1, SeqMonotonic DEF NamePart
<1>2. b \in Seq(NamePart)
  BY DEF NamePart
<1>3. c \in Seq(NamePart)
  <2>1. e = 1 \/ e # 1
    OBVIOUS
  <2>2. <<"S", "H">> \in Seq(NamePart) /\ <<"S", "Z">> \in Seq(NamePart)
    BY DEF NamePart
  <2> QED
    BY <2>1, <2>2 DEF ExchIdstr
<1>4. d \in Seq(NamePart)
  <2>1. CASE seq < 0
    <3>1. <<"tmp">> \in Seq(NamePart)
      BY DEF NamePart
    <3> QED
      BY <2>1, <3>1
  <2>2. CASE ~ (seq < 0)
    <3>1. seq \in Nat
      BY <2>2
    <3>2. Decimal[seq] \in Seq(Numerals)
      BY <3>1, DecimalIs
    <3>3. Decimal[seq] \in Seq(NamePart)
      BY <3>2, SeqMonotonic DEF NamePart
    <3> QED
      BY <2>2, <3>3
  <2> QED
    BY <2>1, <2>2
<1>5. FileName(e, i, seq) = (((a \o b) \o c) \o b) \o d
  BY DEF FileName
<1> HIDE DEF a, b, c, d
<1>6. a \o b \in Seq(NamePart)
  BY <1>1, <1>2, ConcatProperties
<1>7. (a \o b) \o c \in Seq(NamePart)
  BY <1>3, <1>6, ConcatProperties
<1>8. ((a \o b) \o c) \o b \in Seq(NamePart)
  BY <1>2, <1>7, ConcatProperties
<1>9. (((a \o b) \o c) \o b) \o d \in Seq(NamePart)
  BY <1>4, <1>8, ConcatProperties
<1> QED
  BY <1>5, <1>9

(* What mds_file_open takes for the name of the file has a slash: that in  *)
(* front of the date is after every backslash.                             *)
LEMMA PathHasSlash ==
  ASSUME NEW S, NEW dir \in Seq(S),
         NEW date \in Nat, NEW e, NEW i \in Nat, NEW seq \in Int
  PROVE  LET s == NameIn(Path(dir, date, e, i, seq)) IN
         s \in Seq(PathChars(S)) /\ \E p \in 1 .. Len(s) : s[p] = "/"
<1> DEFINE b == <<"/">>
           d == Decimal[date]
           f == FileName(e, i, seq)
           t == d \o (b \o f)
           tail == b \o t
           path == dir \o tail
           m == LastOf(path, "backslash")
           s == From(path, m + 1)
<1>0. dir \in Seq(PathChars(S))
  BY SeqMonotonic DEF PathChars
<1>1. b \in Seq(NamePart) /\ Len(b) = 1 /\ b[1] = "/"
  BY DEF NamePart
<1>2. d \in Seq(NamePart) /\ f \in Seq(NamePart)
  <2>1. d \in Seq(Numerals)
    BY DecimalIs
  <2> QED
    BY <2>1, FileNameIs, SeqMonotonic DEF NamePart
<1> HIDE DEF b, d, f
<1>3. b \o f \in Seq(NamePart)
  BY <1>1, <1>2, ConcatProperties
<1>4. t \in Seq(NamePart)
  BY <1>2, <1>3, ConcatProperties
<1>5. Path(dir, date, e, i, seq) = path
  <2>1. Path(dir, date, e, i, seq) = (((dir \o b) \o d) \o b) \o f
    BY DEF Path, b, d, f
  <2> DEFINE T == PathChars(S)
  <2>2. NamePart \subseteq PathChars(S)
    BY DEF PathChars
  <2>3. b \in Seq(T) /\ d \in Seq(T) /\ f \in Seq(T) /\ dir \in Seq(T)
    BY <1>0, <1>1, <1>2, <2>2, SeqMonotonic
  <2> HIDE DEF T
  <2>4. /\ dir \o b \in Seq(T) /\ b \o f \in Seq(T) /\ b \o d \in Seq(T)
        /\ d \o (b \o f) \in Seq(T) /\ (dir \o b) \o d \in Seq(T)
    <3>1. dir \o b \in Seq(T) /\ b \o f \in Seq(T) /\ b \o d \in Seq(T)
      BY ONLY <2>3, ConcatProperties
    <3>2. d \o (b \o f) \in Seq(T) /\ (dir \o b) \o d \in Seq(T)
      BY ONLY <2>3, <3>1, ConcatProperties
    <3> QED
      BY <3>1, <3>2
  <2>5. (((dir \o b) \o d) \o b) \o f = ((dir \o b) \o d) \o (b \o f)
    BY ONLY <2>3, <2>4, ConcatAssociative
  <2>6. ((dir \o b) \o d) \o (b \o f) = (dir \o b) \o (d \o (b \o f))
    <3> DEFINE x == dir \o b
               y == b \o f
    <3>1. x \in Seq(T) /\ d \in Seq(T) /\ y \in Seq(T)
      BY <2>3, <2>4
    <3> HIDE DEF x, y
    <3>2. (x \o d) \o y = x \o (d \o y)
      BY ONLY <3>1, ConcatAssociative
    <3> QED
      BY <3>2 DEF x, y
  <2>7. (dir \o b) \o (d \o (b \o f)) = dir \o (b \o (d \o (b \o f)))
    BY ONLY <2>3, <2>4, ConcatAssociative
  <2> QED
    BY <2>1, <2>5, <2>6, <2>7
<1> HIDE DEF t
<1>6. tail \in Seq(NamePart) /\ tail[1] = "/" /\ Len(tail) \in Nat /\ Len(tail) >= 1
  <2>1. /\ tail \in Seq(NamePart) /\ Len(tail) = 1 + Len(t)
        /\ \A j \in 1 .. 1 + Len(t) : tail[j] = IF j <= 1 THEN b[j] ELSE t[j - 1]
    BY <1>1, <1>4, ConcatProperties
  <2>2. Len(t) \in Nat
    BY <1>4, LenProperties
  <2> HIDE DEF tail
  <2> QED
    BY <1>1, <2>1, <2>2
<1> HIDE DEF tail
<1>7. \A j \in 1 .. Len(tail) : tail[j] # "backslash"
  <2>1. "backslash" \notin NamePart
    <3>1. "backslash" \notin Numerals
      BY DigitsAre
    <3> QED
      BY <3>1 DEF NamePart
  <2> QED
    BY <1>6, <2>1, ElementOfSeq
<1> DEFINE l == Len(dir)
<1>8. /\ path \in Seq(PathChars(S)) /\ Len(path) = l + Len(tail)
      /\ \A j \in 1 .. l + Len(tail) : path[j] = IF j <= l THEN dir[j] ELSE tail[j - l]
      /\ l \in Nat
  <2>1. tail \in Seq(PathChars(S))
    BY <1>6, SeqMonotonic DEF PathChars
  <2> QED
    BY <1>0, <2>1, ConcatProperties, LenProperties
<1> HIDE DEF path, l
<1>9. Len(path) \in Nat /\ path[l + 1] = "/" /\ l + 1 \in 1 .. Len(path)
  <2>1. l + 1 \in 1 .. l + Len(tail) /\ ~ (l + 1 <= l) /\ (l + 1) - l = 1
    BY <1>6, <1>8
  <2> QED
    BY <1>6, <1>8, <2>1
<1>10. m \in 0 .. l
  <2>1. m \in 0 .. Len(path) /\ (m > 0 => path[m] = "backslash")
    BY <1>9, LastOfIs
  <2> HIDE DEF m
  <2> SUFFICES ASSUME m > l
               PROVE  FALSE
    BY <1>6, <1>8, <2>1
  <2>2. m \in 1 .. l + Len(tail) /\ ~ (m <= l) /\ m - l \in 1 .. Len(tail) /\ m > 0
    BY <1>6, <1>8, <2>1
  <2>3. path[m] = tail[m - l]
    BY <1>8, <2>2
  <2> QED
    BY <1>7, <2>1, <2>2, <2>3
<1> HIDE DEF m
<1>11. /\ m + 1 \in 1 .. Len(path) + 1 /\ l + 1 - m \in 1 .. Len(path) - (m + 1) + 1
       /\ (m + 1) + (l + 1 - m) - 1 = l + 1
  BY <1>8, <1>9, <1>10
<1>12. /\ s \in Seq(PathChars(S)) /\ Len(s) = Len(path) - (m + 1) + 1
       /\ \A j \in 1 .. Len(path) - (m + 1) + 1 : s[j] = path[(m + 1) + j - 1]
  BY <1>8, <1>11, FromIs
<1>13. NameIn(Path(dir, date, e, i, seq)) = s
  BY <1>5 DEF NameIn, m
<1> HIDE DEF s
<1>14. s[l + 1 - m] = "/" /\ l + 1 - m \in 1 .. Len(s)
  BY <1>9, <1>11, <1>12
<1> QED
  BY <1>12, <1>13, <1>14

(* The names of the runs. *)
LEMMA InputIsName ==
  ASSUME PickFile
  PROVE  /\ input'.part = "file"
         /\ input'.exch \in {1, 2} /\ input'.instr \in {0, 7, 12, 99}
         /\ input'.seq \in {-1, 0, 10}
BY DEF PickFile, Instruments

LEMMA NotAName ==
  ASSUME PickBatch \/ PickChange \/ PickCut \/ PickTopic \/ PickWait \/ PickInfinite \/ PickLists
  PROVE  input'.part # "file"
  BY DEF PickBatch, PickChange, PickCut, PickTopic, PickWait, PickInfinite, PickLists

(* file.c:234, data.h:114: whatever the directory, the date, the topic and *)
(* the number, mds_file_open refuses the path that _format_tmpfile and     *)
(* _format_seqfile make of them: what it takes for the name has a slash.   *)
THEOREM NoPathIsTaken ==
  ASSUME NEW S, NEW dir \in Seq(S),
         NEW date \in Nat, NEW e \in {1, 2}, NEW i \in Nat, NEW seq \in Int
  PROVE  ~ ParseFileName(NameIn(Path(dir, date, e, i, seq))).ok
<1> DEFINE s == NameIn(Path(dir, date, e, i, seq))
<1>1. s \in Seq(PathChars(S)) /\ \E p \in 1 .. Len(s) : s[p] = "/"
  BY PathHasSlash
<1> HIDE DEF s
<1>2. ~ ParseFileName(s).ok
  BY <1>1, SlashIsRefused
<1> QED
  BY <1>2 DEF s

(* What sscanf makes of a text without a blank and a sign. *)
Plain(s) == \A i \in 1 .. Len(s) : s[i] \notin {"+", "-"} /\ s[i] # " "

LEMMA PlainScan ==
  ASSUME NEW S, NEW s \in Seq(S), Plain(s)
  PROVE  Scanned(s) = IF s = <<>> \/ \E i \in 1 .. Len(s) : ~ IsDigit(s[i]) THEN Bad
                      ELSE [ok |-> TRUE, v |-> Value(s)]
<1> DEFINE blank == " "
           n == Leading(s, blank)
           text == From(s, n + 1)
           signed == text # <<>> /\ text[1] \in {"+", "-"}
           ds == IF signed THEN Tail(text) ELSE text
<1>1. Len(s) \in Nat /\ DOMAIN s = 1 .. Len(s) /\ (s # <<>> => Len(s) > 0)
  BY EmptySeq, LenProperties
<1>2. Len(s) > 0 => s[1] # blank /\ s[1] \notin {"+", "-"}
  <2>1. Len(s) > 0 => 1 \in 1 .. Len(s)
    BY <1>1
  <2> QED
    BY <2>1, Zenon DEF Plain
<1>3. s = <<>> => Len(s) = 0
  BY EmptySeq
<1> HIDE DEF blank
<1>4. n = 0
  <2>1. 0 \in 0 .. Len(s) /\ (0 = Len(s) \/ s[0 + 1] # blank)
    BY <1>1, <1>2
  <2> QED
    BY <1>1, <2>1, LeadingIsThat
<1> HIDE DEF n
<1>5. text = s
  <2>1. n + 1 = 1
    BY <1>4
  <2> QED
    BY <2>1, SubSeqFull DEF From
<1> HIDE DEF text
<1>6. ~ signed
  BY <1>1, <1>2, <1>5
<1>7. ds = s
  BY <1>5, <1>6
<1>8. Scanned(s) = IF ds = <<>> \/ \E i \in DOMAIN ds : ~ IsDigit(ds[i]) THEN Bad
                   ELSE IF signed /\ text[1] = "-" /\ Value(ds) > 0 THEN Bad
                   ELSE [ok |-> TRUE, v |-> Value(ds)]
  BY Zenon DEF Scanned, text, n, blank
<1> HIDE DEF ds, signed
<1> QED
  BY <1>1, <1>6, <1>7, <1>8, Zenon

LEMMA DigitsScan ==
  ASSUME NEW ds \in Seq(Numerals), ds # <<>>
  PROVE  Scanned(ds) = [ok |-> TRUE, v |-> Value(ds)]
<1>1. \A i \in 1 .. Len(ds) : ds[i] \in Numerals
  BY ElementOfSeq
<1>2. Plain(ds)
  BY <1>1, DigitsAre, NoDigitIsBlank DEF Plain
<1>3. \A i \in 1 .. Len(ds) : IsDigit(ds[i])
  BY <1>1, DigitsAre
<1> QED
  BY <1>2, <1>3, PlainScan

(* %06u, and the way back. *)
LEMMA PaddedScales ==
  ASSUME NEW n \in Nat
  PROVE  Scaled(Padded(n)) = [ok |-> TRUE, v |-> n]
<1> DEFINE d == Decimal[n]
           z == IF Len(d) >= Width THEN 0 ELSE Width - Len(d)
           p == Padded(n)
           k == Leading(p, "0")
           rest == From(p, k + 1)
<1>1. /\ z \in Nat /\ p \in Seq(Numerals) /\ Len(p) = z + Len(d)
      /\ \A i \in 1 .. z : p[i] = "0"
      /\ \A i \in 1 .. Len(d) : p[z + i] = d[i]
  BY PaddedIs
<1>2. /\ d \in Seq(Numerals) /\ Len(d) \in Nat /\ Len(d) > 0
      /\ Value(d) = n
      /\ n > 0 => d[1] # "0"
  BY DecimalIs
<1>3. n = 0 => Len(d) = 1 /\ d[1] = "0"
  <2>1. Len(<<"0">>) = 1 /\ <<"0">>[1] = "0"
    OBVIOUS
  <2> QED
    BY <2>1, DecimalOfZero
<1>4. Scaled(p) = IF rest = <<>> THEN [ok |-> TRUE, v |-> 0] ELSE Scanned(rest)
  BY DEF Scaled
<1>5. Len(p) \in Nat
  BY <1>1, LenProperties
<1> HIDE DEF d, z, p
<1>6. CASE n = 0
  <2>1. \A i \in 1 .. Len(p) : p[i] = "0"
    <3> TAKE i \in 1 .. Len(p)
    <3>1. Len(p) = z + 1 /\ z \in Nat
      BY <1>1, <1>3, <1>6
    <3>2. (i \in 1 .. z \/ i = z + 1) /\ 1 \in 1 .. Len(d)
      BY <1>3, <1>6, <3>1
    <3> QED
      BY <1>1, <1>3, <1>6, <3>2
  <2>2. k = Len(p)
    <3>1. Len(p) \in 0 .. Len(p)
      BY <1>5
    <3> QED
      BY <1>5, <2>1, <3>1, LeadingIsThat
  <2> HIDE DEF k
  <2>3. Len(p) + 1 \in Int /\ Len(p) \in Int /\ Len(p) < Len(p) + 1
    BY <1>5
  <2>4. rest = <<>>
    BY <2>2, <2>3, SubSeqEmpty DEF From
  <2> QED
    BY <1>4, <1>6, <2>4 DEF p
<1>7. CASE n > 0
  <2>1. z \in 0 .. Len(p) /\ p[z + 1] # "0"
    <3>1. 1 \in 1 .. Len(d)
      BY <1>2
    <3>2. p[z + 1] = d[1]
      BY <1>1, <3>1
    <3> QED
      BY <1>1, <1>2, <1>7, <3>2
  <2>2. k = z
    BY <1>1, <1>5, <2>1, LeadingIsThat
  <2> HIDE DEF k
  <2>3. /\ z + 1 \in 1 .. Len(p) + 1 /\ Len(p) - (z + 1) + 1 = Len(d)
        /\ \A j \in 1 .. Len(d) : (z + 1) + j - 1 = z + j
    BY <1>1, <1>2
  <2>4. /\ rest \in Seq(Numerals) /\ Len(rest) = Len(p) - (z + 1) + 1
        /\ \A j \in 1 .. Len(p) - (z + 1) + 1 : rest[j] = p[(z + 1) + j - 1]
    BY <1>1, <2>2, <2>3, FromIs
  <2> HIDE DEF rest
  <2>5. Len(rest) = Len(d) /\ \A j \in 1 .. Len(rest) : rest[j] = d[j]
    <3>1. \A j \in 1 .. Len(d) : rest[j] = p[z + j]
      BY <2>3, <2>4
    <3> QED
      BY <1>1, <2>3, <2>4, <3>1
  <2>6. rest = d
    BY <1>2, <2>4, <2>5, SeqEqual
  <2>7. d # <<>>
    BY <1>2, EmptySeq
  <2>8. Scanned(d) = [ok |-> TRUE, v |-> n]
    BY <1>2, <2>7, DigitsScan
  <2> QED
    BY <1>4, <2>6, <2>7, <2>8 DEF p
<1> QED
  BY <1>6, <1>7

LEMMA ScaledIsPadded ==
  ASSUME NEW S, NEW s \in Seq(S), Len(s) = Width, Plain(s), Scaled(s).ok
  PROVE  Scaled(s).v \in Nat /\ Padded(Scaled(s).v) = s
<1> DEFINE k == Leading(s, "0")
           rest == From(s, k + 1)
           v == Scaled(s).v
<1>1. Len(s) \in Nat /\ Len(s) > 0 /\ Width \in Nat
  BY NamesAssumption, LenProperties DEF NamesAssumption
<1>2. /\ k \in 0 .. Len(s) /\ \A i \in 1 .. k : s[i] = "0"
      /\ k = Len(s) \/ s[k + 1] # "0"
  BY <1>1, LeadingIs
<1> HIDE DEF k
<1>3. /\ rest \in Seq(S) /\ Len(rest) = Len(s) - k
      /\ \A j \in 1 .. Len(s) - k : rest[j] = s[k + j]
  <2>1. /\ k + 1 \in 1 .. Len(s) + 1 /\ Len(s) - (k + 1) + 1 = Len(s) - k
        /\ \A j \in 1 .. Len(s) - k : (k + 1) + j - 1 = k + j
    BY <1>1, <1>2
  <2>2. /\ rest \in Seq(S) /\ Len(rest) = Len(s) - (k + 1) + 1
        /\ \A j \in 1 .. Len(s) - (k + 1) + 1 : rest[j] = s[(k + 1) + j - 1]
    BY <2>1, FromIs
  <2> HIDE DEF rest
  <2> QED
    BY <2>1, <2>2
<1>4. Scaled(s) = IF rest = <<>> THEN [ok |-> TRUE, v |-> 0] ELSE Scanned(rest)
  BY DEF Scaled, k
<1> HIDE DEF rest
<1> DEFINE T == S \cup Numerals
           d == Decimal[v]
           z == IF Len(d) >= Width THEN 0 ELSE Width - Len(d)
           p == Padded(v)
<1>5. v \in Nat =>
        /\ z \in Nat /\ p \in Seq(Numerals) /\ Len(p) = z + Len(d)
        /\ \A i \in 1 .. z : p[i] = "0"
        /\ \A i \in 1 .. Len(d) : p[z + i] = d[i]
        /\ d \in Seq(Numerals) /\ Len(d) \in Nat
  BY PaddedIs, DecimalIs
<1>6. s \in Seq(T) /\ Seq(Numerals) \subseteq Seq(T)
  BY SeqMonotonic
<1> HIDE DEF T
<1>7. ASSUME v \in Nat, Len(p) = Len(s), \A i \in 1 .. Len(s) : p[i] = s[i]
      PROVE  p = s
  BY <1>5, <1>6, <1>7, SeqEqual
<1>8. CASE rest = <<>>
  <2>1. v = 0
    BY <1>4, <1>8
  <2>2. d = <<"0">>
    BY <2>1, DecimalOfZero
  <2>3. Len(d) = 1 /\ d[1] = "0"
    BY <2>2
  <2>4. z = Width - 1
    BY <1>1, <2>3
  <2>5. k = Len(s)
    <3>1. Len(rest) = 0
      BY <1>8, EmptySeq
    <3> QED
      BY <1>1, <1>2, <1>3, <3>1
  <2> HIDE DEF v, d, z, p
  <2>6. Len(p) = Len(s)
    BY <1>1, <1>5, <2>1, <2>3, <2>4
  <2>7. \A i \in 1 .. Len(s) : p[i] = s[i]
    <3> TAKE i \in 1 .. Len(s)
    <3>1. i \in 1 .. z \/ i = z + 1
      BY <1>1, <2>4
    <3>2. 1 \in 1 .. Len(d)
      BY <2>3
    <3>3. p[i] = "0"
      BY <1>5, <2>1, <2>3, <3>1, <3>2
    <3> QED
      BY <1>2, <2>5, <3>3
  <2>8. v \in Nat
    BY <2>1
  <2>9. p = s
    BY <1>7, <2>6, <2>7, <2>8
  <2> QED
    BY <2>8, <2>9 DEF v, p
<1>9. CASE rest # <<>>
  <2>1. Plain(rest)
    <3>1. \A j \in 1 .. Len(rest) : k + j \in 1 .. Len(s) /\ rest[j] = s[k + j]
      BY <1>1, <1>2, <1>3
    <3> QED
      BY <3>1, Zenon DEF Plain
  <2>2. /\ \A i \in 1 .. Len(rest) : IsDigit(rest[i])
        /\ Scanned(rest) = [ok |-> TRUE, v |-> Value(rest)]
    <3>1. Scanned(rest) = IF rest = <<>> \/ \E i \in 1 .. Len(rest) : ~ IsDigit(rest[i]) THEN Bad
                          ELSE [ok |-> TRUE, v |-> Value(rest)]
      BY <1>3, <2>1, PlainScan
    <3>2. Scanned(rest).ok
      BY <1>4, <1>9
    <3>3. ~ Bad.ok
      BY DEF Bad
    <3> QED
      BY <1>9, <3>1, <3>2, <3>3
  <2>3. rest \in Seq(Numerals)
    <3>1. \A i \in 1 .. Len(rest) : rest[i] \in Numerals
      BY <2>2, DigitsAre
    <3>2. rest = [i \in 1 .. Len(rest) |-> rest[i]] /\ Len(rest) \in Nat
      BY <1>3, LenProperties
    <3> QED
      BY <3>1, <3>2
  <2>4. k < Len(s) /\ Len(rest) > 0
    <3>1. Len(rest) > 0
      BY <1>9, <2>3, EmptySeq
    <3> QED
      BY <1>1, <1>2, <1>3, <3>1
  <2>5. rest[1] # "0"
    <3>1. 1 \in 1 .. Len(s) - k /\ k # Len(s)
      BY <1>1, <1>2, <2>4
    <3> QED
      BY <1>2, <1>3, <3>1
  <2>6. v \in Nat /\ d = rest
    <3>1. v = Value(rest)
      BY <1>4, <1>9, <2>2
    <3> QED
      BY <1>9, <2>3, <2>5, <3>1, DecimalOfValue
  <2>7. z = k
    BY <1>1, <1>2, <1>3, <2>4, <2>6
  <2> HIDE DEF v, d, z, p
  <2>8. Len(p) = Len(s)
    BY <1>1, <1>2, <1>3, <1>5, <2>6, <2>7
  <2>9. \A i \in 1 .. Len(s) : p[i] = s[i]
    <3> TAKE i \in 1 .. Len(s)
    <3>1. CASE i <= k
      <4>1. i \in 1 .. k
        BY <3>1
      <4> QED
        BY <1>2, <1>5, <2>6, <2>7, <4>1
    <3>2. CASE ~ (i <= k)
      <4> DEFINE j == i - k
      <4>1. j \in 1 .. Len(d) /\ j \in 1 .. Len(s) - k /\ k + j = i
        BY <1>1, <1>2, <1>3, <2>6, <3>2
      <4> HIDE DEF j
      <4>2. p[z + j] = d[j] /\ rest[j] = s[k + j]
        BY <1>3, <1>5, <2>6, <4>1
      <4> QED
        BY <2>6, <2>7, <4>1, <4>2
    <3> QED
      BY <3>1, <3>2
  <2>10. p = s
    BY <1>7, <2>6, <2>8, <2>9
  <2> QED
    BY <2>6, <2>10 DEF v, p
<1> QED
  BY <1>8, <1>9

(* A text, a dot and another text. *)
LEMMA SplitAtDot ==
  ASSUME NEW S, "." \in S, NEW a \in Seq(S), NEW x \in Seq(S),
         \A i \in 1 .. Len(a) : a[i] # "."
  PROVE  LET s == (a \o <<".">>) \o x IN
         /\ s \in Seq(S) /\ Len(s) = Len(a) + 1 + Len(x) /\ Len(a) \in Nat
         /\ FirstOf(s, ".") = Len(a) + 1
         /\ SubSeq(s, 1, (Len(a) + 1) - 1) = a
         /\ From(s, (Len(a) + 1) + 1) = x
         /\ \A i \in 1 .. Len(a) : s[i] = a[i]
         /\ s[Len(a) + 1] = "."
         /\ \A i \in 1 .. Len(x) : s[Len(a) + 1 + i] = x[i]
<1> DEFINE l == Len(a)
           m == Len(x)
           b == <<".">>
           ab == a \o b
           s == ab \o x
<1>1. l \in Nat /\ m \in Nat
  BY LenProperties
<1>2. b \in Seq(S) /\ Len(b) = 1 /\ b[1] = "."
  OBVIOUS
<1> HIDE DEF b
<1>3. /\ ab \in Seq(S) /\ Len(ab) = l + 1
      /\ \A i \in 1 .. l + 1 : ab[i] = IF i <= l THEN a[i] ELSE b[i - l]
  <2>1. a \in Seq(S)
    OBVIOUS
  <2>2. b \in Seq(S)
    BY <1>2
  <2>3. /\ a \o b \in Seq(S) /\ Len(a \o b) = Len(a) + Len(b)
        /\ \A i \in 1 .. Len(a) + Len(b) :
             (a \o b)[i] = IF i <= Len(a) THEN a[i] ELSE b[i - Len(a)]
    BY ONLY <2>1, <2>2, ConcatProperties
  <2> QED
    BY <1>2, <2>3
<1> HIDE DEF ab
<1>4. /\ s \in Seq(S) /\ Len(s) = (l + 1) + m
      /\ \A i \in 1 .. (l + 1) + m : s[i] = IF i <= l + 1 THEN ab[i] ELSE x[i - (l + 1)]
  <2>1. ab \in Seq(S)
    BY <1>3
  <2>2. x \in Seq(S)
    OBVIOUS
  <2>3. /\ ab \o x \in Seq(S) /\ Len(ab \o x) = Len(ab) + Len(x)
        /\ \A i \in 1 .. Len(ab) + Len(x) :
             (ab \o x)[i] = IF i <= Len(ab) THEN ab[i] ELSE x[i - Len(ab)]
    BY ONLY <2>1, <2>2, ConcatProperties
  <2> QED
    BY <1>3, <2>3
<1> HIDE DEF s, l, m
<1>5. \A i \in 1 .. l : s[i] = a[i]
  <2> TAKE i \in 1 .. l
  <2>1. i \in 1 .. l + 1 /\ i \in 1 .. (l + 1) + m /\ i <= l /\ i <= l + 1
    BY <1>1
  <2> QED
    BY <1>3, <1>4, <2>1
<1>6. s[l + 1] = "."
  <2>1. l + 1 \in 1 .. l + 1 /\ l + 1 \in 1 .. (l + 1) + m /\ ~ (l + 1 <= l) /\ (l + 1) - l = 1
    BY <1>1
  <2> QED
    BY <1>2, <1>3, <1>4, <2>1
<1>7. \A i \in 1 .. m : s[l + 1 + i] = x[i]
  <2> TAKE i \in 1 .. m
  <2>1. l + 1 + i \in 1 .. (l + 1) + m /\ ~ (l + 1 + i <= l + 1) /\ (l + 1 + i) - (l + 1) = i
    BY <1>1
  <2> QED
    BY <1>4, <2>1
<1>8. FirstOf(s, ".") = l + 1
  <2>1. l + 1 \in 1 .. Len(s) /\ \A i \in 1 .. (l + 1) - 1 : i \in 1 .. l
    BY <1>1, <1>4
  <2>2. \A i \in 1 .. (l + 1) - 1 : s[i] # "."
    BY <1>5, <2>1 DEF l
  <2>3. Len(s) \in Nat
    BY <1>1, <1>4
  <2> QED
    BY <1>6, <2>1, <2>2, <2>3, FirstIs
<1>9. SubSeq(s, 1, (l + 1) - 1) = a
  <2>1. (l + 1) - 1 = l /\ l \in 0 .. Len(s)
    BY <1>1, <1>4
  <2> DEFINE q == SubSeq(s, 1, l)
  <2>2. q \in Seq(S) /\ Len(q) = l /\ \A j \in 1 .. l : q[j] = s[j]
    BY <1>4, <2>1, UptoIs
  <2> HIDE DEF q
  <2>3. \A j \in 1 .. Len(q) : q[j] = a[j]
    BY <1>5, <2>2
  <2>4. q = a
    BY <2>2, <2>3, SeqEqual DEF l
  <2> QED
    BY <2>1, <2>4 DEF q
<1>10. From(s, (l + 1) + 1) = x
  <2> DEFINE q == From(s, (l + 1) + 1)
  <2>1. /\ (l + 1) + 1 \in 1 .. Len(s) + 1 /\ Len(s) - ((l + 1) + 1) + 1 = m
        /\ \A j \in 1 .. m : ((l + 1) + 1) + j - 1 = l + 1 + j
    BY <1>1, <1>4
  <2>2. /\ q \in Seq(S) /\ Len(q) = Len(s) - ((l + 1) + 1) + 1
        /\ \A j \in 1 .. Len(s) - ((l + 1) + 1) + 1 : q[j] = s[((l + 1) + 1) + j - 1]
    BY <1>4, <2>1, FromIs
  <2> HIDE DEF q
  <2>3. Len(q) = m /\ \A j \in 1 .. Len(q) : q[j] = x[j]
    BY <1>7, <2>1, <2>2
  <2>4. q = x
    BY <2>2, <2>3, SeqEqual DEF m
  <2> QED
    BY <2>4 DEF q
<1>11. /\ s \in Seq(S) /\ Len(s) = l + 1 + m /\ l \in Nat
       /\ FirstOf(s, ".") = l + 1
       /\ SubSeq(s, 1, (l + 1) - 1) = a
       /\ From(s, (l + 1) + 1) = x
       /\ \A i \in 1 .. l : s[i] = a[i]
       /\ s[l + 1] = "."
       /\ \A i \in 1 .. m : s[l + 1 + i] = x[i]
  BY <1>1, <1>4, <1>5, <1>6, <1>7, <1>8, <1>9, <1>10
<1> QED
  BY <1>11 DEF s, ab, b, l, m

(* exchIdstr. *)
LEMMA MarketIs ==
  /\ \A e \in {1, 2} : Market(ExchIdstr(e)) = e
  /\ \A s : Market(s) # 0 => Market(s) \in {1, 2} /\ s = ExchIdstr(Market(s))
  /\ \A e : /\ ExchIdstr(e) \in Seq(NamePart) /\ Len(ExchIdstr(e)) = 2
            /\ \A i \in 1 .. 2 : ExchIdstr(e)[i] # "."
<1> DEFINE H == <<"S", "H">>
           Z == <<"S", "Z">>
<1>1. H # Z
  <2>1. H[2] = "H" /\ Z[2] = "Z"
    OBVIOUS
  <2> QED
    BY <2>1
<1>2. \A s : Market(s) = IF s = H THEN 1 ELSE IF s = Z THEN 2 ELSE 0
  <2> TAKE s
  <2>1. CASE s = H
    BY <1>1, <2>1 DEF Market
  <2>2. CASE s = Z
    BY <1>1, <2>2 DEF Market
  <2>3. CASE s # H /\ s # Z
    BY <2>3 DEF Market
  <2> QED
    BY <1>1, <2>1, <2>2, <2>3
<1>3. ExchIdstr(1) = H /\ \A e : e # 1 => ExchIdstr(e) = Z
  BY DEF ExchIdstr
<1>4. /\ H \in Seq(NamePart) /\ Len(H) = 2 /\ Z \in Seq(NamePart) /\ Len(Z) = 2
      /\ \A i \in 1 .. 2 : H[i] # "." /\ Z[i] # "."
  <2>1. H \in Seq(NamePart) /\ Len(H) = 2 /\ Z \in Seq(NamePart) /\ Len(Z) = 2
    BY DEF NamePart
  <2>2. H[1] = "S" /\ H[2] = "H" /\ Z[1] = "S" /\ Z[2] = "Z"
    OBVIOUS
  <2>3. \A i \in 1 .. 2 : i = 1 \/ i = 2
    OBVIOUS
  <2> HIDE DEF H, Z
  <2> QED
    BY <2>1, <2>2, <2>3
<1> HIDE DEF H, Z
<1>5. \A e \in {1, 2} : Market(ExchIdstr(e)) = e
  BY <1>1, <1>2, <1>3
<1>6. \A s : Market(s) # 0 => Market(s) \in {1, 2} /\ s = ExchIdstr(Market(s))
  BY <1>1, <1>2, <1>3
<1>7. \A e : /\ ExchIdstr(e) \in Seq(NamePart) /\ Len(ExchIdstr(e)) = 2
             /\ \A i \in 1 .. 2 : ExchIdstr(e)[i] # "."
  <2> TAKE e
  <2>1. ExchIdstr(e) = H \/ ExchIdstr(e) = Z
    BY <1>3
  <2> QED
    BY <1>4, <2>1
<1> QED
  BY <1>5, <1>6, <1>7

(* data.h:111-121: the topic of an instrument whose number has no more     *)
(* than Width digits is parsed as that market and that instrument.         *)
THEOREM TopicsParse ==
  ASSUME NEW e \in {1, 2}, NEW i \in Nat, Len(Decimal[i]) <= Width
  PROVE  ParseTopic(Topic(e, i)) = [ok |-> TRUE, exch |-> e, instr |-> i]
<1> DEFINE p == Padded(i)
           x == ExchIdstr(e)
           s == (p \o <<".">>) \o x
           dot == FirstOf(s, ".")
           nr == Scaled(SubSeq(s, 1, dot - 1))
           m == Market(From(s, dot + 1))
           S == NamePart
<1>1. p \in Seq(Numerals) /\ Len(p) = Width /\ Width \in Nat /\ Width > 0
  <2>1. Len(Decimal[i]) \in Nat /\ Width \in Nat /\ Width > 0
    BY DecimalIs, NamesAssumption DEF NamesAssumption
  <2>2. /\ p \in Seq(Numerals)
        /\ Len(p) = (IF Len(Decimal[i]) >= Width THEN 0 ELSE Width - Len(Decimal[i]))
                      + Len(Decimal[i])
    BY PaddedIs
  <2> DEFINE d == Len(Decimal[i])
             l == Len(p)
  <2>3. d \in Nat /\ d <= Width /\ l = (IF d >= Width THEN 0 ELSE Width - d) + d
    BY <2>1, <2>2
  <2> HIDE DEF d, l
  <2>4. l = Width
    BY <2>1, <2>3
  <2> QED
    BY <2>1, <2>2, <2>4 DEF l
<1>2. /\ p \in Seq(S) /\ x \in Seq(S) /\ Len(x) = 2 /\ "." \in S
      /\ \A j \in 1 .. Len(p) : p[j] # "."
  <2>1. p \in Seq(S)
    BY <1>1, SeqMonotonic DEF NamePart
  <2>2. \A j \in 1 .. Len(p) : p[j] \in Numerals
    BY <1>1, ElementOfSeq
  <2>3. \A j \in 1 .. Len(p) : p[j] # "."
    BY <2>2, DigitsAre
  <2> QED
    BY <2>1, <2>3, MarketIs DEF NamePart
<1> HIDE DEF S
<1>3. Market(x) = e
  BY MarketIs
<1>4. Scaled(p) = [ok |-> TRUE, v |-> i]
  BY PaddedScales
<1> HIDE DEF p, x
<1>5. /\ s \in Seq(S) /\ Len(s) = Width + 1 + 2
      /\ dot = Width + 1
      /\ SubSeq(s, 1, (Width + 1) - 1) = p
      /\ From(s, (Width + 1) + 1) = x
  <2>1. /\ s \in Seq(S) /\ Len(s) = Len(p) + 1 + Len(x)
        /\ dot = Len(p) + 1
        /\ SubSeq(s, 1, (Len(p) + 1) - 1) = p
        /\ From(s, (Len(p) + 1) + 1) = x
    BY <1>2, SplitAtDot
  <2>2. Len(p) = Width /\ Len(x) = 2
    BY <1>1, <1>2
  <2> HIDE DEF s, dot
  <2> QED
    BY <2>1, <2>2
<1>6. ParseTopic(s) = IF ~HasLength(s) \/ dot < 2 THEN Bad
                      ELSE IF ~nr.ok \/ m = 0 THEN Bad
                      ELSE [ok |-> TRUE, exch |-> m, instr |-> nr.v]
  BY Zenon DEF ParseTopic
<1> HIDE DEF s, dot
<1>7. HasLength(s) /\ ~ (dot < 2)
  BY <1>1, <1>5 DEF HasLength
<1>8. nr = [ok |-> TRUE, v |-> i] /\ m = e
  BY <1>3, <1>4, <1>5
<1> HIDE DEF nr, m
<1>9. nr.ok /\ nr.v = i /\ m # 0
  BY <1>8
<1>10. ParseTopic(s) = [ok |-> TRUE, exch |-> e, instr |-> i]
  BY <1>6, <1>7, <1>8, <1>9
<1> QED
  BY <1>10 DEF Topic, s, p, x

(* data.h:111-121 and file.c:16: the name of every file is parsed as its   *)
(* market, its instrument and its number, -1 for a .tmp file.              *)
THEOREM NamesParse ==
  ASSUME NEW e \in {1, 2}, NEW i \in Nat, NEW seq \in Int, seq >= -1
  PROVE  ParseFileName(FileName(e, i, seq)) =
           [ok |-> TRUE, exch |-> e, instr |-> i, seq |-> seq]
<1> DEFINE p == Padded(i)
           x == ExchIdstr(e)
           b == <<".">>
           d == IF seq < 0 THEN <<"tmp">> ELSE Decimal[seq]
           r == (x \o b) \o d
           s == (p \o b) \o r
           dot == FirstOf(s, ".")
           nr == Scaled(SubSeq(s, 1, dot - 1))
           rest == From(s, dot + 1)
           second == FirstOf(rest, ".")
           m == Market(SubSeq(rest, 1, second - 1))
           suffix == From(rest, second + 1)
           S == NamePart
<1>1. p \in Seq(S) /\ \A j \in 1 .. Len(p) : p[j] # "."
  <2>1. p \in Seq(Numerals)
    BY PaddedIs
  <2>2. p \in Seq(S)
    BY <2>1, SeqMonotonic DEF NamePart
  <2>3. \A j \in 1 .. Len(p) : p[j] \in Numerals
    BY <2>1, ElementOfSeq
  <2> QED
    BY <2>2, <2>3, DigitsAre
<1>2. Len(p) \in Nat /\ Len(p) > 0
  <2>1. Len(Decimal[i]) \in Nat /\ Len(Decimal[i]) > 0 /\ Width \in Nat
    BY DecimalIs, NamesAssumption DEF NamesAssumption
  <2>2. Len(p) = (IF Len(Decimal[i]) >= Width THEN 0 ELSE Width - Len(Decimal[i]))
                      + Len(Decimal[i])
    BY PaddedIs
  <2> DEFINE d0 == Len(Decimal[i])
             l == Len(p)
  <2>3. /\ d0 \in Nat /\ d0 > 0 /\ Width \in Nat
        /\ l = (IF d0 >= Width THEN 0 ELSE Width - d0) + d0
    BY <2>1, <2>2
  <2> HIDE DEF d0, l
  <2>4. l \in Nat /\ l > 0
    BY <2>3
  <2> QED
    BY <2>4 DEF l
<1>3. /\ x \in Seq(S) /\ Len(x) = 2 /\ \A j \in 1 .. Len(x) : x[j] # "."
      /\ Market(x) = e
  BY MarketIs
<1>4. "." \in S /\ b \in Seq(S)
  BY DEF NamePart
<1>5. /\ d \in Seq(S)
      /\ seq < 0 => d = <<"tmp">>
      /\ ~ (seq < 0) => d # <<"tmp">> /\ Scanned(d) = [ok |-> TRUE, v |-> seq]
  <2>1. CASE seq < 0
    <3>1. <<"tmp">> \in Seq(S)
      BY DEF NamePart
    <3> QED
      BY <2>1, <3>1
  <2>2. CASE ~ (seq < 0)
    <3>1. seq \in Nat /\ d = Decimal[seq]
      BY <2>2
    <3>2. /\ Decimal[seq] \in Seq(Numerals) /\ Value(Decimal[seq]) = seq
          /\ Decimal[seq] # <<>> /\ 1 \in 1 .. Len(Decimal[seq])
      <4>1. /\ Decimal[seq] \in Seq(Numerals) /\ Value(Decimal[seq]) = seq
            /\ Len(Decimal[seq]) \in Nat /\ Len(Decimal[seq]) > 0
        BY <3>1, DecimalIs
      <4> QED
        BY <4>1, EmptySeq
    <3>3. Scanned(Decimal[seq]) = [ok |-> TRUE, v |-> seq]
      BY <3>2, DigitsScan
    <3>4. Decimal[seq] # <<"tmp">>
      <4>1. Decimal[seq][1] \in Numerals
        BY <3>2, ElementOfSeq
      <4>2. <<"tmp">>[1] = "tmp" /\ "tmp" \notin Numerals
        BY DigitsAre
      <4> QED
        BY <4>1, <4>2
    <3>5. Decimal[seq] \in Seq(S)
      BY <3>2, SeqMonotonic DEF NamePart
    <3> QED
      BY <2>2, <3>1, <3>3, <3>4, <3>5
  <2> QED
    BY <2>1, <2>2
<1>6. Scaled(p) = [ok |-> TRUE, v |-> i]
  BY PaddedScales
<1>7. FileName(e, i, seq) = s
  <2>1. FileName(e, i, seq) = (((p \o b) \o x) \o b) \o d
    BY DEF FileName
  <2> HIDE DEF p, x, b, d, S
  <2> DEFINE pb == p \o b
             xb == x \o b
  <2>2. pb \in Seq(S) /\ xb \in Seq(S)
    BY <1>1, <1>3, <1>4, ConcatProperties
  <2>3. (pb \o x) \o b = pb \o xb
    <3>1. pb \in Seq(S) /\ x \in Seq(S) /\ b \in Seq(S)
      BY <1>3, <1>4, <2>2
    <3> HIDE DEF pb
    <3> QED
      BY ONLY <3>1, ConcatAssociative
  <2>4. (pb \o xb) \o d = pb \o (xb \o d)
    <3>1. pb \in Seq(S) /\ xb \in Seq(S) /\ d \in Seq(S)
      BY <1>5, <2>2
    <3> HIDE DEF pb, xb
    <3> QED
      BY ONLY <3>1, ConcatAssociative
  <2> QED
    BY <2>1, <2>3, <2>4
<1> HIDE DEF p, x, d, S
<1>8. /\ r \in Seq(S) /\ Len(r) = Len(x) + 1 + Len(d)
      /\ FirstOf(r, ".") = Len(x) + 1
      /\ SubSeq(r, 1, (Len(x) + 1) - 1) = x
      /\ From(r, (Len(x) + 1) + 1) = d
  <2>1. r = (x \o <<".">>) \o d
    OBVIOUS
  <2> HIDE DEF r, s, dot, nr, rest, second, m, suffix, b
  <2>2. "." \in S /\ x \in Seq(S) /\ d \in Seq(S) /\ \A j \in 1 .. Len(x) : x[j] # "."
    BY <1>3, <1>4, <1>5
  <2> QED
    BY ONLY <2>1, <2>2, SplitAtDot
<1> HIDE DEF r
<1>9. /\ dot = Len(p) + 1
      /\ SubSeq(s, 1, (Len(p) + 1) - 1) = p
      /\ From(s, (Len(p) + 1) + 1) = r
  <2>1. s = (p \o <<".">>) \o r
    OBVIOUS
  <2> HIDE DEF s, dot, nr, rest, second, m, suffix, b
  <2>2. "." \in S /\ p \in Seq(S) /\ r \in Seq(S) /\ \A j \in 1 .. Len(p) : p[j] # "."
    BY <1>1, <1>4, <1>8
  <2>3. /\ FirstOf(s, ".") = Len(p) + 1
        /\ SubSeq(s, 1, (Len(p) + 1) - 1) = p
        /\ From(s, (Len(p) + 1) + 1) = r
    BY ONLY <2>1, <2>2, SplitAtDot
  <2> QED
    BY <2>3 DEF dot
<1>10. ParseFileName(s) =
        IF dot < 2 THEN Bad
        ELSE IF ~nr.ok \/ second # 3 \/ m = 0 THEN Bad
        ELSE IF suffix = <<"tmp">> THEN [ok |-> TRUE, exch |-> m, instr |-> nr.v, seq |-> -1]
        ELSE IF ~Scanned(suffix).ok THEN Bad
        ELSE [ok |-> TRUE, exch |-> m, instr |-> nr.v, seq |-> Scanned(suffix).v]
  BY Zenon DEF ParseFileName
<1> HIDE DEF s, dot
<1>11. nr = [ok |-> TRUE, v |-> i] /\ rest = r /\ ~ (dot < 2)
  <2>1. SubSeq(s, 1, dot - 1) = p /\ From(s, dot + 1) = r
    BY <1>9
  <2>2. ~ (dot < 2)
    BY <1>2, <1>9
  <2> QED
    BY <1>6, <2>1, <2>2
<1> HIDE DEF rest, nr
<1>12. second = 3
  BY <1>3, <1>8, <1>11
<1> HIDE DEF second
<1>13. m = e /\ suffix = d
  <2>1. (Len(x) + 1) - 1 = second - 1 /\ (Len(x) + 1) + 1 = second + 1
    BY <1>3, <1>12
  <2> QED
    BY <1>3, <1>8, <1>11, <2>1
<1> HIDE DEF m, suffix
<1>14. nr.ok /\ nr.v = i /\ m # 0
  BY <1>11, <1>13
<1>15. CASE seq < 0
  <2>1. seq = -1
    BY <1>15
  <2> QED
    BY <1>5, <1>7, <1>10, <1>11, <1>12, <1>13, <1>14, <1>15, <2>1
<1>16. CASE ~ (seq < 0)
  <2>1. Scanned(suffix).ok /\ Scanned(suffix).v = seq /\ suffix # <<"tmp">>
    BY <1>5, <1>13, <1>16
  <2> QED
    BY <1>7, <1>10, <1>11, <1>12, <1>13, <1>14, <2>1
<1> QED
  BY <1>15, <1>16

LEMMA TwoDigits ==
  ASSUME NEW n \in Nat, n < 100
  PROVE  Len(Decimal[n]) <= 2
<1>1. CASE n < 10
  <2>1. Decimal[n] = <<Digits[n + 1]>>
    BY <1>1, DecimalStep
  <2> DEFINE c == Digits[n + 1]
  <2>2. Decimal[n] = <<c>>
    BY <2>1
  <2> HIDE DEF c
  <2>3. Len(<<c>>) = 1
    OBVIOUS
  <2> QED
    BY <2>2, <2>3
<1>2. CASE ~ (n < 10)
  <2> DEFINE k == n \div 10
             c == Digits[(n % 10) + 1]
             a == Digits[k + 1]
  <2>1. k \in Nat /\ k < 10
    BY <1>2
  <2>2. c \in Numerals /\ a \in Numerals
    BY <2>1, LastDigit
  <2>3. Decimal[n] = Append(Decimal[k], c)
    BY <1>2, DecimalStep
  <2>4. Decimal[k] = <<a>>
    <3> HIDE DEF k
    <3> QED
      BY <2>1, DecimalStep
  <2> HIDE DEF k, c, a
  <2>5. <<a>> \in Seq(Numerals) /\ Len(<<a>>) = 1
    BY <2>2
  <2>6. Len(Append(<<a>>, c)) = 2
    <3>1. Len(Append(<<a>>, c)) = Len(<<a>>) + 1
      BY <2>2, <2>5, AppendProperties
    <3> QED
      BY <2>5, <3>1
  <2> QED
    BY <2>3, <2>4, <2>6
<1> QED
  BY <1>1, <1>2

(* Every name and every topic of the runs is read back. *)
THEOREM EveryNameReadsBack == Spec => []NamesReadBack
<1>1. Init => NamesReadBack
  BY DEF Init, NamesReadBack
<1>2. ASSUME NamesReadBack, [Next]_vars
      PROVE  NamesReadBack'
  <2>1. CASE PickFile
    <3> DEFINE e == input'.exch
               i == input'.instr
               seq == input'.seq
    <3>1. e \in {1, 2} /\ i \in Nat /\ i < 100 /\ seq \in Int /\ seq >= -1
      BY <2>1, InputIsName
    <3> HIDE DEF e, i, seq
    <3>2. Len(Decimal[i]) <= Width
      <4>1. Len(Decimal[i]) <= 2 /\ Len(Decimal[i]) \in Nat
        BY <3>1, TwoDigits, DecimalIs
      <4>2. Width >= 2 /\ Width \in Nat
        BY MCUtilAssumption, NamesAssumption DEF MCUtilAssumption, NamesAssumption
      <4> QED
        BY <4>1, <4>2
    <3>3. /\ ParseFileName(FileName(e, i, seq)) =
               [ok |-> TRUE, exch |-> e, instr |-> i, seq |-> seq]
          /\ ParseTopic(Topic(e, i)) = [ok |-> TRUE, exch |-> e, instr |-> i]
      BY <3>1, <3>2, NamesParse, TopicsParse
    <3> QED
      BY <3>3 DEF NamesReadBack, e, i, seq
  <2>2. CASE input' = input
    BY <1>2, <2>2 DEF NamesReadBack
  <2>3. CASE \/ PickBatch \/ PickChange \/ PickCut \/ PickTopic
             \/ PickWait \/ PickInfinite \/ PickLists
    BY <2>3, NotAName DEF NamesReadBack
  <2> QED
    BY <1>2, <2>1, <2>2, <2>3, NextPart
<1> QED
  BY <1>1, <1>2, PTL DEF Spec

(* data.c:3: a text without a sign and a blank that parse_topic accepts is *)
(* the topic of that market and that instrument, character by character:   *)
(* two subscribers of one instrument subscribe the same topic.             *)
THEOREM TopicsAreUnique ==
  ASSUME NEW S, NEW s \in Seq(S), Plain(s), ParseTopic(s).ok
  PROVE  s = Topic(ParseTopic(s).exch, ParseTopic(s).instr)
<1> DEFINE p == ParseTopic(s)
           dot == FirstOf(s, ".")
           a == SubSeq(s, 1, dot - 1)
           x == From(s, dot + 1)
           nr == Scaled(a)
           m == Market(x)
           c == (a \o <<".">>) \o x
<1>1. p = IF ~HasLength(s) \/ dot < 2 THEN Bad
          ELSE IF ~nr.ok \/ m = 0 THEN Bad
          ELSE [ok |-> TRUE, exch |-> m, instr |-> nr.v]
  BY Zenon DEF ParseTopic
<1>2. Len(s) \in Nat /\ Width \in Nat
  BY LenProperties, NamesAssumption DEF NamesAssumption
<1>3. /\ dot \in 0 .. Len(s)
      /\ dot > 0 => s[dot] = "." /\ \A i \in 1 .. dot - 1 : s[i] # "."
  BY <1>2, FirstOfIs
<1>4. p.ok
  OBVIOUS
<1> HIDE DEF p, dot
<1>5. HasLength(s) /\ ~ (dot < 2) /\ nr.ok /\ m # 0
      /\ p.exch = m /\ p.instr = nr.v
  <2> HIDE DEF nr, m
  <2>1. ~ Bad.ok
    BY DEF Bad
  <2>2. HasLength(s) /\ ~ (dot < 2) /\ nr.ok /\ m # 0
    BY <1>1, <1>4, <2>1
  <2> QED
    BY <1>1, <2>2
<1>6. /\ dot \in 2 .. Len(s) /\ dot - 1 \in 0 .. Len(s) /\ dot + 1 \in 1 .. Len(s) + 1
      /\ Len(s) = Width + 3 /\ dot = (dot - 1) + 1
  BY <1>2, <1>3, <1>5 DEF HasLength
<1>7. /\ a \in Seq(S) /\ Len(a) = dot - 1
      /\ \A j \in 1 .. dot - 1 : a[j] = s[j]
  BY <1>6, UptoIs
<1>8. /\ x \in Seq(S) /\ Len(x) = Len(s) - (dot + 1) + 1
      /\ \A j \in 1 .. Len(s) - (dot + 1) + 1 : x[j] = s[(dot + 1) + j - 1]
  BY <1>6, FromIs
<1>9. x = ExchIdstr(m) /\ Len(x) = 2
  <2>1. x = ExchIdstr(m)
    BY <1>5, MarketIs
  <2> HIDE DEF x, m
  <2> QED
    BY <2>1, MarketIs
<1> HIDE DEF a, x
<1>10. Len(a) = Width /\ dot = Width + 1 /\ Len(s) = Width + 3
  <2> DEFINE lx == Len(x)
             ls == Len(s)
  <2>1. /\ lx = 2 /\ lx = ls - (dot + 1) + 1
        /\ ls \in Nat /\ ls = Width + 3
        /\ dot \in 2 .. ls
    <3>1. lx = 2
      BY <1>9
    <3>2. lx = ls - (dot + 1) + 1
      BY <1>8
    <3>3. ls \in Nat /\ ls = Width + 3 /\ dot \in 2 .. ls
      BY <1>2, <1>6
    <3> QED
      BY <3>1, <3>2, <3>3
  <2> HIDE DEF lx, ls
  <2>2. dot = Width + 1
    BY <1>2, <2>1
  <2> QED
    BY <1>2, <1>6, <1>7, <2>2
<1>11. nr.v \in Nat /\ Padded(nr.v) = a
  <2>1. Plain(a)
    <3>1. \A j \in 1 .. Len(a) : j \in 1 .. Len(s) /\ a[j] = s[j]
      BY <1>2, <1>7, <1>10
    <3> QED
      BY <3>1, Zenon DEF Plain
  <2> QED
    BY <1>5, <1>7, <1>10, <2>1, ScaledIsPadded
<1>12. "." \in S /\ \A i \in 1 .. Len(a) : a[i] # "."
  <2>1. s[dot] \in S /\ s[dot] = "."
    BY <1>3, <1>6, ElementOfSeq
  <2>2. \A i \in 1 .. dot - 1 : s[i] # "."
    BY <1>3, <1>6
  <2> QED
    BY <1>7, <2>1, <2>2
<1>13. /\ c \in Seq(S) /\ Len(c) = Len(a) + 1 + Len(x)
       /\ \A i \in 1 .. Len(a) : c[i] = a[i]
       /\ c[Len(a) + 1] = "."
       /\ \A i \in 1 .. Len(x) : c[Len(a) + 1 + i] = x[i]
  <2>1. a \in Seq(S)
    BY <1>7
  <2>2. x \in Seq(S)
    BY <1>8
  <2> HIDE DEF c
  <2>3. /\ (a \o <<".">>) \o x \in Seq(S)
        /\ Len((a \o <<".">>) \o x) = Len(a) + 1 + Len(x)
        /\ \A i \in 1 .. Len(a) : ((a \o <<".">>) \o x)[i] = a[i]
        /\ ((a \o <<".">>) \o x)[Len(a) + 1] = "."
        /\ \A i \in 1 .. Len(x) : ((a \o <<".">>) \o x)[Len(a) + 1 + i] = x[i]
    BY ONLY <1>12, <2>1, <2>2, SplitAtDot
  <2> QED
    BY <2>3 DEF c
<1> HIDE DEF c
<1>14. Len(c) = Len(s)
  BY <1>2, <1>9, <1>10, <1>13
<1>15. \A i \in 1 .. Len(s) : c[i] = s[i]
  <2> TAKE i \in 1 .. Len(s)
  <2>1. i \in 1 .. Width \/ i = Width + 1 \/ i = Width + 2 \/ i = Width + 3
    BY <1>2, <1>10
  <2>2. CASE i \in 1 .. Width
    <3>1. i \in 1 .. Len(a) /\ i \in 1 .. dot - 1
      BY <1>2, <1>10, <2>2
    <3> QED
      BY <1>7, <1>13, <3>1
  <2>3. CASE i = Width + 1
    <3>1. c[i] = "."
      BY <1>10, <1>13, <2>3
    <3>2. s[dot] = "." /\ dot = i
      BY <1>3, <1>6, <1>10, <2>3
    <3> QED
      BY <3>1, <3>2
  <2>4. ASSUME NEW j \in 1 .. 2, i = Width + 1 + j
        PROVE  c[i] = s[i]
    <3>1. /\ j \in 1 .. Len(x) /\ j \in 1 .. Len(s) - (dot + 1) + 1
          /\ Len(a) + 1 + j = i /\ (dot + 1) + j - 1 = i
      BY <1>2, <1>8, <1>9, <1>10, <2>4
    <3> QED
      BY <1>8, <1>13, <3>1
  <2>5. (i = Width + 2 => i = Width + 1 + 1) /\ (i = Width + 3 => i = Width + 1 + 2)
    BY <1>2
  <2> QED
    BY <2>1, <2>2, <2>3, <2>4, <2>5
<1>16. c = s
  BY <1>13, <1>14, <1>15, SeqEqual
<1>17. Topic(m, nr.v) = c
  BY <1>9, <1>11 DEF Topic, c
<1> QED
  BY <1>5, <1>16, <1>17 DEF p

(* The texts of the runs. *)
LEMMA InputIsText ==
  /\ PickTopic =>
       input'.part = "topic" /\ input'.text \in Seq(NameChars \cup {".", "S", "H", "Z", "X", "0"})
  /\ PickBatch \/ PickChange \/ PickCut \/ PickFile \/ PickWait \/ PickInfinite \/ PickLists
       => input'.part # "topic"
<1> DEFINE T == NameChars \cup {".", "S", "H", "Z", "X", "0"}
           b == <<".">>
<1>1. ASSUME PickTopic
      PROVE  input'.part = "topic" /\ input'.text \in Seq(T)
  <2>1. PICK n \in 1 .. Width + 1 : \E s \in [1 .. n -> NameChars] : \E m \in Markets :
               input' = [part |-> "topic", text |-> (s \o b) \o m]
    BY <1>1 DEF PickTopic
  <2>2. PICK s \in [1 .. n -> NameChars], m \in Markets :
               input' = [part |-> "topic", text |-> (s \o b) \o m]
    BY <2>1
  <2>3. n \in Nat
    BY NamesAssumption DEF NamesAssumption
  <2>4. s \in Seq(T)
    <3>1. s \in Seq(NameChars)
      BY <2>3, SeqDef
    <3> QED
      BY <3>1, SeqMonotonic
  <2>5. "." \in T /\ "S" \in T /\ "H" \in T /\ "Z" \in T /\ "X" \in T /\ "0" \in T
    OBVIOUS
  <2> HIDE DEF T
  <2>6. b \in Seq(T)
    BY <2>5
  <2>7. m \in Seq(T)
    <3>1. /\ <<"S", "H">> \in Seq(T) /\ <<"S", "Z">> \in Seq(T)
          /\ <<"S", "X">> \in Seq(T) /\ <<"S", "Z", "0">> \in Seq(T)
      BY ONLY <2>5
    <3> QED
      BY <3>1, Zenon DEF Markets
  <2> HIDE DEF b
  <2>8. s \o b \in Seq(T)
    BY ONLY <2>4, <2>6, ConcatProperties
  <2>9. (s \o b) \o m \in Seq(T)
    <3> DEFINE q == s \o b
    <3>1. q \in Seq(T)
      BY <2>8
    <3> HIDE DEF q
    <3>2. q \o m \in Seq(T)
      BY ONLY <2>7, <3>1, ConcatProperties
    <3> QED
      BY <3>2 DEF q
  <2> QED
    BY <2>2, <2>9
<1>2. PickBatch \/ PickChange \/ PickCut \/ PickFile \/ PickWait \/ PickInfinite \/ PickLists
        => input'.part # "topic"
  BY DEF PickBatch, PickChange, PickCut, PickFile, PickWait, PickInfinite, PickLists
<1> QED
  BY <1>1, <1>2 DEF T

(* A text that the property does not call odd. *)
LEMMA NotOddIsPlain ==
  ASSUME NEW S, NEW s \in Seq(S), ~ \E c \in {"+", "-", " "} : Contains(s, c)
  PROVE  Plain(s)
<1> DEFINE blank == " "
<1>1. \A c \in {"+", "-", blank} : \A i \in 1 .. Len(s) : s[i] # c
  BY DEF Contains
<1> HIDE DEF blank
<1>2. \A i \in 1 .. Len(s) : s[i] \notin {"+", "-"} /\ s[i] # blank
  BY <1>1
<1> QED
  BY <1>2, Zenon DEF Plain, blank

(* Every text of the runs that parse_topic accepts is the topic itself. *)
THEOREM EveryTopicHasOneText == Spec => []OneTextPerTopic
<1>1. Init => OneTextPerTopic
  <2>1. Init => input.part # "topic"
    BY DEF Init
  <2> QED
    BY <2>1, Zenon DEF OneTextPerTopic
<1>2. ASSUME OneTextPerTopic, [Next]_vars
      PROVE  OneTextPerTopic'
  <2>1. CASE PickTopic
    <3> DEFINE s == input'.text
               odd == \E c \in {"+", "-", " "} : Contains(s, c)
               T == NameChars \cup {".", "S", "H", "Z", "X", "0"}
    <3>1. s \in Seq(T)
      BY <2>1, InputIsText
    <3> HIDE DEF T, s
    <3>2. ~ odd => Plain(s)
      BY <3>1, NotOddIsPlain
    <3>3. Plain(s) /\ ParseTopic(s).ok => s = Topic(ParseTopic(s).exch, ParseTopic(s).instr)
      BY <3>1, TopicsAreUnique
    <3> HIDE DEF odd
    <3>4. ParseTopic(s).ok => odd \/ s = Topic(ParseTopic(s).exch, ParseTopic(s).instr)
      BY <3>2, <3>3
    <3> QED
      BY <3>4, Zenon DEF OneTextPerTopic, s, odd
  <2>2. CASE input' = input
    BY <1>2, <2>2 DEF OneTextPerTopic
  <2>3. CASE PickBatch \/ PickChange \/ PickCut \/ PickFile \/ PickWait \/ PickInfinite \/ PickLists
    BY <2>3, InputIsText DEF OneTextPerTopic
  <2> QED
    BY <1>2, <2>1, <2>2, <2>3, NextPart
<1> QED
  BY <1>1, <1>2, PTL DEF Spec

-----------------------------------------------------------------------------
(* Lists.                                                                  *)

(* The runs use lists as LinkedList does.                                  *)
THEOREM ListsAreUsed == Spec => ListsSpec
<1>1. Init => ListsInit
  BY DEF Init
<1>2. [Next]_vars => [ListsNext]_lists
  BY DEF Next, PickInput, UseLists, vars, lists
<1> QED
  BY <1>1, <1>2, PTL DEF Spec, ListsSpec
=============================================================================
