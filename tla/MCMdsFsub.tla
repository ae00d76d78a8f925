----------------------------- MODULE MCMdsFsub -----------------------------
(* The topics and heartbeats of the runs of MdsFsub.  The first topic is   *)
(* 000002.SZ, the second 000007.SZ: Shenzhen is exchange 2.  000000.SZ is   *)
(* the topic of the numbers its channels lost (data.h:11), heartbeats      *)
(* included.                                                               *)
EXTENDS MdsFsub

OneTopic  == {[exch |-> 2, instr |-> 7]}
TwoTopics == {[exch |-> 2, instr |-> 2], [exch |-> 2, instr |-> 7]}
TwoOthers == {[exch |-> 2, instr |-> 5], [exch |-> 2, instr |-> 7]}

ThreeTopics == TwoOthers \cup {[exch |-> 2, instr |-> 8]}
WithLosses == {[exch |-> 2, instr |-> 0], [exch |-> 2, instr |-> 7]}

(* The first message of the lost numbers is a heartbeat, or none is.       *)
FirstBeats == {<<[exch |-> 2, instr |-> 0], 1>>}
NoBeats == {}

(* Four messages of a topic; three of the first and two of the second.     *)
Four == [t \in Topics |-> 4]
ThreeAndTwo == [t \in Topics |-> IF t.instr = 7 THEN 2 ELSE 3]

(* Three messages of the second topic, one of the first.                   *)
ThreeAndOne == [t \in Topics |-> IF t.instr = 7 THEN 3 ELSE 1]

(* Two messages of one topic, one of each other.                           *)
TwoAndOne == [t \in Topics |-> IF t.instr = 7 THEN 2 ELSE 1]
=============================================================================
