------------------------------ MODULE MsgQueue ------------------------------
(***************************************************************************)
(* What a subscription promises its reader (mdspxy.h:338-371), without its *)
(* frames: messages that arrive are handed out in that order, each once,   *)
(* and leave in no other way than by cancelling their topic, until the     *)
(* subscription is broken and has to be closed.  MdsSub implements this    *)
(* and MdsFsub takes its messages through it.                              *)
(***************************************************************************)
EXTENDS Naturals, Sequences, Selection

CONSTANTS
  Messages,     (* records that have a topic                               *)
  Topics

VARIABLES
  due,          (* the messages that have arrived, in order                *)
  taken,        (* the message handed out last, or none                    *)
  broken        (* messages may be missing from now on                     *)

vars == <<due, taken, broken>>

Init == due = <<>> /\ taken = {} /\ broken = FALSE

Arrive ==
  /\ Len(due') = Len(due) + 1
  /\ \E m \in Messages : due' = Append(due, m)
  /\ UNCHANGED <<taken, broken>>

(* mds_sub_recv returns 0. *)
Take ==
  /\ due # <<>>
  /\ taken' = {Head(due)} /\ due' = Tail(due)
  /\ UNCHANGED broken

(* Another call is made. *)
Resume == taken' = {} /\ UNCHANGED <<due, broken>>

(* A topic is cancelled: some or all of its messages are dropped, and none *)
(* of another topic.                                                       *)
Cancel ==
  \E t \in Topics : LET others == {m \in Messages : m.topic # t} IN
    /\ Selected(due', others) = Selected(due, others)
    /\ Len(due') <= Len(due)
    /\ taken' = {} /\ UNCHANGED broken

(* A message may be missing, and from then on. *)
Break ==
  /\ broken' = TRUE
  /\ \/ due' = due
     \/ \E i \in 1 .. Len(due) : due' = SubSeq(due, 1, i - 1) \o SubSeq(due, i + 1, Len(due))
  /\ taken' = {}

Reopen == due' = <<>> /\ taken' = {} /\ broken' = FALSE

Next == Arrive \/ Take \/ Resume \/ Cancel \/ Break \/ Reopen

Spec == Init /\ [][Next]_vars
=============================================================================
