------------------------------ MODULE MsgFile ------------------------------
(***************************************************************************)
(* What a message file promises its reader (mdspxy.h:292-327), without its *)
(* bytes: a list of messages 1, 2, 3, ... that grows until it is sealed    *)
(* and is handed out one message after the other.  MdsFile implements this *)
(* and MdsFsub reads its files through it.                                 *)
(***************************************************************************)
EXTENDS Naturals

VARIABLES
  recorded,     (* messages 1 .. recorded are in the file in full          *)
  sealed,       (* the file will not grow any more                         *)
  handed,       (* messages 1 .. handed were handed out or skipped         *)
  ended         (* the reader was told that this is the end of the file    *)

vars == <<recorded, sealed, handed, ended>>

Init ==
  /\ recorded = 0 /\ sealed = FALSE
  /\ handed = 0 /\ ended = FALSE

(* A batch becomes complete. *)
Record ==
  /\ ~sealed
  /\ recorded' \in Nat /\ recorded' > recorded
  /\ UNCHANGED <<sealed, handed, ended>>

Seal ==
  /\ ~sealed
  /\ sealed' = TRUE
  /\ UNCHANGED <<recorded, handed, ended>>

(* mds_file_read returns 1. *)
Deliver ==
  /\ handed < recorded
  /\ handed' = handed + 1
  /\ ended' = FALSE
  /\ UNCHANGED <<recorded, sealed>>

(* mds_file_lseek drops messages that are there, never more. *)
Skip ==
  /\ handed' \in Nat /\ handed < handed' /\ handed' <= recorded
  /\ ended' = FALSE
  /\ UNCHANGED <<recorded, sealed>>

(* mds_file_read returns 0. *)
End ==
  /\ sealed /\ handed = recorded
  /\ ended' = TRUE
  /\ UNCHANGED <<recorded, sealed, handed>>

(* Another call is made. *)
Resume ==
  /\ ended' = FALSE
  /\ UNCHANGED <<recorded, sealed, handed>>

(* The file is closed and opened again. *)
Restart ==
  /\ handed' = 0 /\ ended' = FALSE
  /\ UNCHANGED <<recorded, sealed>>

Next == Record \/ Seal \/ Deliver \/ Skip \/ End \/ Resume \/ Restart

Spec == Init /\ [][Next]_vars
=============================================================================
