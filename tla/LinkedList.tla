----------------------------- MODULE LinkedList -----------------------------
(***************************************************************************)
(* The intrusive circular list of src/src/list.h, as far as the program    *)
(* uses it: messages are added at the tail, taken from the front, removed  *)
(* while the list is walked, and moved from one list to another.           *)
(*                                                                         *)
(* A heap is a record of two functions, next and prev, over the heads and  *)
(* the nodes.  Each assignment of the code is an EXCEPT, in its order.     *)
(* `content' is what the callers take the lists for: sequences.            *)
(***************************************************************************)
EXTENDS Selection, FiniteSets

CONSTANTS
  Heads,        (* the heads of the lists                                  *)
  Nodes,        (* the messages, by their addresses                        *)
  Poison        (* LIST_POISON1 and LIST_POISON2                           *)

ASSUME LinkedListAssumption ==
  /\ Heads \cap Nodes = {} /\ Poison \notin Heads \cup Nodes
  /\ IsFiniteSet(Nodes)

VARIABLES
  heap,         (* next and prev of every head and node                    *)
  content       (* history: for each head the nodes added to its list and  *)
                (* not removed, in their order                             *)

lists == <<heap, content>>

-----------------------------------------------------------------------------
(* list.h. *)

SetNext(h, a, b) == [h EXCEPT !.next[a] = b]
SetPrev(h, a, b) == [h EXCEPT !.prev[a] = b]

(* INIT_LIST_HEAD of every head. *)
Empty == [next |-> [a \in Heads \cup Nodes |-> IF a \in Heads THEN a ELSE Poison],
          prev |-> [a \in Heads \cup Nodes |-> IF a \in Heads THEN a ELSE Poison]]

ListEmpty(h, head) == h.next[head] = head

(* list_add_tail, by way of __list_add. *)
AddTail(h, n, head) ==
  LET prev == h.prev[head] IN
  SetNext(SetPrev(SetNext(SetPrev(h, head, n), n, head), n, prev), prev, n)

(* list_del. *)
Del(h, n) ==
  LET prev == h.prev[n]
      next == h.next[n]
      unlinked == SetNext(SetPrev(h, next, prev), prev, next) IN
  SetPrev(SetNext(unlinked, n, Poison), n, Poison)

(* Variant of Reset: INIT_LIST_HEAD is left out. *)
NotReset(h, list) == h

Reset(h, list) == SetPrev(SetNext(h, list, list), list, list)

(* list_splice_tail_init, by way of __list_splice. *)
SpliceTailInit(h, list, head) ==
  LET first == h.next[list]
      last  == h.prev[list]
      prev  == h.prev[head]
      front == SetNext(SetPrev(h, first, prev), prev, first)
      back  == SetPrev(SetNext(front, last, head), head, last) IN
  IF ListEmpty(h, list) THEN h ELSE Reset(back, list)

(* list_for_each_entry_safe: the node after the current one is looked at   *)
(* before the body of the loop, which removes the nodes of S               *)
(* (free__mmsg_list: all; mds_sub_cancel: those of a topic).  The walk     *)
(* ends at the head, else after as many steps as there are nodes.          *)
LoopBody(w, S) == IF w.pos \in S THEN Del(w.heap, w.pos) ELSE w.heap

Further(w, S) == [heap |-> LoopBody(w, S), pos |-> w.n, n |-> LoopBody(w, S).next[w.n]]

Walk(h, head, S) ==
  LET walk[k \in 0 .. Cardinality(Nodes)] ==
        IF k = 0 THEN [heap |-> h, pos |-> h.next[head], n |-> h.next[h.next[head]]]
        ELSE IF walk[k - 1].pos = head THEN walk[k - 1] ELSE Further(walk[k - 1], S) IN
  walk

Sweep(h, head, S) == Walk(h, head, S)[Cardinality(Nodes)].heap

-----------------------------------------------------------------------------
(* What the program does with lists. *)

ListsInit == heap = Empty /\ content = [a \in Heads |-> <<>>]

InUse(n) == \E a \in Heads : \E i \in 1 .. Len(content[a]) : content[a][i] = n

(* A message is allocated and put behind the others (read_v1.c:229,        *)
(* sub.c:222).                                                             *)
Add(n, a) ==
  /\ ~ InUse(n)
  /\ heap' = AddTail(heap, n, a)
  /\ content' = [content EXCEPT ![a] = Append(@, n)]

(* The first message is handed out and freed (file.c:336-343,              *)
(* sub.c:281-287).                                                         *)
TakeFirst(a) ==
  /\ ~ ListEmpty(heap, a)
  /\ heap' = Del(heap, heap.next[a])
  /\ content' = [content EXCEPT ![a] = Tail(@)]

(* Messages are removed and freed: all (free__mmsg_list, mds_sub_close) or *)
(* those of a topic (sub.c:244-258).                                       *)
RemoveSome(a, S) ==
  /\ heap' = Sweep(heap, a, S)
  /\ content' = [content EXCEPT ![a] = Selected(@, Nodes \ S)]

(* A batch that was read goes behind what is there (read_v1.c:267).        *)
Move(list, head) ==
  /\ heap' = SpliceTailInit(heap, list, head)
  /\ content' = [content EXCEPT ![head] = @ \o content[list], ![list] = <<>>]

ListsNext ==
  \/ \E n \in Nodes, a \in Heads : Add(n, a)
  \/ \E a \in Heads : TakeFirst(a)
  \/ \E a \in Heads, S \in SUBSET Nodes : RemoveSome(a, S)
  \/ \E list, head \in Heads : list # head /\ Move(list, head)

ListsSpec == ListsInit /\ [][ListsNext]_lists

-----------------------------------------------------------------------------
(* Properties. *)

(* The links go to heads and nodes; only those of nodes may be poisoned.   *)
LinksOK ==
  /\ heap \in [next : [Heads \cup Nodes -> Heads \cup Nodes \cup {Poison}],
               prev : [Heads \cup Nodes -> Heads \cup Nodes \cup {Poison}]]
  /\ \A a \in Heads : heap.next[a] # Poison /\ heap.prev[a] # Poison
  /\ content \in [Heads -> Seq(Nodes)]

(* The i-th place of the ring that is the list s at the head a, which is   *)
(* on either side of s.                                                    *)
Place(a, s, i) == IF i \in 1 .. Len(s) THEN s[i] ELSE a

(* The list at a is the sequence s, whichever way it is walked.            *)
Represents(h, a, s) ==
  \A i \in 0 .. Len(s) :
    /\ h.next[Place(a, s, i)] = Place(a, s, i + 1)
    /\ h.prev[Place(a, s, i + 1)] = Place(a, s, i)

(* list.h:36-324: after any number of operations on any of the lists each  *)
(* is linked, forward and backward, as the sequence its callers expect: a  *)
(* batch that was read is behind what was there and its own list is empty, *)
(* so that free__mmsg_list frees none of it, and removing nodes during a   *)
(* walk removes just those.                                                *)
ListsAreSequences == \A a \in Heads : Represents(heap, a, content[a])
=============================================================================
