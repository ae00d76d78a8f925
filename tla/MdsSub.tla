------------------------------- MODULE MdsSub -------------------------------
(***************************************************************************)
(* One mds_sub handle (src/src/sub.c): the subscribing end of a ZeroMQ     *)
(* socket.  A message arrives as three frames, topic, head and body, that  *)
(* the handle takes one by one, sub->step telling which is next, into a    *)
(* queue of limited length.  ZeroMQ adds the frames of a message all at    *)
(* once and drops whole messages whose topic is not subscribed.  Messages  *)
(* are numbered as they arrive; their contents are not modelled, only the  *)
(* ways in which one may be malformed.                                     *)
(***************************************************************************)
EXTENDS Integers, Sequences, Selection

CONSTANTS
  Topics,
  NR_CACHE,     (* the length of the queue (the code: 8192)                *)
  Faults,       (* ways in which a message may be malformed                *)
  Failures,     (* what may fail: "ENOMEM", the malloc of a message, and   *)
                (* "zmq_setsockopt"                                        *)
  Timeouts,     (* the timeouts the application passes to mds_sub_recv     *)
  AppCalls,     (* what else the application does: "cancel", "close"       *)
  MaxSent,      (* bound: messages that arrive                             *)
  MaxSubs       (* bound: how often a topic is subscribed at a time        *)

ASSUME MdsSubAssumption ==
  /\ NR_CACHE \in Nat \ {0}
  /\ Faults \subseteq {"topic", "short", "head", "nobody", "body", "extra"}
  /\ Failures \subseteq {"ENOMEM", "zmq_setsockopt"}
  /\ Timeouts \subseteq {"zero", "finite", "infinite"}
  /\ AppCalls \subseteq {"cancel", "close"}
  /\ MaxSent \in Nat /\ MaxSubs \in Nat

VARIABLES
  (* The publisher and the socket. *)
  sent,         (* messages that have arrived                              *)
  subs,         (* for each topic, how often it is subscribed              *)
  wire,         (* the frames not yet received                             *)
  (* struct mds_sub. *)
  step,         (* which frame is next: 0 topic, 1 head, 2 body            *)
  head,         (* the message whose head was read: checksum and msglen    *)
  queue,        (* the messages received and not handed out                *)
  (* The call in progress. *)
  pc, op, to,   (* where it is, "recv" or "cancel", its timeout            *)
  target,       (* the topic that is cancelled                             *)
  out,          (* what the last call returned                             *)
  (* History. *)
  malformed,    (* a malformed message has arrived                         *)
  broken,       (* a frame was refused, or there was no memory for one     *)
  lost          (* there was no memory for a body                          *)

socketVars == <<sent, subs, wire>>
subVars    == <<step, head, queue>>
callVars   == <<pc, op, to, target, out>>
history    == <<malformed, broken, lost>>
vars       == <<socketVars, subVars, callVars, history>>

-----------------------------------------------------------------------------
(* Messages and frames. *)

Message == [n : 1 .. MaxSent, topic : Topics, fault : Faults \cup {"none"}]

NrFrames(m) == CASE m.fault = "short"  -> 1
                 [] m.fault = "nobody" -> 2
                 [] m.fault = "extra"  -> 4
                 [] OTHER              -> 3

Frame == [of : Message, part : 0 .. 3]

Frames(m) == [i \in 1 .. NrFrames(m) |-> [of |-> m, part |-> i - 1]]

(* ZMQ_RCVMORE after frame f. *)
More(f) == f.part + 1 < NrFrames(f.of)

-----------------------------------------------------------------------------
(* A message arrives, unless its topic is not subscribed.                  *)

Publish(t, fault) ==
  /\ sent < MaxSent /\ subs[t] > 0
  /\ sent' = sent + 1
  /\ wire' = wire \o Frames([n |-> sent + 1, topic |-> t, fault |-> fault])
  /\ malformed' = (malformed \/ fault # "none")
  /\ UNCHANGED <<subs, subVars, callVars, broken, lost>>

-----------------------------------------------------------------------------
(* The calls.  After EPROTO the handle must be closed (mdspxy.h:363).      *)

NoMsg == [n |-> 0]

Answer(r) == /\ pc' = "idle"
             /\ out' = [rc |-> r, msg |-> NoMsg]

MayCall == pc = "idle" /\ out.rc # "EPROTO"

Req(t) ==
  /\ MayCall /\ subs[t] < MaxSubs
  /\ subs' = [subs EXCEPT ![t] = @ + 1]
  /\ Answer("ok")
  /\ UNCHANGED <<sent, wire, subVars, op, to, target, history>>

(* zmq_setsockopt fails, of mds_sub_req or of mds_sub_cancel.              *)
RequestFails ==
  /\ "zmq_setsockopt" \in Failures /\ MayCall
  /\ Answer("EZMQ")
  /\ UNCHANGED <<socketVars, subVars, op, to, target, history>>

(* What ZeroMQ still delivers once t is not subscribed: everything but     *)
(* messages of t none of whose frames was received.                        *)
Kept(t) ==
  LET Begun(m) == \A i \in 1 .. Len(wire) : wire[i].of = m => wire[i].part > 0 IN
  Selected(wire, {f \in Frame : f.of.topic # t \/ Begun(f.of)})

CallCancel(t) ==
  /\ "cancel" \in AppCalls /\ MayCall
  /\ subs' = [subs EXCEPT ![t] = IF @ > 0 THEN @ - 1 ELSE 0]
  /\ wire' = IF subs[t] <= 1 THEN Kept(t) ELSE wire
  /\ pc' = "frames" /\ op' = "cancel" /\ target' = t
  /\ out' = [rc |-> "none", msg |-> NoMsg]
  /\ UNCHANGED <<sent, subVars, to, history>>

(* Variant of Full: one message more fits. *)
FullLater(q) == Len(q) > NR_CACHE

(* _mds_sub_recv: frames are received as long as the queue is not full.    *)
Full(q) == Len(q) >= NR_CACHE

AfterFrames(q) == IF op = "recv" /\ Full(q) THEN "pop" ELSE "frames"

CallRecv(t) ==
  /\ MayCall
  /\ op' = "recv" /\ to' = t
  /\ pc' = IF Full(queue) THEN "pop" ELSE "frames"
  /\ out' = [rc |-> "none", msg |-> NoMsg]
  /\ UNCHANGED <<socketVars, subVars, target, history>>

(* mds_sub_close, and mds_sub_open for a new handle. *)
Reopen ==
  /\ "close" \in AppCalls /\ pc = "idle"
  /\ subs' = [t \in Topics |-> 0] /\ wire' = <<>>
  /\ step' = 0 /\ queue' = <<>>
  /\ Answer("none")
  /\ malformed' = FALSE /\ broken' = FALSE /\ lost' = FALSE
  /\ UNCHANGED <<sent, head, op, to, target>>

-----------------------------------------------------------------------------
(* __mds_sub_recv.                                                         *)

(* A frame is refused: it is gone and step stays.  mds_sub_recv reports    *)
(* it, whatever is in the queue; mds_sub_cancel goes on.                   *)
Refuse(r) ==
  /\ broken' = TRUE /\ lost' = (lost \/ r = "ENOMEM")
  /\ IF op = "recv" THEN Answer(r) ELSE pc' = "drop" /\ UNCHANGED out
  /\ UNCHANGED <<step, head, queue>>

(* Variants of QueuedBody: step is not set back, or is counted on.         *)
QueuedBodyStays(m) == /\ queue' = Append(queue, m)
                      /\ UNCHANGED step

QueuedBodyNext(m) == /\ queue' = Append(queue, m)
                     /\ step' = step + 1

(* A message is complete. *)
QueuedBody(m) == /\ queue' = Append(queue, m)
                 /\ step' = 0

(* What the three steps accept.  A body is compared with the length and    *)
(* the checksum in the head that was read.                                 *)
GoodTopic(f) == f.part = 0 /\ f.of.fault # "topic" /\ More(f)
GoodHead(f)  == f.part = 1 /\ f.of.fault # "head" /\ More(f)
GoodBody(f)  == /\ f.part = 2 /\ f.of.n = head
                /\ f.of.fault # "body" /\ ~More(f)

RecvFrame ==
  /\ pc = "frames" /\ wire # <<>>
  /\ wire' = Tail(wire)
  /\ LET f == Head(wire) IN
     \/ /\ step = 0 /\ GoodTopic(f)
        /\ step' = 1
        /\ UNCHANGED <<head, queue, pc, out, broken, lost>>
     \/ /\ step = 1 /\ GoodHead(f)
        /\ step' = 2 /\ head' = f.of.n
        /\ UNCHANGED <<queue, pc, out, broken, lost>>
     \/ /\ step = 2 /\ GoodBody(f)
        /\ QueuedBody(f.of)
        /\ pc' = AfterFrames(queue')
        /\ UNCHANGED <<head, out, broken, lost>>
     \/ /\ step = 2 /\ GoodBody(f) /\ "ENOMEM" \in Failures
        /\ Refuse("ENOMEM")
     \/ /\ ~ \/ step = 0 /\ GoodTopic(f)
             \/ step = 1 /\ GoodHead(f)
             \/ step = 2 /\ GoodBody(f)
        /\ Refuse("EPROTO")
  /\ UNCHANGED <<sent, subs, op, to, target, malformed>>

(* Variant of NoFrame: a receive waits though messages are in the queue.   *)
NoFramePoll ==
  /\ pc = "frames" /\ wire = <<>>
  /\ pc' = IF op = "recv" THEN "poll" ELSE "drop"
  /\ UNCHANGED <<socketVars, subVars, op, to, target, out, history>>

(* zmq_recv says EAGAIN. *)
NoFrame ==
  /\ pc = "frames" /\ wire = <<>>
  /\ pc' = IF op = "recv" THEN "pop" ELSE "drop"
  /\ UNCHANGED <<socketVars, subVars, op, to, target, out, history>>

-----------------------------------------------------------------------------
(* The rest of mds_sub_cancel and mds_sub_recv.                            *)

(* Variants of Dropped: everything is removed, or one message of the topic.*)
DroppedAll(t) == <<>>

DroppedFirst(t) ==
  IF queue # <<>> /\ queue[1].topic = t THEN Tail(queue) ELSE queue

(* The messages of the topic leave the queue. *)
Dropped(t) == Selected(queue, {m \in Message : m.topic # t})

Drop ==
  /\ pc = "drop"
  /\ queue' = Dropped(target)
  /\ Answer("ok")
  /\ UNCHANGED <<socketVars, step, head, op, to, target, history>>

Pop ==
  /\ pc = "pop"
  /\ \/ /\ queue # <<>>
        /\ queue' = Tail(queue)
        /\ pc' = "idle"
        /\ out' = [rc |-> "data", msg |-> Head(queue)]
     \/ /\ queue = <<>> /\ to = "zero"
        /\ Answer("EAGAIN")
        /\ UNCHANGED queue
     \/ /\ queue = <<>> /\ to # "zero"
        /\ pc' = "poll"
        /\ UNCHANGED <<queue, out>>
  /\ UNCHANGED <<socketVars, step, head, op, to, target, history>>

(* zmq_poll: the time is looked at only when nothing has arrived.          *)
Poll ==
  /\ pc = "poll"
  /\ \/ wire # <<>> /\ pc' = "frames" /\ UNCHANGED out
     \/ wire = <<>> /\ to = "finite" /\ Answer("ETIMEDOUT")
     \/ wire = <<>> /\ pc' = "frames" /\ UNCHANGED out
  /\ UNCHANGED <<socketVars, subVars, op, to, target, history>>

-----------------------------------------------------------------------------
Init ==
  /\ sent = 0 /\ subs = [t \in Topics |-> 0] /\ wire = <<>>
  /\ step = 0 /\ head = 0 /\ queue = <<>>
  /\ pc = "idle" /\ op = "recv" /\ to = "zero"
  /\ target \in Topics
  /\ out = [rc |-> "none", msg |-> NoMsg]
  /\ malformed = FALSE /\ broken = FALSE /\ lost = FALSE

Handle == RecvFrame \/ NoFrame \/ Drop \/ Pop \/ Poll

Next ==
  \/ \E t \in Topics : \/ \E f \in Faults \cup {"none"} : Publish(t, f)
                       \/ Req(t) \/ CallCancel(t)
  \/ RequestFails
  \/ \E t \in Timeouts : CallRecv(t)
  \/ Reopen
  \/ Handle

Spec == Init /\ [][Next]_vars

(* A process in a call keeps running; whatever else the application calls, *)
(* it reads again, and closes a handle that reported EPROTO                *)
(* (tests/read_sub.c).                                                     *)
FairSpec ==
  /\ Spec
  /\ WF_vars(Handle)
  /\ SF_vars(\E t \in Timeouts : CallRecv(t))
  /\ WF_vars(out.rc = "EPROTO" /\ Reopen)

-----------------------------------------------------------------------------
(* Properties.                                                             *)

(* The type of every variable. *)
TypeOK ==
  /\ sent \in 0 .. MaxSent /\ subs \in [Topics -> 0 .. MaxSubs]
  /\ wire \in Seq(Frame)
  /\ step \in 0 .. 2 /\ head \in 0 .. MaxSent /\ queue \in Seq(Message)
  /\ pc \in {"idle", "frames", "pop", "poll", "drop"}
  /\ op \in {"recv", "cancel"} /\ to \in {"zero", "finite", "infinite"}
  /\ target \in Topics
  /\ out.rc \in {"none", "ok", "data", "EAGAIN", "ETIMEDOUT", "EPROTO", "ENOMEM", "EZMQ"}
  /\ out.rc = "data" => out.msg \in Message
  /\ malformed \in BOOLEAN /\ broken \in BOOLEAN /\ lost \in BOOLEAN

(* As long as no frame was refused, step says which frame of a message is  *)
(* next, and the message begun is the one whose head was read: frames of   *)
(* two messages are never taken for one.                                   *)
InStep ==
  ~broken =>
    /\ wire # <<>> => Head(wire).part = step
    /\ wire = <<>> => step = 0
    /\ step = 2 => Head(wire).of.n = head

(* A message of a topic whose last subscription was cancelled is not       *)
(* handed out, though it had arrived before.                               *)
CancelledIsSilent ==
  out.rc = "data" => subs[out.msg.topic] > 0

(* sub.c:266: a receive never makes the queue longer than NR_CACHE; what   *)
(* does not fit stays in the socket.                                       *)
CacheRespected ==
  [][op = "recv" /\ Len(queue') > Len(queue) => Len(queue') <= NR_CACHE]_vars

(* The messages that have arrived and were not handed out.  One whose topic*)
(* alone is malformed can still be received after an earlier error.        *)
LastFrames == {f \in Frame : f.part = 2 /\ f.of.fault \in {"none", "topic"}}
Due ==
  LET bodies == Selected(wire, LastFrames) IN
  queue \o [i \in 1 .. Len(bodies) |-> bodies[i].of]

(* The handle implements the subscription of MsgQueue: messages are handed *)
(* out in the order in which they arrived, each once and none left out but *)
(* cancelled ones, until a frame is refused.                               *)
Q == INSTANCE MsgQueue WITH Messages <- Message, due <- Due,
       taken <- IF out.rc = "data" THEN {out.msg} ELSE {}

ImplementsMsgQueue == Q!Spec

(* mdspxy.h:363: EPROTO, after which the handle must be closed, is returned*)
(* only when a malformed message arrived since the handle was opened, or   *)
(* when a receive went on after a body was lost to ENOMEM, which           *)
(* mdspxy.h:364 says can be retried.                                       *)
ProtoExplained ==
  out.rc = "EPROTO" => malformed \/ lost

(* A message that has arrived does not stay for ever.                      *)
Waits(n) == LET due == Due IN \E i \in DOMAIN due : due[i].n = n

Drained ==
  \A n \in 1 .. MaxSent : Waits(n) ~> ~Waits(n)
=============================================================================
