------------------------------ MODULE MdsFsub ------------------------------
(***************************************************************************)
(* One mds_fsub handle (src/src/fsub.c): a subscription whose beginning is *)
(* completed from the files a recorder keeps of each topic.  When the      *)
(* first message of a topic arrives it is kept in fsub->data while         *)
(* messages 1, 2, ... are read from the topic's closed files 0, 1, ... and *)
(* its .tmp file; when the file has reached the kept message the topic is  *)
(* complete and read from the subscription alone.                          *)
(*                                                                         *)
(* The files are used through what MsgFile promises of them, the           *)
(* subscription (mds_sub) is a queue of messages.  Messages of a topic are *)
(* numbered 1, 2, 3, ... (their `seq' field).  Another process publishes   *)
(* each message and then records it.  Each look at the file system is a    *)
(* step of its own.                                                        *)
(***************************************************************************)
EXTENDS Integers, Sequences, FiniteSets, Selection

CONSTANTS
  Topics,       (* the topics: records of exchId and instrId               *)
  Beats,        (* the messages that are heartbeats, as <<topic, number>>  *)
  InitSlots,    (* size of the first vector (the code: 4)                  *)
  ShrinkMin,    (* vectors smaller than this stay (the code: 9)            *)
  FormatSep,    (* what _format_seqfile puts before the name of a file     *)
  ParseSep,     (* what mds_file_open takes the name of a file from        *)
  Timeouts,     (* the timeouts the application passes                     *)
  Failures,     (* calls that may fail: "calloc", "zmq_setsockopt",        *)
                (* "zmq_recv"; "drop": a message published may be lost     *)
  AppCalls,     (* what else the application does: "cancel", "close"       *)
  QuietRotation,(* whether the recorder leaves alone the files of a topic  *)
                (* that is being completed                                 *)
  SlowHead,     (* whether a .tmp file exists before its head is written   *)
  MaxMsg,       (* bound: messages of each topic                           *)
  MaxCuts,      (* bound: closed files of a topic                          *)
  MaxSlots,     (* bound: subscriptions at a time                          *)
  MaxLeaks      (* bound: opens that meet a .tmp file without a head       *)

ASSUME MdsFsubAssumption ==
  /\ \A t \in Topics : t.exch \in Nat \ {0} /\ t.instr \in Nat
  /\ Beats \subseteq Topics \X Nat
  /\ InitSlots \in Nat \ {0} /\ ShrinkMin \in Nat
  /\ Timeouts \subseteq {"zero", "finite", "infinite"}
  /\ Failures \subseteq {"calloc", "zmq_setsockopt", "zmq_recv", "drop"}
  /\ AppCalls \subseteq {"cancel", "close"}
  /\ QuietRotation \in BOOLEAN /\ SlowHead \in BOOLEAN
  /\ MaxMsg \in [Topics -> Nat] /\ MaxCuts \in Nat /\ MaxSlots \in Nat
  /\ MaxLeaks \in Nat

VARIABLES
  (* The publisher and the recorder, for each topic. *)
  published,    (* messages published                                      *)
  written,      (* messages recorded                                       *)
  cuts,         (* the last message of each closed file                    *)
  tmp,          (* the .tmp file: "none", "empty" (no head yet) or "ok"    *)
  (* The subscription. *)
  subs,         (* for each topic, how often it is subscribed              *)
  queue,        (* messages received and not yet taken                     *)
  (* struct mds_fsub. *)
  vector,       (* fsub->vector as it is allocated                         *)
  vec_size,     (* fsub->vec_size                                          *)
  nr_incompleted, (* fsub->nr_incompleted; 2^32 - 1 is -1 here             *)
  read_file,    (* fsub->read_file, counted from 1, 0 for none             *)
  data,         (* fsub->data                                              *)
  fds,          (* file descriptors open in the process                    *)
  (* The call in progress. *)
  pc, to,       (* where it is, its timeout                                *)
  left,         (* the timeout mds_fsub_read_file works with               *)
  out,          (* what the last call returned                             *)
  (* History. *)
  arrived,      (* for each topic, the last message the subscription got   *)
  got,          (* for each topic, the last message handed out             *)
  miscounted,   (* how many topics were removed that were complete         *)
  twice,        (* the topics that were in two slots at a time             *)
  leaked        (* opens that were refused with the file left open         *)

recorderVars == <<published, written, cuts, tmp>>
vectorVars   == <<vector, vec_size, nr_incompleted>>
callVars     == <<pc, to, left, out>>
history      == <<arrived, got, miscounted, twice, leaked>>
vars == <<recorderVars, subs, queue, vectorVars, read_file, data, fds, callVars, history>>

NoTopic == [exch |-> 0, instr |-> 0]
NoMsg   == [topic |-> NoTopic, seq |-> 0]
NoFile  == [no |-> -1, at |-> 0, closed |-> FALSE]
NoSlot  == [topic |-> NoTopic, fseq |-> 0, dseq |-> 0, file |-> NoFile]

Msg  == [topic : Topics, seq : Nat]
Slot == [topic : Topics \cup {NoTopic}, fseq : Nat \cup {-1}, dseq : Nat,
         file : [no : Nat, at : Nat, closed : BOOLEAN] \cup {NoFile}]

UsedIn(v) == {i \in DOMAIN v : v[i].topic # NoTopic}
Used == UsedIn(vector)
nr_sub == Cardinality(Used)

(* The k-th of a set of numbers. *)
Nth(S, k) == CHOOSE i \in S : Cardinality({j \in S : j <= i}) = k

(* The first slot of a topic, or the first free one. *)
FirstSlot(v, t) ==
  CHOOSE i \in 1 .. Len(v) : v[i].topic = t /\ \A j \in 1 .. i - 1 : v[j].topic # t

(* subinfo_find. *)
SlotsOf(t) == {i \in Used : vector[i].topic = t}
Find(t) == FirstSlot(vector, t)

-----------------------------------------------------------------------------
(* The publisher and the recorder.  Neither is in this repository.  A      *)
(* message is lost at ZeroMQ's high-water mark, or in a receive whose      *)
(* failure mds_fsub_read_file ignores (fsub.c:380).                        *)

Publish(t) ==
  /\ published[t] < MaxMsg[t]
  /\ published' = [published EXCEPT ![t] = @ + 1]
  /\ \/ /\ subs[t] > 0
        /\ queue' = Append(queue, [topic |-> t, seq |-> published[t] + 1])
        /\ arrived' = [arrived EXCEPT ![t] = published[t] + 1]
     \/ /\ subs[t] = 0 \/ "drop" \in Failures
        /\ UNCHANGED <<queue, arrived>>
  /\ UNCHANGED <<written, cuts, tmp, subs, vectorVars, read_file, data, fds, callVars,
                 got, miscounted, twice, leaked>>

CreateTmp(t) ==
  /\ tmp[t] = "none" /\ written[t] < published[t]
  /\ tmp' = [tmp EXCEPT ![t] = IF SlowHead THEN "empty" ELSE "ok"]
  /\ UNCHANGED <<published, written, cuts, subs, queue, vectorVars, read_file, data, fds,
                 callVars, history>>

WriteHead(t) ==
  /\ tmp[t] = "empty"
  /\ tmp' = [tmp EXCEPT ![t] = "ok"]
  /\ UNCHANGED <<published, written, cuts, subs, queue, vectorVars, read_file, data, fds,
                 callVars, history>>

Write(t) ==
  /\ tmp[t] = "ok" /\ written[t] < published[t]
  /\ written' = [written EXCEPT ![t] = @ + 1]
  /\ UNCHANGED <<published, cuts, tmp, subs, queue, vectorVars, read_file, data, fds,
                 callVars, history>>

(* Where the k-th file of a topic, counted from 0, begins. *)
Base(t, k) == IF k = 0 THEN 0 ELSE cuts[t][k]

BeingCompleted(t) ==
  \E i \in SlotsOf(t) : read_file = i \/ vector[i].file # NoFile

(* The .tmp file gets the next number for its name. *)
Rotate(t) ==
  /\ tmp[t] = "ok" /\ Len(cuts[t]) < MaxCuts
  /\ written[t] > Base(t, Len(cuts[t]))
  /\ QuietRotation => ~BeingCompleted(t)
  /\ cuts' = [cuts EXCEPT ![t] = Append(@, written[t])]
  /\ tmp' = [tmp EXCEPT ![t] = "none"]
  /\ UNCHANGED <<published, written, subs, queue, vectorVars, read_file, data, fds,
                 callVars, history>>

Recorder(t) == CreateTmp(t) \/ WriteHead(t) \/ Write(t)

-----------------------------------------------------------------------------
(* mds_fsub_req.                                                           *)

(* Returning from a call, without and with a message. *)
Answer(r) == /\ pc' = "idle"
             /\ out' = [rc |-> r, msg |-> NoMsg]

Deliver(m) == /\ pc' = "idle"
              /\ out' = [rc |-> "data", msg |-> m]
              /\ got' = [got EXCEPT ![m.topic] = m.seq]

(* expand_subinfo: the size and the vector once there is a free slot. *)
NewSize == IF vec_size # nr_sub THEN vec_size
           ELSE IF vec_size = 0 THEN InitSlots ELSE 2 * vec_size
Expanded == [i \in 1 .. NewSize |-> IF i <= vec_size THEN vector[i] ELSE NoSlot]

(* The comparison of subinfo_add: the instrId of a slot with the exchId of *)
(* the new topic.                                                          *)
LooksSubscribed(t) ==
  \E i \in Used : vector[i].topic.exch = t.exch /\ vector[i].topic.instr = t.exch

(* shrink_subinfo: half of the vector is allocated, the slots in use move  *)
(* to its front, vec_size and read_file stay.                              *)
Shrunk(v, size) ==
  LET used == UsedIn(v)
      half == size \div 2 IN
  IF 2 * Cardinality(used) > size \/ size < ShrinkMin THEN v
  ELSE [k \in 1 .. half |-> IF k <= Cardinality(used) THEN v[Nth(used, k)] ELSE NoSlot]

(* Variant of ReadFileAfter: read_file stays. *)
ReadFileStays(t) == read_file

(* subinfo_remove: read_file is cleared when t is what is being completed. *)
ReadFileAfter(t) == IF read_file > 0 /\ data.topic = t THEN 0 ELSE read_file

(* Variant of ClosedWith: the file of the slot stays open. *)
LeftOpen(s) == 0

(* How many fds closing the file of a slot gives back. *)
ClosedWith(s) == IF s.file = NoFile THEN 0 ELSE 1

(* subinfo_remove: the first slot of t in v, a vector of the given size    *)
(* with n incomplete topics, is freed and its file closed.  A shrink that  *)
(* fails is ignored.                                                       *)
RemoveFrom(v, size, n, t) ==
  LET i == FirstSlot(v, t)
      freed == [v EXCEPT ![i] = NoSlot] IN
  /\ \/ vector' = Shrunk(freed, size)
     \/ "calloc" \in Failures /\ vector' = freed
  /\ vec_size' = size
  /\ nr_incompleted' = n - 1
  /\ miscounted' = IF v[i].fseq = -1 THEN miscounted + 1 ELSE miscounted
  /\ fds' = fds - ClosedWith(v[i])
  /\ read_file' = ReadFileAfter(t)

(* A vector shorter than vec_size is read beyond its end, which is         *)
(* undefined: nothing is said of what follows.  After EPROTO the handle    *)
(* must be closed (mdspxy.h:363).                                          *)
MayCall == pc = "idle" /\ out.rc # "EPROTO" /\ vec_size <= Len(vector)

SeenTwice(t) == IF SlotsOf(t) = {} THEN twice ELSE twice \cup {t}

(* subinfo_add and then mds_sub_req, which when it fails has the topic     *)
(* removed again.                                                          *)
Req(t) ==
  /\ MayCall /\ nr_sub < MaxSlots
  /\ LET added == [Expanded EXCEPT ![FirstSlot(Expanded, NoTopic)] = [NoSlot EXCEPT !.topic = t]] IN
     \/ /\ "calloc" \in Failures /\ NewSize # vec_size
        /\ Answer("ENOMEM")
        /\ UNCHANGED <<subs, vectorVars, read_file, fds, miscounted, twice>>
     \/ /\ LooksSubscribed(t)
        /\ Answer("EEXIST")
        /\ vector' = Expanded /\ vec_size' = NewSize
        /\ UNCHANGED <<subs, nr_incompleted, read_file, fds, miscounted, twice>>
     \/ /\ ~LooksSubscribed(t)
        /\ vector' = added /\ vec_size' = NewSize
        /\ nr_incompleted' = nr_incompleted + 1
        /\ subs' = [subs EXCEPT ![t] = @ + 1]
        /\ twice' = SeenTwice(t)
        /\ Answer("ok")
        /\ UNCHANGED <<read_file, fds, miscounted>>
     \/ /\ ~LooksSubscribed(t) /\ "zmq_setsockopt" \in Failures
        /\ RemoveFrom(added, NewSize, nr_incompleted + 1, t)
        /\ twice' = SeenTwice(t)
        /\ Answer("EZMQ")
        /\ UNCHANGED subs
  /\ UNCHANGED <<recorderVars, queue, data, to, left, arrived, got, leaked>>

-----------------------------------------------------------------------------
(* mds_fsub_cancel and mds_fsub_close.                                     *)

(* Variant of Drained: what has arrived stays. *)
Undrained(t) == queue

(* mds_sub_cancel: what has arrived of the topic leaves the queue.         *)
Drained(t) == Selected(queue, {m \in Msg : m.topic # t})

(* Variant of Unsubscribed: as if every topic cancelled were subscribed. *)
UnsubscribedBlindly(t) == subs[t] - 1

Unsubscribed(t) == IF subs[t] > 0 THEN subs[t] - 1 ELSE 0

Cancel(t) ==
  /\ "cancel" \in AppCalls /\ MayCall
  /\ \/ /\ "zmq_setsockopt" \in Failures
        /\ Answer("EZMQ")
        /\ UNCHANGED <<subs, queue, vectorVars, read_file, fds, history>>
     \/ /\ subs' = [subs EXCEPT ![t] = Unsubscribed(t)]
        /\ queue' = Drained(t)
        /\ IF SlotsOf(t) = {}
           THEN Answer("ENOENT") /\ UNCHANGED <<vectorVars, read_file, fds, history>>
           ELSE /\ RemoveFrom(vector, vec_size, nr_incompleted, t)
                /\ got' = [got EXCEPT ![t] = IF subs[t] = 1 THEN 0 ELSE @]
                /\ arrived' = [arrived EXCEPT ![t] = IF subs[t] = 1 THEN 0 ELSE @]
                /\ Answer("ok")
                /\ UNCHANGED <<twice, leaked>>
  /\ UNCHANGED <<recorderVars, data, to, left>>

(* The slots whose file mds_fsub_close closes. *)
HasFile == {i \in Used : vector[i].file # NoFile}

(* mds_fsub_close, and mds_fsub_open for a new handle: a descriptor that   *)
(* no slot has stays open.                                                 *)
Reopen ==
  /\ "close" \in AppCalls /\ pc = "idle" /\ vec_size <= Len(vector)
  /\ subs' = [t \in Topics |-> 0] /\ queue' = <<>>
  /\ vector' = <<>> /\ vec_size' = 0 /\ nr_incompleted' = 0
  /\ read_file' = 0 /\ data' = NoMsg /\ miscounted' = 0
  /\ fds' = fds - Cardinality(HasFile)
  /\ Answer("none")
  /\ arrived' = [t \in Topics |-> 0] /\ got' = [t \in Topics |-> 0] /\ twice' = {}
  /\ UNCHANGED <<recorderVars, to, left, leaked>>

-----------------------------------------------------------------------------
(* mds_fsub_recv.                                                          *)

ReadStep(i) == IF vector[i].file = NoFile THEN "open" ELSE "read"

CallRecv(t) ==
  /\ MayCall
  /\ to' = t /\ left' = t
  /\ pc' = IF read_file > 0 THEN ReadStep(read_file) ELSE "sub"
  /\ out' = [rc |-> "none", msg |-> NoMsg]
  /\ UNCHANGED <<recorderVars, subs, queue, vectorVars, read_file, data, fds, history>>

(* Nothing is there: the call gives up or goes on with step. *)
Wait(timeout, step) ==
  \/ timeout = "zero" /\ Answer("EAGAIN")
  \/ timeout = "finite" /\ Answer("ETIMEDOUT")
  \/ timeout # "zero" /\ pc' = step /\ UNCHANGED out

(* Variant of Taken: a message is looked at and stays. *)
Peeked == queue

(* pop_mds_data: a message leaves the queue. *)
Taken == Tail(queue)

(* Label `next': a message of the subscription is handed out unless its    *)
(* topic is still to be completed.                                         *)
RecvSub ==
  /\ pc = "sub"
  /\ IF queue = <<>>
     THEN Wait(to, "sub") /\ UNCHANGED <<queue, vector, read_file, data, left, got>>
     ELSE LET m == Head(queue) IN
          /\ queue' = Taken
          /\ data' = m
          /\ left' = to
          /\ IF m.seq = 1 \/ nr_incompleted = 0
             THEN Deliver(m) /\ UNCHANGED <<vector, read_file>>
             ELSE IF SlotsOf(m.topic) = {}
             THEN (* assert(!rc) *)
                  pc' = "abort" /\ UNCHANGED <<vector, read_file, out, got>>
             ELSE IF vector[Find(m.topic)].fseq = -1
             THEN Deliver(m) /\ UNCHANGED <<vector, read_file>>
             ELSE /\ read_file' = Find(m.topic)
                  /\ vector' = [vector EXCEPT ![Find(m.topic)].fseq = 0]
                  /\ pc' = ReadStep(Find(m.topic))
                  /\ UNCHANGED <<out, got>>
  /\ UNCHANGED <<recorderVars, subs, vec_size, nr_incompleted, fds, to, arrived,
                 miscounted, twice, leaked>>

(* mds_sub_recv reports a frame it cannot use. *)
RecvFails ==
  /\ pc = "sub" /\ "zmq_recv" \in Failures
  /\ Answer("EPROTO")
  /\ UNCHANGED <<recorderVars, subs, queue, vectorVars, read_file, data, fds, to, left,
                 history>>

(* open_file subtracts microseconds from the timeout it was given.         *)
Remaining(timeout) ==
  IF timeout = "finite" THEN {"zero", "finite", "infinite"} ELSE {timeout}

(* A file of the topic of slot i is open for reading. *)
Opened(i, no, closed, fseq) ==
  /\ vector' = [vector EXCEPT
       ![i].file = [no |-> no, at |-> Base(vector[i].topic, no), closed |-> closed],
       ![i].fseq = fseq]
  /\ left' \in Remaining(left)
  /\ fds' = fds + 1
  /\ pc' = "read"
  /\ UNCHANGED out

(* Variant of NextFile: the file that was opened is opened again. *)
SameFile(fseq) == fseq

(* open_file: `sinfo->fseq++'. *)
NextFile(fseq) == fseq + 1

(* open_file: the closed file of number fseq.  The name of the file is cut *)
(* out of its path, else EINVAL; exchIdstr aborts for a free slot.         *)
OpenSeqFile ==
  /\ pc = "open"
  /\ LET s == vector[read_file] IN
     IF s.topic = NoTopic
     THEN pc' = "abort" /\ UNCHANGED <<vector, fds, left, out>>
     ELSE IF FormatSep # ParseSep
     THEN Answer("EINVAL") /\ UNCHANGED <<vector, fds, left>>
     ELSE IF s.fseq < Len(cuts[s.topic])
     THEN Opened(read_file, s.fseq, TRUE, NextFile(s.fseq))
     ELSE pc' = "opentmp" /\ UNCHANGED <<vector, fds, left, out>>
  /\ UNCHANGED <<recorderVars, subs, queue, vec_size, nr_incompleted, read_file, data,
                 to, history>>

(* open_file: the file that is still written, else both are tried again.   *)
(* mds_file_open refuses a file without a head and leaves it open.  With   *)
(* an infinite timeout the wait ends as well: get_time() is sign-extended, *)
(* so that it is beyond start + INT64_MAX while the clock is negative.     *)
OpenTmpFile ==
  /\ pc = "opentmp"
  /\ LET s == vector[read_file] IN
     \/ /\ tmp[s.topic] = "ok"
        /\ Opened(read_file, Len(cuts[s.topic]), FALSE, s.fseq)
        /\ UNCHANGED leaked
     \/ /\ tmp[s.topic] = "empty" /\ leaked < MaxLeaks
        /\ Answer("EPROTO")
        /\ fds' = fds + 1 /\ leaked' = leaked + 1
        /\ UNCHANGED <<vector, left>>
     \/ /\ tmp[s.topic] = "none"
        /\ Wait(left, "open") \/ (left = "infinite" /\ Answer("ETIMEDOUT"))
        /\ UNCHANGED <<vector, fds, left, leaked>>
  /\ UNCHANGED <<recorderVars, subs, queue, vec_size, nr_incompleted, read_file, data,
                 to, arrived, got, miscounted, twice>>

(* The number of the last message of a file so far. *)
FileEnd(t, no) == IF no < Len(cuts[t]) THEN cuts[t][no + 1] ELSE written[t]

(* A message is handed out, or is a heartbeat and the subscription is read.*)
HandOut(m) ==
  IF <<m.topic, m.seq>> \in Beats
  THEN /\ pc' = "sub" /\ UNCHANGED out
       /\ got' = [got EXCEPT ![m.topic] = m.seq]
  ELSE Deliver(m)

(* Variant of Follows: the number is not compared. *)
AlwaysFollows(s, n) == TRUE

(* mds_fsub_read_file: message n is the next of slot s. *)
Follows(s, n) == s.dseq + 1 = n

(* Variant of Reaches: the file has to go beyond the kept message. *)
GoesBeyond(n) == n > data.seq

(* mds_fsub_read_file: the file has reached the message kept in fsub->data.*)
Reaches(n) == n >= data.seq

(* Variant of OneLess: only subinfo_remove counts. *)
SameCount == nr_incompleted

(* mds_fsub_close_file: `fsub->nr_incompleted--'. *)
OneLess == nr_incompleted - 1

(* mds_fsub_read_file has read message n: it must be the one that follows, *)
(* and when it is the one kept in fsub->data the topic is complete.        *)
FromFile(i, n) ==
  LET s == vector[i]
      isChlseq == \E b \in Beats : b[1] = s.topic IN
  IF ~Follows(s, n) \/ (n > data.seq /\ ~isChlseq)
  THEN /\ Answer("EPROTO")
       /\ vector' = [vector EXCEPT ![i].file.at = n]
       /\ UNCHANGED <<nr_incompleted, read_file, fds, got>>
  ELSE IF ~Reaches(n)
  THEN /\ vector' = [vector EXCEPT ![i].file.at = n, ![i].dseq = n]
       /\ HandOut([topic |-> s.topic, seq |-> n])
       /\ UNCHANGED <<nr_incompleted, read_file, fds>>
  ELSE /\ vector' = [vector EXCEPT ![i].file = NoFile, ![i].fseq = -1, ![i].dseq = n]
       /\ nr_incompleted' = OneLess
       /\ fds' = fds - 1
       /\ read_file' = 0
       /\ HandOut(data)

(* mds_fsub_read_file: the next message of the file; at the end of a       *)
(* closed file, or of one that is found to have been renamed, the next     *)
(* file.                                                                   *)
ReadFile ==
  /\ pc = "read"
  /\ LET s == vector[read_file]
         f == s.file IN
     \/ /\ f.at < FileEnd(s.topic, f.no)
        /\ FromFile(read_file, f.at + 1)
     \/ /\ f.at = FileEnd(s.topic, f.no)
        /\ f.closed \/ (f.no < Len(cuts[s.topic]) /\ tmp[s.topic] # "none" /\ left # "zero")
        /\ vector' = [vector EXCEPT ![read_file].file = NoFile]
        /\ fds' = fds - 1
        /\ pc' = "open"
        /\ UNCHANGED <<nr_incompleted, read_file, out, got>>
     \/ /\ f.at = FileEnd(s.topic, f.no) /\ ~f.closed
        /\ Wait(left, "read")
        /\ UNCHANGED <<vector, nr_incompleted, read_file, fds, got>>
  /\ UNCHANGED <<recorderVars, subs, queue, vec_size, data, to, left, arrived, miscounted,
                 twice, leaked>>

-----------------------------------------------------------------------------
Init ==
  /\ published = [t \in Topics |-> 0] /\ written = [t \in Topics |-> 0]
  /\ cuts = [t \in Topics |-> <<>>] /\ tmp = [t \in Topics |-> "none"]
  /\ subs = [t \in Topics |-> 0] /\ queue = <<>>
  /\ vector = <<>> /\ vec_size = 0 /\ nr_incompleted = 0
  /\ read_file = 0 /\ data = NoMsg /\ fds = 0
  /\ pc = "idle" /\ to = "zero" /\ left = "zero"
  /\ out = [rc |-> "none", msg |-> NoMsg]
  /\ arrived = [t \in Topics |-> 0] /\ got = [t \in Topics |-> 0] /\ miscounted = 0
  /\ twice = {} /\ leaked = 0

Handle == RecvSub \/ RecvFails \/ OpenSeqFile \/ OpenTmpFile \/ ReadFile

Next ==
  \/ \E t \in Topics : Publish(t) \/ Recorder(t) \/ Rotate(t) \/ Req(t) \/ Cancel(t)
  \/ \E timeout \in Timeouts : CallRecv(timeout)
  \/ Reopen
  \/ Handle

Spec == Init /\ [][Next]_vars

(* What mds_fsub_recv returned: nothing else makes the application of      *)
(* tests/read_fsub.c:40-43 leave its loop.                                 *)
Stopped == out.rc \notin {"none", "ok", "data", "ETIMEDOUT"}

(* A process in a call keeps running, the application calls mds_fsub_recv  *)
(* again as long as it has not stopped, and what was published is          *)
(* eventually recorded.                                                    *)
FairSpec ==
  /\ Spec
  /\ WF_vars(Handle)
  /\ WF_vars(\E timeout \in Timeouts : ~Stopped /\ CallRecv(timeout))
  /\ \A t \in Topics : WF_vars(Recorder(t))

-----------------------------------------------------------------------------
(* Properties.                                                             *)

(* The type of every variable. *)
TypeOK ==
  /\ published \in [Topics -> Nat] /\ written \in [Topics -> Nat]
  /\ cuts \in [Topics -> Seq(Nat)]
  /\ tmp \in [Topics -> {"none", "empty", "ok"}]
  /\ subs \in [Topics -> Nat] /\ queue \in Seq(Msg)
  /\ vector \in Seq(Slot) /\ vec_size \in Nat /\ nr_incompleted \in Int
  /\ read_file \in Nat /\ data \in Msg \cup {NoMsg} /\ fds \in Nat
  /\ pc \in {"idle", "sub", "open", "opentmp", "read", "abort"}
  /\ to \in {"zero", "finite", "infinite"} /\ left \in {"zero", "finite", "infinite"}
  /\ out.rc \in {"none", "ok", "data", "EAGAIN", "ETIMEDOUT", "EPROTO", "EINVAL",
                 "EEXIST", "ENOENT", "ENOMEM", "EZMQ"}
  /\ out.msg \in Msg \cup {NoMsg}
  /\ arrived \in [Topics -> Nat] /\ got \in [Topics -> Nat] /\ miscounted \in Nat
  /\ twice \subseteq Topics /\ leaked \in Nat

Incomplete == {i \in Used : vector[i].fseq # -1}

(* fsub.c:424, assert(!rc): whatever was subscribed and cancelled before,  *)
(* no message arrives whose topic has no slot, and no file is looked for   *)
(* for a slot that is free.                                                *)
SubscribedIsFound ==
  pc # "abort"

(* fsub.c:16: when read_file is set, the topic of the message kept in      *)
(* fsub->data is being completed in that slot and has not reached it; and  *)
(* only a slot that is in use and not complete has a file open.            *)
ReadFileValid ==
  /\ read_file > 0 =>
       /\ read_file \in Incomplete
       /\ vector[read_file].topic = data.topic
       /\ vector[read_file].dseq < data.seq
  /\ \A i \in DOMAIN vector : vector[i].file # NoFile => i \in Incomplete

(* fsub.c:414, "see whether there is still something to complete":         *)
(* nr_incompleted is the number of topics not yet completed, less those    *)
(* that subinfo_remove counted although they were complete (fsub.c:199);   *)
(* until that has happened no topic is handed out without completion.      *)
CountIsShort ==
  nr_incompleted = Cardinality(Incomplete) - miscounted

(* fsub.c:209-213, 316, 353, 443: whatever is cancelled, completed,       *)
(* followed by the next file or closed, as many descriptors are open as    *)
(* slots have a file, and one more for each time mds_file_open refused a   *)
(* file without a head: that one (file.c:252-261) nothing ever closes, not *)
(* even mds_fsub_close.                                                    *)
FilesClosed ==
  fds = Cardinality({i \in DOMAIN vector : vector[i].file # NoFile}) + leaked

(* The application gets the messages of a topic without a gap from the     *)
(* first one on, whatever part of them comes from files and whatever from  *)
(* the subscription; it may get message 1 again, never any other.  This is *)
(* said of a handle whose count of incomplete topics is right, of topics   *)
(* that had no second slot, and of a subscription that loses nothing: of   *)
(* two slots one may be complete when a cancel drops what was queued       *)
(* (sub.c:244-257) though the topic stays subscribed, or one may be freed  *)
(* and the other complete the topic once more.                             *)
NoGap ==
  [][\A t \in Topics :
       miscounted = 0 /\ t \notin twice /\ out'.rc = "data" /\ out'.msg.topic = t /\ pc # "idle" =>
         out'.msg.seq \in {1, got[t] + 1}]_vars

(* fsub.c:379, "go on receiving": even when messages of the subscription   *)
(* are lost, none but message 1 is handed out twice or after a later one.  *)
NoRepeat ==
  [][\A t \in Topics :
       miscounted = 0 /\ t \notin twice /\ out'.rc = "data" /\ out'.msg.topic = t /\ pc # "idle" =>
         out'.msg.seq = 1 \/ out'.msg.seq > got[t]]_vars

(* fsub.c:361, "subscriptions are sent first, this cannot happen": the     *)
(* file never jumps to a message that does not follow.                     *)
NoProtoError ==
  out.rc # "EPROTO"

(* mdspxy.h:375, "completes automatically", for the loop of               *)
(* tests/read_fsub.c: whatever was recorded before and however far behind  *)
(* the file is, again and again the application has been handed everything *)
(* the subscription got, or mds_fsub_recv has returned what makes it leave *)
(* the loop.  It never goes on for ever without either.                    *)
CatchesUpOrStops ==
  []<>(Stopped \/ \A t \in Topics : got[t] >= arrived[t])
=============================================================================
