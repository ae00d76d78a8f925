------------------------------ MODULE MdsFile ------------------------------
(***************************************************************************)
(* One mds_file handle (src/src/file.c over src/src/read_v1.c) following a *)
(* file that another process, the recorder, is still writing and may at    *)
(* any moment rename.                                                      *)
(*                                                                         *)
(* The file is an 8-byte head followed by batches.  Lengths are counted in *)
(* units, small enough that every short read the code tells apart can      *)
(* happen: the file head is 1 unit; a batch is a batch_head of 2 units,    *)
(* one unit per segment_head and 2 units per message body.  The recorder   *)
(* appends one unit at a time, so a reader can find any prefix of a batch. *)
(* Messages are numbered 1, 2, 3, ... in the order they were recorded (the *)
(* `seq' field of every record); payloads are not modelled.  Each _read()  *)
(* of the reader is a step of its own.                                     *)
(***************************************************************************)
EXTENDS Integers, Sequences

CONSTANTS
  MaxBatches,   (* bound: batches the recorder writes to this file         *)
  MaxBatch,     (* bound: messages in one batch (the code says up to 64)   *)
  NewCap,       (* bound: units of the file that takes the name over       *)
  Timeouts,     (* the timeouts the application passes to mds_file_read    *)
  Faults,       (* ways the contents of a batch may be inconsistent: a     *)
                (* wrong checksum of the header or of the bodies, a wrong  *)
                (* type or length in a segment_head                        *)
  Failures,     (* system calls that may fail: "ENOMEM" malloc, "EIO" read *)
  AppCalls,     (* what the application does besides reading: "lseek",     *)
                (* "close"                                                 *)
  TornRename    (* whether a recorder may die in a batch and its file be   *)
                (* renamed as it is                                        *)

ASSUME MdsFileAssumption ==
  /\ MaxBatches \in Nat
  /\ MaxBatch \in Nat
  /\ NewCap \in Int
  /\ Timeouts \subseteq {"zero", "finite", "infinite"}
  /\ Faults \subseteq {"hdr", "type", "length", "body"}
  /\ Failures \subseteq {"ENOMEM", "EIO"}
  /\ AppCalls \subseteq {"lseek", "close"}
  /\ TornRename \in BOOLEAN

VARIABLES
  (* The recorder and the file system. *)
  batches,      (* the batches of the open file, in order                  *)
  size,         (* how many units of them are in the file                  *)
  renamed,      (* the file no longer has the name it was opened by        *)
  newSize,      (* size of the file that has that name now, -1 for none    *)
  (* struct mds_file and struct mds_istream. *)
  open,         (* the handle exists                                       *)
  closed,       (* file->closed: the file will not be written any more     *)
  offset,       (* stream->offset: where the next batch starts             *)
  pos,          (* the position of stream->fd                              *)
  nr_msg,       (* stream->nr_msg                                          *)
  queue,        (* stream->queue: numbers of the buffered messages         *)
  (* The call in progress. *)
  pc,           (* where the call is                                       *)
  op,           (* "read" or "lseek"                                       *)
  to,           (* the timeout of the call                                 *)
  bh,           (* the batch whose header was read                         *)
  seg,          (* readv_nointr: bodies read so far                        *)
  rc,           (* what stream->read or stream->lseek returned             *)
  ret,          (* what the last API call returned                         *)
  (* History. *)
  consumed,     (* the last message delivered, or dropped by mds_file_lseek*)
  mark          (* the last message recorded in full when lseek was called *)

fileVars   == <<batches, size, renamed, newSize>>
streamVars == <<open, closed, offset, pos, nr_msg, queue>>
callVars   == <<pc, op, to, bh, seg, rc, ret>>
vars       == <<fileVars, streamVars, callVars, consumed, mark>>

-----------------------------------------------------------------------------
(* The layout of a batch. *)

Batch == [at : Nat, first : Nat, nr : Nat, fault : Faults \cup {"none"}]

SizeOf(b) == 2 + 3 * b.nr
EndOf(b)  == b.at + SizeOf(b)
Numbers(b) == [i \in 1 .. b.nr |-> b.first + i - 1]

(* Where the k-th batch starts, also for the batch not written yet, and    *)
(* the number of its first message.                                        *)
StartAt(k) == IF k = 1 THEN 1 ELSE EndOf(batches[k - 1])
FirstAt(k) == IF k = 1 THEN 1 ELSE batches[k - 1].first + batches[k - 1].nr

FileEnd == StartAt(Len(batches) + 1)

(* Place o of the file lies in the k-th batch: behind its start, or there. *)
InBatch(k, o) == StartAt(k) <= o /\ (k <= Len(batches) => o < EndOf(batches[k]))

(* A batch that starts before o has a length that is wrong.                *)
WrongBefore(o) == \E i \in DOMAIN batches : batches[i].fault = "length" /\ batches[i].at < o

(* The last message of the file that is there in full: only the batch      *)
(* being written can be torn.                                              *)
Whole    == IF size >= FileEnd \/ batches = <<>> THEN Len(batches) ELSE Len(batches) - 1
Recorded == FirstAt(Whole + 1) - 1

-----------------------------------------------------------------------------
(* The recorder.  It is not in this repository: what it does is what the   *)
(* reader is written for.                                                  *)

WriteFileHead ==
  /\ size = 0 /\ ~renamed
  /\ size' = 1
  /\ UNCHANGED <<batches, renamed, newSize, streamVars, callVars, consumed, mark>>

BeginBatch(n, f) ==
  /\ size = FileEnd /\ ~renamed
  /\ Len(batches) < MaxBatches
  /\ f \in {"type", "length"} => n > 0
  /\ batches' = Append(batches, [at |-> size, first |-> FirstAt(Len(batches) + 1),
                                 nr |-> n, fault |-> f])
  /\ UNCHANGED <<size, renamed, newSize, streamVars, callVars, consumed, mark>>

WriteUnit ==
  /\ 1 <= size /\ size < FileEnd /\ ~renamed
  /\ size' = size + 1
  /\ UNCHANGED <<batches, renamed, newSize, streamVars, callVars, consumed, mark>>

Rename ==
  /\ 1 <= size /\ ~renamed
  /\ size = FileEnd \/ TornRename
  /\ renamed' = TRUE
  /\ UNCHANGED <<batches, size, newSize, streamVars, callVars, consumed, mark>>

(* A file of the old name is created, and then written like the first.     *)
WriteNewFile ==
  /\ renamed /\ newSize < NewCap
  /\ newSize' = newSize + 1
  /\ UNCHANGED <<batches, size, renamed, streamVars, callVars, consumed, mark>>

Recorder ==
  \/ WriteFileHead
  \/ \E n \in 0 .. MaxBatch, f \in Faults \cup {"none"} : BeginBatch(n, f)
  \/ WriteUnit
  \/ Rename
  \/ WriteNewFile

(* get_filesize(file->name): the size of whatever has the name now.        *)
NameSize == IF renamed THEN newSize ELSE size

-----------------------------------------------------------------------------
(* mds_file_open and mds_file_close.  A file is opened by its .tmp name    *)
(* until it is renamed and by a closed name after that; a file whose head  *)
(* is not there yet is refused with EPROTO.                                *)

Open ==
  /\ ~open /\ pc = "idle"
  /\ IF size = 0
     THEN /\ ret' = "open_EPROTO"
          /\ UNCHANGED <<open, closed, offset, pos, nr_msg, queue, consumed>>
     ELSE /\ open' = TRUE /\ closed' = renamed
          /\ offset' = 1 /\ pos' = 1
          /\ nr_msg' = 0 /\ queue' = <<>>
          /\ consumed' = 0
          /\ ret' = "none"
  /\ UNCHANGED <<fileVars, pc, op, to, bh, seg, rc, mark>>

Close ==
  /\ "close" \in AppCalls /\ open /\ pc = "idle"
  /\ open' = FALSE
  /\ queue' = <<>> /\ nr_msg' = 0
  /\ ret' = "none"
  /\ UNCHANGED <<fileVars, closed, offset, pos, pc, op, to, bh, seg, rc,
                 consumed, mark>>

-----------------------------------------------------------------------------
(* The calls. *)

CallRead(t) ==
  /\ open /\ pc = "idle"
  /\ op' = "read" /\ to' = t
  /\ pc' = "ready" /\ ret' = "none"
  /\ UNCHANGED <<fileVars, streamVars, bh, seg, rc, consumed, mark>>

(* mds_file_lseek first drops what is buffered. *)
CallLseek ==
  /\ "lseek" \in AppCalls /\ open /\ pc = "idle"
  /\ op' = "lseek"
  /\ pc' = "head" /\ ret' = "none"
  /\ queue' = <<>> /\ nr_msg' = 0
  /\ consumed' = consumed + Len(queue)
  /\ mark' = Recorded
  /\ UNCHANGED <<fileVars, open, closed, offset, pos, to, bh, seg, rc>>

Return(r) ==
  /\ pc' = "idle"
  /\ ret' = r

(* Label `ready': hand out a buffered message, else read a batch.          *)
Ready ==
  /\ pc = "ready"
  /\ \/ /\ nr_msg > 0 /\ queue # <<>>
        /\ nr_msg' = nr_msg - 1
        /\ queue' = Tail(queue)
        /\ consumed' = Head(queue)
        /\ Return("data")
     \/ (* assert(msg) *)
        /\ nr_msg > 0 /\ queue = <<>>
        /\ pc' = "abort"
        /\ UNCHANGED <<nr_msg, queue, consumed, ret>>
     \/ /\ nr_msg = 0
        /\ pc' = "head"
        /\ UNCHANGED <<nr_msg, queue, consumed, ret>>
  /\ UNCHANGED <<fileVars, open, closed, offset, pos, op, to, bh, seg, rc, mark>>

-----------------------------------------------------------------------------
(* read__mds_istream_v1 and lseek_mds_istream_v1: one batch.               *)

(* What _read(fd, ., n) returns. *)
Read(n) == IF size - pos < n THEN size - pos ELSE n

(* Variants of GiveUp: the fd stays where the batch broke off, or goes     *)
(* back by the length of a batch_head only.                                *)
GiveUpHere(r) ==
  /\ rc' = r /\ pc' = "result"
  /\ UNCHANGED <<pos, offset, nr_msg, queue, consumed, bh, seg>>

GiveUpHead(r) ==
  /\ rc' = r /\ pc' = "result"
  /\ pos' = pos - 2
  /\ UNCHANGED <<offset, nr_msg, queue, consumed, bh, seg>>

(* Label `out' with rc < 1: the batch is given up and the fd goes back.    *)
GiveUp(r) ==
  /\ rc' = r /\ pc' = "result"
  /\ pos' = offset
  /\ UNCHANGED <<offset, nr_msg, queue, consumed, bh, seg>>

(* Variant of Take: stream->offset stays behind the fd. *)
TakeWithoutOffset(b) ==
  /\ rc' = "more" /\ pc' = "result"
  /\ pos' = EndOf(b)
  /\ nr_msg' = nr_msg + b.nr
  /\ IF op = "read"
     THEN queue' = queue \o Numbers(b) /\ UNCHANGED consumed
     ELSE consumed' = consumed + b.nr /\ UNCHANGED queue
  /\ UNCHANGED <<offset, bh, seg>>

(* Label `end': the batch is taken. Only a read keeps its messages.        *)
Take(b) ==
  /\ rc' = "more" /\ pc' = "result"
  /\ pos' = EndOf(b) /\ offset' = EndOf(b)
  /\ nr_msg' = nr_msg + b.nr
  /\ IF op = "read"
     THEN queue' = queue \o Numbers(b) /\ UNCHANGED consumed
     ELSE consumed' = consumed + b.nr /\ UNCHANGED queue
  /\ UNCHANGED <<bh, seg>>

(* mds_file_lseek believes lengths that nobody has verified, and goes on   *)
(* wherever they lead.  What the handle has dropped by then are the        *)
(* messages of the batches that end there or before.                       *)
Stray(o, n) ==
  /\ rc' = "more" /\ pc' = "result"
  /\ pos' = o /\ offset' = o
  /\ nr_msg' = nr_msg + n
  /\ \E k \in 1 .. Len(batches) + 1 : InBatch(k, o) /\ consumed' = FirstAt(k) - 1
  /\ UNCHANGED <<queue, bh, seg>>

(* The call goes on with n more units read. *)
GoOn(step, n) ==
  /\ pc' = step /\ pos' = pos + n
  /\ UNCHANGED <<offset, nr_msg, queue, consumed, rc>>

Fails(r) == r \in Failures /\ GiveUp(r)

(* mds_istream_v1: an empty batch is all in its header, and only a read    *)
(* looks at the header's checksum.                                         *)
ReadHead ==
  /\ pc = "head"
  /\ \/ (* the one error that leaves the fd where it is *)
        /\ "EIO" \in Failures
        /\ rc' = "EIO" /\ pc' = "result"
        /\ UNCHANGED <<pos, offset, nr_msg, queue, consumed, bh, seg>>
     \/ Read(2) = 0 /\ GiveUp("eob")
     \/ Read(2) = 1 /\ GiveUp("EAGAIN")
     \/ /\ Read(2) = 2
        /\ \E i \in DOMAIN batches :
             LET b == batches[i] IN
             /\ b.at = pos
             /\ \/ b.nr > 0 /\ bh' = i /\ seg' = 0 /\ GoOn("segs", 2)
                \/ /\ b.nr = 0
                   /\ IF b.fault = "body" \/ (op = "read" /\ b.fault = "hdr")
                      THEN GiveUp("EPROTO")
                      ELSE Take(b)
  /\ UNCHANGED <<fileVars, open, closed, op, to, ret, mark>>

(* A handle that strayed takes whatever is there for a batch_head.  A read *)
(* gets nothing out of it: the header's checksum is wrong, the count asks  *)
(* for too much memory or more than is in the file, or all bytes are 0,    *)
(* which is an empty batch whose checksum is 0, as it should be.  lseek    *)
(* looks at no checksum and skips what the counts and lengths it finds say *)
(* (n: whether there was a count, all that is asked of it later on).       *)
ReadStray ==
  /\ pc = "head" /\ Read(2) = 2
  /\ \A i \in DOMAIN batches : batches[i].at # pos
  /\ \/ \E r \in {"EAGAIN", "EPROTO", "ENOMEM", "EIO"} : GiveUp(r)
     \/ Stray(pos + 2, 0)
     \/ op = "lseek" /\ \E o \in pos + 2 .. size, n \in {0, 1} : Stray(o, n)
  /\ UNCHANGED <<fileVars, open, closed, op, to, ret, mark>>

(* The segment heads; a read then checks the header's checksum and, one    *)
(* message after the other, its type and length.  lseek looks at neither.  *)
ReadSegments ==
  /\ pc = "segs"
  /\ LET b == batches[bh] IN
     \/ Fails("EIO") \/ Fails("ENOMEM")
     \/ Read(b.nr) < b.nr /\ GiveUp("EAGAIN")
     \/ /\ Read(b.nr) = b.nr
        /\ op = "read" /\ b.fault \in {"hdr", "type", "length"}
        /\ GiveUp("EPROTO")
     \/ /\ Read(b.nr) = b.nr
        /\ op = "read" => b.fault \notin {"hdr", "type", "length"}
        /\ GoOn("body", b.nr)
        /\ UNCHANGED <<bh, seg>>
  /\ UNCHANGED <<fileVars, open, closed, op, to, ret, mark>>

(* Whether the bodies are too short in all, and a variant that looks at    *)
(* what the last _read returned.                                           *)
LastIsShort(b) == Read(2) < 2
BodiesAreShort(b) == pos + Read(2) # EndOf(b)

(* readv_nointr is one _read per body: a short one is followed by the      *)
(* next, which may get what the recorder has appended in between, and only *)
(* the total tells.                                                        *)
ReadBody ==
  /\ pc = "body" /\ op = "read"
  /\ LET b == batches[bh] IN
     \/ Fails("EIO")
     \/ Read(2) = 0 /\ GiveUp("EAGAIN")
     \/ /\ Read(2) > 0 /\ seg + 1 < b.nr
        /\ seg' = seg + 1
        /\ GoOn("body", Read(2))
        /\ UNCHANGED bh
     \/ /\ Read(2) > 0 /\ seg + 1 = b.nr
        /\ IF BodiesAreShort(b)        THEN GiveUp("EAGAIN")
           ELSE IF b.fault = "body"    THEN GiveUp("EPROTO")
           ELSE Take(b)
  /\ UNCHANGED <<fileVars, open, closed, op, to, ret, mark>>

(* lseek reads as much as the lengths add up to at once and does not look  *)
(* at it.  Lengths that are wrong add up to anything: less than there is   *)
(* in the file, more, or more than there is memory for or one _read takes. *)
SkipBody ==
  /\ pc = "body" /\ op = "lseek"
  /\ LET b == batches[bh] IN
     \/ Fails("EIO") \/ Fails("ENOMEM")
     \/ b.fault # "length" /\ Read(2 * b.nr) < 2 * b.nr /\ GiveUp("EAGAIN")
     \/ b.fault # "length" /\ Read(2 * b.nr) = 2 * b.nr /\ Take(b)
     \/ b.fault = "length" /\ \E r \in {"EAGAIN", "ENOMEM", "EIO"} : GiveUp(r)
     \/ b.fault = "length" /\ \E o \in pos .. size : Stray(o, b.nr)
  /\ UNCHANGED <<fileVars, open, closed, op, to, ret, mark>>

-----------------------------------------------------------------------------
(* mds_file_read once stream->read has returned. *)

ReadResult ==
  /\ pc = "result" /\ op = "read"
  /\ \/ rc = "more" /\ pc' = "ready" /\ UNCHANGED ret
     \/ rc = "eob" /\ closed /\ Return("eof")
     \/ rc \in {"EPROTO", "ENOMEM", "EIO"} /\ Return(rc)
     \/ rc = "EAGAIN" /\ closed /\ Return("EPROTO")
     \/ /\ rc \in {"eob", "EAGAIN"} /\ ~closed
        /\ \/ to = "zero" /\ Return("EAGAIN")
           \/ to = "finite" /\ Return("ETIMEDOUT")
           \/ to # "zero" /\ pc' = "poll" /\ UNCHANGED ret
  /\ UNCHANGED <<fileVars, streamVars, op, to, bh, seg, rc, consumed, mark>>

(* Variant of LooksRenamed: a file that was read to its end counts too. *)
LooksRenamedAtEnd == NameSize > 0 /\ NameSize <= offset

(* After the sleep: a file of this name that is shorter than what was read *)
(* of it is another file, so ours was renamed and is complete.             *)
LooksRenamed == NameSize > 0 /\ NameSize < offset

(* Variant of Poll: the end is reported without reading once more. *)
PollAndStop ==
  /\ pc = "poll"
  /\ closed' = (closed \/ LooksRenamed)
  /\ pc' = IF closed' THEN "result" ELSE "head"
  /\ UNCHANGED <<fileVars, open, offset, pos, nr_msg, queue, op, to, bh, seg, rc,
                 ret, consumed, mark>>

Poll ==
  /\ pc = "poll"
  /\ closed' = (closed \/ LooksRenamed)
  /\ pc' = "head"
  /\ UNCHANGED <<fileVars, open, offset, pos, nr_msg, queue, op, to, bh, seg, rc,
                 ret, consumed, mark>>

(* Variant of LseekResult: one batch is skipped, not all of them. *)
LseekOneBatch ==
  /\ pc = "result" /\ op = "lseek"
  /\ \/ rc \in {"more", "eob", "EAGAIN"} /\ nr_msg' = 0 /\ Return("ok")
     \/ rc \in {"EPROTO", "ENOMEM", "EIO"} /\ Return(rc) /\ UNCHANGED nr_msg
  /\ UNCHANGED <<fileVars, open, closed, offset, pos, queue, op, to, bh, seg, rc,
                 consumed, mark>>

(* lseek__mds_istream_v1 repeats until a batch cannot be skipped; only a   *)
(* clean end resets the count of messages.                                 *)
LseekResult ==
  /\ pc = "result" /\ op = "lseek"
  /\ \/ rc = "more" /\ pc' = "head" /\ UNCHANGED <<nr_msg, ret>>
     \/ rc \in {"eob", "EAGAIN"} /\ nr_msg' = 0 /\ Return("ok")
     \/ rc \in {"EPROTO", "ENOMEM", "EIO"} /\ Return(rc) /\ UNCHANGED nr_msg
  /\ UNCHANGED <<fileVars, open, closed, offset, pos, queue, op, to, bh, seg, rc,
                 consumed, mark>>

-----------------------------------------------------------------------------
Init ==
  /\ batches = <<>> /\ size = 0 /\ renamed = FALSE /\ newSize = -1
  /\ open = FALSE /\ closed = FALSE /\ offset = 1 /\ pos = 1
  /\ nr_msg = 0 /\ queue = <<>>
  /\ pc = "idle" /\ op = "read" /\ to = "zero" /\ bh = 1 /\ seg = 0
  /\ rc = "eob" /\ ret = "none"
  /\ consumed = 0 /\ mark = 0

Stream == ReadHead \/ ReadStray \/ ReadSegments \/ ReadBody \/ SkipBody

Handle == Ready \/ Stream \/ ReadResult \/ Poll \/ LseekResult

Application ==
  \/ Open \/ Close
  \/ \E t \in Timeouts : CallRead(t)
  \/ CallLseek

Next == Recorder \/ Application \/ Handle

Spec == Init /\ [][Next]_vars

(* A process in a call keeps running, and the application reads on after   *)
(* every message as tests/read_file.c does.                                *)
ReaderFairness ==
  /\ WF_vars(Open)
  /\ WF_vars(open /\ \E t \in Timeouts : CallRead(t))
  /\ WF_vars(Handle)

FairSpec == Spec /\ ReaderFairness

(* With a recorder that also goes on.                                      *)
FairRecorderSpec == FairSpec /\ WF_vars(Rename) /\ WF_vars(WriteNewFile)

-----------------------------------------------------------------------------
(* Properties.                                                             *)

Steps == {"idle", "ready", "head", "segs", "body", "result", "poll", "abort"}

(* The type of every variable. *)
TypeOK ==
  /\ batches \in Seq(Batch) /\ size \in Nat
  /\ renamed \in BOOLEAN /\ newSize \in Int
  /\ open \in BOOLEAN /\ closed \in BOOLEAN
  /\ offset \in Nat /\ pos \in Nat /\ nr_msg \in Nat /\ queue \in Seq(Nat)
  /\ pc \in Steps /\ op \in {"read", "lseek"}
  /\ to \in {"zero", "finite", "infinite"}
  /\ bh \in Nat /\ seg \in Nat
  /\ rc \in {"more", "eob", "EAGAIN", "EPROTO", "ENOMEM", "EIO"}
  /\ ret \in {"none", "data", "eof", "ok", "open_EPROTO",
              "EAGAIN", "ETIMEDOUT", "EPROTO", "ENOMEM", "EIO"}
  /\ consumed \in Nat /\ mark \in Nat

(* stream->offset is always the start of a batch, unless mds_file_lseek    *)
(* skipped one whose lengths are wrong, every batch before it is in the    *)
(* file in full, and the buffer holds exactly the messages between the     *)
(* last one consumed and that batch: none torn, lost, repeated or out of   *)
(* order, whatever the recorder writes between two _read()s of a batch.    *)
BufferIsNext ==
  open =>
    /\ offset <= size
    /\ \E k \in 1 .. Len(batches) + 1 :
         /\ InBatch(k, offset)
         /\ offset = StartAt(k) \/ WrongBefore(offset)
         /\ consumed + Len(queue) + 1 = FirstAt(k)
    /\ \A i \in 1 .. Len(queue) : queue[i] = consumed + i

(* A batch that could not be taken leaves no trace: outside of a batch the *)
(* fd stands at stream->offset, so the next attempt reads a batch_head.    *)
FdAtBatch ==
  open /\ pc \notin {"segs", "body"} => pos = offset

(* "End of file" is returned only when the file was renamed and every      *)
(* message it holds in full has been handed out: a batch finished between  *)
(* the last _read() and the renaming is not lost.                          *)
EofComplete ==
  ret = "eof" => renamed /\ queue = <<>> /\ consumed = Recorded

(* EPROTO, after which the file "must be closed" (mdspxy.h:314), is        *)
(* returned only for a batch that is inconsistent or that its recorder     *)
(* will never finish, not for one that is merely being written, or where   *)
(* no batch starts, when mds_file_lseek skipped by a wrong length.         *)
NoFalseAlarm ==
  ret = "EPROTO" =>
    \/ \E i \in DOMAIN batches : batches[i].at = offset /\ batches[i].fault # "none"
    \/ renamed /\ offset < size /\ size < FileEnd
    \/ /\ WrongBefore(offset) /\ offset < size
       /\ \A i \in DOMAIN batches : batches[i].at # offset

(* mds_file_lseek that succeeds has left nothing behind that was in the    *)
(* file when it was called (mdspxy.h:326), unless it met a batch whose     *)
(* lengths are wrong, at stream->offset or before: then it returns 0 just  *)
(* the same, having stopped there or gone astray.                          *)
SeeksToNewest ==
  ret = "ok" => consumed >= mark \/ WrongBefore(offset + 1)

(* The handle implements the message file of MsgFile: it hands out message *)
(* n + 1 after message n, skips only what is in the file, and says that    *)
(* this is the end only of a file that will not grow and was read through. *)
M == INSTANCE MsgFile WITH recorded <- Recorded, sealed <- renamed,
                           handed <- consumed, ended <- (ret = "eof")

ImplementsMsgFile == M!Spec

(* A message that is in the file is eventually handed out, though it is    *)
(* written in pieces and the file is renamed meanwhile.                    *)
AllDelivered ==
  \A n \in 1 .. MaxBatches * MaxBatch : (Recorded >= n) ~> (consumed >= n)

(* file.c:337, assert(msg): a counted message is in the queue. *)
CountedIsQueued ==
  pc # "abort"

(* file.c:373, "see whether it was renamed": a handle whose file has been  *)
(* renamed learns it.                                                      *)
RenameNoticed ==
  renamed /\ open ~> closed
=============================================================================
