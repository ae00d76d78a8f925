# A verification project for mds_proxy

`mds_proxy` is a client library for level-2 market data. A server process publishes
messages over ZeroMQ and records them, per security, in files; the library reads the files
(`mds_file`), the subscription (`mds_sub`), or both at once, the beginning of a topic being
completed from its files (`mds_fsub`). This directory holds TLA+ models of the three
readers, of the context that handles of one process share and of the pure parts (codec,
names, clock, lists), TLC runs that check them on small instances, and TLAPS proofs that
the safety properties of all of them hold for every value of the constants, with two
refinements among them.

## 1. The system

| part | source | state | operations | modelled by |
|---|---|---|---|---|
| message file reader | `file.c`, `read_v1.c` | the fd and its position, `stream->offset`, `nr_msg`, the queue of a batch, `closed` | `mds_file_open/read/lseek/close` | `MdsFile` |
| subscription | `sub.c` | the ZeroMQ socket, `step` (which of three frames is next), the head received, the queue | `mds_sub_open/req/cancel/recv/close` | `MdsSub` |
| file-completed subscription | `fsub.c` | a vector of slots (topic, file number, last number read, open file), `nr_incompleted`, `read_file`, the message kept in `data` | `mds_fsub_open/req/cancel/recv/close` | `MdsFsub` |
| context | `sub.c:7-76` | `zmq_ctx`, a mutex, how often `clear_ctx` is registered | created by the first open, destroyed at exit | `ZmqCtx` |
| record codec | `encode.c`, `encode.h`, `read_v1.c` | none | encode, decode, CRC, batch layout | `Codec`; in `MdsFile` and `MdsSub` a wrong checksum or length is a *fault* of a batch or message |
| topics, file names | `data.c`, `data.h`, `file.c:16-71` | none | `parse_topic`, `parse_file_name`, formats | `Names` |
| clock, CRC, shims | `utils.c`, `utils.h` | none | `get_time`, `get_filesize`, `byteCrc32` | `Clock`; `get_filesize` in `MdsFile`, what `open_file` does to a timeout in `MdsFsub` |
| linked list | `list.h` | `next`, `prev` | Linux's list | `LinkedList`, the functions that are called |
| publisher, recorder, ZeroMQ | not in the repository | the files, the socket | write, rename, publish | the environment of each module |

How they interact. `mds_fsub` owns one `mds_sub` and up to one `mds_file` per slot, all used
from one thread; there are no callbacks. Only `mds_sub_open` and the exit of the process share
something between threads, the ZeroMQ context. The other concurrency is with other *processes*: the
recorder appends to a file while a reader is inside a batch, renames it between two system
calls of the reader (`000001.SZ.tmp` becomes `000001.SZ.0`, `.1`, ...), and creates the next
`.tmp` file; the publisher sends at any time. The library learns of a rename only by looking
at the size of whatever has the old name.

What is hard, and therefore what the properties are about:

* torn batches: a `_read()` may return any prefix of what the recorder is writing, and
  `readv_nointr` goes on after a short read with data appended since;
* the end of a file: `closed` is found out by polling, and a batch may have been finished
  in between;
* rotation between looking for the closed file and opening the `.tmp` file;
* a receive that fails in the middle of a message, or a cancel that comes there;
* lengths that `mds_file_lseek` believes before anybody has verified them;
* cancelling a topic that is being completed, is complete, or has messages queued;
* the change from file to subscription, which must neither skip nor repeat a message;
* a full queue, a timeout in the middle of a completion, a failing `malloc`;
* messages that ZeroMQ drops, heartbeats among the messages of a file, errors of the
  subscription that `mds_fsub` ignores;
* opening handles in several threads, and exiting while handles are open;
* a clock of 32 bits in microseconds, compared with timeouts in milliseconds.

`PROJECT.json` lists each of these under `hazards` at the line where it bites, with the
properties that cover it.

## 2. The modules

| module | what it is |
|---|---|
| `MsgFile` | abstract: a message file grows until it is sealed, and is handed out in order |
| `MdsFile` | `file.c` over `read_v1.c`, with the recorder; implements `MsgFile` |
| `MdsFileProofs` | the inductive invariant of `MdsFile`, its safety theorems, and that it implements `MsgFile` |
| `MsgQueue` | abstract: a subscription hands out messages in order, once, until it breaks |
| `MdsSub` | `sub.c`, frame by frame; implements `MsgQueue` |
| `MdsSubProofs` | the inductive invariant of `MdsSub`, its safety theorems, and that it implements `MsgQueue` |
| `Selection` | what a loop that removes nodes leaves of a list, as a recursive function |
| `SelectionProofs` | lemmas about `Selected`: its type and order, what it keeps, Append, Tail, concatenation |
| `MdsFsub` | `fsub.c` over files and a subscription as `MsgFile` and `MsgQueue` promise them |
| `MdsFsubProofs` | the inductive invariant of `MdsFsub` and its safety theorems |
| `MdsFsubOrderProofs` | in which order `MdsFsub` hands out messages and reads files |
| `MCMdsFsub` | the topics, heartbeats and bounds of the runs of `MdsFsub` |
| `ZmqCtx` | `zmq_ctx`: threads in `mds_sub_open` and `mds_sub_close`, one that exits |
| `ZmqCtxProofs` | the inductive invariant of `ZmqCtx` and its safety theorems |
| `Codec` | `encode.c` and the checks of `read_v1.c`, as operators on sequences of units |
| `Names` | `parse_topic`, `parse_file_name` and the formats, as operators on sequences of characters |
| `Clock` | `get_time` and the waits that use it, as operators on a small wrapping clock |
| `LinkedList` | the part of `list.h` that is called, on a heap of `next` and `prev`, and the ways it is used |
| `MCUtil` | inputs for the four modules above, and what is expected of them |
| `LinkedListProofs` | the inductive invariant of `LinkedList` and its theorems |
| `UtilProofs` | theorems about `Clock`, `Codec` and `Names`, and the invariants of `MCUtil` |

Each specification has one action per API call (`Call...`), and then one action per system
call or per stretch of code between two system calls that another process can interleave
with. `pc` names the label or function the call stands in. Helper operators called *Variant
of ...* stand before the definition they vary: each is a plausible mistake, named as a
mutant in `PROJECT.json`, and never used by a specification.

**MdsFile.** Lengths are in units small enough that every short read the code tells apart
can happen: the file head is 1 unit, a `batch_head` 2, a `segment_head` 1 per message, a
body 2. The recorder's actions append one unit at a time, so every prefix of a batch is seen.
A batch may be inconsistent in one of four ways (`hdr`: its header's checksum, `type` and
`length`: of a segment head, `body`: the bodies' checksum). `ReadHead`, `ReadSegments`, `ReadBody` (one per
message: `readv_nointr` is a loop of `_read()`s) and `SkipBody` (`lseek_mds_istream_v1` reads
all bodies at once) are the two readers of `read_v1.c`; lengths that are wrong add up to
anything, so that `lseek` then goes on anywhere in the file (`Stray`) and it, or the next read, takes
what is there for a `batch_head` (`ReadStray`); `GiveUp` and `Take` are their labels
`out` and `end`. `Ready`, `ReadResult` and `Poll` are the loop of `mds_file_read`.
`consumed` and `mark` are history. A failed `assert` sets `pc` to `"abort"`.

**MdsSub.** The socket is the list of frames not yet received; ZeroMQ adds the frames of a
message at once and, when a topic is cancelled, drops the messages none of whose frames was
taken. A message may be malformed in six ways (wrong topic length, too few frames, too many,
a bad head, a body that does not fit its head). The variable `head` stands for `checksum` and
`msglen`: a body fits only the head it was sent with.

**MdsFsub.** A slot's file is its number, the last message read from it and whether it was
opened as closed. `OpenSeqFile` and `OpenTmpFile` are the two `mds_file_open` of `open_file`,
`ReadFile` is one `mds_file_read` that comes to an end, `FromFile` what
`mds_fsub_read_file` does with the message. `read_file` is counted from 1 (0 is the code's
-1), `nr_incompleted` is an integer (the code's 2^32 - 1 is -1). A vector that
`shrink_subinfo` left shorter than `vec_size` is read beyond its end by every later call,
which is undefined: nothing is said of it. `nr_sub` is always the number of slots in use and
is therefore a definition. `fds` counts the descriptors that are open, `leaked` those that
`mds_file_open` left open when it refused a file without a head, which closing the handle does
not close (`MaxLeaks` bounds them), `miscounted`
the topics that were removed when they were complete already, and `twice` holds the topics
that had two slots at some time, which the wrong comparison of `fsub.c:154` allows. With `"drop"` among the
failures the publisher's message may be lost, which stands for ZeroMQ's high-water mark and
for a receive whose error `mds_fsub_read_file` ignores (`fsub.c:380`) alike: in both cases the
queue lacks a message and nobody was told. With `"zmq_recv"`, `mds_sub_recv` itself returns an
error.

**ZmqCtx.** A thread's `pc` is its place in `mds_sub_open`; every access to `zmq_ctx`, the
lock, `malloc` and each ZeroMQ call is a step. A context is `"unused"`, `"live"`, `"closing"`
(in `zmq_ctx_destroy`, where `zmq_socket` fails with ETERM) or `"freed"`. `handles` counts the
sockets of each thread. `Main` may `exit`, which runs `clear_ctx` as often as it was
registered while the other threads go on; the process is over when `pc[Main]` is `"done"`.
The use of a freed context is undefined: the thread's `pc` becomes `"undefined"` and nothing
is said of what follows. It does happen, when another thread has read `zmq_ctx` just before
`Main` exits: nothing in the code prevents it, and no comment claims it.

**Codec, Names, Clock, MCUtil.** Pure code. A record's fields are reduced to one
or two of each way a field is treated: converted (`wide`), of one byte, and not converted at
all (`raw`: the `seq` of orders, trades and snapshots, and `TradingPhaseCode`, neither
`encode_` nor `decode_` touch). A checksum is the sequence of units it was computed over, so
that `byteCrc32(b, n, byteCrc32(a, m, 0))` is the concatenation: what the code makes of the
checksum is exact, the CRC table is not modelled. Names are sequences of characters in which
`tmp` is one and topics have two digits in place of six. The clock has 32 values in place of
2^32 and a `uint64_t` 256, with the same proportions as far as the comparisons need them
(`ClockAssumption`). The waits compare timeouts with microseconds, as the code does; that
`mdspxy.h:309` takes them for milliseconds is a finding.

**LinkedList.** A heap is two functions on heads and nodes, `next` and `prev`, and every
assignment of `list.h` is an EXCEPT, in the order of the code. The actions are what the
program does with lists: a message is allocated and added at the tail (`Add`), the first is
handed out and freed (`TakeFirst`), all or some are removed by `list_for_each_entry_safe`
(`RemoveSome`; `Sweep` is the walk, which looks at the node after the current one before the body
of the loop removes the current one), and a batch is moved behind what is there (`Move`). The
variable `content` is history: the sequence each list is taken for. `MCUtil` picks either one
input of the other modules or lists, which it then uses in any way (`UseLists`).

## 3. The runs

Violations are of what a comment or an assertion of the code says, and each is a finding in
`PROJECT.json`.

| run | question | bounds | result |
|---|---|---|---|
| `file_follow` | is a sound file read to its end, and only there called ended? | 3 batches of 0-2 messages, new file of up to 8 units | passes (with liveness) |
| `file_faults` | what holds when anything is inconsistent, torn or fails, with `lseek`, `close`, `open` in between? | 2 batches of 0-2, all faults, both failures, timeouts 0 and infinite, new file of up to 2 units | passes, 8 million states |
| `file_lseek_assert` | does `assert(msg)` hold? | 2 batches | violated |
| `file_rename_missed` | is a rename always noticed? | 1 batch, fair recorder | violated |
| `fsub_follow` | are topics completed, though messages of the subscription may be lost? | 2 topics with 3 and 2 messages, one rotation each, not during completion; timeout as in `tests/read_fsub.c`; 1 leak | passes (with liveness), 0.5 million states |
| `fsub_calls` | does the handle survive any order of calls? | two topics with 1 and 3 messages, one rotation each, nothing lost, with cancel, close, failing calls and rotation at any time, two slots, 1 leak | passes, 1.1 million states |
| `fsub_rotate` | can the file jump? (`fsub.c:361` "cannot happen") | one topic, 4 messages | violated |
| `fsub_shrink` | is `read_file` the slot being completed when the vector shrinks? (`fsub.c:16`) | three topics, vectors of 1, 2, 4, of which 4 shrinks | violated |
| `fsub_beats` | does `data` keep the message of the topic being completed? (`fsub.c:21`) | the topic of the lost numbers, whose first message is a heartbeat, and another | violated |
| `sub_recv` | are frames in step, messages in order, cancelled topics silent, EPROTO justified, nothing stuck? | 3 messages, 2 topics, every fault and failure, queue of 2 | passes (with liveness) |
| `ctx_exit` | one context, live whenever a socket is created until the process exits? do opening and exiting end? | 3 threads, one exits, 2 contexts, 2 handles a thread, every failure | passes (with liveness), 12 thousand states |
| `util` | do codec and readers, formats and parsers agree? when do waits end? is each list the sequence its callers take it for? | batches of up to 2 messages of any type, every cut, every changed unit; topics of up to 3 characters; every start and end of a wait on a clock of 32; 2 lists, 4 messages, any number of operations | passes, 8 thousand states |

Why the bounds are enough. The file reader's state relates only the batch it is in, the one
before and the one after: two batches give every combination of a taken, a torn and a missing
one, and sizes 0, 1 and 2 give the empty batch, the single body, and a body after a short one.
Three batches are used where faults are off. A queue of 2 and three messages reach the limit
while a message is on the wire. In `MdsFsub` three messages with one rotation put the message
that starts the completion before, at and after the end of the closed file; two topics are
needed for anything `nr_incompleted`, `read_file` and the first free slot can mix up; in
`fsub_calls`, where everything else may happen, one of the two has a single message, and one
leaked descriptor is enough to see it outlive its handle. Growth
of the vector happens (1 to 2 slots, and to 4 in `fsub_shrink`, where `ShrinkMin` is 4 in
place of the code's 9 so that shrinking needs three slots, not nine). Three threads are two
that race for the context and one that exits; a second context would be there to be created
if the second look at `zmq_ctx` did not prevent it. In `util` two messages are the least that
tell the first, the last and the sum of several bodies apart, and a clock of 32 values holds
every order of start, end, deadline and the two wraps. Two lists of four messages have every way of one, both or neither being empty, and of the first, the last, the middle
and all of the nodes being removed during a walk; all its states are there.

What the runs of `MdsFsub` assume. They use one path separator, as if that defect were
repaired, for otherwise no file is ever opened (theorem `NoPathIsTaken`): with the code as it
is every completion ends in EINVAL, which ends the loop of the application, so that
`CatchesUpOrStops` holds of it too but says nothing more. `CatchesUpOrStops` is about the loop of
`tests/read_fsub.c:37-70`, which goes on after data and ETIMEDOUT and stops at any other
result. One that it may stop at is EAGAIN: what is left of a finite timeout becomes 0 when the files of
a topic are opened (`Remaining`, `fsub.c:302-304`), so that an application that gave 5 seconds
may be told to try again. That is why the property cannot be that the topic is completed. `fsub_follow` has
`QuietRotation`: `fsub_rotate` shows what happens without. `NoGap` and `NoRepeat` are stated
for a handle whose count of incomplete topics is right (`miscounted = 0`; `CountIsShort` says
exactly when it is not) and for topics that had one slot (not in `twice`). The second
restriction was found by the proof: the runs have too few slots to need it. Let `u` and `t`
be subscribed in this order and `t` complete; cancel `u` before it is complete and subscribe
`t` again, which gets the free slot in front. One cancel of `t` now frees that slot, drops
what had arrived of `t`, and leaves `t` subscribed and complete: a gap. `NoGap` is checked where nothing is lost: when messages are dropped after a topic is
complete there is a gap by the design of the code, which then no longer compares numbers; what
remains is `NoRepeat`. Only `fsub_beats` has heartbeats and only `fsub_shrink` vectors that
shrink, since `ReadFileValid` is violated at once and nothing else holds after it.

`NoGap` admits that message 1 comes again when a topic is completed after it was handed out
(`fsub.c:415`). `FilesClosed` does not say that no descriptor is lost but that none is lost
otherwise than at `file.c:252`.

What `file_faults` says of wrong lengths. After a `mds_file_lseek` that met one, the handle may
stand where no batch starts, or have stopped early with the result 0 (a finding): `SeeksToNewest`,
`BufferIsNext` and `NoFalseAlarm` each admit this behind a wrong length (`WrongBefore`), and
show that it comes of nothing else. `ReadStray` takes it that what is found there is no
batch with a right checksum; a read can then only fail or take an empty batch.

Four findings of `PROJECT.json` have no run of their own: the path separators, which
`NoPathIsTaken` proves; the units and the deadline of the waits (`fsub.c:286`), found with
`Clock`; the wrong comparison of
`fsub.c:154` (`LooksSubscribed` models it; the runs and the theorems show that two slots of one topic do no
harm to `read_file`, the count and the descriptors, and the paragraph above what harm they do to
the messages), and the null `data` of `fsub.c:400`.

`file_faults` and `file_lseek_assert` have `CHECK_DEADLOCK FALSE`, because an aborted process
does stop; `ctx_exit`, because the process ends, hangs in `exit`, or is undefined; `util`,
because a behaviour that has picked an input is over.

**Fairness.** `WF_vars(Handle)`: a process inside a call keeps running; every call is a plain
loop that waits only in `Sleep` or `zmq_poll` with a bound. Weak fairness of opening and
calling read or receive: the programs in `tests/` do nothing else. `MdsSub` has strong
fairness of `CallRecv` because its application may cancel and subscribe between two
receives for ever without ever staying able to receive, and weak fairness of closing after
EPROTO, which `mdspxy.h:363` demands. No fairness of the recorder is assumed in
`file_follow` or of the publisher anywhere; `MdsFsub` assumes that what was published is
eventually recorded, since a subscription that runs ahead of its file waits for it.
`MdsFsub`'s application calls receive again as long as it has not got a result at which
`tests/read_fsub.c:40-43` leaves its loop.
In `ZmqCtx` a thread inside `mds_sub_open` keeps running (weak fairness of each step) and a
critical section lets everyone in eventually (strong fairness of `Lock` and `ClearLock`).
Nothing makes a thread close a handle, and `zmq_ctx_destroy` waits for the handles of every
thread: `ExitEnds` and `OpenEnds` therefore say what happens unless some handle is open for
ever while the process exits (`Abandons`). Fairness of rotation is assumed only in `file_rename_missed`, where it makes the violation
stronger.

## 4. What is proved

For every number and size of batches, every set of timeouts, faults and failures and every use
of the handle (assumption `MdsFileAssumption`: the bounds are naturals, the sets are subsets
of those the code distinguishes):

* `TypeCorrect`, `BufferCorrect`, `FdCorrect`, `EofCorrect`, `AlarmCorrect`: the safety
  invariants of `MdsFile`;
* `SeekCorrect`: `mds_file_lseek` that succeeds leaves nothing behind, unless a length was wrong;
* `FileRefines`: `Spec => MsgFile!Spec`.

The invariants are not inductive. `IInv` adds: where the batches lie and how they are
numbered (`FileOK`); that a handle believes its file closed only when it was renamed
(`HandleOK`); that a batch is read into an empty buffer (`QueueOK`); where the fd may stand
within a batch: never further than what the bodies read so far come to, and exactly there, or
at the end of the file, when the file is closed (`BatchOK`); and what each result of
`stream->read` says about a closed file (`ResultOK`). The central step is `ReadBody`: short
reads in the middle of a batch move the fd less than the bodies take, so if the total is
right every one of them was complete; and in a closed file a short total means that the file
ends there. `EofCorrect` then rests on the fact that the handle reads once more after it
found its file renamed: with `closed` set and nothing to read, `offset = size`, and a handle
that stands at the end of a file has consumed it (`ReadThrough`). `NextIInv` has one lemma per
action. `FileRefines` needs in addition that what is recorded never shrinks and never grows
after the rename (`RecordedGrows`), and that no handle is ahead of it (`ConsumedBound`).
`SeekCorrect` adds `SeekOK` and rests on every read of `lseek_mds_istream_v1` being a single
`_read`, so that a short one means the batch is not there in full at that moment
(`ReadThroughTorn`).

For `ZmqCtx`, for every set of threads and contexts and any failures (`ZmqCtxAssumption`:
`Main` is a thread, `NoThread` and `NULL` are no thread and no context): `TypeCorrect`,
`OneContextCorrect`, `LiveCorrect`, `WaitersCorrect` and `EndCorrect`. The inductive
invariant adds who has the lock at each place (`MutexInv`); that the context in `zmq_ctx` is
live and registered with `atexit` except in `clear_ctx`, where it is first closing and then
freed (`ContextInv`); and that a socket, also one that is being connected, belongs to a
context that is not freed (`HandlesInv`). `LiveCorrect` (`LiveUntilExit`) says what the second
read of `zmq_ctx` is for: a thread that found none at first, and then the lock and the context
of another, has that one when it calls `zmq_socket`. It speaks of the time until the process
exits; afterwards `clear_ctx` may free the context between the read and the call, which the
model calls undefined.

**MdsSub**, for every set of topics, faults and failures, every queue length and any number of
messages (`MdsSubAssumption`): `TypeCorrect`, `FramesInStep`, `CancelSilences`,
`ProtoHasCause`, `CacheNeverOverrun`. The socket is a sequence of frames of which only the
first message may have lost its beginning, and in which no frame of a message is without those
after it (`InOrder`); this is what `zmq_recv` takes from the front, `Publish` adds to the end,
and a cancel keeps when it removes whole messages. `HeadInv` says that the frames of a message
whose head was read are behind that head and that it was a good one. `SilentInv` is needed for
`CancelSilences`: of a topic without subscription nothing is in the queue, and in the socket at
most the rest of one message that was begun, which either is removed by the cancel that is
still running or can never be accepted any more (`Dead`: the handle gave up on it, and the
step or the head it would need never comes back). `SelectionProofs` has what these proofs need
to know of removing elements from a sequence. The library's induction theorems take an operator,
which no prover here can instantiate; the lemmas instead show that the *set* of numbers, or of
sequences, of which a claim is true has the first and with each the next (`NatSetInduction`,
`SeqSetInduction`).

`HandleImplementsQueue` is the refinement of `MsgQueue`, by the mapping `Due`: the messages of
the queue, then those whose last frame is in the socket. Every action is one of the abstract
ones or a stutter: a body that is accepted moves the first of the socket to the end of the queue
and changes nothing of `Due`; a refused frame is `Break`, and takes at most one message away; a
cancel is two abstract steps, one for the socket and one for the queue, each of which keeps all
messages of other topics in order.

**MdsFsub.** All theorems assume `Beats = {}`: no message of a subscribed topic is a heartbeat,
for with one `ReadFileValid` is false (`fsub_beats`). Otherwise the constants are arbitrary
(`MdsFsubAssumption`): topics, timeouts, failures, sizes of the vector, bounds, and what the
recorder does. `MdsFsubProofs` has `TypeCorrect`, `EverySubscriptionFound`, `CountRight`,
`DescriptorsClosed`, `ReadFileRight` and `ReadFileRightUpToEight`. The invariant has two parts.
What is always true: the types, `CallInv` (a vector that is too short ends all calls),
`CountInv` and `FdsInv`, which count slots by `Count`; these survive even the step in which
`shrink_subinfo` leaves the vector shorter than `vec_size`, by a lemma that moving the slots in
use to the front changes no count (`CountShrunk`, over `NthOf`). And what is true as long as
the vector has the length `vec_size` says (`Good`, after which the code's behaviour is
undefined): a topic has as many slots as subscriptions, and a free slot is blank (`SlotInv`),
which gives `EverySubscriptionFound`; the queue has messages of subscribed topics in ascending
order (`QueueInv`) and all of them after what a slot was completed to (`DoneInv`) and after the
kept message (`KeptInv`); and the place of the call agrees with the slot's file (`StepInv`).
`ReadFileRight` is therefore `Spec => [](vec_size <= Len(vector) => ReadFileValid)`: that it
cannot be more in general is the finding of `fsub_shrink`. `ReadFileRightUpToEight` removes the
condition for the sizes the code has (4 and 9) and an application with at most eight topics at a
time: the vector is then 0, 4 or 8 long and is never shrunk.

`MdsFsubOrderProofs` proves `NothingRepeated` (`NoRepeat`), `NothingMissed` (`NoGap`, where
`"drop"` is not a failure: the property is not meant otherwise) and `FilesFollow`
(`NoProtoError`). The first two share `OrderInv`: a topic not in `twice` is in one slot (`Alone`);
when it is complete, what is in the queue was not yet handed out, and while it is completed the
slot's last message is the last one handed out (`GotInv`); and, where nothing is lost, each
message in the queue, the kept one and the last one handed out of a complete topic is followed
in the queue by the next or is the last published (`NextInv`). The change from file to subscription
is the step in which `Reaches` and `Follows` meet: the slot's number plus one is the kept message,
and everything in the queue is after it.
`FilesFollow` assumes `Steady`: nothing is cancelled, no call to ZeroMQ fails, the
recorder leaves alone the file of a topic being completed and writes heads at once. Each of them is
needed. `fsub_rotate` refutes the property without the third, and without the fourth a file
without head is refused with EPROTO. A failing receive answers EPROTO itself. A cancel, or a
subscription that fails, frees the first of two slots of a topic; when the one that is left was
the one being completed, its next completion begins with file 0 again (`fsub.c:431`) while the number it
compares with is further on. These are the assumptions
under which `fsub_follow` checks it, which loses messages too. Its invariant `FollowInv` says
where in its files a topic stands: at the beginning of the file to be opened next, or at the
place its open file was read to, and that only the topic of `read_file` is completed halfway.

**LinkedList**, for any heads and any finite number of messages (`LinkedListAssumption`: heads and
nodes are different, and neither is the poison): `TypeCorrect` and `ListsStaySequences`, of `ListsSpec`;
`ListsAreUsed` of `UtilProofs` says that the runs use lists in no other way. What
the properties need in addition is only that no node is twice in a list or in two (`Distinct`).
The work is in the operations: `AddKeeps`, `DelKeeps` and `SpliceKeeps` say which links each
sequence of assignments leaves, from there that the list is the sequence with the node behind
it, without it, or the two one behind the other, and that every other list, having no node in
common, keeps its links. `SweepKeeps` goes through the walk: after `k` steps (`Walked`) the list
is the first `k` nodes without the removed ones, followed by the nodes not yet seen, and the
walk stands at node `k + 1` with `k + 2` remembered, which is why it may remove where it
stands.

**Codec**, for batches of any number of messages of any types: `BatchesReadBack`,
`ChangesAreNoticed`, `SkipsJustWhatIsRead`. `EncodeIs` says what each unit of an encoded batch
is. Two recursive functions meet here, the bodies written one after the other and
the ends the reader adds up from the lengths: `BeginsBodies` shows that they agree for every
beginning of a batch, and since it is stated for any file that begins as the batch does, whether
cut, followed by something, or changed further on, the three theorems share it. For a change,
`HeadSumTells` and the lengths show which checksum it disturbs, and that a smaller
`nr_payload` is refused as well.

**Names**, for topics of any width (`NamesAssumption`: not 0; the code has 6): `TopicsParse` (a
topic is parsed as its market and number; only for numbers that have as many digits as fit, for
parse_topic looks at the length), `NamesParse` (so is the name of a file, of any number,
`.tmp` or numbered), `NoPathIsTaken` (the finding about path separators is not one of some
directories: what `mds_file_open` looks at always holds a slash, and no text with a slash is a
file name, since neither `%u` nor the market takes one), and `TopicsAreUnique`: any text
without a sign and a blank, of whatever characters, that `parse_topic` accepts is character
by character the topic it stands for, so a topic that is subscribed is compared equal when it is cancelled.
`EveryNameReadsBack` and `EveryTopicHasOneText` are the properties of the run. They rest on
`DecimalIs` (the value of the digits of a number is the number) and its converse
`DecimalOfValue` (digits without a zero in front are those of their value).

**Clock**, for a long and a `uint64_t` of any size in which one is a multiple of the other and
twice the clock's tick divides the long (`ClockAssumption`; 2^32, 2^64 and a tick of 8
satisfy it, and every value of `get_time` is a multiple of 1000 microseconds, hence of 8):
`WaitsAreNotLate` and `EndlessWaitsLast`. `NowIs` says that the clock is the time less a
multiple of the long, on either side of zero, and `ElapsedIs` and `DeadlineIs` what the
subtraction and the addition modulo 2^64 make of that. There is no theorem that a finite wait
lasts its time: it does not, since milliseconds are taken for microseconds.

`MCUtilAssumption` is about the inputs of the run, not about the code: the instruments it names
have two digits, so a topic has room for two. The recursive definitions (`Decimal`, `Value`,
`BodiesUpto`, `BodyEnds`, `Walk`) are functions, and that there are such functions is proved,
not assumed: `Recursion` and `DecimalExists` show, again with a set of numbers that has the
first and with each the next, that one exists, whereupon CHOOSE gives it.

`TLAPS` checks all of it: every safety property of a passing run is a theorem. Only
model-checked is liveness (`AllDelivered`, `CatchesUpOrStops`, `Drained`, `ExitEnds`, `OpenEnds`), which is
out of the prover's reach. Where a theorem says less than its property, because the property
itself fails outside of what the run has, the theorem says so: `ReadFileRight`, `NothingRepeated`,
`NothingMissed` and `FilesFollow` above.

## 5. What is not modelled

* Of the 33,790 lines under `src/`, about 30,000 are vendored headers (`ext/include`: the
  exchange's trading and market data interfaces, ZeroMQ, utilities). They declare types,
  constants and functions of other libraries, most of which this program never mentions, and
  hold no logic of it. The program itself is `src/src`, `src/include/mdspxy_api` and
  `src/tests`, 3,700 lines; the share the map covers is small for this reason and cannot
  be larger without claiming code that nothing here calls.
* `encode.c`'s lists of fields one by one: what matters to a property is whether the two
  directions treat a field alike.
* `byteCrc32`'s table (an ideal checksum in its place), the Windows shims of `utils.c`, the
  macros of `utils.h`, and the functions of `list.h` that have no caller.
* `mds_file_reopen`, which has no caller; logs; the text of the sample programs under
  `tests/`, which are what the fairness of calls is taken from.
* Elapsed time outside of `Clock`: in `MdsFile`, `MdsSub` and `MdsFsub` a finite timeout may
  run out at every wait, so that "returns too early" and "too late" are both possible.
* Several threads using one handle, which no part of the library supports.

## 6. Plan

Every component the library consists of is modelled, and every safety property of a passing
run is proved. What would come next: `MdsFsub` over `MdsFile` and `MdsSub` themselves in place
of what `MsgFile` and `MsgQueue` promise of them, which the two refinements justify but no
run composes; the theorems of `MdsFsub` with heartbeats, once `fsub.c:402` keeps them out of
`data`; and, if the code is repaired where the findings say, the properties of the violated
runs as theorems.
