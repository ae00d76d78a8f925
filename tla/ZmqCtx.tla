-------------------------------- MODULE ZmqCtx --------------------------------
(***************************************************************************)
(* The ZeroMQ context every subscription of a process shares (sub.c:7-109, *)
(* 341-358).  It is created by the first mds_sub_open, under a lock that   *)
(* later calls avoid by reading zmq_ctx first, and destroyed by clear_ctx  *)
(* when the process exits, which waits for every socket with the lock      *)
(* held.  Threads open and close handles; one of them, Main, may exit      *)
(* while the others go on.                                                 *)
(***************************************************************************)
EXTENDS Naturals

CONSTANTS
  Threads,
  Main,         (* the thread that exits                                   *)
  NoThread,     (* nobody has the lock                                     *)
  Contexts,     (* the contexts ZeroMQ can create                          *)
  NULL,         (* no context                                              *)
  Failures,     (* calls that may fail: "zmq_ctx_new", "malloc",           *)
                (* "zmq_socket", "zmq_connect"                             *)
  MaxHandles    (* bound: handles a thread has of a context                *)

ASSUME ZmqCtxAssumption ==
  /\ Main \in Threads /\ NoThread \notin Threads /\ NULL \notin Contexts
  /\ Failures \subseteq {"zmq_ctx_new", "malloc", "zmq_socket", "zmq_connect"}
  /\ MaxHandles \in Nat \ {0}

VARIABLES
  zmq_ctx,      (* the context, or NULL                                    *)
  mutex,        (* the thread that has the lock, or NoThread               *)
  state,        (* each context: "unused", "live", "closing" or "freed"    *)
  registered,   (* how often clear_ctx is still to be called at exit       *)
  handles,      (* the sockets each thread has of each context             *)
  pc,           (* where each thread is                                    *)
  ctx           (* the local variable of mds_sub_open                      *)

vars == <<zmq_ctx, mutex, state, registered, handles, pc, ctx>>

(* The process ends when its exit is complete; nothing is said of it once  *)
(* a context is used that is freed.                                        *)
Running == \A t \in Threads : pc[t] \notin {"done", "undefined"}

At(t, label) == Running /\ pc[t] = label

Goto(t, label) == pc' = [pc EXCEPT ![t] = label]

-----------------------------------------------------------------------------
(* mds_sub_open.                                                           *)

(* Variant of NeedsLock: the lock is always taken. *)
AlwaysLocks == TRUE

(* What READ_ONCE of zmq_ctx saves a thread the lock for. *)
NeedsLock == zmq_ctx = NULL

CallOpen(t) ==
  /\ At(t, "idle") /\ \A c \in Contexts : handles[t][c] < MaxHandles
  /\ ctx' = [ctx EXCEPT ![t] = zmq_ctx]
  /\ Goto(t, IF NeedsLock THEN "lock" ELSE "malloc")
  /\ UNCHANGED <<zmq_ctx, mutex, state, registered, handles>>

Lock(t) ==
  /\ At(t, "lock") /\ mutex = NoThread
  /\ mutex' = t
  /\ Goto(t, "create")
  /\ UNCHANGED <<zmq_ctx, state, registered, handles, ctx>>

(* Variant of MustCreate: what was read before the lock is believed. *)
MustCreateAsRead(t) == ctx[t] = NULL

(* The second look at zmq_ctx, with the lock held. *)
MustCreate(t) == zmq_ctx = NULL

(* Variant of Registered: atexit is not called. *)
NotRegistered == registered

Registered == registered + 1

Create(t) ==
  /\ At(t, "create") /\ MustCreate(t)
  /\ \E c \in Contexts :
       /\ state[c] = "unused"
       /\ state' = [state EXCEPT ![c] = "live"]
       /\ zmq_ctx' = c
  /\ registered' = Registered
  /\ Goto(t, "unlock")
  /\ UNCHANGED <<mutex, handles, ctx>>

(* Variant of AfterFailedCreate and of AfterCreate: the lock is kept. *)
StillLocked(t) == t

AfterFailedCreate(t) == NoThread

CreateFails(t) ==
  /\ At(t, "create") /\ MustCreate(t)
  /\ "zmq_ctx_new" \in Failures \/ \A c \in Contexts : state[c] # "unused"
  /\ mutex' = AfterFailedCreate(t)
  /\ Goto(t, "idle")
  /\ UNCHANGED <<zmq_ctx, state, registered, handles, ctx>>

FoundCreated(t) ==
  /\ At(t, "create") /\ ~MustCreate(t)
  /\ Goto(t, "unlock")
  /\ UNCHANGED <<zmq_ctx, mutex, state, registered, handles, ctx>>

AfterCreate(t) == NoThread

Unlock(t) ==
  /\ At(t, "unlock")
  /\ mutex' = AfterCreate(t)
  /\ Goto(t, "reread")
  /\ UNCHANGED <<zmq_ctx, state, registered, handles, ctx>>

(* Variant of Created: zmq_ctx is not read again. *)
AsRead(t) == ctx[t]

(* The second READ_ONCE of zmq_ctx. *)
Created(t) == zmq_ctx

Reread(t) ==
  /\ At(t, "reread")
  /\ ctx' = [ctx EXCEPT ![t] = Created(t)]
  /\ Goto(t, "malloc")
  /\ UNCHANGED <<zmq_ctx, mutex, state, registered, handles>>

Malloc(t) ==
  /\ At(t, "malloc")
  /\ \/ Goto(t, "socket")
     \/ "malloc" \in Failures /\ Goto(t, "idle")
  /\ UNCHANGED <<zmq_ctx, mutex, state, registered, handles, ctx>>

(* zmq_socket, which refuses NULL and a context that is being destroyed.   *)
Socket(t) ==
  /\ At(t, "socket")
  /\ LET c == ctx[t] IN
     \/ /\ c \in Contexts /\ state[c] = "live"
        /\ handles' = [handles EXCEPT ![t][c] = @ + 1]
        /\ Goto(t, "connect")
     \/ /\ \/ c = NULL \/ "zmq_socket" \in Failures
           \/ c \in Contexts /\ state[c] = "closing"
        /\ Goto(t, "idle")
        /\ UNCHANGED handles
     \/ /\ c \in Contexts /\ state[c] = "freed"
        /\ Goto(t, "undefined")
        /\ UNCHANGED handles
  /\ UNCHANGED <<zmq_ctx, mutex, state, registered, ctx>>

(* Variant of AfterFailure: closed twice. *)
ClosedTwice(t) == [handles EXCEPT ![t][ctx[t]] = @ - 2]

(* The socket of an open that failed is closed. *)
AfterFailure(t) == [handles EXCEPT ![t][ctx[t]] = @ - 1]

Connect(t) ==
  /\ At(t, "connect")
  /\ \/ UNCHANGED handles
     \/ "zmq_connect" \in Failures /\ handles' = AfterFailure(t)
  /\ Goto(t, "idle")
  /\ UNCHANGED <<zmq_ctx, mutex, state, registered, ctx>>

(* mds_sub_close. *)
Close(t) ==
  /\ At(t, "idle")
  /\ \E c \in Contexts :
       /\ handles[t][c] > 0
       /\ handles' = [handles EXCEPT ![t][c] = @ - 1]
  /\ UNCHANGED <<zmq_ctx, mutex, state, registered, pc, ctx>>

-----------------------------------------------------------------------------
(* exit, which calls clear_ctx as often as it was registered.              *)

Exiting == pc[Main] \in {"exit", "destroy", "cleared", "done"}

Exit ==
  /\ At(Main, "idle")
  /\ Goto(Main, "exit")
  /\ UNCHANGED <<zmq_ctx, mutex, state, registered, handles, ctx>>

Exited ==
  /\ At(Main, "exit") /\ registered = 0
  /\ Goto(Main, "done")
  /\ UNCHANGED <<zmq_ctx, mutex, state, registered, handles, ctx>>

(* clear_ctx takes the lock and begins zmq_ctx_destroy. *)
ClearLock ==
  /\ At(Main, "exit") /\ registered > 0 /\ mutex = NoThread
  /\ mutex' = Main /\ registered' = registered - 1
  /\ IF zmq_ctx = NULL
     THEN Goto(Main, "cleared") /\ UNCHANGED state
     ELSE Goto(Main, "destroy") /\ state' = [state EXCEPT ![zmq_ctx] = "closing"]
  /\ UNCHANGED <<zmq_ctx, handles, ctx>>

(* zmq_ctx_destroy returns when every socket is closed. *)
AllClosed(c) == \A t \in Threads : handles[t][c] = 0

Destroy ==
  /\ At(Main, "destroy") /\ AllClosed(zmq_ctx)
  /\ state' = [state EXCEPT ![zmq_ctx] = "freed"]
  /\ Goto(Main, "cleared")
  /\ UNCHANGED <<zmq_ctx, mutex, registered, handles, ctx>>

(* zmq_ctx is set to NULL and the lock released. *)
Cleared ==
  /\ At(Main, "cleared")
  /\ zmq_ctx' = NULL /\ mutex' = NoThread
  /\ Goto(Main, "exit")
  /\ UNCHANGED <<state, registered, handles, ctx>>

-----------------------------------------------------------------------------
Init ==
  /\ zmq_ctx = NULL /\ mutex = NoThread
  /\ state = [c \in Contexts |-> "unused"]
  /\ registered = 0
  /\ handles = [t \in Threads |-> [c \in Contexts |-> 0]]
  /\ pc = [t \in Threads |-> "idle"]
  /\ ctx = [t \in Threads |-> NULL]

Open(t) == \/ Create(t) \/ CreateFails(t) \/ FoundCreated(t) \/ Unlock(t)
           \/ Reread(t) \/ Malloc(t) \/ Socket(t) \/ Connect(t)

ClearCtx == Destroy \/ Cleared

Next ==
  \/ \E t \in Threads : CallOpen(t) \/ Lock(t) \/ Open(t) \/ Close(t)
  \/ Exit \/ Exited \/ ClearLock \/ ClearCtx

Spec == Init /\ [][Next]_vars

(* A thread in a call keeps running.  Threads that compete for a critical  *)
(* section all get it, in no particular order: the strong fairness of      *)
(* Lock and ClearLock.  Nothing makes a thread close a handle.             *)
FairSpec ==
  /\ Spec
  /\ \A t \in Threads : WF_vars(Open(t)) /\ SF_vars(Lock(t))
  /\ WF_vars(Exited) /\ SF_vars(ClearLock) /\ WF_vars(ClearCtx)

-----------------------------------------------------------------------------
(* Properties.                                                             *)

Labels == {"idle", "lock", "create", "unlock", "reread", "malloc", "socket", "connect",
           "undefined"}
ExitLabels == {"exit", "destroy", "cleared", "done"}

(* The type of every variable. *)
TypeOK ==
  /\ zmq_ctx \in Contexts \cup {NULL}
  /\ mutex \in Threads \cup {NoThread}
  /\ state \in [Contexts -> {"unused", "live", "closing", "freed"}]
  /\ registered \in Nat
  /\ handles \in [Threads -> [Contexts -> Nat]]
  /\ pc \in [Threads -> Labels \cup ExitLabels]
  /\ ctx \in [Threads -> Contexts \cup {NULL}]

(* sub.c:63, the second look at zmq_ctx: however many threads find no      *)
(* context, and whether or not the process exits meanwhile, there is never *)
(* a second context next to one that is not freed, and zmq_ctx is the one. *)
OneContext ==
  \A c \in Contexts : state[c] \in {"live", "closing"} => c = zmq_ctx

(* sub.c:59-86: until the process exits, the context a thread has read is  *)
(* the one zmq_ctx holds and is live when zmq_socket gets it, whichever    *)
(* thread created it and whether or not the lock was needed.  Once         *)
(* clear_ctx runs that is over: it may free the context between the read   *)
(* of zmq_ctx and zmq_socket (pc "undefined").                             *)
LiveUntilExit ==
  \A t \in Threads :
    pc[t] \in {"malloc", "socket", "undefined"} /\ ~Exiting =>
      pc[t] # "undefined" /\ ctx[t] \in Contexts /\ ctx[t] = zmq_ctx /\ state[zmq_ctx] = "live"

(* sub.c:61-62, the lock is for the first handle only: a thread that waits *)
(* for it has no handle open.  So clear_ctx, which waits with the lock     *)
(* held for all handles to be closed, never waits for a thread that waits  *)
(* for the lock.                                                           *)
WaitersHoldNothing ==
  \A t \in Threads : pc[t] = "lock" => \A c \in Contexts : handles[t][c] = 0

(* sub.c:72, atexit(clear_ctx): a process does not end with a handle of    *)
(* the thread that exits open; exit waits for it, and nobody else closes   *)
(* it.                                                                     *)
EndsOnlyClosed ==
  pc[Main] = "done" => \A c \in Contexts : handles[Main][c] = 0

(* A process exits while a handle is open that is never closed, as         *)
(* tests/read_sub.c:29 does.                                               *)
Abandons == \E t \in Threads, c \in Contexts : <>[](Exiting /\ handles[t][c] > 0)

(* sub.c:38-47: a process that exits ends unless one of its handles, of    *)
(* whichever thread, is never closed; neither the lock nor what the other  *)
(* threads are doing keeps it.                                             *)
ExitEnds ==
  (Exiting ~> ~Running) \/ Abandons

(* sub.c:63-76: every mds_sub_open returns, also when it finds no context  *)
(* and none can be created, unless clear_ctx has the lock and waits for a  *)
(* handle that is never closed.                                            *)
OpenEnds ==
  \A t \in Threads : (pc[t] = "lock" ~> (pc[t] = "idle" \/ ~Running)) \/ Abandons
===============================================================================
