---------------------------- MODULE ZmqCtxProofs ----------------------------
(***************************************************************************)
(* Proofs about ZmqCtx, for any number of threads, contexts and handles.   *)
(* The inductive invariant IInv adds to the properties who has the lock,   *)
(* which state the context is in while it is created, used, destroyed and  *)
(* cleared, and that clear_ctx is registered for a context that exists.    *)
(***************************************************************************)
EXTENDS ZmqCtx, TLAPS

(* The lock is with the thread that is between taking and releasing it. *)
Inside == {"create", "unlock", "destroy", "cleared"}
MutexInv ==
  /\ \A t \in Threads : pc[t] \in Inside <=> mutex = t
  /\ \A t \in Threads : pc[t] \in ExitLabels => t = Main

(* zmq_ctx is live except in clear_ctx. *)
ContextInv ==
  /\ zmq_ctx # NULL /\ pc[Main] \notin {"destroy", "cleared"} =>
       state[zmq_ctx] = "live" /\ registered > 0
  /\ pc[Main] = "destroy" => zmq_ctx # NULL /\ state[zmq_ctx] = "closing"
  /\ pc[Main] = "cleared" /\ zmq_ctx # NULL => state[zmq_ctx] = "freed"

(* A socket belongs to a context that is there, also one that is being     *)
(* connected.                                                              *)
HandlesInv ==
  /\ \A t \in Threads, c \in Contexts :
       handles[t][c] > 0 => state[c] \in {"live", "closing"}
  /\ \A t \in Threads :
       pc[t] = "connect" => ctx[t] \in Contexts /\ handles[t][ctx[t]] > 0

(* The inductive invariant. *)
IInv ==
  /\ TypeOK /\ OneContext /\ MutexInv /\ ContextInv /\ HandlesInv
  /\ WaitersHoldNothing /\ EndsOnlyClosed

USE ZmqCtxAssumption DEF Labels, ExitLabels, Inside

(* The invariant holds at the start. *)
LEMMA InitIInv == Init => IInv
  BY DEF Init, IInv, TypeOK, OneContext, MutexInv, ContextInv, HandlesInv,
         WaitersHoldNothing, EndsOnlyClosed

(* CallOpen preserves the invariant. *)
LEMMA CallOpenIInv ==
  ASSUME NEW t \in Threads, IInv, CallOpen(t)
  PROVE  IInv'
<1>1. TypeOK'
  BY DEF CallOpen, At, Running, Goto, NeedsLock, IInv, TypeOK
<1>2. OneContext'
  BY DEF CallOpen, At, Running, Goto, NeedsLock, IInv, TypeOK, OneContext
<1>3. MutexInv'
  BY DEF CallOpen, At, Running, Goto, NeedsLock, IInv, TypeOK, MutexInv
<1>4. ContextInv'
  BY DEF CallOpen, At, Running, Goto, NeedsLock, IInv, TypeOK, ContextInv
<1>5. HandlesInv'
  BY DEF CallOpen, At, Running, Goto, NeedsLock, IInv, TypeOK, HandlesInv
<1>6. WaitersHoldNothing'
  BY DEF CallOpen, At, Running, Goto, NeedsLock, IInv, TypeOK,
         WaitersHoldNothing, OneContext, HandlesInv
<1>7. EndsOnlyClosed'
  BY DEF CallOpen, At, Running, Goto, NeedsLock, IInv, TypeOK,
         EndsOnlyClosed
<1> QED
  BY <1>1, <1>2, <1>3, <1>4, <1>5, <1>6, <1>7 DEF IInv

(* Lock preserves the invariant. *)
LEMMA LockIInv ==
  ASSUME NEW t \in Threads, IInv, Lock(t)
  PROVE  IInv'
<1>1. TypeOK'
  BY DEF Lock, At, Running, Goto, IInv, TypeOK
<1>2. OneContext'
  BY DEF Lock, At, Running, Goto, IInv, TypeOK, OneContext
<1>3. MutexInv'
  BY DEF Lock, At, Running, Goto, IInv, TypeOK, MutexInv
<1>4. ContextInv'
  BY DEF Lock, At, Running, Goto, IInv, TypeOK, ContextInv
<1>5. HandlesInv'
  BY DEF Lock, At, Running, Goto, IInv, TypeOK, HandlesInv
<1>6. WaitersHoldNothing'
  BY DEF Lock, At, Running, Goto, IInv, TypeOK, WaitersHoldNothing
<1>7. EndsOnlyClosed'
  BY DEF Lock, At, Running, Goto, IInv, TypeOK, EndsOnlyClosed
<1> QED
  BY <1>1, <1>2, <1>3, <1>4, <1>5, <1>6, <1>7 DEF IInv

(* Create preserves the invariant. *)
LEMMA CreateIInv ==
  ASSUME NEW t \in Threads, IInv, Create(t)
  PROVE  IInv'
<1>1. TypeOK'
  BY DEF Create, At, Running, Goto, MustCreate, Registered, IInv, TypeOK
<1>2. OneContext'
  BY DEF Create, At, Running, Goto, MustCreate, Registered, IInv, TypeOK,
         OneContext
<1>3. MutexInv'
  BY DEF Create, At, Running, Goto, MustCreate, Registered, IInv, TypeOK,
         MutexInv
<1>4. ContextInv'
  BY DEF Create, At, Running, Goto, MustCreate, Registered, IInv, TypeOK,
         ContextInv, MutexInv
<1>5. HandlesInv'
  BY DEF Create, At, Running, Goto, MustCreate, Registered, IInv, TypeOK,
         HandlesInv
<1>6. WaitersHoldNothing'
  BY DEF Create, At, Running, Goto, MustCreate, Registered, IInv, TypeOK,
         WaitersHoldNothing
<1>7. EndsOnlyClosed'
  BY DEF Create, At, Running, Goto, MustCreate, Registered, IInv, TypeOK,
         EndsOnlyClosed
<1> QED
  BY <1>1, <1>2, <1>3, <1>4, <1>5, <1>6, <1>7 DEF IInv

(* CreateFails preserves the invariant. *)
LEMMA CreateFailsIInv ==
  ASSUME NEW t \in Threads, IInv, CreateFails(t)
  PROVE  IInv'
<1>1. TypeOK'
  BY DEF CreateFails, At, Running, Goto, MustCreate, AfterFailedCreate,
         IInv, TypeOK
<1>2. OneContext'
  BY DEF CreateFails, At, Running, Goto, MustCreate, AfterFailedCreate,
         IInv, TypeOK, OneContext
<1>3. MutexInv'
  BY DEF CreateFails, At, Running, Goto, MustCreate, AfterFailedCreate,
         IInv, TypeOK, MutexInv
<1>4. ContextInv'
  BY DEF CreateFails, At, Running, Goto, MustCreate, AfterFailedCreate,
         IInv, TypeOK, ContextInv
<1>5. HandlesInv'
  BY DEF CreateFails, At, Running, Goto, MustCreate, AfterFailedCreate,
         IInv, TypeOK, HandlesInv
<1>6. WaitersHoldNothing'
  BY DEF CreateFails, At, Running, Goto, MustCreate, AfterFailedCreate,
         IInv, TypeOK, WaitersHoldNothing
<1>7. EndsOnlyClosed'
  BY DEF CreateFails, At, Running, Goto, MustCreate, AfterFailedCreate,
         IInv, TypeOK, EndsOnlyClosed
<1> QED
  BY <1>1, <1>2, <1>3, <1>4, <1>5, <1>6, <1>7 DEF IInv

(* FoundCreated preserves the invariant. *)
LEMMA FoundCreatedIInv ==
  ASSUME NEW t \in Threads, IInv, FoundCreated(t)
  PROVE  IInv'
<1>1. TypeOK'
  BY DEF FoundCreated, At, Running, Goto, MustCreate, IInv, TypeOK
<1>2. OneContext'
  BY DEF FoundCreated, At, Running, Goto, MustCreate, IInv, TypeOK,
         OneContext
<1>3. MutexInv'
  BY DEF FoundCreated, At, Running, Goto, MustCreate, IInv, TypeOK, MutexInv
<1>4. ContextInv'
  BY DEF FoundCreated, At, Running, Goto, MustCreate, IInv, TypeOK,
         ContextInv
<1>5. HandlesInv'
  BY DEF FoundCreated, At, Running, Goto, MustCreate, IInv, TypeOK,
         HandlesInv
<1>6. WaitersHoldNothing'
  BY DEF FoundCreated, At, Running, Goto, MustCreate, IInv, TypeOK,
         WaitersHoldNothing
<1>7. EndsOnlyClosed'
  BY DEF FoundCreated, At, Running, Goto, MustCreate, IInv, TypeOK,
         EndsOnlyClosed
<1> QED
  BY <1>1, <1>2, <1>3, <1>4, <1>5, <1>6, <1>7 DEF IInv

(* Unlock preserves the invariant. *)
LEMMA UnlockIInv ==
  ASSUME NEW t \in Threads, IInv, Unlock(t)
  PROVE  IInv'
<1>1. TypeOK'
  BY DEF Unlock, At, Running, Goto, AfterCreate, IInv, TypeOK
<1>2. OneContext'
  BY DEF Unlock, At, Running, Goto, AfterCreate, IInv, TypeOK, OneContext
<1>3. MutexInv'
  BY DEF Unlock, At, Running, Goto, AfterCreate, IInv, TypeOK, MutexInv
<1>4. ContextInv'
  BY DEF Unlock, At, Running, Goto, AfterCreate, IInv, TypeOK, ContextInv
<1>5. HandlesInv'
  BY DEF Unlock, At, Running, Goto, AfterCreate, IInv, TypeOK, HandlesInv
<1>6. WaitersHoldNothing'
  BY DEF Unlock, At, Running, Goto, AfterCreate, IInv, TypeOK,
         WaitersHoldNothing
<1>7. EndsOnlyClosed'
  BY DEF Unlock, At, Running, Goto, AfterCreate, IInv, TypeOK,
         EndsOnlyClosed
<1> QED
  BY <1>1, <1>2, <1>3, <1>4, <1>5, <1>6, <1>7 DEF IInv

(* Reread preserves the invariant. *)
LEMMA RereadIInv ==
  ASSUME NEW t \in Threads, IInv, Reread(t)
  PROVE  IInv'
<1>1. TypeOK'
  BY DEF Reread, Created, At, Running, Goto, IInv, TypeOK
<1>2. OneContext'
  BY DEF Reread, Created, At, Running, Goto, IInv, TypeOK, OneContext
<1>3. MutexInv'
  BY DEF Reread, Created, At, Running, Goto, IInv, TypeOK, MutexInv
<1>4. ContextInv'
  BY DEF Reread, Created, At, Running, Goto, IInv, TypeOK, ContextInv
<1>5. HandlesInv'
  BY DEF Reread, Created, At, Running, Goto, IInv, TypeOK, HandlesInv
<1>6. WaitersHoldNothing'
  BY DEF Reread, Created, At, Running, Goto, IInv, TypeOK, WaitersHoldNothing
<1>7. EndsOnlyClosed'
  BY DEF Reread, Created, At, Running, Goto, IInv, TypeOK, EndsOnlyClosed
<1> QED
  BY <1>1, <1>2, <1>3, <1>4, <1>5, <1>6, <1>7 DEF IInv

(* Malloc preserves the invariant. *)
LEMMA MallocIInv ==
  ASSUME NEW t \in Threads, IInv, Malloc(t)
  PROVE  IInv'
<1>1. TypeOK'
  BY DEF Malloc, At, Running, Goto, IInv, TypeOK
<1>2. OneContext'
  BY DEF Malloc, At, Running, Goto, IInv, TypeOK, OneContext
<1>3. MutexInv'
  BY DEF Malloc, At, Running, Goto, IInv, TypeOK, MutexInv
<1>4. ContextInv'
  BY DEF Malloc, At, Running, Goto, IInv, TypeOK, ContextInv
<1>5. HandlesInv'
  BY DEF Malloc, At, Running, Goto, IInv, TypeOK, HandlesInv
<1>6. WaitersHoldNothing'
  BY DEF Malloc, At, Running, Goto, IInv, TypeOK, WaitersHoldNothing
<1>7. EndsOnlyClosed'
  BY DEF Malloc, At, Running, Goto, IInv, TypeOK, EndsOnlyClosed
<1> QED
  BY <1>1, <1>2, <1>3, <1>4, <1>5, <1>6, <1>7 DEF IInv

(* Socket preserves the invariant. *)
LEMMA SocketIInv ==
  ASSUME NEW t \in Threads, IInv, Socket(t)
  PROVE  IInv'
<1>1. TypeOK'
  <2> DEFINE c == ctx[t]
  <2>1. handles' \in [Threads -> [Contexts -> Nat]]
    <3>1. CASE /\ c \in Contexts
               /\ handles' = [handles EXCEPT ![t][c] = @ + 1]
      BY <3>1 DEF IInv, TypeOK
    <3>2. CASE UNCHANGED handles
      BY <3>2 DEF IInv, TypeOK
    <3> QED
      BY <3>1, <3>2 DEF Socket
  <2>2. pc' \in [Threads -> Labels \cup ExitLabels]
    BY DEF Socket, Goto, IInv, TypeOK
  <2> QED
    BY <2>1, <2>2 DEF Socket, IInv, TypeOK
<1>2. OneContext'
  BY DEF Socket, At, Running, Goto, IInv, TypeOK, OneContext
<1>3. MutexInv'
  BY DEF Socket, At, Running, Goto, IInv, TypeOK, MutexInv
<1>4. ContextInv'
  BY DEF Socket, At, Running, Goto, IInv, TypeOK, ContextInv
<1>5. HandlesInv'
  BY DEF Socket, At, Running, Goto, IInv, TypeOK, HandlesInv
<1>6. WaitersHoldNothing'
  BY DEF Socket, At, Running, Goto, IInv, TypeOK, WaitersHoldNothing
<1>7. EndsOnlyClosed'
  BY DEF Socket, At, Running, Goto, IInv, TypeOK, EndsOnlyClosed
<1> QED
  BY <1>1, <1>2, <1>3, <1>4, <1>5, <1>6, <1>7 DEF IInv

(* Connect preserves the invariant. *)
LEMMA ConnectIInv ==
  ASSUME NEW t \in Threads, IInv, Connect(t)
  PROVE  IInv'
<1>0. ctx[t] \in Contexts /\ handles[t][ctx[t]] > 0
  BY DEF Connect, At, IInv, HandlesInv
<1>1. TypeOK'
  <2>1. handles' \in [Threads -> [Contexts -> Nat]]
    BY <1>0 DEF Connect, AfterFailure, IInv, TypeOK
  <2> QED
    BY <2>1 DEF Connect, Goto, IInv, TypeOK
<1>2. OneContext'
  BY DEF Connect, At, Running, Goto, AfterFailure, IInv, TypeOK, OneContext
<1>3. MutexInv'
  BY DEF Connect, At, Running, Goto, AfterFailure, IInv, TypeOK, MutexInv
<1>4. ContextInv'
  BY DEF Connect, At, Running, Goto, AfterFailure, IInv, TypeOK, ContextInv
<1>5. HandlesInv'
  <2>1. ASSUME NEW u \in Threads, NEW c \in Contexts, handles'[u][c] > 0
        PROVE  state'[c] \in {"live", "closing"}
    <3>1. handles[u][c] > 0
      BY <1>0, <2>1 DEF Connect, AfterFailure, IInv, TypeOK
    <3> QED
      BY <3>1 DEF Connect, IInv, HandlesInv
  <2>2. ASSUME NEW u \in Threads, pc'[u] = "connect"
        PROVE  ctx'[u] \in Contexts /\ handles'[u][ctx'[u]] > 0
    <3>1. u # t /\ pc[u] = "connect"
      BY <2>2 DEF Connect, Goto, IInv, TypeOK
    <3>2. handles'[u] = handles[u]
      BY <3>1 DEF Connect, AfterFailure, IInv, TypeOK
    <3> QED
      BY <3>1, <3>2 DEF Connect, IInv, HandlesInv
  <2> QED
    BY <2>1, <2>2 DEF HandlesInv
<1>6. WaitersHoldNothing'
  BY DEF Connect, At, Running, Goto, AfterFailure, IInv, TypeOK,
         WaitersHoldNothing
<1>7. EndsOnlyClosed'
  BY DEF Connect, At, Running, Goto, AfterFailure, IInv, TypeOK,
         EndsOnlyClosed
<1> QED
  BY <1>1, <1>2, <1>3, <1>4, <1>5, <1>6, <1>7 DEF IInv

(* Close preserves the invariant. *)
LEMMA CloseIInv ==
  ASSUME NEW t \in Threads, IInv, Close(t)
  PROVE  IInv'
<1>1. TypeOK'
  BY DEF Close, At, Running, Goto, IInv, TypeOK
<1>2. OneContext'
  BY DEF Close, At, Running, Goto, IInv, TypeOK, OneContext
<1>3. MutexInv'
  BY DEF Close, At, Running, Goto, IInv, TypeOK, MutexInv
<1>4. ContextInv'
  BY DEF Close, At, Running, Goto, IInv, TypeOK, ContextInv
<1>5. HandlesInv'
  BY DEF Close, At, Running, Goto, IInv, TypeOK, HandlesInv
<1>6. WaitersHoldNothing'
  BY DEF Close, At, Running, Goto, IInv, TypeOK, WaitersHoldNothing
<1>7. EndsOnlyClosed'
  BY DEF Close, At, Running, Goto, IInv, TypeOK, EndsOnlyClosed
<1> QED
  BY <1>1, <1>2, <1>3, <1>4, <1>5, <1>6, <1>7 DEF IInv

(* Exit preserves the invariant. *)
LEMMA ExitIInv ==
  ASSUME IInv, Exit
  PROVE  IInv'
<1>1. TypeOK'
  BY DEF Exit, At, Running, Goto, IInv, TypeOK
<1>2. OneContext'
  BY DEF Exit, At, Running, Goto, IInv, TypeOK, OneContext
<1>3. MutexInv'
  BY DEF Exit, At, Running, Goto, IInv, TypeOK, MutexInv
<1>4. ContextInv'
  BY DEF Exit, At, Running, Goto, IInv, TypeOK, ContextInv
<1>5. HandlesInv'
  BY DEF Exit, At, Running, Goto, IInv, TypeOK, HandlesInv
<1>6. WaitersHoldNothing'
  BY DEF Exit, At, Running, Goto, IInv, TypeOK, WaitersHoldNothing
<1>7. EndsOnlyClosed'
  BY DEF Exit, At, Running, Goto, IInv, TypeOK, EndsOnlyClosed
<1> QED
  BY <1>1, <1>2, <1>3, <1>4, <1>5, <1>6, <1>7 DEF IInv

(* Exited preserves the invariant. *)
LEMMA ExitedIInv ==
  ASSUME IInv, Exited
  PROVE  IInv'
<1>1. TypeOK'
  BY DEF Exited, At, Running, Goto, IInv, TypeOK
<1>2. OneContext'
  BY DEF Exited, At, Running, Goto, IInv, TypeOK, OneContext
<1>3. MutexInv'
  BY DEF Exited, At, Running, Goto, IInv, TypeOK, MutexInv
<1>4. ContextInv'
  BY DEF Exited, At, Running, Goto, IInv, TypeOK, ContextInv
<1>5. HandlesInv'
  BY DEF Exited, At, Running, Goto, IInv, TypeOK, HandlesInv
<1>6. WaitersHoldNothing'
  BY DEF Exited, At, Running, Goto, IInv, TypeOK, WaitersHoldNothing
<1>7. EndsOnlyClosed'
  BY DEF Exited, At, Running, Goto, IInv, TypeOK, EndsOnlyClosed,
         OneContext, ContextInv, HandlesInv
<1> QED
  BY <1>1, <1>2, <1>3, <1>4, <1>5, <1>6, <1>7 DEF IInv

(* ClearLock preserves the invariant. *)
LEMMA ClearLockIInv ==
  ASSUME IInv, ClearLock
  PROVE  IInv'
<1>1. TypeOK'
  <2>1. registered' \in Nat
    BY DEF ClearLock, IInv, TypeOK
  <2>2. state' \in [Contexts -> {"unused", "live", "closing", "freed"}]
    BY DEF ClearLock, IInv, TypeOK
  <2>3. pc' \in [Threads -> Labels \cup ExitLabels] /\ mutex' \in Threads
    BY DEF ClearLock, Goto, IInv, TypeOK
  <2> QED
    BY <2>1, <2>2, <2>3 DEF ClearLock, IInv, TypeOK
<1>2. OneContext'
  BY DEF ClearLock, At, Running, Goto, IInv, TypeOK, OneContext
<1>3. MutexInv'
  BY DEF ClearLock, At, Running, Goto, IInv, TypeOK, MutexInv
<1>4. ContextInv'
  BY DEF ClearLock, At, Running, Goto, IInv, TypeOK, ContextInv
<1>5. HandlesInv'
  BY DEF ClearLock, At, Running, Goto, IInv, TypeOK, HandlesInv
<1>6. WaitersHoldNothing'
  BY DEF ClearLock, At, Running, Goto, IInv, TypeOK, WaitersHoldNothing
<1>7. EndsOnlyClosed'
  BY DEF ClearLock, At, Running, Goto, IInv, TypeOK, EndsOnlyClosed
<1> QED
  BY <1>1, <1>2, <1>3, <1>4, <1>5, <1>6, <1>7 DEF IInv

(* Destroy preserves the invariant. *)
LEMMA DestroyIInv ==
  ASSUME IInv, Destroy
  PROVE  IInv'
<1>1. TypeOK'
  BY DEF Destroy, At, Running, Goto, AllClosed, IInv, TypeOK
<1>2. OneContext'
  BY DEF Destroy, At, Running, Goto, AllClosed, IInv, TypeOK, OneContext
<1>3. MutexInv'
  BY DEF Destroy, At, Running, Goto, AllClosed, IInv, TypeOK, MutexInv
<1>4. ContextInv'
  BY DEF Destroy, At, Running, Goto, AllClosed, IInv, TypeOK, ContextInv
<1>5. HandlesInv'
  BY DEF Destroy, At, Running, Goto, AllClosed, IInv, TypeOK, HandlesInv
<1>6. WaitersHoldNothing'
  BY DEF Destroy, At, Running, Goto, AllClosed, IInv, TypeOK,
         WaitersHoldNothing
<1>7. EndsOnlyClosed'
  BY DEF Destroy, At, Running, Goto, AllClosed, IInv, TypeOK, EndsOnlyClosed
<1> QED
  BY <1>1, <1>2, <1>3, <1>4, <1>5, <1>6, <1>7 DEF IInv

(* Cleared preserves the invariant. *)
LEMMA ClearedIInv ==
  ASSUME IInv, Cleared
  PROVE  IInv'
<1>1. TypeOK'
  BY DEF Cleared, At, Running, Goto, IInv, TypeOK
<1>2. OneContext'
  BY DEF Cleared, At, Running, Goto, IInv, TypeOK, OneContext, ContextInv
<1>3. MutexInv'
  BY DEF Cleared, At, Running, Goto, IInv, TypeOK, MutexInv
<1>4. ContextInv'
  BY DEF Cleared, At, Running, Goto, IInv, TypeOK, ContextInv
<1>5. HandlesInv'
  BY DEF Cleared, At, Running, Goto, IInv, TypeOK, HandlesInv
<1>6. WaitersHoldNothing'
  BY DEF Cleared, At, Running, Goto, IInv, TypeOK, WaitersHoldNothing
<1>7. EndsOnlyClosed'
  BY DEF Cleared, At, Running, Goto, IInv, TypeOK, EndsOnlyClosed
<1> QED
  BY <1>1, <1>2, <1>3, <1>4, <1>5, <1>6, <1>7 DEF IInv

-----------------------------------------------------------------------------
(* Every step preserves the invariant. *)
LEMMA StepIInv == IInv /\ [Next]_vars => IInv'
<1> SUFFICES ASSUME IInv, [Next]_vars PROVE IInv'
  OBVIOUS
<1>1. ASSUME NEW t \in Threads, CallOpen(t) \/ Lock(t) \/ Open(t) \/ Close(t)
      PROVE  IInv'
  BY <1>1, CallOpenIInv, LockIInv, CreateIInv, CreateFailsIInv, FoundCreatedIInv,
     UnlockIInv, RereadIInv, MallocIInv, SocketIInv, ConnectIInv, CloseIInv DEF Open
<1>2. CASE Exit \/ Exited \/ ClearLock \/ ClearCtx
  BY <1>2, ExitIInv, ExitedIInv, ClearLockIInv, DestroyIInv, ClearedIInv DEF ClearCtx
<1>3. CASE UNCHANGED vars
  BY <1>3 DEF vars, IInv, TypeOK, OneContext, MutexInv, ContextInv, HandlesInv,
              WaitersHoldNothing, EndsOnlyClosed
<1> QED
  BY <1>1, <1>2, <1>3 DEF Next

(* The invariant holds in every reachable state. *)
THEOREM Invariance == Spec => []IInv
  BY InitIInv, StepIInv, PTL DEF Spec

(* Every variable keeps its type. *)
THEOREM TypeCorrect == Spec => []TypeOK
<1>1. IInv => TypeOK
  BY DEF IInv
<1> QED
  BY <1>1, Invariance, PTL

(* However many threads open their first handle at once, one context is    *)
(* created; while it is not freed, zmq_ctx is it.                          *)
THEOREM OneContextCorrect == Spec => []OneContext
<1>1. IInv => OneContext
  BY DEF IInv
<1> QED
  BY <1>1, Invariance, PTL

(* Until the process exits zmq_ctx is set once it was found or created,    *)
(* and stays what was read of it.                                          *)
ReadInv ==
  ~Exiting => \A t \in Threads :
    /\ pc[t] \in {"unlock", "reread", "malloc", "socket"} => zmq_ctx # NULL
    /\ pc[t] \in {"malloc", "socket"} => ctx[t] = zmq_ctx
    /\ pc[t] # "undefined"

LEMMA ReadKept ==
  ASSUME IInv, ReadInv, [Next]_vars
  PROVE  ReadInv'
<1>1. TypeOK /\ MutexInv /\ ContextInv
  BY DEF IInv
<1>2. ASSUME NEW t \in Threads, CallOpen(t) \/ Lock(t)
      PROVE  ReadInv'
  BY <1>1, <1>2 DEF CallOpen, Lock, At, Goto, NeedsLock, TypeOK, ReadInv, Exiting
<1>3. ASSUME NEW t \in Threads, Create(t)
      PROVE  ReadInv'
  BY <1>1, <1>3 DEF Create, At, Goto, MustCreate, TypeOK, ReadInv, Exiting
<1>4. ASSUME NEW t \in Threads, CreateFails(t) \/ FoundCreated(t) \/ Unlock(t)
      PROVE  ReadInv'
  BY <1>1, <1>4 DEF CreateFails, FoundCreated, Unlock, At, Goto, MustCreate, TypeOK, ReadInv,
                    Exiting
<1>5. ASSUME NEW t \in Threads, Reread(t) \/ Malloc(t)
      PROVE  ReadInv'
  BY <1>1, <1>5 DEF Reread, Created, Malloc, At, Goto, TypeOK, ReadInv, Exiting
<1>6. ASSUME NEW t \in Threads, Socket(t)
      PROVE  ReadInv'
  <2>1. ~Exiting => state[ctx[t]] = "live" /\ ctx[t] \in Contexts
    BY <1>1, <1>6 DEF Socket, At, TypeOK, ReadInv, ContextInv, Exiting
  <2> QED
    BY <1>1, <1>6, <2>1 DEF Socket, At, Goto, TypeOK, ReadInv, Exiting
<1>7. ASSUME NEW t \in Threads, Connect(t) \/ Close(t)
      PROVE  ReadInv'
  BY <1>1, <1>7 DEF Connect, Close, At, Goto, TypeOK, ReadInv, Exiting
<1>8. CASE Exit \/ Exited \/ ClearLock \/ Destroy \/ Cleared
  BY <1>1, <1>8 DEF Exit, Exited, ClearLock, Destroy, Cleared, At, Goto, TypeOK, Exiting, ReadInv
<1>9. CASE UNCHANGED vars
  BY <1>9 DEF vars, ReadInv, Exiting
<1> QED
  BY <1>2, <1>3, <1>4, <1>5, <1>6, <1>7, <1>8, <1>9 DEF Next, Open, ClearCtx

(* Until the process exits zmq_socket is called with the live context, by  *)
(* every thread that found it or created it or found it created.           *)
THEOREM LiveCorrect == Spec => []LiveUntilExit
<1>1. Init => ReadInv
  BY DEF Init, ReadInv
<1>2. IInv /\ ReadInv /\ [Next]_vars => ReadInv'
  BY ReadKept
<1>3. IInv /\ ReadInv => LiveUntilExit
  BY DEF IInv, TypeOK, ContextInv, ReadInv, LiveUntilExit, Exiting
<1> QED
  BY <1>1, <1>2, <1>3, Invariance, PTL DEF Spec

(* A thread that waits for the lock has no handle, so that the thread that *)
(* waits for handles with the lock held does not wait for it.              *)
THEOREM WaitersCorrect == Spec => []WaitersHoldNothing
<1>1. IInv => WaitersHoldNothing
  BY DEF IInv
<1> QED
  BY <1>1, Invariance, PTL

(* The process ends only when the thread that exits has no handle open.    *)
THEOREM EndCorrect == Spec => []EndsOnlyClosed
<1>1. IInv => EndsOnlyClosed
  BY DEF IInv
<1> QED
  BY <1>1, Invariance, PTL
===============================================================================
