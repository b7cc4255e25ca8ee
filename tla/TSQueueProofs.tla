--------------------------- MODULE TSQueueProofs ---------------------------
(***************************************************************************)
(* Theorems about tsqueue.c for any number of threads, any size and any    *)
(* blocking modes.  The inductive invariant is TypeOK with RingInv and     *)
(* MutexOK: the ring operations need a well-formed ring and the mutex, and *)
(* the mutex needs to know where each thread is in its call.  That they do *)
(* not all sleep rests on a count of sleepers on each side (AsleepInv).    *)
(***************************************************************************)
EXTENDS TSQueue, QueueProofs, FiniteSetTheorems

IInv == TypeOK /\ RingInv /\ MutexOK

Places == {"idle", "lock", "check", "wait", "unlock"}

CallType ==
  {NoCall} \cup
  [op : {"add", "remove", "count"}, elem : Element \cup {NULL}, block : BOOLEAN,
   done : BOOLEAN, res : Element \cup {NULL} \cup 0 .. QSize]

(* What MutexOK says of one thread.                                        *)
ThreadOK(t) ==
  /\ pc[t] \in {"check", "unlock"} <=> owner = t
  /\ pc[t] = "idle" <=> call[t] = NoCall
  /\ pc[t] = "unlock" <=> (call[t] # NoCall /\ call[t].done)
  /\ call[t] # NoCall =>
       /\ call[t].op = "add" => call[t].elem \in Element /\ call[t].block \in AddModes
       /\ call[t].op = "remove" => call[t].block \in RemoveModes
       /\ call[t].op = "count" => ~ call[t].block
  /\ pc[t] = "wait" => call[t].block

LEMMA MutexByThread == MutexOK <=> \A t \in Threads : ThreadOK(t)
  BY DEF MutexOK, ThreadOK

LEMMA SizeOK == QSize \in Nat \ {0} /\ NoThread \notin Threads
  BY TSQueueAssumption

(* What a thread that finishes its operation does to where the threads are.*)
LEMMA ThenUnlockEffect ==
  ASSUME TypeOK, NEW t \in Threads, pc[t] = "check", NEW signal \in BOOLEAN,
         ThenUnlock(t, signal)
  PROVE  /\ pc' \in [Threads -> Places]
         /\ pc'[t] = "unlock"
         /\ \A u \in Threads \ {t} :
              pc'[u] = pc[u] \/ (pc[u] = "wait" /\ pc'[u] = "lock")
<1>0. pc \in [Threads -> Places]
  BY DEF TypeOK, Places
<1>1. CASE signal /\ Sleepers # {}
  <2>1. PICK w \in Sleepers : pc' = [pc EXCEPT ![t] = "unlock", ![w] = "lock"]
    BY <1>1 DEF ThenUnlock
  <2>2. w \in Threads /\ pc[w] = "wait" /\ w # t
    BY DEF Sleepers
  <2> QED
    BY <1>0, <2>1, <2>2 DEF Places
<1>2. CASE ~ (signal /\ Sleepers # {})
  <2>1. pc' = [pc EXCEPT ![t] = "unlock"]
    BY <1>2 DEF ThenUnlock
  <2> QED
    BY <1>0, <2>1 DEF Places
<1> QED
  BY <1>1, <1>2

(* ... and to its own call, which is under way.                            *)
LEMMA FinishEffect ==
  ASSUME TypeOK, MutexOK, NEW t \in Threads, pc[t] = "check",
         NEW r \in Element \cup {NULL} \cup 0 .. QSize, Finish(t, r)
  PROVE  /\ call' \in [Threads -> CallType]
         /\ call[t] # NoCall /\ ~ call[t].done
         /\ call'[t] # NoCall /\ call'[t].done
         /\ call'[t].op = call[t].op
         /\ call'[t].elem = call[t].elem
         /\ call'[t].block = call[t].block
         /\ \A u \in Threads \ {t} : call'[u] = call[u]
<1>1. call \in [Threads -> CallType]
  BY DEF TypeOK, CallType
<1>2. call[t] # NoCall /\ ~ call[t].done
  BY MutexByThread DEF ThreadOK
<1>3. call[t] \in [op : {"add", "remove", "count"}, elem : Element \cup {NULL},
                   block : BOOLEAN, done : BOOLEAN, res : Element \cup {NULL} \cup 0 .. QSize]
  BY <1>1, <1>2 DEF CallType
<1> DEFINE c == [call[t] EXCEPT !.done = TRUE, !.res = r]
<1>4. call' = [call EXCEPT ![t] = c]
  BY <1>1 DEF Finish
<1>5. /\ c \in CallType
      /\ c.op = call[t].op /\ c.elem = call[t].elem /\ c.block = call[t].block /\ c.done
  BY <1>3 DEF CallType
<1>6. c # NoCall
  <2>1. c.op # NoCall.op
    BY <1>3, <1>5 DEF NoCall
  <2> QED
    BY <2>1
<1> HIDE DEF c
<1> QED
  BY <1>1, <1>2, <1>4, <1>5, <1>6
-----------------------------------------------------------------------------
(* One lemma per action: it preserves the invariant and is a step, or a    *)
(* stutter, of the abstract FIFO.                                          *)

FifoStep == Fifo!Next \/ UNCHANGED Fifo!vars

LEMMA InitOK == Init => IInv /\ Fifo!Init
<1> SUFFICES ASSUME Init PROVE IInv /\ Fifo!Init
  OBVIOUS
<1>1. q \in QueueType(QSize) /\ RingOK(q) /\ Contents(q) = <<>>
  BY SizeOK, CreateOK DEF Init
<1>2. TypeOK /\ RingInv
  BY <1>1 DEF Init, TypeOK, RingInv
<1>3. MutexOK
  BY SizeOK DEF Init, MutexOK
<1>4. Fifo!Init
  BY <1>1 DEF Init, Fifo!Init, Fifo!Threads, Threads, NoCall, Fifo!NoCall
<1> QED
  BY <1>2, <1>3, <1>4 DEF IInv

(* A thread calls one of the operations.                                   *)
LEMMA CallOK ==
  ASSUME IInv, NEW t \in Threads, CallAdd(t) \/ CallRemove(t) \/ CallCount(t)
  PROVE  IInv' /\ FifoStep
<1> USE DEF IInv
<1>1. PICK op \in {"add", "remove", "count"}, e \in Element \cup {NULL}, b \in BOOLEAN :
        /\ Call(t, Request(op, e, b))
        /\ op = "add" => t \in Adders /\ e \in Element /\ b \in AddModes
        /\ op = "remove" => t \in Removers /\ b \in RemoveModes /\ e = NULL
        /\ op = "count" => t \in Removers /\ ~ b /\ e = NULL
  BY TSQueueAssumption DEF CallAdd, CallRemove, CallCount
<1> DEFINE c == Request(op, e, b)
<1>2. /\ c \in CallType /\ c # NoCall /\ c.op = op /\ c.elem = e /\ c.block = b /\ c.done = FALSE
  <2>1. c \in CallType
    BY DEF Request, CallType
  <2>2. c.op = op /\ c.elem = e /\ c.block = b /\ c.done = FALSE
    BY DEF Request
  <2>3. c # NoCall
    <3>1. c.op # NoCall.op
      BY <2>2 DEF NoCall
    <3> QED
      BY <3>1
  <2> QED
    BY <2>1, <2>2, <2>3
<1>3. /\ pc[t] = "idle"
      /\ pc' = [pc EXCEPT ![t] = "lock"]
      /\ call' = [call EXCEPT ![t] = c]
      /\ q' = q /\ owner' = owner
  BY <1>1 DEF Call
<1>4. call[t] = NoCall
  BY <1>3, MutexByThread DEF ThreadOK
<1>5. FifoStep
  <2>1. call[t] = Fifo!NoCall /\ c = Fifo!Request(op, e, b)
    BY <1>4 DEF Fifo!NoCall, NoCall, Request, Fifo!Request
  <2>2. Contents(q)' = Contents(q)
    BY <1>3
  <2>3. Fifo!Invoke(t)
    BY <1>1, <1>3, <2>1, <2>2 DEF Fifo!Invoke
  <2> QED
    BY <2>3 DEF FifoStep, Fifo!Next, Fifo!Threads, Threads
<1> HIDE DEF c
<1>6. TypeOK'
  BY <1>2, <1>3 DEF TypeOK, CallType
<1>7. MutexOK'
  <2>1. \A u \in Threads : ThreadOK(u)
    BY MutexByThread
  <2>2. pc \in [Threads -> Places] /\ call \in [Threads -> CallType]
    BY DEF TypeOK, Places, CallType
  <2>3. ThreadOK(t)'
    BY <1>1, <1>2, <1>3, <2>1, <2>2 DEF ThreadOK
  <2>4. ASSUME NEW u \in Threads, u # t PROVE ThreadOK(u)'
    BY <1>3, <2>1, <2>2, <2>4 DEF ThreadOK
  <2>5. \A u \in Threads : ThreadOK(u)'
    BY <2>3, <2>4
  <2> QED
    BY <2>5 DEF MutexOK, ThreadOK
<1> QED
  BY <1>3, <1>5, <1>6, <1>7 DEF RingInv

(* The steps that leave the ring and the calls alone.                      *)
LEMMA WaitingOK ==
  ASSUME IInv, NEW t \in Threads, Lock(t) \/ CondWait(t) \/ SpuriousWakeup(t)
  PROVE  IInv' /\ FifoStep
<1> USE DEF IInv
<1>1. q' = q /\ call' = call
  BY DEF Lock, CondWait, SpuriousWakeup
<1>2. FifoStep
  BY <1>1 DEF FifoStep, Fifo!vars
<1>3. \A u \in Threads : ThreadOK(u)
  BY MutexByThread
<1>4. pc \in [Threads -> Places]
  BY DEF TypeOK, Places
<1>5. TypeOK'
  BY <1>1 DEF TypeOK, Lock, CondWait, SpuriousWakeup
<1>6. ASSUME NEW u \in Threads PROVE ThreadOK(u)'
  <2>1. CASE Lock(t)
    BY <1>1, <1>3, <1>4, <2>1, SizeOK DEF Lock, ThreadOK
  <2>2. CASE CondWait(t)
    BY <1>1, <1>3, <1>4, <2>2, SizeOK DEF CondWait, ThreadOK, MustWait
  <2>3. CASE SpuriousWakeup(t)
    BY <1>1, <1>3, <1>4, <2>3, SizeOK DEF SpuriousWakeup, ThreadOK
  <2> QED
    BY <2>1, <2>2, <2>3
<1>7. MutexOK'
  BY <1>6 DEF MutexOK, ThreadOK
<1> QED
  BY <1>1, <1>2, <1>5, <1>7 DEF RingInv

(* The thread that has done its operation leaves.                          *)
LEMMA UnlockOK ==
  ASSUME IInv, NEW t \in Threads, Unlock(t)
  PROVE  IInv' /\ FifoStep
<1> USE DEF IInv
<1>1. /\ pc[t] = "unlock" /\ q' = q /\ owner' = NoThread
      /\ pc' = [pc EXCEPT ![t] = "idle"]
      /\ call' = [call EXCEPT ![t] = NoCall]
  BY DEF Unlock
<1>2. \A u \in Threads : ThreadOK(u)
  BY MutexByThread
<1>3. pc \in [Threads -> Places] /\ call \in [Threads -> CallType]
  BY DEF TypeOK, Places, CallType
<1>4. FifoStep
  <2>1. call[t] # Fifo!NoCall /\ call[t].done
    BY <1>1, <1>2 DEF ThreadOK, NoCall, Fifo!NoCall
  <2>2. Fifo!Return(t)
    BY <1>1, <2>1 DEF Fifo!Return, NoCall, Fifo!NoCall
  <2> QED
    BY <2>2 DEF FifoStep, Fifo!Next, Fifo!Threads, Threads
<1>5. TypeOK'
  BY <1>1 DEF TypeOK
<1>6. ASSUME NEW u \in Threads PROVE ThreadOK(u)'
  BY <1>1, <1>2, <1>3, SizeOK DEF ThreadOK
<1>7. MutexOK'
  BY <1>6 DEF MutexOK, ThreadOK
<1> QED
  BY <1>1, <1>4, <1>5, <1>7 DEF RingInv

(* What the three operations have in common: the mutex stays with t, and t *)
(* is about to unlock with its result.                                     *)
LEMMA OperationOK ==
  ASSUME IInv, NEW t \in Threads, pc[t] = "check", owner' = owner,
         NEW r \in Element \cup {NULL} \cup 0 .. QSize, Finish(t, r),
         NEW signal \in BOOLEAN, ThenUnlock(t, signal),
         q' \in QueueType(QSize), RingOK(q')
  PROVE  IInv'
<1> USE DEF IInv
<1>1. /\ pc' \in [Threads -> Places]
      /\ pc'[t] = "unlock"
      /\ \A u \in Threads \ {t} : pc'[u] = pc[u] \/ (pc[u] = "wait" /\ pc'[u] = "lock")
  BY ThenUnlockEffect
<1>2. /\ call' \in [Threads -> CallType]
      /\ call'[t] # NoCall /\ call'[t].done
      /\ call[t] # NoCall
      /\ call'[t].op = call[t].op
      /\ call'[t].elem = call[t].elem
      /\ call'[t].block = call[t].block
      /\ \A u \in Threads \ {t} : call'[u] = call[u]
  BY FinishEffect
<1>3. \A u \in Threads : ThreadOK(u)
  BY MutexByThread
<1>4. TypeOK'
  BY <1>1, <1>2 DEF TypeOK, Places, CallType
<1>5. ThreadOK(t)'
  BY <1>1, <1>2, <1>3 DEF ThreadOK
<1>6. ASSUME NEW u \in Threads, u # t PROVE ThreadOK(u)'
  BY <1>1, <1>2, <1>3, <1>6 DEF ThreadOK
<1>7. \A u \in Threads : ThreadOK(u)'
  BY <1>5, <1>6
<1>8. MutexOK'
  BY <1>7 DEF MutexOK, ThreadOK
<1> QED
  BY <1>4, <1>8 DEF RingInv

LEMMA AddStepOK ==
  ASSUME IInv, NEW t \in Threads, tsq_add(t)
  PROVE  IInv' /\ FifoStep
<1> USE DEF IInv
<1>1. /\ pc[t] = "check" /\ call[t].op = "add" /\ ~ MustWait(t)
      /\ q' = q_add(q, call[t].elem)
      /\ Finish(t, AddResult(q))
      /\ ThenUnlock(t, AddResult(q) = 1)
      /\ owner' = owner
  BY DEF tsq_add, May
<1>2. /\ call[t] # NoCall /\ ~ call[t].done
      /\ call[t].elem \in Element
  BY <1>1, MutexByThread DEF ThreadOK
<1>3. q \in QueueType(QSize) /\ RingOK(q) /\ q.size = QSize
  BY DEF TypeOK, RingInv, QueueType
<1>4. Len(Contents(q)) = q.count
  BY <1>3, SizeOK, ContentsType
<1>5. AddResult(q) \in Element \cup {NULL} \cup 0 .. QSize
  BY SizeOK DEF AddResult
<1>6. CASE q.count = q.size
  <2>1. q' = q /\ AddResult(q) = 0
    BY <1>1, <1>6 DEF q_add, AddResult
  <2>2. IInv'
    BY <1>1, <1>3, <1>5, <2>1, OperationOK
  <2>3. Fifo!AddFails(t)
    <3>1. ~ call[t].block
      BY <1>1, <1>6 DEF MustWait, q_count, q_size
    <3>2. Contents(q)' = Contents(q) /\ Len(Contents(q)) = QSize
      BY <1>3, <1>4, <1>6, <2>1
    <3> QED
      BY <1>1, <1>2, <2>1, <3>1, <3>2
      DEF Fifo!AddFails, Fifo!Pending, Fifo!Result, Finish
  <2> QED
    BY <2>2, <2>3 DEF FifoStep, Fifo!Next, Fifo!Threads, Threads
<1>7. CASE q.count # q.size
  <2>1. /\ AddResult(q) = 1
        /\ q' \in QueueType(QSize) /\ RingOK(q')
        /\ Contents(q') = Append(Contents(q), call[t].elem)
    BY <1>1, <1>2, <1>3, <1>7, SizeOK, AddOK DEF AddResult
  <2>2. IInv'
    BY <1>1, <1>5, <2>1, OperationOK
  <2>3. Fifo!AddSucceeds(t)
    <3>1. Len(Contents(q)) < QSize
      BY <1>3, <1>4, <1>7, SizeOK DEF QueueType
    <3>2. Contents(q)' = Append(Contents(q), call[t].elem)
      BY <2>1
    <3> QED
      BY <1>1, <1>2, <2>1, <3>1, <3>2
      DEF Fifo!AddSucceeds, Fifo!Pending, Fifo!Result, Finish
  <2> QED
    BY <2>2, <2>3 DEF FifoStep, Fifo!Next, Fifo!Threads, Threads
<1> QED
  BY <1>6, <1>7

LEMMA RemoveStepOK ==
  ASSUME IInv, NEW t \in Threads, tsq_remove(t)
  PROVE  IInv' /\ FifoStep
<1> USE DEF IInv
<1>1. /\ pc[t] = "check" /\ call[t].op = "remove" /\ ~ MustWait(t)
      /\ q' = q_remove(q)
      /\ Finish(t, RemoveResult(q))
      /\ ThenUnlock(t, RemoveResult(q) # NULL)
      /\ owner' = owner
  BY DEF tsq_remove, May
<1>2. call[t] # NoCall /\ ~ call[t].done
  BY <1>1, MutexByThread DEF ThreadOK
<1>3. q \in QueueType(QSize) /\ RingOK(q)
  BY DEF TypeOK, RingInv
<1>4. Contents(q) \in Seq(Element) /\ Len(Contents(q)) = q.count
  BY <1>3, SizeOK, ContentsType
<1>5. CASE q.count = 0
  <2>1. q' = q /\ RemoveResult(q) = NULL
    BY <1>1, <1>5 DEF q_remove, RemoveResult
  <2>2. IInv'
    BY <1>1, <1>3, <2>1, OperationOK
  <2>3. Fifo!RemoveFails(t)
    <3>1. ~ call[t].block
      BY <1>1, <1>5 DEF MustWait, q_count
    <3>2. Contents(q)' = Contents(q) /\ Contents(q) = <<>>
      BY <1>4, <1>5, <2>1
    <3> QED
      BY <1>1, <1>2, <2>1, <3>1, <3>2
      DEF Fifo!RemoveFails, Fifo!Pending, Fifo!Result, Finish
  <2> QED
    BY <2>2, <2>3 DEF FifoStep, Fifo!Next, Fifo!Threads, Threads
<1>6. CASE q.count # 0
  <2>1. /\ q' \in QueueType(QSize) /\ RingOK(q')
        /\ Contents(q') = Tail(Contents(q))
        /\ RemoveResult(q) = Head(Contents(q))
        /\ RemoveResult(q) \in Element
    BY <1>1, <1>3, <1>6, SizeOK, RemoveOK
  <2>2. IInv'
    BY <1>1, <2>1, OperationOK
  <2>3. Fifo!RemoveSucceeds(t)
    <3>1. Contents(q) # <<>>
      BY <1>4, <1>6
    <3>2. Contents(q)' = Tail(Contents(q))
      BY <2>1
    <3> QED
      BY <1>1, <1>2, <2>1, <3>1, <3>2
      DEF Fifo!RemoveSucceeds, Fifo!Pending, Fifo!Result, Finish
  <2> QED
    BY <2>2, <2>3 DEF FifoStep, Fifo!Next, Fifo!Threads, Threads
<1> QED
  BY <1>5, <1>6

LEMMA CountStepOK ==
  ASSUME IInv, NEW t \in Threads, tsq_count(t)
  PROVE  IInv' /\ FifoStep
<1> USE DEF IInv
<1>1. /\ pc[t] = "check" /\ call[t].op = "count"
      /\ q' = q /\ owner' = owner
      /\ Finish(t, q.count)
      /\ ThenUnlock(t, FALSE)
  BY DEF tsq_count, May, q_count
<1>2. call[t] # NoCall /\ ~ call[t].done
  BY <1>1, MutexByThread DEF ThreadOK
<1>3. q \in QueueType(QSize) /\ RingOK(q) /\ q.count \in 0 .. QSize
  BY DEF TypeOK, RingInv, QueueType
<1>4. IInv'
  BY <1>1, <1>3, OperationOK
<1>5. Fifo!Count(t)
  <2>1. Len(Contents(q)) = q.count /\ Contents(q)' = Contents(q)
    BY <1>1, <1>3, SizeOK, ContentsType
  <2> QED
    BY <1>1, <1>2, <2>1 DEF Fifo!Count, Fifo!Pending, Fifo!Result, Finish
<1> QED
  BY <1>4, <1>5 DEF FifoStep, Fifo!Next, Fifo!Threads, Threads

LEMMA StepOK == IInv /\ [Next]_vars => IInv' /\ FifoStep
<1> SUFFICES ASSUME IInv, [Next]_vars PROVE IInv' /\ FifoStep
  OBVIOUS
<1>1. CASE UNCHANGED vars
  BY <1>1 DEF vars, IInv, TypeOK, RingInv, MutexOK, FifoStep, Fifo!vars
<1>2. ASSUME NEW t \in Threads,
             \/ CallAdd(t) \/ CallRemove(t) \/ CallCount(t)
             \/ Lock(t) \/ Work(t) \/ SpuriousWakeup(t)
      PROVE  IInv' /\ FifoStep
  BY <1>2, CallOK, WaitingOK, UnlockOK, AddStepOK, RemoveStepOK, CountStepOK DEF Work
<1> QED
  BY <1>1, <1>2 DEF Next

LEMMA Invariance == Spec => []IInv
<1>1. Init => IInv
  BY InitOK
<1>2. IInv /\ [Next]_vars => IInv'
  BY StepOK
<1> QED
  BY <1>1, <1>2, PTL DEF Spec
-----------------------------------------------------------------------------
(* The state always has its type, for any instance.                        *)
THEOREM TypeCorrect == Spec => []TypeOK
<1>1. IInv => TypeOK
  BY DEF IInv
<1> QED
  BY <1>1, Invariance, PTL

(* The ring is never seen, nor left, half updated.                         *)
THEOREM RingCorrect == Spec => []RingInv
<1>1. IInv => RingInv
  BY DEF IInv
<1> QED
  BY <1>1, Invariance, PTL

(* The mutex excludes, and each thread's place agrees with its call.       *)
THEOREM MutexCorrect == Spec => []MutexOK
<1>1. IInv => MutexOK
  BY DEF IInv
<1> QED
  BY <1>1, Invariance, PTL

(* tsqueue.c is a bounded FIFO whose calls are atomic, for any number of   *)
(* threads that block or do not.                                           *)
THEOREM QueueIsFifo == Spec => ImplementsFifo
<1>1. Init => Fifo!Init
  BY InitOK
<1>2. IInv /\ [Next]_vars => [Fifo!Next]_(Fifo!vars)
  BY StepOK DEF FifoStep
<1> QED
  BY <1>1, <1>2, Invariance, PTL DEF Spec, ImplementsFifo, Fifo!Spec
-----------------------------------------------------------------------------
(* The wakeups, when adders never block.                                   *)

LEMMA LookingFinite ==
  IsFiniteSet(Looking) /\ Cardinality(Looking) \in Nat
<1>1. Looking \subseteq Threads /\ IsFiniteSet(Threads)
  BY TSQueueAssumption DEF Looking
<1> QED
  BY <1>1, FS_Subset, FS_CardinalityType

(* Only removers sleep.                                                    *)
LEMMA SleepersRemove ==
  ASSUME IInv, AddModes \subseteq {FALSE}
  PROVE  \A u \in Sleepers : u \in Threads /\ pc[u] = "wait" /\ call[u].op = "remove"
<1> SUFFICES ASSUME NEW u \in Threads, pc[u] = "wait" PROVE call[u].op = "remove"
  BY DEF Sleepers
<1>1. ThreadOK(u) /\ call[u] \in CallType
  BY MutexByThread DEF IInv, TypeOK, CallType
<1>2. call[u] # NoCall /\ call[u].block
  BY <1>1 DEF ThreadOK
<1>3. call[u].op \in {"add", "remove", "count"}
  BY <1>1, <1>2 DEF CallType
<1>4. call[u].op # "add" /\ call[u].op # "count"
  BY <1>1, <1>2 DEF ThreadOK
<1> QED
  BY <1>3, <1>4

(* A step that wakes nobody's work: who looked still looks, the queue does *)
(* not grow, nobody falls asleep.                                          *)
LEMMA LookingGrows ==
  ASSUME NoLostWakeup, Looking \subseteq Looking', IsFiniteSet(Looking'),
         Sleepers' \subseteq Sleepers, q'.count = q.count, q.count \in Nat
  PROVE  NoLostWakeup'
<1>1. Cardinality(Looking) <= Cardinality(Looking') /\ Cardinality(Looking') \in Nat
  BY FS_Subset, FS_CardinalityType
<1> QED
  BY <1>1, LookingFinite DEF NoLostWakeup

LEMMA WakeupStepOK ==
  ASSUME IInv, IInv', AddModes \subseteq {FALSE}, NoLostWakeup, [Next]_vars
  PROVE  NoLostWakeup'
<1> USE DEF IInv
<1>1. pc \in [Threads -> Places] /\ call \in [Threads -> CallType]
  BY DEF TypeOK, Places, CallType
<1>2. q \in QueueType(QSize) /\ RingOK(q) /\ q.count \in Nat /\ q.size = QSize
  BY DEF TypeOK, RingInv, QueueType
<1>3. \A u \in Threads : ThreadOK(u)
  BY MutexByThread
<1>4. IsFiniteSet(Looking') /\ Cardinality(Looking') \in Nat
  <2>1. Looking' \subseteq Threads /\ IsFiniteSet(Threads)
    BY TSQueueAssumption DEF Looking
  <2> QED
    BY <2>1, FS_Subset, FS_CardinalityType
<1>5. ASSUME NEW t \in Threads, CallAdd(t) \/ CallRemove(t) \/ CallCount(t)
      PROVE  NoLostWakeup'
  <2>1. /\ pc[t] = "idle" /\ pc' = [pc EXCEPT ![t] = "lock"] /\ q' = q
        /\ \A u \in Threads \ {t} : call'[u] = call[u]
    BY <1>1, <1>5 DEF CallAdd, CallRemove, CallCount, Call
  <2>2. Looking \subseteq Looking' /\ Sleepers' \subseteq Sleepers
    BY <1>1, <2>1 DEF Looking, Sleepers
  <2> QED
    BY <1>2, <1>4, <2>1, <2>2, LookingGrows
<1>6. ASSUME NEW t \in Threads, Lock(t) \/ SpuriousWakeup(t)
      PROVE  NoLostWakeup'
  <2>1. Looking \subseteq Looking' /\ Sleepers' \subseteq Sleepers
    BY <1>1, <1>6 DEF Lock, SpuriousWakeup, Looking, Sleepers
  <2> QED
    BY <1>2, <1>4, <1>6, <2>1, LookingGrows DEF Lock, SpuriousWakeup
<1>7. ASSUME NEW t \in Threads, Unlock(t)
      PROVE  NoLostWakeup'
  <2>1. Looking \subseteq Looking' /\ Sleepers' \subseteq Sleepers
    BY <1>1, <1>7 DEF Unlock, Looking, Sleepers
  <2> QED
    BY <1>2, <1>4, <1>7, <2>1, LookingGrows DEF Unlock
<1>8. ASSUME NEW t \in Threads, CondWait(t)
      PROVE  NoLostWakeup'
  <2>1. call[t].block /\ q' = q /\ pc[t] = "check"
    BY <1>8 DEF CondWait, MustWait
  <2>2. call[t].op # "add"
    BY <1>3, <2>1 DEF ThreadOK
  <2>3. q'.count = 0
    BY <1>8, <2>1, <2>2 DEF CondWait, MustWait, q_count
  <2> QED
    BY <1>4, <2>3 DEF NoLostWakeup
<1>9. ASSUME NEW t \in Threads, tsq_count(t)
      PROVE  NoLostWakeup'
  <2>1. /\ pc[t] = "check" /\ call[t].op = "count" /\ q' = q
        /\ pc' = [pc EXCEPT ![t] = "unlock"]
        /\ \A u \in Threads \ {t} : call'[u] = call[u]
    BY <1>1, <1>9 DEF tsq_count, May, ThenUnlock, Finish
  <2>2. Looking \subseteq Looking' /\ Sleepers' \subseteq Sleepers
    BY <1>1, <2>1 DEF Looking, Sleepers
  <2> QED
    BY <1>2, <1>4, <2>1, <2>2, LookingGrows
<1>10. ASSUME NEW t \in Threads, tsq_add(t)
       PROVE  NoLostWakeup'
  <2>1. /\ pc[t] = "check" /\ call[t].op = "add"
        /\ q' = q_add(q, call[t].elem)
        /\ ThenUnlock(t, AddResult(q) = 1)
        /\ \A u \in Threads \ {t} : call'[u] = call[u]
    BY <1>1, <1>10 DEF tsq_add, May, Finish
  <2>2. t \notin Looking
    BY <2>1 DEF Looking
  <2>3. CASE ~ (AddResult(q) = 1 /\ Sleepers # {})
    <3>1. pc' = [pc EXCEPT ![t] = "unlock"]
      BY <2>1, <2>3 DEF ThenUnlock
    <3>2. Looking \subseteq Looking' /\ Sleepers' \subseteq Sleepers
      BY <1>1, <2>1, <2>2, <3>1 DEF Looking, Sleepers
    <3>3. CASE Sleepers = {}
      BY <3>2, <3>3 DEF NoLostWakeup
    <3>4. CASE AddResult(q) # 1
      <4>1. q' = q
        BY <2>1, <3>4 DEF AddResult, q_add
      <4> QED
        BY <1>2, <1>4, <3>2, <4>1, LookingGrows
    <3> QED
      BY <2>3, <3>3, <3>4
  <2>4. CASE AddResult(q) = 1 /\ Sleepers # {}
    <3>1. PICK w \in Sleepers : pc' = [pc EXCEPT ![t] = "unlock", ![w] = "lock"]
      BY <2>1, <2>4 DEF ThenUnlock
    <3>2. w \in Threads /\ pc[w] = "wait" /\ w # t /\ call'[w].op = "remove"
      BY <2>1, SleepersRemove
    <3>3. w \notin Looking
      BY <3>2 DEF Looking
    <3>4. Looking \cup {w} \subseteq Looking'
      BY <1>1, <2>1, <2>2, <3>1, <3>2 DEF Looking
    <3>5. Cardinality(Looking) + 1 <= Cardinality(Looking')
      <4>1. Cardinality(Looking \cup {w}) = Cardinality(Looking) + 1
        BY <3>3, LookingFinite, FS_AddElement
      <4> QED
        BY <1>4, <3>4, <4>1, FS_Subset
    <3>6. q'.count = q.count + 1
      <4>1. q.count # q.size
        BY <2>4 DEF AddResult
      <4> QED
        BY <1>2, <2>1, <4>1 DEF q_add, QueueType
    <3>7. q.count <= Cardinality(Looking)
      BY <2>4 DEF NoLostWakeup
    <3> QED
      BY <1>2, <1>4, <3>5, <3>6, <3>7, LookingFinite DEF NoLostWakeup
  <2> QED
    BY <2>3, <2>4
<1>11. ASSUME NEW t \in Threads, tsq_remove(t)
       PROVE  NoLostWakeup'
  <2>1. CASE q.count = 0
    <3>1. q'.count = 0
      BY <1>11, <2>1 DEF tsq_remove, q_remove
    <3> QED
      BY <1>4, <3>1 DEF NoLostWakeup
  <2>2. CASE q.count # 0
    <3>1. /\ RemoveResult(q) \in Element /\ RemoveResult(q) # NULL
          /\ q'.count = q.count - 1
      BY <1>2, <1>11, <2>2, SizeOK, RemoveOK, QueueAssumption DEF tsq_remove
    <3>2. /\ pc[t] = "check" /\ call[t].op = "remove"
          /\ ThenUnlock(t, TRUE)
          /\ \A u \in Threads \ {t} : call'[u] = call[u]
      BY <1>1, <1>11, <3>1 DEF tsq_remove, May, Finish
    <3>3. CASE Sleepers = {}
      <4>1. Sleepers' = {}
        BY <1>1, <3>2, <3>3 DEF ThenUnlock, Sleepers
      <4> QED
        BY <4>1 DEF NoLostWakeup
    <3>4. CASE Sleepers # {}
      <4>1. PICK w \in Sleepers : pc' = [pc EXCEPT ![t] = "unlock", ![w] = "lock"]
        BY <3>2, <3>4 DEF ThenUnlock
      <4>2. w \in Threads /\ pc[w] = "wait" /\ w # t /\ call'[w].op = "remove"
        BY <3>2, SleepersRemove
      <4>3. Looking \ {t} \subseteq Looking'
        BY <1>1, <3>2, <4>1, <4>2 DEF Looking
      <4>4. t \in Looking
        BY <3>2 DEF Looking
      <4>5. Cardinality(Looking \ {t}) = Cardinality(Looking) - 1
        BY <4>4, LookingFinite, FS_RemoveElement
      <4>6. Cardinality(Looking \ {t}) <= Cardinality(Looking')
        BY <1>4, <4>3, FS_Subset
      <4>7. q.count <= Cardinality(Looking)
        BY <3>4 DEF NoLostWakeup
      <4> QED
        BY <1>2, <1>4, <3>1, <4>5, <4>6, <4>7, LookingFinite DEF NoLostWakeup
    <3> QED
      BY <3>3, <3>4
  <2> QED
    BY <2>1, <2>2
<1>12. CASE UNCHANGED vars
  BY <1>12 DEF vars, NoLostWakeup, Sleepers, Looking
<1> QED
  BY <1>5, <1>6, <1>7, <1>8, <1>9, <1>10, <1>11, <1>12 DEF Next, Work

(* With adders that never block, as the driver's interrupt thread, a       *)
(* sleeping remover has no element waiting for it that nobody fetches, for *)
(* any number of receivers and any size of the queue.                      *)
THEOREM NoWakeupLost ==
  ASSUME AddModes \subseteq {FALSE}
  PROVE  Spec => []NoLostWakeup
<1>1. Init => NoLostWakeup
  BY DEF Init, NoLostWakeup, Sleepers
<1>2. IInv /\ IInv' /\ NoLostWakeup /\ [Next]_vars => NoLostWakeup'
  BY WakeupStepOK
<1> QED
  BY <1>1, <1>2, Invariance, PTL DEF Spec
-----------------------------------------------------------------------------
(* The shared condition variable, when calls block on both ends.           *)

(* Threads that only add and threads that only remove, both there, and not *)
(* more of them than the queue has room for twice.                         *)
FewThreads ==
  /\ Adders # {} /\ Removers # {} /\ Adders \cap Removers = {}
  /\ Cardinality(Threads) <= 2 * QSize

Asleep(side) == Cardinality(Sleepers \cap side)

(* Where the takers cannot be stranded: stock is what they could take.     *)
(* While none of them is awake, the givers that are must be able to fill   *)
(* the queue without all waking each other; while one is, and as many      *)
(* givers sleep as the queue has room for, the stock is enough to wake all *)
(* but too few of those asleep.                                            *)
Served(givers, takers, stock) ==
  /\ Asleep(takers) = Cardinality(takers) => Asleep(givers) + stock < QSize
  /\ Asleep(takers) < Cardinality(takers) /\ Asleep(givers) >= QSize =>
       Asleep(givers) + Asleep(takers) < QSize + stock

(* Adders add, and removers do the rest.                                   *)
Roles ==
  \A t \in Threads : call[t] # NoCall =>
    IF call[t].op = "add" THEN t \in Adders ELSE t \in Removers

(* A remover takes elements, an adder takes free slots.                    *)
AsleepInv ==
  /\ Roles
  /\ Served(Adders, Removers, q.count)
  /\ Served(Removers, Adders, QSize - q.count)
  /\ NotAllAsleep

(* Who sleeps on each side, in numbers.                                    *)
LEMMA Sides ==
  ASSUME FewThreads
  PROVE  /\ IsFiniteSet(Adders) /\ IsFiniteSet(Removers) /\ IsFiniteSet(Sleepers)
         /\ Cardinality(Adders) \in Nat /\ Cardinality(Removers) \in Nat
         /\ Cardinality(Adders) > 0 /\ Cardinality(Removers) > 0
         /\ Cardinality(Adders) + Cardinality(Removers) <= 2 * QSize
         /\ Asleep(Adders) \in 0 .. Cardinality(Adders)
         /\ Asleep(Removers) \in 0 .. Cardinality(Removers)
         /\ Sleepers = Threads <=> /\ Asleep(Adders) = Cardinality(Adders)
                                  /\ Asleep(Removers) = Cardinality(Removers)
<1>1. IsFiniteSet(Threads) /\ Adders \subseteq Threads /\ Removers \subseteq Threads
      /\ Sleepers \subseteq Threads
  BY TSQueueAssumption DEF Threads, Sleepers
<1>2. IsFiniteSet(Adders) /\ IsFiniteSet(Removers) /\ IsFiniteSet(Sleepers)
  BY <1>1, FS_Subset
<1>3. Cardinality(Adders) \in Nat /\ Cardinality(Removers) \in Nat
  BY <1>2, FS_CardinalityType
<1>4. Cardinality(Adders) # 0 /\ Cardinality(Removers) # 0
  BY <1>2, FS_EmptySet DEF FewThreads
<1>5. Cardinality(Threads) = Cardinality(Adders) + Cardinality(Removers)
  <2>1. Cardinality(Adders \cap Removers) = 0
    BY FS_EmptySet DEF FewThreads
  <2>2. Cardinality(Adders \cup Removers)
          = Cardinality(Adders) + Cardinality(Removers) - Cardinality(Adders \cap Removers)
    BY <1>2, FS_Union
  <2> QED
    BY <1>3, <2>1, <2>2 DEF Threads
<1>6. ASSUME NEW X, IsFiniteSet(X)
      PROVE  /\ Cardinality(Sleepers \cap X) \in Nat
             /\ Cardinality(Sleepers \cap X) <= Cardinality(X)
             /\ Cardinality(Sleepers \cap X) = Cardinality(X) <=> X \subseteq Sleepers
  <2>1. IsFiniteSet(Sleepers \cap X) /\ Cardinality(Sleepers \cap X) <= Cardinality(X)
        /\ (Cardinality(Sleepers \cap X) = Cardinality(X) => Sleepers \cap X = X)
    BY <1>6, FS_Subset
  <2>2. X \subseteq Sleepers => Sleepers \cap X = X
    OBVIOUS
  <2>3. Sleepers \cap X = X => X \subseteq Sleepers
    OBVIOUS
  <2> QED
    BY <2>1, <2>2, <2>3, FS_CardinalityType
<1>7. Sleepers = Threads <=> Adders \subseteq Sleepers /\ Removers \subseteq Sleepers
  BY <1>1 DEF Threads
<1> QED
  BY <1>2, <1>3, <1>4, <1>5, <1>6, <1>7 DEF Asleep, FewThreads

(* Waking a thread, and putting one to sleep.                              *)
LEMMA OneWakes ==
  ASSUME FewThreads, NEW w \in Sleepers, Sleepers' = Sleepers \ {w}
  PROVE  \/ w \in Adders /\ Asleep(Adders)' = Asleep(Adders) - 1
            /\ Asleep(Removers)' = Asleep(Removers)
         \/ w \in Removers /\ Asleep(Removers)' = Asleep(Removers) - 1
            /\ Asleep(Adders)' = Asleep(Adders)
<1>1. w \in Threads
  BY DEF Sleepers
<1>2. ASSUME NEW X, IsFiniteSet(X)
      PROVE  Cardinality(Sleepers' \cap X)
               = Cardinality(Sleepers \cap X) - (IF w \in X THEN 1 ELSE 0)
  <2>1. IsFiniteSet(Sleepers \cap X) /\ Cardinality(Sleepers \cap X) \in Nat
    BY <1>2, Sides, FS_Subset, FS_CardinalityType
  <2>2. CASE w \in X
    <3>1. Sleepers' \cap X = (Sleepers \cap X) \ {w} /\ w \in Sleepers \cap X
      BY <2>2
    <3> QED
      BY <2>1, <2>2, <3>1, FS_RemoveElement
  <2>3. CASE w \notin X
    <3>1. Sleepers' \cap X = Sleepers \cap X
      BY <2>3
    <3>2. Cardinality(Sleepers' \cap X) = Cardinality(Sleepers \cap X)
      BY <3>1
    <3> DEFINE n == Cardinality(Sleepers \cap X)
    <3>3. n - 0 = n
      BY <2>1
    <3> QED
      BY <2>3, <3>2, <3>3
  <2> QED
    BY <2>2, <2>3
<1>3. /\ Asleep(Adders)' = Asleep(Adders) - (IF w \in Adders THEN 1 ELSE 0)
      /\ Asleep(Removers)' = Asleep(Removers) - (IF w \in Removers THEN 1 ELSE 0)
  BY <1>2, Sides DEF Asleep
<1>4. (w \in Adders /\ w \notin Removers) \/ (w \in Removers /\ w \notin Adders)
  BY <1>1 DEF FewThreads, Threads
<1> QED
  BY <1>3, <1>4, Sides

LEMMA OneSleeps ==
  ASSUME FewThreads, NEW t \in Threads, t \notin Sleepers, Sleepers' = Sleepers \cup {t}
  PROVE  \/ t \in Adders /\ Asleep(Adders)' = Asleep(Adders) + 1
            /\ Asleep(Removers)' = Asleep(Removers)
         \/ t \in Removers /\ Asleep(Removers)' = Asleep(Removers) + 1
            /\ Asleep(Adders)' = Asleep(Adders)
<1>1. ASSUME NEW X, IsFiniteSet(X)
      PROVE  Cardinality(Sleepers' \cap X)
               = Cardinality(Sleepers \cap X) + (IF t \in X THEN 1 ELSE 0)
  <2>1. IsFiniteSet(Sleepers \cap X) /\ Cardinality(Sleepers \cap X) \in Nat
    BY <1>1, Sides, FS_Subset, FS_CardinalityType
  <2>2. CASE t \in X
    <3>1. Sleepers' \cap X = (Sleepers \cap X) \cup {t} /\ t \notin Sleepers \cap X
      BY <2>2
    <3> QED
      BY <2>1, <2>2, <3>1, FS_AddElement
  <2>3. CASE t \notin X
    <3>1. Sleepers' \cap X = Sleepers \cap X
      BY <2>3
    <3> QED
      BY <2>1, <2>3, <3>1
  <2> QED
    BY <2>2, <2>3
<1>2. /\ Asleep(Adders)' = Asleep(Adders) + (IF t \in Adders THEN 1 ELSE 0)
      /\ Asleep(Removers)' = Asleep(Removers) + (IF t \in Removers THEN 1 ELSE 0)
  BY <1>1, Sides DEF Asleep
<1>3. (t \in Adders /\ t \notin Removers) \/ (t \in Removers /\ t \notin Adders)
  BY DEF FewThreads, Threads
<1> QED
  BY <1>2, <1>3, Sides

(* A thread that is awake is one that does not sleep on its side.          *)
LEMMA AwakeCounts ==
  ASSUME FewThreads, NEW t \in Threads, t \notin Sleepers
  PROVE  /\ t \in Adders => Asleep(Adders) < Cardinality(Adders)
         /\ t \in Removers => Asleep(Removers) < Cardinality(Removers)
<1>1. ASSUME NEW X, IsFiniteSet(X), t \in X
      PROVE  Cardinality(Sleepers \cap X) < Cardinality(X)
  <2>1. Sleepers \cap X \subseteq X /\ Sleepers \cap X # X
    BY <1>1
  <2>2. IsFiniteSet(Sleepers \cap X) /\ Cardinality(Sleepers \cap X) <= Cardinality(X)
        /\ Cardinality(Sleepers \cap X) # Cardinality(X)
    BY <1>1, <2>1, FS_Subset
  <2> QED
    BY <1>1, <2>2, FS_CardinalityType
<1> QED
  BY <1>1, Sides DEF Asleep

(* Nobody who was awake falls asleep, and the queue stays as it is.        *)
LEMMA SomeWake ==
  ASSUME FewThreads, AsleepInv, q.count \in 0 .. QSize, q'.count = q.count,
         Sleepers' = Sleepers \/ \E w \in Sleepers : Sleepers' = Sleepers \ {w}
  PROVE  Served(Adders, Removers, q.count)' /\ Served(Removers, Adders, QSize - q.count)'
<1>1. /\ Asleep(Adders)' \in Nat /\ Asleep(Adders)' <= Asleep(Adders)
      /\ Asleep(Removers)' \in Nat /\ Asleep(Removers)' <= Asleep(Removers)
  <2>1. CASE Sleepers' = Sleepers
    BY <2>1, Sides DEF Asleep
  <2>2. CASE \E w \in Sleepers : Sleepers' = Sleepers \ {w}
    <3>1. PICK w \in Sleepers : Sleepers' = Sleepers \ {w}
      BY <2>2
    <3>2. /\ w \in Adders => Sleepers \cap Adders # {}
          /\ w \in Removers => Sleepers \cap Removers # {}
      OBVIOUS
    <3>3. /\ w \in Adders => Asleep(Adders) # 0
          /\ w \in Removers => Asleep(Removers) # 0
      <4>1. IsFiniteSet(Sleepers \cap Adders) /\ IsFiniteSet(Sleepers \cap Removers)
        BY Sides, FS_Subset
      <4> QED
        BY <3>2, <4>1, FS_EmptySet DEF Asleep
    <3> QED
      BY <3>1, <3>3, OneWakes, Sides
  <2> QED
    BY <2>1, <2>2
<1>2. QSize \in Nat /\ q.count \in Nat
  BY SizeOK
<1>3. Served(Adders, Removers, q.count)'
  BY <1>1, <1>2, Sides DEF AsleepInv, Served
<1>4. Served(Removers, Adders, QSize - q.count)'
  BY <1>1, <1>2, Sides DEF AsleepInv, Served
<1> QED
  BY <1>3, <1>4

(* A remover or an adder that has done its work wakes one sleeper, if any. *)
LEMMA WorkWakes ==
  ASSUME FewThreads, AsleepInv, q.count \in 0 .. QSize, NEW t \in Threads, t \notin Sleepers,
         \/ Sleepers = {} /\ Sleepers' = {}
         \/ \E w \in Sleepers : Sleepers' = Sleepers \ {w},
         \/ t \in Adders /\ q.count < QSize /\ q'.count = q.count + 1
         \/ t \in Removers /\ q.count > 0 /\ q'.count = q.count - 1
  PROVE  Served(Adders, Removers, q.count)' /\ Served(Removers, Adders, QSize - q.count)'
<1>0. QSize \in Nat /\ QSize > 0 /\ q.count \in Nat
  BY SizeOK
<1>1. /\ t \in Adders => Asleep(Adders) < Cardinality(Adders)
      /\ t \in Removers => Asleep(Removers) < Cardinality(Removers)
  BY AwakeCounts
<1>2. \/ /\ Asleep(Adders) = 0 /\ Asleep(Removers) = 0
         /\ Asleep(Adders)' = 0 /\ Asleep(Removers)' = 0
      \/ /\ Asleep(Adders) >= 1 /\ Asleep(Adders)' = Asleep(Adders) - 1
         /\ Asleep(Removers)' = Asleep(Removers)
      \/ /\ Asleep(Removers) >= 1 /\ Asleep(Removers)' = Asleep(Removers) - 1
         /\ Asleep(Adders)' = Asleep(Adders)
  <2>1. CASE Sleepers = {} /\ Sleepers' = {}
    <3>1. Sleepers \cap Adders = {} /\ Sleepers \cap Removers = {}
          /\ Sleepers' \cap Adders = {} /\ Sleepers' \cap Removers = {}
      BY <2>1
    <3> QED
      BY <3>1, FS_EmptySet DEF Asleep
  <2>2. CASE \E w \in Sleepers : Sleepers' = Sleepers \ {w}
    <3>1. PICK w \in Sleepers : Sleepers' = Sleepers \ {w}
      BY <2>2
    <3>2. /\ w \in Adders => Sleepers \cap Adders # {}
          /\ w \in Removers => Sleepers \cap Removers # {}
      OBVIOUS
    <3>3. /\ w \in Adders => Asleep(Adders) # 0
          /\ w \in Removers => Asleep(Removers) # 0
      <4>1. IsFiniteSet(Sleepers \cap Adders) /\ IsFiniteSet(Sleepers \cap Removers)
        BY Sides, FS_Subset
      <4> QED
        BY <3>2, <4>1, FS_EmptySet DEF Asleep
    <3> QED
      BY <3>1, <3>3, OneWakes, Sides
  <2> QED
    BY <2>1, <2>2
<1>3. CASE t \in Adders /\ q.count < QSize /\ q'.count = q.count + 1
  <2>1. Served(Adders, Removers, q.count)'
    BY <1>0, <1>1, <1>2, <1>3, Sides DEF AsleepInv, Served
  <2>2. Served(Removers, Adders, QSize - q.count)'
    BY <1>0, <1>1, <1>2, <1>3, Sides DEF AsleepInv, Served
  <2> QED
    BY <2>1, <2>2
<1>4. CASE t \in Removers /\ q.count > 0 /\ q'.count = q.count - 1
  <2>1. Served(Adders, Removers, q.count)'
    BY <1>0, <1>1, <1>2, <1>4, Sides DEF AsleepInv, Served
  <2>2. Served(Removers, Adders, QSize - q.count)'
    BY <1>0, <1>1, <1>2, <1>4, Sides DEF AsleepInv, Served
  <2> QED
    BY <2>1, <2>2
<1> QED
  BY <1>3, <1>4

(* An adder that finds the queue full, or a remover that finds it empty,   *)
(* is not the last one awake.                                              *)
LEMMA NotLastAwake ==
  ASSUME FewThreads, AsleepInv, q'.count = q.count,
         NEW t \in Threads, t \notin Sleepers, Sleepers' = Sleepers \cup {t},
         \/ t \in Adders /\ q.count = QSize
         \/ t \in Removers /\ q.count = 0
  PROVE  /\ Served(Adders, Removers, q.count)' /\ Served(Removers, Adders, QSize - q.count)'
         /\ NotAllAsleep'
<1>0. QSize \in Nat /\ QSize > 0
  BY SizeOK
<1>1. /\ t \in Adders => Asleep(Adders) < Cardinality(Adders)
      /\ t \in Removers => Asleep(Removers) < Cardinality(Removers)
  BY AwakeCounts
<1>2. CASE t \in Adders /\ q.count = QSize
  <2>1. /\ Asleep(Adders)' = Asleep(Adders) + 1 /\ Asleep(Removers)' = Asleep(Removers)
    BY <1>2, OneSleeps DEF FewThreads
  <2>2. Served(Adders, Removers, q.count)'
    BY <1>0, <1>1, <1>2, <2>1, Sides DEF AsleepInv, Served
  <2>3. Served(Removers, Adders, QSize - q.count)'
    BY <1>0, <1>1, <1>2, <2>1, Sides DEF AsleepInv, Served
  <2>4. NotAllAsleep'
    <3>1. t \notin Removers
      BY <1>2 DEF FewThreads
    <3>2. Sleepers' = Threads => Sleepers \cap Removers = Removers
      BY <3>1 DEF Threads
    <3>3. Asleep(Removers) # Cardinality(Removers)
      BY <1>0, <1>2, Sides DEF AsleepInv, Served
    <3> QED
      BY <3>2, <3>3 DEF Asleep, NotAllAsleep
  <2> QED
    BY <2>2, <2>3, <2>4
<1>3. CASE t \in Removers /\ q.count = 0
  <2>1. /\ Asleep(Removers)' = Asleep(Removers) + 1 /\ Asleep(Adders)' = Asleep(Adders)
    BY <1>3, OneSleeps DEF FewThreads
  <2>2. Served(Adders, Removers, q.count)'
    BY <1>0, <1>1, <1>3, <2>1, Sides DEF AsleepInv, Served
  <2>3. Served(Removers, Adders, QSize - q.count)'
    BY <1>0, <1>1, <1>3, <2>1, Sides DEF AsleepInv, Served
  <2>4. NotAllAsleep'
    <3>1. t \notin Adders
      BY <1>3 DEF FewThreads
    <3>2. Sleepers' = Threads => Sleepers \cap Adders = Adders
      BY <3>1 DEF Threads
    <3>3. Asleep(Adders) # Cardinality(Adders)
      BY <1>0, <1>3, Sides DEF AsleepInv, Served
    <3> QED
      BY <3>2, <3>3 DEF Asleep, NotAllAsleep
  <2> QED
    BY <2>2, <2>3, <2>4
<1> QED
  BY <1>2, <1>3

LEMMA RolesOK ==
  ASSUME IInv, Roles, [Next]_vars
  PROVE  Roles'
<1>0. call \in [Threads -> CallType]
  BY DEF IInv, TypeOK, CallType
<1>1. \A t \in Threads : call[t] # NoCall =>
        IF call[t].op = "add" THEN t \in Adders ELSE t \in Removers
  BY DEF Roles
<1>2. ASSUME NEW t \in Threads, CallAdd(t) \/ CallRemove(t) \/ CallCount(t)
      PROVE  \A u \in Threads : call'[u] # NoCall =>
               IF call'[u].op = "add" THEN u \in Adders ELSE u \in Removers
  <2>1. PICK op \in {"add", "remove", "count"}, e \in Element \cup {NULL},
               b \in AddModes \cup RemoveModes \cup {FALSE} :
          /\ call' = [call EXCEPT ![t] = Request(op, e, b)]
          /\ IF op = "add" THEN t \in Adders ELSE t \in Removers
    BY <1>2 DEF CallAdd, CallRemove, CallCount, Call
  <2>2. Request(op, e, b).op = op
    BY DEF Request
  <2> QED
    BY <1>0, <1>1, <2>1, <2>2
<1>3. ASSUME NEW t \in Threads, Lock(t) \/ SpuriousWakeup(t) \/ CondWait(t)
      PROVE  call' = call
  BY <1>3 DEF Lock, SpuriousWakeup, CondWait
<1>4. ASSUME NEW t \in Threads, Unlock(t)
      PROVE  call' = [call EXCEPT ![t] = NoCall]
  BY <1>4 DEF Unlock
<1>5. ASSUME NEW t \in Threads, tsq_add(t) \/ tsq_remove(t) \/ tsq_count(t)
      PROVE  \A u \in Threads : call'[u] = call[u] \/ (call[u] # NoCall /\ call'[u].op = call[u].op)
  <2>1. PICK r \in Element \cup {NULL} \cup 0 .. QSize : Finish(t, r)
    <3>1. AddResult(q) \in 0 .. QSize
      BY SizeOK DEF AddResult
    <3>2. RemoveResult(q) \in Element \cup {NULL}
      <4>1. q \in QueueType(QSize) /\ RingOK(q)
        BY DEF IInv, TypeOK, RingInv
      <4> QED
        BY <4>1, SizeOK, RemoveOK DEF RemoveResult
    <3>3. q_count(q) \in 0 .. QSize
      BY DEF IInv, TypeOK, QueueType, q_count
    <3> QED
      BY <1>5, <3>1, <3>2, <3>3 DEF tsq_add, tsq_remove, tsq_count
  <2>2. pc[t] = "check"
    BY <1>5 DEF tsq_add, tsq_remove, tsq_count, May
  <2> QED
    BY <2>1, <2>2, FinishEffect DEF IInv
<1>6. CASE UNCHANGED vars
  BY <1>1, <1>6 DEF vars, Roles
<1> QED
  BY <1>0, <1>1, <1>2, <1>3, <1>4, <1>5, <1>6 DEF Next, Work, Roles

(* What a thread that finishes its operation does to the sleepers.         *)
LEMMA ThenUnlockWakes ==
  ASSUME IInv, NEW t \in Threads, pc[t] = "check", NEW signal \in BOOLEAN,
         ThenUnlock(t, signal)
  PROVE  IF signal /\ Sleepers # {}
         THEN \E w \in Sleepers : Sleepers' = Sleepers \ {w}
         ELSE Sleepers' = Sleepers
<1>1. pc \in [Threads -> Places]
  BY DEF IInv, TypeOK, Places
<1>2. CASE signal /\ Sleepers # {}
  <2>1. PICK w \in Sleepers : pc' = [pc EXCEPT ![t] = "unlock", ![w] = "lock"]
    BY <1>2 DEF ThenUnlock
  <2>2. Sleepers' = Sleepers \ {w}
    BY <1>1, <2>1 DEF Sleepers
  <2> QED
    BY <1>2, <2>2
<1>3. CASE ~ (signal /\ Sleepers # {})
  <2>1. pc' = [pc EXCEPT ![t] = "unlock"]
    BY <1>3 DEF ThenUnlock
  <2> QED
    BY <1>1, <1>3, <2>1 DEF Sleepers
<1> QED
  BY <1>2, <1>3

(* A step after which some thread is awake that made it.                   *)
LEMMA MoverAwake ==
  ASSUME NEW t \in Threads, pc'[t] # "wait"
  PROVE  NotAllAsleep'
BY DEF NotAllAsleep, Sleepers

LEMMA AsleepStepOK ==
  ASSUME FewThreads, IInv, AsleepInv, [Next]_vars
  PROVE  AsleepInv'
<1>1. pc \in [Threads -> Places] /\ call \in [Threads -> CallType]
  BY DEF IInv, TypeOK, Places, CallType
<1>2. /\ q \in QueueType(QSize) /\ RingOK(q) /\ q.count \in 0 .. QSize /\ q.size = QSize
      /\ QSize \in Nat /\ q.count \in Nat
  BY SizeOK DEF IInv, TypeOK, RingInv, QueueType
<1>3. ASSUME q'.count = q.count, NotAllAsleep',
             Sleepers' = Sleepers \/ \E w \in Sleepers : Sleepers' = Sleepers \ {w}
      PROVE  AsleepInv'
  BY <1>2, <1>3, RolesOK, SomeWake DEF AsleepInv
<1>4. ASSUME NEW t \in Threads,
             \/ CallAdd(t) \/ CallRemove(t) \/ CallCount(t) \/ Lock(t) \/ Unlock(t)
      PROVE  AsleepInv'
  <2>1. pc[t] # "wait" /\ pc'[t] # "wait" /\ q' = q /\ \A u \in Threads \ {t} : pc'[u] = pc[u]
    BY <1>1, <1>4 DEF CallAdd, CallRemove, CallCount, Call, Lock, Unlock
  <2>2. Sleepers' = Sleepers
    BY <2>1 DEF Sleepers
  <2> QED
    BY <1>3, <2>1, <2>2, MoverAwake
<1>5. ASSUME NEW t \in Threads, SpuriousWakeup(t)
      PROVE  AsleepInv'
  <2>1. t \in Sleepers /\ pc' = [pc EXCEPT ![t] = "lock"] /\ q' = q
    BY <1>5 DEF SpuriousWakeup, Sleepers
  <2>2. Sleepers' = Sleepers \ {t} /\ pc'[t] # "wait"
    BY <1>1, <2>1 DEF Sleepers
  <2> QED
    BY <1>3, <2>1, <2>2, MoverAwake
<1>6. ASSUME NEW t \in Threads, CondWait(t)
      PROVE  AsleepInv'
  <2>1. /\ pc[t] = "check" /\ MustWait(t) /\ pc' = [pc EXCEPT ![t] = "wait"] /\ q' = q
    BY <1>6 DEF CondWait
  <2>2. t \notin Sleepers /\ Sleepers' = Sleepers \cup {t}
    BY <1>1, <2>1 DEF Sleepers
  <2>3. call[t] # NoCall
    BY <2>1, MutexByThread DEF IInv, ThreadOK
  <2>4. \/ t \in Adders /\ q.count = QSize
        \/ t \in Removers /\ q.count = 0
    <3>1. IF call[t].op = "add" THEN t \in Adders ELSE t \in Removers
      BY <2>3 DEF AsleepInv, Roles
    <3> QED
      BY <1>2, <2>1, <3>1 DEF MustWait, q_count, q_size
  <2> QED
    BY <2>1, <2>2, <2>4, NotLastAwake, RolesOK DEF AsleepInv
<1>7. ASSUME NEW t \in Threads, tsq_add(t) \/ tsq_remove(t) \/ tsq_count(t)
      PROVE  AsleepInv'
  <2>1. PICK signal \in BOOLEAN :
          /\ ThenUnlock(t, signal)
          /\ \/ ~ signal /\ q'.count = q.count
             \/ /\ signal
                /\ \/ t \in Adders /\ q.count < QSize /\ q'.count = q.count + 1
                   \/ t \in Removers /\ q.count > 0 /\ q'.count = q.count - 1
    <3>1. pc[t] = "check" /\ call[t] # NoCall
      BY <1>7, MutexByThread DEF tsq_add, tsq_remove, tsq_count, May, IInv, ThreadOK
    <3>2. IF call[t].op = "add" THEN t \in Adders ELSE t \in Removers
      BY <3>1 DEF AsleepInv, Roles
    <3>3. CASE tsq_add(t)
      <4>1. /\ q' = q_add(q, call[t].elem) /\ ThenUnlock(t, AddResult(q) = 1)
            /\ call[t].op = "add"
        BY <3>3 DEF tsq_add, May
      <4>2. CASE q.count = q.size
        <5>1. q' = q /\ (AddResult(q) = 1) = FALSE
          BY <4>1, <4>2 DEF q_add, AddResult
        <5> QED
          BY <4>1, <5>1
      <4>3. CASE q.count # q.size
        <5>1. (AddResult(q) = 1) = TRUE /\ q'.count = q.count + 1 /\ q.count < QSize
          BY <1>2, <4>1, <4>3 DEF q_add, AddResult, QueueType
        <5> QED
          BY <3>2, <4>1, <5>1
      <4> QED
        BY <4>2, <4>3
    <3>4. CASE tsq_remove(t)
      <4>1. /\ q' = q_remove(q) /\ ThenUnlock(t, RemoveResult(q) # NULL)
            /\ call[t].op = "remove"
        BY <3>4 DEF tsq_remove, May
      <4>2. CASE q.count = 0
        <5>1. q' = q /\ (RemoveResult(q) # NULL) = FALSE
          BY <4>1, <4>2 DEF q_remove, RemoveResult
        <5> QED
          BY <4>1, <5>1
      <4>3. CASE q.count # 0
        <5>1. (RemoveResult(q) # NULL) = TRUE /\ q'.count = q.count - 1 /\ q.count > 0
          BY <1>2, <4>1, <4>3, SizeOK, RemoveOK, QueueAssumption
        <5> QED
          BY <3>2, <4>1, <5>1
      <4> QED
        BY <4>2, <4>3
    <3>5. CASE tsq_count(t)
      BY <3>5 DEF tsq_count
    <3> QED
      BY <1>7, <3>3, <3>4, <3>5
  <2>2. pc[t] = "check" /\ t \notin Sleepers
    BY <1>7 DEF tsq_add, tsq_remove, tsq_count, May, Sleepers
  <2>3. IF signal /\ Sleepers # {}
        THEN \E w \in Sleepers : Sleepers' = Sleepers \ {w}
        ELSE Sleepers' = Sleepers
    BY <2>1, <2>2, ThenUnlockWakes
  <2>4. NotAllAsleep'
    <3>1. pc'[t] = "unlock"
      BY <2>1, <2>2, ThenUnlockEffect DEF IInv
    <3> QED
      BY <3>1, MoverAwake
  <2>5. CASE ~ signal
    BY <1>3, <2>1, <2>3, <2>4, <2>5
  <2>6. CASE signal
    <3>1. \/ Sleepers = {} /\ Sleepers' = {}
          \/ \E w \in Sleepers : Sleepers' = Sleepers \ {w}
      BY <2>3, <2>6
    <3>2. \/ t \in Adders /\ q.count < QSize /\ q'.count = q.count + 1
          \/ t \in Removers /\ q.count > 0 /\ q'.count = q.count - 1
      BY <2>1, <2>6
    <3> QED
      BY <1>2, <2>2, <2>4, <3>1, <3>2, WorkWakes, RolesOK DEF AsleepInv
  <2> QED
    BY <2>5, <2>6
<1>8. CASE UNCHANGED vars
  <2>1. q' = q /\ Sleepers' = Sleepers
    BY <1>8 DEF vars, Sleepers
  <2>2. NotAllAsleep'
    BY <2>1 DEF AsleepInv, NotAllAsleep
  <2> QED
    BY <1>3, <2>1, <2>2
<1> QED
  BY <1>4, <1>5, <1>6, <1>7, <1>8 DEF Next, Work

(* Adders and removers that block, at most two for each slot of the queue, *)
(* never all sleep on the one condition variable that they share, although *)
(* its signals may wake the wrong side (tsqueue.c:25-28, 36-38).           *)
THEOREM SomebodyAwake ==
  ASSUME FewThreads
  PROVE  Spec => []NotAllAsleep
<1>1. Init => AsleepInv
  <2> SUFFICES ASSUME Init PROVE AsleepInv
    OBVIOUS
  <2>1. Sleepers = {} /\ q.count = 0
    BY DEF Init, Sleepers, q_create
  <2>2. Asleep(Adders) = 0 /\ Asleep(Removers) = 0
    <3>1. Sleepers \cap Adders = {} /\ Sleepers \cap Removers = {}
      BY <2>1
    <3> QED
      BY <3>1, FS_EmptySet DEF Asleep
  <2>3. Threads # {}
    BY DEF FewThreads, Threads
  <2>4. \A t \in Threads : call[t] = NoCall
    BY DEF Init
  <2> QED
    BY <2>1, <2>2, <2>3, <2>4, Sides, SizeOK DEF AsleepInv, Roles, Served, NotAllAsleep
<1>2. IInv /\ AsleepInv /\ [Next]_vars => AsleepInv'
  BY AsleepStepOK
<1>3. AsleepInv => NotAllAsleep
  BY DEF AsleepInv
<1> QED
  BY <1>1, <1>2, <1>3, Invariance, PTL DEF Spec

(* The mutex's owner is not asleep and does not compete for it: somebody   *)
(* can always go on, unless all sleep.                                     *)
SomebodyMoves == \E t \in Threads : pc[t] # "wait" /\ (pc[t] = "lock" => owner = NoThread)

LEMMA AwakeMoves == IInv /\ NotAllAsleep => SomebodyMoves
<1> SUFFICES ASSUME IInv, NotAllAsleep PROVE SomebodyMoves
  OBVIOUS
<1>1. CASE owner = NoThread
  BY <1>1 DEF NotAllAsleep, Sleepers, SomebodyMoves
<1>2. CASE owner # NoThread
  <2>1. owner \in Threads
    BY <1>2 DEF IInv, TypeOK
  <2>2. pc[owner] \in {"check", "unlock"}
    BY <2>1 DEF IInv, MutexOK
  <2> QED
    BY <2>1, <2>2 DEF SomebodyMoves
<1> QED
  BY <1>1, <1>2

(* As long as there are at most two threads for each slot, never do all    *)
(* wait for each other, on the condition variable or at the mutex          *)
(* (tsqueue.c:22-42).                                                      *)
THEOREM NoDeadlock ==
  ASSUME FewThreads
  PROVE  Spec => []SomebodyMoves
BY SomebodyAwake, AwakeMoves, Invariance, PTL

(* In the driver, where adders do not block, any number of threads may use *)
(* the queue: one that only adds never sleeps (rf24.c:820).                *)
THEOREM DriverNeverDeadlocks ==
  ASSUME AddModes \subseteq {FALSE}, Adders \ Removers # {}
  PROVE  Spec => [](NotAllAsleep /\ SomebodyMoves)
<1>1. Init => Roles
  BY DEF Init, Roles
<1>2. IInv /\ Roles /\ [Next]_vars => Roles'
  BY RolesOK
<1>3. IInv /\ Roles => NotAllAsleep
  <2> SUFFICES ASSUME IInv, Roles PROVE NotAllAsleep
    OBVIOUS
  <2>1. PICK t \in Threads : t \in Adders /\ t \notin Removers
    BY DEF Threads
  <2>2. pc[t] # "wait"
    <3> SUFFICES ASSUME pc[t] = "wait" PROVE FALSE
      OBVIOUS
    <3>1. call[t] # NoCall /\ call[t].block
      BY <2>1 DEF IInv, MutexOK
    <3>2. call[t].op = "add"
      BY <2>1, <3>1 DEF Roles
    <3>3. call[t].block \in AddModes
      BY <2>1, <3>1, <3>2 DEF IInv, MutexOK
    <3> QED
      BY <3>1, <3>3
  <2> QED
    BY <2>1, <2>2 DEF NotAllAsleep, Sleepers
<1> QED
  BY <1>1, <1>2, <1>3, AwakeMoves, Invariance, PTL DEF Spec
=============================================================================
