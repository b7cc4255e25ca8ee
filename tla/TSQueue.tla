------------------------------ MODULE TSQueue ------------------------------
(***************************************************************************)
(* tsqueue.c: queue.c behind one mutex and ONE condition variable, which   *)
(* adders waiting for room and removers waiting for an element share.      *)
(*                                                                         *)
(* The driver's receive path uses it with one adder that never blocks (the *)
(* interrupt thread, rf24.c:820) and removers that may (rf24_recv,         *)
(* rf24_recvfrom); tsqtest.c blocks on both ends.                          *)
(*                                                                         *)
(* A thread calls an operation, competes for the mutex ("lock"), tests the *)
(* while condition with the mutex held ("check"), and either sleeps on the *)
(* condition variable ("wait"), which releases the mutex and later returns *)
(* to "lock", or does its operation and still has to unlock ("unlock").    *)
(***************************************************************************)
EXTENDS Queue, FiniteSets

CONSTANTS
  Adders, Removers,  \* threads that call tsq_add; tsq_remove and tsq_count
  AddModes,          \* values of the blocking argument that adders pass
  RemoveModes,       \* and removers pass
  QSize,             \* PACKET_BUFFER_SIZE for the driver
  NoThread

Threads == Adders \cup Removers

ASSUME TSQueueAssumption ==
  /\ QSize \in Nat \ {0}
  /\ IsFiniteSet(Threads)
  /\ NoThread \notin Threads
  /\ AddModes \subseteq BOOLEAN
  /\ RemoveModes \subseteq BOOLEAN

VARIABLES
  q,      \* the ring
  owner,  \* the thread that holds the mutex, or NoThread
  pc,     \* where each thread is
  call    \* the call each thread is in, and its result once it is known

vars == <<q, owner, pc, call>>

Fifo == INSTANCE PacketFifo WITH fifo <- Contents(q), Capacity <- QSize

NoCall == [op |-> "none"]
Request(op, e, b) == [op |-> op, elem |-> e, block |-> b, done |-> FALSE, res |-> NULL]

(* The threads blocked in pthread_cond_wait.                               *)
Sleepers == {t \in Threads : pc[t] = "wait"}

Init ==
  /\ q = q_create(QSize)
  /\ owner = NoThread
  /\ pc = [t \in Threads |-> "idle"]
  /\ call = [t \in Threads |-> NoCall]

Call(t, request) ==
  /\ pc[t] = "idle"
  /\ pc' = [pc EXCEPT ![t] = "lock"]
  /\ call' = [call EXCEPT ![t] = request]
  /\ UNCHANGED <<q, owner>>

CallAdd(t) ==
  t \in Adders /\ \E e \in Element, b \in AddModes : Call(t, Request("add", e, b))

CallRemove(t) ==
  t \in Removers /\ \E b \in RemoveModes : Call(t, Request("remove", NULL, b))

CallCount(t) ==
  t \in Removers /\ Call(t, Request("count", NULL, FALSE))

(* A bug the runs must notice: a mutex that does not exclude.              *)
LockWithoutOwner(t) ==
  /\ pc[t] = "lock"
  /\ owner' = t
  /\ pc' = [pc EXCEPT ![t] = "check"]
  /\ UNCHANGED <<q, call>>

Lock(t) ==
  /\ pc[t] = "lock"
  /\ owner = NoThread
  /\ owner' = t
  /\ pc' = [pc EXCEPT ![t] = "check"]
  /\ UNCHANGED <<q, call>>

(* The conditions of the two while loops.                                  *)
MustWait(t) ==
  /\ call[t].block
  /\ \/ call[t].op = "add" /\ q_count(q) = q_size(q)
     \/ call[t].op = "remove" /\ q_count(q) = 0

CondWait(t) ==
  /\ pc[t] = "check"
  /\ MustWait(t)
  /\ pc' = [pc EXCEPT ![t] = "wait"]
  /\ owner' = NoThread
  /\ UNCHANGED <<q, call>>

(* pthread_cond_wait may also return without a signal.                     *)
SpuriousWakeup(t) ==
  /\ pc[t] = "wait"
  /\ pc' = [pc EXCEPT ![t] = "lock"]
  /\ UNCHANGED <<q, owner, call>>

(* Thread t goes on to unlock; with a signal one sleeper, any of them,     *)
(* goes back to compete for the mutex.                                     *)
ThenUnlock(t, signal) ==
  IF signal /\ Sleepers # {}
  THEN \E w \in Sleepers : pc' = [pc EXCEPT ![t] = "unlock", ![w] = "lock"]
  ELSE pc' = [pc EXCEPT ![t] = "unlock"]

Finish(t, r) == call' = [call EXCEPT ![t].done = TRUE, ![t].res = r]

May(t, op) == pc[t] = "check" /\ call[t].op = op /\ ~ MustWait(t)

(* Bugs the runs must notice: an adder or a remover that forgets to signal.*)
AddWithoutSignal(t) ==
  /\ May(t, "add")
  /\ q' = q_add(q, call[t].elem)
  /\ Finish(t, AddResult(q))
  /\ ThenUnlock(t, FALSE)
  /\ UNCHANGED owner

RemoveWithoutSignal(t) ==
  /\ May(t, "remove")
  /\ q' = q_remove(q)
  /\ Finish(t, RemoveResult(q))
  /\ ThenUnlock(t, FALSE)
  /\ UNCHANGED owner

tsq_add(t) ==
  /\ May(t, "add")
  /\ q' = q_add(q, call[t].elem)
  /\ Finish(t, AddResult(q))
  /\ ThenUnlock(t, AddResult(q) = 1)
  /\ UNCHANGED owner

tsq_remove(t) ==
  /\ May(t, "remove")
  /\ q' = q_remove(q)
  /\ Finish(t, RemoveResult(q))
  /\ ThenUnlock(t, RemoveResult(q) # NULL)
  /\ UNCHANGED owner

tsq_count(t) ==
  /\ May(t, "count")
  /\ Finish(t, q_count(q))
  /\ ThenUnlock(t, FALSE)
  /\ UNCHANGED <<q, owner>>

(* Unlock and return to the caller.                                        *)
Unlock(t) ==
  /\ pc[t] = "unlock"
  /\ owner' = NoThread
  /\ pc' = [pc EXCEPT ![t] = "idle"]
  /\ call' = [call EXCEPT ![t] = NoCall]
  /\ UNCHANGED q

Work(t) == CondWait(t) \/ tsq_add(t) \/ tsq_remove(t) \/ tsq_count(t) \/ Unlock(t)

Next == \E t \in Threads :
  \/ CallAdd(t) \/ CallRemove(t) \/ CallCount(t)
  \/ Lock(t) \/ Work(t) \/ SpuriousWakeup(t)

Spec == Init /\ [][Next]_vars

(* A thread that is running goes on running, and one that keeps competing  *)
(* for a mutex that is released again and again gets it.  Nobody has to    *)
(* call, and no spurious wakeup has to happen.                             *)
Fairness == \A t \in Threads : WF_vars(Work(t)) /\ SF_vars(Lock(t))

FairSpec == Spec /\ Fairness
-----------------------------------------------------------------------------
TypeOK ==
  /\ q \in QueueType(QSize)
  /\ owner \in Threads \cup {NoThread}
  /\ pc \in [Threads -> {"idle", "lock", "check", "wait", "unlock"}]
  /\ call \in [Threads -> {NoCall} \cup
       [op : {"add", "remove", "count"}, elem : Element \cup {NULL}, block : BOOLEAN,
        done : BOOLEAN, res : Element \cup {NULL} \cup 0 .. QSize]]

(* The ring's indexes and count agree, and what lies between them is what  *)
(* adders put there: no call finds the ring halfway through another's      *)
(* update (queue.c:28-42 relies on the mutex of tsqueue.c:24,35,46).       *)
RingInv == RingOK(q)

(* Only the owner of the mutex is between lock and unlock, and a call's    *)
(* result is known exactly while its thread is about to unlock.            *)
MutexOK ==
  \A t \in Threads :
    /\ pc[t] \in {"check", "unlock"} <=> owner = t
    /\ pc[t] = "idle" <=> call[t] = NoCall
    /\ pc[t] = "unlock" <=> (call[t] # NoCall /\ call[t].done)
    /\ call[t] # NoCall =>
         /\ call[t].op = "add" => call[t].elem \in Element /\ call[t].block \in AddModes
         /\ call[t].op = "remove" => call[t].block \in RemoveModes
         /\ call[t].op = "count" => ~ call[t].block
    /\ pc[t] = "wait" => call[t].block

(* Removers that will look at the queue before they sleep or return.       *)
Looking == {t \in Threads : pc[t] \in {"lock", "check"} /\ call[t].op = "remove"}

(* No element waits in the queue for a remover that sleeps: while removers *)
(* sleep, each queued element has a remover awake on its way to it.  This  *)
(* is the property of tsq_add's one signal per element (tsqueue.c:28) that *)
(* the driver's receive path rests on; it needs adders that never block.   *)
NoLostWakeup == Sleepers # {} => q.count <= Cardinality(Looking)

(* With blocking calls on both ends the shared condition variable may wake *)
(* an adder where a remover was meant.  As long as at most 2 * QSize       *)
(* threads use the queue (tsqueue.c:25,36), they never all sleep.          *)
NotAllAsleep == Sleepers # Threads

(* Every call behaves as one atomic call on a bounded FIFO: elements come  *)
(* out in the order they went in, none twice, none lost, and a call that   *)
(* does not block fails only when it has to (tsqueue.c:22-42).             *)
ImplementsFifo == Fifo!Spec

(* A remover that sleeps while an element is queued does not sleep on: it  *)
(* wakes, or other removers empty the queue (tsqueue.c:28,36).             *)
NoRemoverStuck ==
  \A t \in Removers :
    (pc[t] = "wait" /\ call[t].op = "remove" /\ q.count > 0)
      ~> (pc[t] # "wait" \/ q.count = 0)
=============================================================================
