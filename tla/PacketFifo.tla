----------------------------- MODULE PacketFifo -----------------------------
(***************************************************************************)
(* What callers of tsqueue.c may rely on: a bounded FIFO whose calls take  *)
(* effect at one instant between the call and its return.  A call with     *)
(* blocking = 1 never fails; one with blocking = 0 fails only if the FIFO  *)
(* is full (add) or empty (remove) at that instant.                        *)
(***************************************************************************)
EXTENDS Naturals, Sequences

CONSTANTS Element, NULL, Capacity, Adders, Removers, AddModes, RemoveModes

VARIABLES
  fifo,  \* the queued elements, oldest first
  call   \* call[t]: the call thread t is in, with its result once it has one

vars == <<fifo, call>>

Threads == Adders \cup Removers

NoCall == [op |-> "none"]

Request(op, e, b) == [op |-> op, elem |-> e, block |-> b, done |-> FALSE, res |-> NULL]

Pending(t, op) == call[t].op = op /\ ~ call[t].done

(* Thread t's call takes effect and will return r.                         *)
Result(t, r) == call' = [call EXCEPT ![t].done = TRUE, ![t].res = r]

Init == fifo = <<>> /\ call = [t \in Threads |-> NoCall]

Invoke(t) ==
  /\ call[t] = NoCall
  /\ \/ /\ t \in Adders
        /\ \E e \in Element, b \in AddModes :
             call' = [call EXCEPT ![t] = Request("add", e, b)]
     \/ /\ t \in Removers
        /\ \/ \E b \in RemoveModes :
                call' = [call EXCEPT ![t] = Request("remove", NULL, b)]
           \/ call' = [call EXCEPT ![t] = Request("count", NULL, FALSE)]
  /\ UNCHANGED fifo

AddSucceeds(t) ==
  /\ Pending(t, "add")
  /\ Len(fifo) < Capacity
  /\ fifo' = Append(fifo, call[t].elem)
  /\ Result(t, 1)

AddFails(t) ==
  /\ Pending(t, "add")
  /\ ~ call[t].block
  /\ Len(fifo) = Capacity
  /\ Result(t, 0)
  /\ UNCHANGED fifo

RemoveSucceeds(t) ==
  /\ Pending(t, "remove")
  /\ fifo # <<>>
  /\ fifo' = Tail(fifo)
  /\ Result(t, Head(fifo))

RemoveFails(t) ==
  /\ Pending(t, "remove")
  /\ ~ call[t].block
  /\ fifo = <<>>
  /\ Result(t, NULL)
  /\ UNCHANGED fifo

Count(t) ==
  /\ Pending(t, "count")
  /\ Result(t, Len(fifo))
  /\ UNCHANGED fifo

Return(t) ==
  /\ call[t] # NoCall
  /\ call[t].done
  /\ call' = [call EXCEPT ![t] = NoCall]
  /\ UNCHANGED fifo

Next == \E t \in Threads :
  \/ Invoke(t) \/ Return(t) \/ Count(t)
  \/ AddSucceeds(t) \/ AddFails(t) \/ RemoveSucceeds(t) \/ RemoveFails(t)

Spec == Init /\ [][Next]_vars
=============================================================================
