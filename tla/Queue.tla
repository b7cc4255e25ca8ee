------------------------------- MODULE Queue -------------------------------
(***************************************************************************)
(* queue.c: a bounded ring of pointers, not safe for threads by itself.    *)
(* A Queue is a record; each function of queue.c that changes it is an     *)
(* operator from the record before the call to the record after it.        *)
(***************************************************************************)
EXTENDS Naturals, Sequences

CONSTANTS
  Element,  \* the pointers that callers queue
  NULL,     \* what q_remove returns when there is nothing to remove
  Garbage   \* a slot of the malloc'ed array that was never written

ASSUME QueueAssumption == NULL \notin Element /\ Garbage \notin Element

q_create(size) ==
  [size |-> size, count |-> 0, in |-> 0, out |-> 0,
   elements |-> [i \in 0 .. size - 1 |-> Garbage]]

q_count(q) == q.count
q_size(q)  == q.size

(* Bugs that the runs must notice: forgetting the wrap, and leaving the    *)
(* slot to be read again.                                                  *)
AddWithoutWrap(q, e) ==
  IF q.count = q.size THEN q
  ELSE [q EXCEPT !.elements[q.in] = e, !.in = q.in + 1, !.count = @ + 1]

RemoveWithoutAdvance(q) ==
  IF q.count = 0 THEN q ELSE [q EXCEPT !.count = @ - 1]

(* q_add returns 0 and changes nothing when the ring is full.              *)
q_add(q, e) ==
  IF q.count = q.size THEN q
  ELSE [q EXCEPT !.elements[q.in] = e,
                 !.in = (q.in + 1) % q.size,
                 !.count = @ + 1]

AddResult(q) == IF q.count = q.size THEN 0 ELSE 1

q_remove(q) ==
  IF q.count = 0 THEN q
  ELSE [q EXCEPT !.out = (q.out + 1) % q.size, !.count = @ - 1]

RemoveResult(q) == IF q.count = 0 THEN NULL ELSE q.elements[q.out]

-----------------------------------------------------------------------------
(* The slot k places after out in a ring of size slots.                    *)
Slot(size, out, k) == (out + k) % size

(* What the ring holds, oldest first: the sequence an abstract FIFO keeps. *)
Contents(q) == [i \in 1 .. q.count |-> q.elements[Slot(q.size, q.out, i - 1)]]

QueueType(size) ==
  [size : {size}, count : 0 .. size, in : 0 .. size - 1, out : 0 .. size - 1,
   elements : [0 .. size - 1 -> Element \cup {Garbage}]]

(* The write index runs count slots ahead of the read index, and the slots *)
(* in between hold elements that somebody added.                           *)
RingOK(q) ==
  /\ q.in = Slot(q.size, q.out, q.count)
  /\ \A i \in 1 .. q.count : Contents(q)[i] \in Element
=============================================================================
