---------------------------- MODULE QueueProofs ----------------------------
(***************************************************************************)
(* What the operations of queue.c do to a well-formed ring, for a ring of  *)
(* any size: they keep it well-formed, and seen as a sequence an add       *)
(* appends and a remove takes the head.                                    *)
(***************************************************************************)
EXTENDS Queue, Integers, TLAPS

-----------------------------------------------------------------------------
(* Slots: the only facts about % that the rest needs.                      *)

LEMMA SlotType ==
  ASSUME NEW n \in Nat \ {0}, NEW out \in 0 .. n - 1, NEW k \in 0 .. n
  PROVE  Slot(n, out, k) \in 0 .. n - 1
  BY DEF Slot

LEMMA SlotZero ==
  ASSUME NEW n \in Nat \ {0}, NEW out \in 0 .. n - 1
  PROVE  Slot(n, out, 0) = out
  BY DEF Slot

(* Counting on from the read index wraps as the write index does.          *)
LEMMA SlotNext ==
  ASSUME NEW n \in Nat \ {0}, NEW out \in 0 .. n - 1, NEW k \in 0 .. n - 1
  PROVE  Slot(n, out, k + 1) = (Slot(n, out, k) + 1) % n
<1>1. (out + k) % n = IF out + k < n THEN out + k ELSE out + k - n
  OBVIOUS
<1>2. (out + (k + 1)) % n = IF out + k + 1 < n THEN out + k + 1 ELSE out + k + 1 - n
  OBVIOUS
<1>3. CASE out + k < n
  BY <1>1, <1>2, <1>3 DEF Slot
<1>4. CASE out + k >= n
  <2>1. (out + k - n + 1) % n = out + k - n + 1
    BY <1>4
  <2> QED
    BY <2>1, <1>1, <1>2, <1>4 DEF Slot
<1> QED
  BY <1>3, <1>4

(* Moving the read index on by one renumbers the places by one.            *)
LEMMA SlotShift ==
  ASSUME NEW n \in Nat \ {0}, NEW out \in 0 .. n - 1, NEW k \in 0 .. n - 1
  PROVE  Slot(n, (out + 1) % n, k) = Slot(n, out, k + 1)
<1>1. (out + 1) % n = IF out + 1 < n THEN out + 1 ELSE 0
  OBVIOUS
<1>2. CASE out + 1 < n
  BY <1>1, <1>2 DEF Slot
<1>3. CASE out + 1 = n
  <2>1. (n + k) % n = k /\ k % n = k
    OBVIOUS
  <2> QED
    BY <2>1, <1>1, <1>3 DEF Slot
<1> QED
  BY <1>2, <1>3

(* Different places in a ring are different slots.                         *)
LEMMA SlotsDiffer ==
  ASSUME NEW n \in Nat \ {0}, NEW out \in 0 .. n - 1,
         NEW i \in 0 .. n - 1, NEW j \in 0 .. n - 1, i # j
  PROVE  Slot(n, out, i) # Slot(n, out, j)
<1>1. (out + i) % n = IF out + i < n THEN out + i ELSE out + i - n
  OBVIOUS
<1>2. (out + j) % n = IF out + j < n THEN out + j ELSE out + j - n
  OBVIOUS
<1> QED
  BY <1>1, <1>2 DEF Slot
-----------------------------------------------------------------------------
(* The contents of a ring are a sequence as long as its count.             *)
LEMMA ContentsType ==
  ASSUME NEW size \in Nat \ {0}, NEW q \in QueueType(size), RingOK(q)
  PROVE  Contents(q) \in Seq(Element) /\ Len(Contents(q)) = q.count
<1>1. q.count \in Nat
  BY DEF QueueType
<1>2. \A i \in 1 .. q.count : Contents(q)[i] \in Element
  BY DEF RingOK
<1>3. Contents(q) = [i \in 1 .. q.count |-> Contents(q)[i]]
  BY DEF Contents
<1>4. Contents(q) \in [1 .. q.count -> Element]
  BY <1>2, <1>3
<1> QED
  BY <1>1, <1>4

LEMMA AppendByPlaces ==
  ASSUME NEW S, NEW s \in Seq(S), NEW t \in Seq(S), NEW e \in S,
         Len(t) = Len(s) + 1,
         \A i \in 1 .. Len(s) + 1 : t[i] = IF i = Len(s) + 1 THEN e ELSE s[i]
  PROVE  t = Append(s, e)
<1>1. Append(s, e) \in Seq(S) /\ Len(Append(s, e)) = Len(s) + 1
  OBVIOUS
<1>2. \A i \in 1 .. Len(s) + 1 : Append(s, e)[i] = IF i = Len(s) + 1 THEN e ELSE s[i]
  OBVIOUS
<1> QED
  BY <1>1, <1>2

(* q_create returns an empty, well-formed ring.                            *)
LEMMA CreateOK ==
  ASSUME NEW size \in Nat \ {0}
  PROVE  /\ q_create(size) \in QueueType(size)
         /\ RingOK(q_create(size))
         /\ Contents(q_create(size)) = <<>>
<1>1. q_create(size) \in QueueType(size)
  BY DEF q_create, QueueType
<1>2. RingOK(q_create(size))
  BY SlotZero DEF q_create, RingOK
<1>3. Contents(q_create(size)) = <<>>
  BY DEF q_create, Contents
<1> QED
  BY <1>1, <1>2, <1>3

(* Adding to a ring that has room appends to its contents.                 *)
LEMMA AddOK ==
  ASSUME NEW size \in Nat \ {0}, NEW q \in QueueType(size), RingOK(q),
         NEW e \in Element, q.count # q.size
  PROVE  /\ q_add(q, e) \in QueueType(size)
         /\ RingOK(q_add(q, e))
         /\ Contents(q_add(q, e)) = Append(Contents(q), e)
         /\ q_add(q, e).count = q.count + 1
<1> DEFINE r == q_add(q, e)
<1>1. /\ q.size = size
      /\ q.count \in 0 .. size - 1
      /\ q.in \in 0 .. size - 1
      /\ q.out \in 0 .. size - 1
      /\ q.elements \in [0 .. size - 1 -> Element \cup {Garbage}]
      /\ q.in = Slot(size, q.out, q.count)
  BY DEF QueueType, RingOK
<1>2. /\ r.size = size
      /\ r.count = q.count + 1
      /\ r.out = q.out
      /\ r.in = (q.in + 1) % size
      /\ r.elements = [q.elements EXCEPT ![q.in] = e]
  BY <1>1 DEF q_add, QueueType
<1>3. r \in QueueType(size)
  <2>1. (q.in + 1) % size \in 0 .. size - 1
    BY <1>1
  <2>2. r = [size |-> size, count |-> q.count + 1, in |-> (q.in + 1) % size,
             out |-> q.out, elements |-> [q.elements EXCEPT ![q.in] = e]]
    BY <1>1 DEF q_add, QueueType
  <2> QED
    BY <2>1, <2>2, <1>1 DEF QueueType
<1> HIDE DEF r
<1>4. r.in = Slot(r.size, r.out, r.count)
  <2>1. Slot(size, q.out, q.count + 1) = (Slot(size, q.out, q.count) + 1) % size
    BY <1>1, SlotNext
  <2> QED
    BY <1>1, <1>2, <2>1
<1>5. ASSUME NEW i \in 1 .. q.count
      PROVE  r.elements[Slot(size, q.out, i - 1)] = q.elements[Slot(size, q.out, i - 1)]
  <2>1. i - 1 \in 0 .. size - 1 /\ i - 1 \in 0 .. size /\ i - 1 # q.count
    BY <1>1
  <2>2. Slot(size, q.out, i - 1) # q.in
    BY <1>1, <2>1, SlotsDiffer
  <2>3. Slot(size, q.out, i - 1) \in 0 .. size - 1
    BY <1>1, <2>1, SlotType
  <2> QED
    BY <1>1, <1>2, <2>2, <2>3
<1>6. \A i \in 1 .. q.count + 1 :
        Contents(r)[i] = IF i = q.count + 1 THEN e ELSE Contents(q)[i]
  <2> SUFFICES ASSUME NEW i \in 1 .. q.count + 1
               PROVE  Contents(r)[i] = IF i = q.count + 1 THEN e ELSE Contents(q)[i]
    OBVIOUS
  <2>1. Contents(r)[i] = r.elements[Slot(size, q.out, i - 1)]
    BY <1>2 DEF Contents
  <2>2. CASE i = q.count + 1
    <3>1. Slot(size, q.out, i - 1) = q.in
      BY <1>1, <2>2
    <3> QED
      BY <1>1, <1>2, <2>1, <2>2, <3>1
  <2>3. CASE i # q.count + 1
    <3>1. i \in 1 .. q.count
      BY <1>1, <2>3
    <3>2. Contents(q)[i] = q.elements[Slot(size, q.out, i - 1)]
      BY <1>1, <3>1 DEF Contents
    <3> QED
      BY <1>5, <2>1, <2>3, <3>1, <3>2
  <2> QED
    BY <2>2, <2>3
<1>7. RingOK(r)
  <2>1. \A i \in 1 .. q.count : Contents(q)[i] \in Element
    BY DEF RingOK
  <2>2. \A i \in 1 .. q.count + 1 : i # q.count + 1 => i \in 1 .. q.count
    BY <1>1
  <2>3. \A i \in 1 .. r.count : Contents(r)[i] \in Element
    BY <1>2, <1>6, <2>1, <2>2
  <2> QED
    BY <1>4, <2>3 DEF RingOK
<1>8. Contents(r) = Append(Contents(q), e)
  <2>1. Contents(q) \in Seq(Element) /\ Len(Contents(q)) = q.count
    BY ContentsType
  <2>2. Contents(r) \in Seq(Element) /\ Len(Contents(r)) = q.count + 1
    BY <1>2, <1>3, <1>7, ContentsType
  <2> QED
    BY <1>6, <2>1, <2>2, AppendByPlaces
<1> QED
  BY <1>2, <1>3, <1>7, <1>8 DEF r

(* Removing from a ring that is not empty takes the head of its contents,  *)
(* which is an element somebody added.                                     *)
LEMMA RemoveOK ==
  ASSUME NEW size \in Nat \ {0}, NEW q \in QueueType(size), RingOK(q), q.count # 0
  PROVE  /\ q_remove(q) \in QueueType(size)
         /\ RingOK(q_remove(q))
         /\ Contents(q_remove(q)) = Tail(Contents(q))
         /\ q_remove(q).count = q.count - 1
         /\ RemoveResult(q) = Head(Contents(q))
         /\ RemoveResult(q) \in Element
<1> DEFINE r == q_remove(q)
<1>1. /\ q.size = size
      /\ q.count \in 1 .. size
      /\ q.in \in 0 .. size - 1
      /\ q.out \in 0 .. size - 1
      /\ q.in = Slot(size, q.out, q.count)
      /\ q.elements \in [0 .. size - 1 -> Element \cup {Garbage}]
  BY DEF QueueType, RingOK
<1>2. /\ r.size = size
      /\ r.count = q.count - 1
      /\ r.in = q.in
      /\ r.out = (q.out + 1) % size
      /\ r.elements = q.elements
  BY <1>1 DEF q_remove, QueueType
<1>3. r \in QueueType(size)
  <2>1. (q.out + 1) % size \in 0 .. size - 1
    BY <1>1
  <2>2. r = [size |-> size, count |-> q.count - 1, in |-> q.in,
             out |-> (q.out + 1) % size, elements |-> q.elements]
    BY <1>1 DEF q_remove, QueueType
  <2> QED
    BY <2>1, <2>2, <1>1 DEF QueueType
<1> HIDE DEF r
<1>4. ASSUME NEW k \in 0 .. q.count - 1
      PROVE  Slot(size, r.out, k) = Slot(size, q.out, k + 1)
  <2>1. k \in 0 .. size - 1
    BY <1>1
  <2>2. Slot(size, (q.out + 1) % size, k) = Slot(size, q.out, k + 1)
    BY <1>1, <2>1, SlotShift
  <2> QED
    BY <1>2, <2>2
<1>5. r.in = Slot(r.size, r.out, r.count)
  <2>1. q.count - 1 \in 0 .. q.count - 1 /\ (q.count - 1) + 1 = q.count
    BY <1>1
  <2> QED
    BY <1>1, <1>2, <1>4, <2>1
<1>6. ASSUME NEW i \in 1 .. q.count - 1
      PROVE  Contents(r)[i] = Contents(q)[i + 1]
  <2>1. Slot(size, r.out, i - 1) = Slot(size, q.out, (i + 1) - 1)
    <3>1. i - 1 \in 0 .. q.count - 1 /\ (i - 1) + 1 = (i + 1) - 1
      BY <1>1
    <3> QED
      BY <3>1, <1>4
  <2>2. i + 1 \in 1 .. q.count
    BY <1>1
  <2> QED
    BY <1>1, <1>2, <2>1, <2>2 DEF Contents
<1>7. \A i \in 1 .. q.count : Contents(q)[i] \in Element
  BY DEF RingOK
<1>8. RingOK(r)
  <2>1. \A i \in 1 .. q.count - 1 : i + 1 \in 1 .. q.count
    BY <1>1
  <2>2. \A i \in 1 .. r.count : Contents(r)[i] \in Element
    BY <1>2, <1>6, <1>7, <2>1
  <2> QED
    BY <1>5, <2>2 DEF RingOK
<1>9. Contents(q) \in Seq(Element) /\ Len(Contents(q)) = q.count
  BY ContentsType
<1>10. Contents(r) = Tail(Contents(q))
  <2>1. Contents(r) \in Seq(Element) /\ Len(Contents(r)) = q.count - 1
    BY <1>2, <1>3, <1>8, ContentsType
  <2> QED
    BY <1>1, <1>6, <1>9, <2>1
<1>11. RemoveResult(q) = Head(Contents(q))
  <2>1. Slot(size, q.out, 1 - 1) = q.out
    BY <1>1, SlotZero
  <2>2. Contents(q)[1] = q.elements[q.out]
    BY <1>1, <2>1 DEF Contents
  <2> QED
    BY <1>1, <1>9, <2>2 DEF RemoveResult
<1>12. RemoveResult(q) \in Element
  BY <1>1, <1>9, <1>11
<1> QED
  BY <1>2, <1>3, <1>8, <1>10, <1>11, <1>12 DEF r
=============================================================================
