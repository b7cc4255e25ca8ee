---------------------------- MODULE AudioProofs ----------------------------
(***************************************************************************)
(* Theorems about button_test.c for every size of period, ring and counter.*)
(* TypeOK is inductive.  CopyInBounds needs what ties the loop counter to  *)
(* the buffer (CopyInv).  NeverAhead needs to know what a counter may be   *)
(* at each place of the two threads (CounterInv).  MicInRing needs the     *)
(* counters to be whole periods (WholeInv), and NoJunkPlayed which arrays  *)
(* each thread has initialised before the other reads them (FilledInv).    *)
(***************************************************************************)
EXTENDS AudioRing, TLAPS

LEMMA Sizes ==
  /\ PERIOD \in Nat /\ PERIOD > 0
  /\ CHUNKS \in Nat /\ CHUNKS > 0
  /\ BUF_SIZE \in Nat /\ BUF_SIZE >= PERIOD
  /\ UINT \in Nat /\ UINT > BUF_SIZE /\ UINT > PERIOD * MaxReads
  /\ MaxReads \in Nat
  /\ PERIOD * MaxReads \in Nat
  /\ \A n \in ReadOutcomes : n \in Int /\ n <= PERIOD /\ n >= -(UINT - 1)
  BY AudioAssumption

LEMMA Modulo ==
  ASSUME NEW m \in Nat, m > 0, NEW x \in Int
  PROVE  x % m \in 0 .. m - 1
  OBVIOUS

(* One more read makes room for one more period.                           *)
LEMMA OneMoreRead ==
  ASSUME NEW r \in 0 .. MaxReads - 1
  PROVE  /\ PERIOD * r \in Nat
         /\ PERIOD * (r + 1) = PERIOD * r + PERIOD
         /\ PERIOD * (r + 1) <= PERIOD * MaxReads
<1>1. PERIOD * r \in Nat /\ PERIOD * (r + 1) = PERIOD * r + PERIOD
  BY Sizes
<1>2. PERIOD * (MaxReads - (r + 1)) >= 0
  <2>1. MaxReads - (r + 1) \in Nat
    BY Sizes
  <2> QED
    BY <2>1, Sizes
<1>3. PERIOD * (MaxReads - (r + 1)) = PERIOD * MaxReads - PERIOD * (r + 1)
  BY Sizes
<1> QED
  BY <1>1, <1>2, <1>3, Sizes

MemType == [FromMicrophone \cup ToSpeaker -> Samples \cup {Junk}]

LEMMA SilenceType ==
  ASSUME mem \in MemType, NEW region
  PROVE  Silence(region) \in MemType
<1>1. 0 \in Samples
  BY Sizes DEF Samples
<1> QED
  BY <1>1 DEF MemType, Silence

LEMMA TypeInit == Init => TypeOK
<1>1. 0 \in FromMicrophone /\ 0 \in Uint /\ PERIOD * 0 = 0
  BY Sizes DEF FromMicrophone, Uint
<1> QED
  BY <1>1, Sizes DEF Init, TypeOK

LEMMA TypeStep == TypeOK /\ [Next]_vars => TypeOK'
<1> SUFFICES ASSUME TypeOK, [Next]_vars PROVE TypeOK'
  OBVIOUS
<1>0. mem \in MemType
  BY DEF TypeOK, MemType
<1>1. CASE MicInit
  <2>1. mem' \in MemType
    BY <1>0, <1>1, SilenceType DEF MicInit
  <2> QED
    BY <1>1, <2>1 DEF MicInit, spkVars, TypeOK, MemType
<1>2. CASE MicRead
  <2>1. PICK n \in ReadOutcomes :
          /\ mem' = [a \in DOMAIN mem |->
               IF a \in index .. index + n - 1 THEN captured + 1 + a - index ELSE mem[a]]
          /\ captured' = IF n > 0 THEN captured + n ELSE captured
          /\ frames' = n
    BY <1>2 DEF MicRead
  <2>2. /\ reads \in 0 .. MaxReads - 1 /\ reads' = reads + 1
        /\ captured \in 0 .. PERIOD * reads /\ captured \in Nat
        /\ index \in Nat
    BY <1>2, Sizes DEF MicRead, TypeOK, FromMicrophone
  <2>3. captured + PERIOD <= PERIOD * (reads + 1) /\ PERIOD * (reads + 1) <= PERIOD * MaxReads
    BY <2>2, OneMoreRead, Sizes
  <2>4. captured' \in 0 .. PERIOD * reads'
    <3>1. n \in Int /\ n <= PERIOD
      BY Sizes
    <3>2. PERIOD * (reads + 1) \in Nat
      BY <2>2, Sizes
    <3> QED
      BY <2>1, <2>2, <2>3, <3>1, <3>2, Sizes
  <2>5. \A a \in index .. index + n - 1 : captured + 1 + a - index \in Samples
    BY <2>2, <2>3, Sizes DEF Samples
  <2>6. mem' \in MemType
    BY <1>0, <2>1, <2>5 DEF MemType
  <2>7. frames' \in -(UINT - 1) .. UINT - 1
    BY <2>1, Sizes
  <2>8. reads' \in 0 .. MaxReads
    BY <2>2, Sizes
  <2> QED
    BY <1>2, <2>4, <2>6, <2>7, <2>8 DEF MicRead, spkVars, TypeOK, MemType
<1>3. CASE MicLoad
  <2>1. (ctr_in + frames) % UINT \in Uint
    <3>1. ctr_in + frames \in Int
      BY Sizes DEF TypeOK, Uint
    <3> QED
      BY <3>1, Sizes, Modulo DEF Uint
  <2>2. frames' \in Uint /\ frames' \in -(UINT - 1) .. UINT - 1
    BY <1>3, <2>1, Sizes DEF MicLoad, Uint
  <2> QED
    BY <1>3, <2>2 DEF MicLoad, spkVars, TypeOK
<1>4. CASE MicStore
  BY <1>4 DEF MicStore, spkVars, TypeOK
<1>5. CASE MicIndex
  <2>1. ctr_in % BUF_SIZE \in FromMicrophone
    <3>1. ctr_in \in Int
      BY Sizes DEF TypeOK, Uint
    <3> QED
      BY <3>1, Sizes, Modulo DEF FromMicrophone
  <2> QED
    BY <1>5, <2>1 DEF MicIndex, spkVars, TypeOK
<1>6. CASE SpkInit
  <2>1. mem' \in MemType
    BY <1>0, <1>6, SilenceType DEF SpkInit
  <2> QED
    BY <1>6, <2>1, Sizes DEF SpkInit, micVars, TypeOK, MemType, Uint
<1>7. CASE SpkInitIn
  BY <1>7, Sizes DEF SpkInitIn, micVars, TypeOK, Uint
<1>8. CASE SpkSnap
  <2>1. ctr_out' \in Uint
    <3>1. (ctr_in - PERIOD) % UINT \in Uint
      <4>1. ctr_in - PERIOD \in Int
        BY Sizes DEF TypeOK, Uint
      <4> QED
        BY <4>1, Sizes, Modulo DEF Uint
    <3> QED
      BY <1>8, <3>1 DEF SpkSnap, Take, TypeOK
  <2>2. transfer' \in 0 .. PERIOD
    <3>1. Backlog \in Nat
      <4>1. ctr_in - ctr_out \in Int
        BY Sizes DEF TypeOK, Uint
      <4> QED
        BY <4>1, Sizes, Modulo DEF Backlog
    <3> QED
      BY <1>8, <3>1, Sizes DEF SpkSnap, Take
  <2> QED
    BY <1>8, <2>1, <2>2 DEF SpkSnap, Take, micVars, TypeOK
<1>9. CASE SpkCopy
  <2>1. ctr_out + 1 \in Uint
    BY <1>9, Sizes DEF SpkCopy, Copy, TypeOK, Uint
  <2>2. mem[ctr_out % BUF_SIZE] \in Samples \cup {Junk}
    <3>1. ctr_out \in Int
      BY Sizes DEF TypeOK, Uint
    <3>2. ctr_out % BUF_SIZE \in FromMicrophone
      BY <3>1, Sizes, Modulo DEF FromMicrophone
    <3> QED
      BY <1>0, <3>2 DEF MemType
  <2> QED
    BY <1>9, <2>1, <2>2 DEF SpkCopy, Copy, micVars, TypeOK
<1>10. CASE SpkStore
  <2> DEFINE base == BUF_SIZE + PERIOD * chunks
  <2>1. base \in Nat
    BY Sizes DEF TypeOK
  <2>2. mem' = [a \in DOMAIN mem |->
           IF a \notin base .. base + PERIOD - 1 THEN mem[a]
           ELSE IF a - base < Len(buffer) THEN buffer[a - base + 1]
           ELSE Junk]
    BY <1>10 DEF SpkStore
  <2> HIDE DEF base
  <2>3. \A a \in base .. base + PERIOD - 1 :
          a - base < Len(buffer) => buffer[a - base + 1] \in Samples \cup {Junk}
    BY <2>1, Sizes DEF TypeOK
  <2>4. mem' \in MemType
    BY <1>0, <2>2, <2>3 DEF MemType
  <2>5. chunks' \in 0 .. CHUNKS
    BY <1>10, Sizes DEF SpkStore, TypeOK
  <2> QED
    BY <1>10, <2>4, <2>5 DEF SpkStore, micVars, TypeOK, MemType
<1>11. CASE SpkWrite
  <2>1. \A i \in 1 .. SPKR_BUF_SIZE : BUF_SIZE + i - 1 \in ToSpeaker
    BY Sizes DEF SPKR_BUF_SIZE, ToSpeaker
  <2>2. played' \in [1 .. SPKR_BUF_SIZE -> Samples \cup {Junk}]
    BY <1>0, <1>11, <2>1 DEF SpkWrite, MemType
  <2> QED
    BY <1>11, <2>2, Sizes DEF SpkWrite, micVars, TypeOK
<1>12. CASE SpkBehind
  BY <1>12 DEF SpkBehind, micVars, TypeOK
<1>13. CASE SpkCaughtUp
  BY <1>13, Sizes DEF SpkCaughtUp, micVars, TypeOK, Uint
<1>14. CASE SpkResetIn
  BY <1>14, Sizes DEF SpkResetIn, micVars, TypeOK, Uint
<1>15. CASE UNCHANGED vars
  BY <1>15 DEF vars, micVars, spkVars, TypeOK
<1> QED
  BY <1>1, <1>2, <1>3, <1>4, <1>5, <1>6, <1>7, <1>8, <1>9, <1>10, <1>11, <1>12,
     <1>13, <1>14, <1>15 DEF Next, MicWork, Speaker

(* Types, for every period, ring, counter width and read outcome.          *)
THEOREM TypeCorrect == Spec => []TypeOK
  BY TypeInit, TypeStep, PTL DEF Spec
-----------------------------------------------------------------------------
(* What is copied and what is still to copy fill the buffer.               *)
CopyInv ==
  /\ spk = "copy" /\ ctr_out < steady => Len(buffer) + (steady - ctr_out) = transfer
  /\ Len(buffer) <= transfer

(* x % m for an x between -m and m.                                        *)
LEMMA WrapOnce ==
  ASSUME NEW m \in Nat, m > 0, NEW x \in Int, -m < x, x < m
  PROVE  x % m = IF x >= 0 THEN x ELSE x + m
  OBVIOUS

(* What the top of the speaker's loop computes.                            *)
LEMMA TakeEffect ==
  ASSUME TypeOK, SpkSnap
  PROVE  /\ spk' = "copy" /\ steady' = ctr_in /\ buffer' = <<>>
         /\ ctr_out' < steady' => transfer' = steady' - ctr_out'
         /\ ctr_out <= ctr_in => ctr_out' <= ctr_in
<1>1. /\ ctr_in \in Int /\ ctr_out \in Int
      /\ 0 <= ctr_in /\ ctr_in < UINT /\ 0 <= ctr_out /\ ctr_out < UINT
  BY Sizes DEF TypeOK, Uint
<1>2. Backlog = IF ctr_in >= ctr_out THEN ctr_in - ctr_out ELSE ctr_in - ctr_out + UINT
  BY <1>1, Sizes, WrapOnce DEF Backlog
<1>3. (ctr_in - PERIOD) % UINT
        = IF ctr_in >= PERIOD THEN ctr_in - PERIOD ELSE ctr_in - PERIOD + UINT
  BY <1>1, Sizes, WrapOnce
<1>4. /\ spk' = "copy" /\ steady' = ctr_in /\ buffer' = <<>>
      /\ ctr_out' = IF Backlog <= PERIOD THEN ctr_out ELSE (ctr_in - PERIOD) % UINT
      /\ transfer' = IF Backlog <= PERIOD THEN Backlog ELSE PERIOD
  BY DEF SpkSnap, Take
<1>5. CASE Backlog <= PERIOD
  BY <1>1, <1>2, <1>4, <1>5, Sizes
<1>6. CASE ~ (Backlog <= PERIOD)
  BY <1>1, <1>2, <1>3, <1>4, <1>6, Sizes
<1> QED
  BY <1>4, <1>5, <1>6

LEMMA CopyStep == TypeOK /\ TypeOK' /\ CopyInv /\ [Next]_vars => CopyInv'
<1> SUFFICES ASSUME TypeOK, TypeOK', CopyInv, [Next]_vars PROVE CopyInv'
  OBVIOUS
<1>0. /\ ctr_out \in Int /\ steady \in Int /\ transfer \in Int
      /\ ctr_out' \in Int /\ steady' \in Int /\ transfer' \in Int
  BY Sizes DEF TypeOK, Uint
<1>1. CASE SpkSnap
  <2>1. Len(buffer') = 0
    BY <1>1, TakeEffect
  <2>2. ctr_out' < steady' => transfer' = steady' - ctr_out'
    BY <1>1, TakeEffect
  <2>3. transfer' >= 0
    BY Sizes DEF TypeOK
  <2>4. ctr_out' < steady' => Len(buffer') + (steady' - ctr_out') = transfer'
    BY <1>0, <2>1, <2>2
  <2>5. Len(buffer') <= transfer'
    BY <1>0, <2>1, <2>3
  <2> QED
    BY <2>4, <2>5 DEF CopyInv
<1>2. CASE SpkCopy
  <2>1. Len(buffer') = Len(buffer) + 1 /\ Len(buffer) \in Nat
    BY <1>2 DEF SpkCopy, Copy, TypeOK
  <2>2. /\ ctr_out' = ctr_out + 1 /\ steady' = steady /\ transfer' = transfer
        /\ spk = "copy" /\ ctr_out < steady
    BY <1>2 DEF SpkCopy, Copy
  <2>3. Len(buffer) + (steady - ctr_out) = transfer
    BY <2>2 DEF CopyInv
  <2>4. ctr_out' < steady' => Len(buffer') + (steady' - ctr_out') = transfer'
    BY <1>0, <2>1, <2>2, <2>3
  <2>5. Len(buffer') <= transfer'
    BY <1>0, <2>1, <2>2, <2>3
  <2> QED
    BY <2>4, <2>5 DEF CopyInv
<1>3. CASE MicWork \/ MicRead
  BY <1>3 DEF MicWork, MicInit, MicRead, MicLoad, MicStore, MicIndex, spkVars, CopyInv
<1>4. CASE SpkInit \/ SpkInitIn \/ SpkStore \/ SpkWrite \/ SpkBehind \/ SpkCaughtUp \/ SpkResetIn
  BY <1>4 DEF SpkInit, SpkInitIn, SpkStore, SpkWrite, SpkBehind, SpkCaughtUp, SpkResetIn, CopyInv
<1>5. CASE UNCHANGED vars
  BY <1>5 DEF vars, spkVars, CopyInv
<1> QED
  BY <1>1, <1>2, <1>3, <1>4, <1>5 DEF Next, Speaker

(* The speaker thread never writes past the buffer it allocated, for every *)
(* size and whatever the reads return.                                     *)
THEOREM CopyStaysInBounds == Spec => []CopyInBounds
<1>1. Init => CopyInv
  BY DEF Init, CopyInv
<1>2. CopyInv => CopyInBounds
  BY DEF CopyInv, CopyInBounds
<1> QED
  BY <1>1, <1>2, CopyStep, TypeCorrect, PTL DEF Spec
-----------------------------------------------------------------------------
(* Where the counters may be while all reads have been whole.  The total   *)
(* captured bounds ctr_in, so that it does not wrap; the sum that the      *)
(* microphone thread is about to store is ahead of whatever the reset      *)
(* leaves; ctr_out is zero when ctr_in is about to be.                     *)
CounterInv ==
  Clean =>
    /\ ctr_out <= ctr_in
    /\ ctr_in <= captured
    /\ mic = "load" => frames = PERIOD /\ ctr_in + PERIOD <= captured
    /\ mic = "store" => ctr_in < frames /\ frames <= captured
    /\ spk = "copy" => ctr_out <= steady /\ steady <= ctr_in
    /\ spk \in {"init", "init_in", "reset_in"} => ctr_out = 0

LEMMA CapturedSmall ==
  ASSUME TypeOK
  PROVE  captured \in Nat /\ captured < UINT
<1>1. PERIOD * reads <= PERIOD * MaxReads /\ PERIOD * reads \in Nat
  <2>1. reads \in Nat /\ MaxReads - reads \in Nat
    BY Sizes DEF TypeOK
  <2>2. PERIOD * (MaxReads - reads) >= 0
    BY <2>1, Sizes
  <2>3. PERIOD * (MaxReads - reads) = PERIOD * MaxReads - PERIOD * reads
    BY <2>1, Sizes
  <2> QED
    BY <2>1, <2>2, <2>3, Sizes
<1> QED
  BY <1>1, Sizes DEF TypeOK

(* A read that is not whole ends Clean for good.                           *)
LEMMA CleanRead ==
  ASSUME TypeOK, MicRead, Clean'
  PROVE  Clean /\ frames' = PERIOD /\ captured' = captured + PERIOD
<1>1. PICK n \in ReadOutcomes :
        captured' = (IF n > 0 THEN captured + n ELSE captured) /\ frames' = n
  BY DEF MicRead
<1>2. reads \in 0 .. MaxReads - 1 /\ reads' = reads + 1 /\ captured \in 0 .. PERIOD * reads
  BY Sizes DEF MicRead, TypeOK
<1>3. captured' = PERIOD * (reads + 1)
  BY <1>2 DEF Clean
<1>4. PERIOD * (reads + 1) = PERIOD * reads + PERIOD /\ PERIOD * reads \in Nat
  BY <1>2, OneMoreRead
<1>5. n \in Int /\ n <= PERIOD
  BY Sizes
<1>6. n = PERIOD /\ captured = PERIOD * reads
  BY <1>1, <1>2, <1>3, <1>4, <1>5, Sizes
<1> QED
  BY <1>1, <1>6, Sizes DEF Clean

LEMMA CounterStep == TypeOK /\ CounterInv /\ [Next]_vars => CounterInv'
<1> SUFFICES ASSUME TypeOK, CounterInv, [Next]_vars, Clean' PROVE CounterInv'
  BY DEF CounterInv
<1>0. /\ ctr_in \in Int /\ ctr_out \in Int /\ steady \in Int /\ frames \in Int
      /\ 0 <= ctr_in /\ 0 <= ctr_out
  BY Sizes DEF TypeOK, Uint
<1>1. CASE MicRead
  <2>1. Clean /\ frames' = PERIOD /\ captured' = captured + PERIOD
    BY <1>1, CleanRead
  <2>2. captured \in Nat
    BY CapturedSmall
  <2> QED
    BY <1>0, <1>1, <2>1, <2>2, Sizes DEF MicRead, spkVars, CounterInv
<1>2. CASE MicLoad
  <2>1. Clean
    BY <1>2 DEF MicLoad, Clean
  <2>2. frames = PERIOD /\ ctr_in + PERIOD <= captured
    BY <1>2, <2>1 DEF MicLoad, CounterInv
  <2>3. (ctr_in + frames) % UINT = ctr_in + PERIOD
    BY <1>0, <2>2, CapturedSmall, Sizes, WrapOnce
  <2>4. frames' = ctr_in + PERIOD
    BY <1>2, <2>3 DEF MicLoad
  <2> QED
    BY <1>0, <1>2, <2>1, <2>2, <2>4, Sizes DEF MicLoad, spkVars, CounterInv
<1>3. CASE MicStore
  BY <1>0, <1>3, CapturedSmall DEF MicStore, spkVars, CounterInv, Clean
<1>4. CASE MicInit \/ MicIndex
  BY <1>4 DEF MicInit, MicIndex, spkVars, CounterInv, Clean
<1>5. CASE SpkInit \/ SpkInitIn \/ SpkCaughtUp \/ SpkResetIn
  <2>1. Clean /\ UNCHANGED micVars
    BY <1>5 DEF SpkInit, SpkInitIn, SpkCaughtUp, SpkResetIn, micVars, Clean
  <2> QED
    BY <1>0, <1>5, <2>1, CapturedSmall, Sizes
    DEF SpkInit, SpkInitIn, SpkCaughtUp, SpkResetIn, micVars, CounterInv
<1>6. CASE SpkSnap
  <2>1. Clean /\ UNCHANGED <<micVars, ctr_in>>
    BY <1>6 DEF SpkSnap, Take, micVars, Clean
  <2>2. ctr_out <= ctr_in
    BY <2>1 DEF CounterInv
  <2>3. spk' = "copy" /\ steady' = ctr_in /\ ctr_out' <= ctr_in
    BY <1>6, <2>2, TakeEffect
  <2> QED
    BY <1>0, <2>1, <2>3 DEF micVars, CounterInv
<1>7. CASE SpkCopy
  <2>1. Clean /\ UNCHANGED micVars
    BY <1>7 DEF SpkCopy, Copy, micVars, Clean
  <2> QED
    BY <1>0, <1>7, <2>1 DEF SpkCopy, Copy, micVars, CounterInv
<1>8. CASE SpkStore \/ SpkWrite \/ SpkBehind
  <2>1. Clean /\ UNCHANGED <<micVars, ctr_in, ctr_out>> /\ spk' \in {"check", "snap"}
    BY <1>8 DEF SpkStore, SpkWrite, SpkBehind, micVars, Clean
  <2> QED
    BY <2>1 DEF micVars, CounterInv
<1>9. CASE UNCHANGED vars
  BY <1>9 DEF vars, micVars, spkVars, CounterInv, Clean
<1> QED
  BY <1>1, <1>2, <1>3, <1>4, <1>5, <1>6, <1>7, <1>8, <1>9 DEF Next, MicWork, Speaker

(* The consumer's counter never passes the producer's while the reads are  *)
(* whole, although nothing locks the two counters.                         *)
THEOREM CountersInOrder == Spec => []NeverAhead
<1>1. Init => CounterInv
  BY DEF Init, CounterInv
<1>2. CounterInv => NeverAhead
  BY DEF CounterInv, NeverAhead
<1> QED
  BY <1>1, <1>2, CounterStep, TypeCorrect, PTL DEF Spec
-----------------------------------------------------------------------------
(* Whole periods.                                                          *)
Whole(x) == \E k \in Nat : x = PERIOD * k

LEMMA Product ==
  ASSUME NEW a \in Nat, a > 0, NEW k \in Int, NEW l \in Int
  PROVE  /\ a * k \in Int /\ a * (k + l) = a * k + a * l /\ a * (k - l) = a * k - a * l
         /\ k >= 1 => a * k >= a
         /\ a * k >= 0 => k >= 0
<1>1. a * k \in Int /\ a * (k + l) = a * k + a * l /\ a * (k - l) = a * k - a * l
  OBVIOUS
<1>2. k >= 1 => a * k >= a
  <2> SUFFICES ASSUME k >= 1 PROVE a * k >= a
    OBVIOUS
  <2>1. a * (k - 1) >= 0
    OBVIOUS
  <2>2. a * (k - 1) = a * k - a
    OBVIOUS
  <2> QED
    BY <2>1, <2>2, <1>1
<1>3. k < 0 => a * k < 0
  OBVIOUS
<1> QED
  BY <1>1, <1>2, <1>3

LEMMA WholeSums ==
  /\ Whole(0) /\ Whole(PERIOD)
  /\ \A x, y : Whole(x) /\ Whole(y) =>
       /\ x \in Nat /\ y \in Nat /\ Whole(x + y)
       /\ x < y => x + PERIOD <= y
       /\ x <= y => Whole(y - x)
<1>1. Whole(0) /\ Whole(PERIOD)
  <2>1. 0 = PERIOD * 0 /\ PERIOD = PERIOD * 1 /\ 0 \in Nat /\ 1 \in Nat
    BY Sizes
  <2> QED
    BY <2>1 DEF Whole
<1>2. ASSUME NEW x, NEW y, Whole(x), Whole(y)
      PROVE  /\ x \in Nat /\ y \in Nat /\ Whole(x + y)
             /\ x < y => x + PERIOD <= y
             /\ x <= y => Whole(y - x)
  <2>1. PICK k \in Nat : x = PERIOD * k
    BY <1>2 DEF Whole
  <2>2. PICK l \in Nat : y = PERIOD * l
    BY <1>2 DEF Whole
  <2>3. x \in Nat /\ y \in Nat
    BY <2>1, <2>2, Sizes
  <2>4. x + y = PERIOD * (k + l) /\ y - x = PERIOD * (l - k)
    BY <2>1, <2>2, Sizes, Product
  <2>5. Whole(x + y)
    BY <2>4 DEF Whole
  <2>6. x <= y => l - k \in Nat
    <3>1. x <= y => PERIOD * (l - k) >= 0
      BY <2>3, <2>4
    <3>2. PERIOD * (l - k) >= 0 => l - k >= 0
      BY Sizes, Product
    <3> QED
      BY <3>1, <3>2
  <2>7. x < y => x + PERIOD <= y
    <3>1. x < y => l - k # 0
      BY <2>3, <2>4, Sizes
    <3>2. x < y => l - k >= 1
      BY <2>3, <2>6, <3>1
    <3>3. l - k >= 1 => PERIOD * (l - k) >= PERIOD
      BY Sizes, Product
    <3> QED
      BY <2>3, <2>4, <3>2, <3>3, Sizes
  <2> QED
    BY <2>3, <2>4, <2>5, <2>6, <2>7 DEF Whole
<1> QED
  BY <1>1, <1>2

(* Masking a whole number of periods leaves one, and room for another.     *)
LEMMA WholeMasked ==
  ASSUME NEW x, Whole(x)
  PROVE  Whole(x % BUF_SIZE) /\ (x % BUF_SIZE) + PERIOD <= BUF_SIZE
<1>1. PICK k \in Nat : x = PERIOD * k
  BY DEF Whole
<1> DEFINE b == BUF_SIZE \div PERIOD
           d == x \div BUF_SIZE
           r == x % BUF_SIZE
<1>2. x \in Nat
  BY WholeSums
<1>3. b \in Nat /\ BUF_SIZE = PERIOD * b
  BY AudioAssumption
<1>4. d \in Nat /\ r \in 0 .. BUF_SIZE - 1 /\ x = BUF_SIZE * d + r
  BY <1>2, Sizes
<1> HIDE DEF b, d, r
<1>5. r = PERIOD * (k - b * d)
  <2>1. BUF_SIZE * d = PERIOD * (b * d)
    BY <1>3, <1>4, Sizes
  <2>2. b * d \in Nat
    BY <1>3, <1>4
  <2>3. PERIOD * (k - b * d) = PERIOD * k - PERIOD * (b * d)
    BY <2>2, Sizes, Product
  <2> QED
    BY <1>1, <1>2, <1>4, <2>1, <2>2, <2>3, Sizes
<1>6. k - b * d \in Nat
  <2>1. k - b * d \in Int
    BY <1>3, <1>4
  <2>2. k - b * d >= 0
    BY <1>4, <1>5, <2>1, Sizes, Product
  <2> QED
    BY <2>1, <2>2
<1>7. Whole(r) /\ Whole(BUF_SIZE)
  BY <1>3, <1>5, <1>6 DEF Whole
<1>8. r < BUF_SIZE
  BY <1>4, Sizes
<1> QED
  BY <1>7, <1>8, WholeSums DEF r

(* While the reads are whole, so is everything the counters are set to;    *)
(* what the speaker thread has copied and has still to copy is one period. *)
WholeInv ==
  Clean =>
    /\ Whole(ctr_in) /\ Whole(index)
    /\ mic = "store" => Whole(frames)
    /\ spk = "copy" => Whole(steady) /\ Len(buffer) + (steady - ctr_out) = PERIOD
    /\ spk # "copy" => Whole(ctr_out)

(* A backlog of whole periods makes the speaker thread copy just one.      *)
LEMMA TakesOnePeriod ==
  ASSUME TypeOK, CounterInv, WholeInv, Clean, SpkSnap
  PROVE  /\ spk' = "copy" /\ Whole(steady') /\ buffer' = <<>>
         /\ steady' - ctr_out' = PERIOD
<1>1. /\ ctr_in \in Int /\ ctr_out \in Int
      /\ 0 <= ctr_in /\ ctr_in < UINT /\ 0 <= ctr_out /\ ctr_out <= ctr_in
  BY Sizes DEF TypeOK, Uint, CounterInv
<1>2. Whole(ctr_in) /\ Whole(ctr_out)
  BY DEF SpkSnap, Take, WholeInv
<1>3. Backlog = ctr_in - ctr_out /\ Backlog # 0
  BY <1>1, Sizes, WrapOnce DEF Backlog, SpkSnap
<1>4. ctr_out + PERIOD <= ctr_in
  BY <1>1, <1>2, <1>3, WholeSums
<1>5. (ctr_in - PERIOD) % UINT = ctr_in - PERIOD
  BY <1>1, <1>4, Sizes, WrapOnce
<1>6. /\ spk' = "copy" /\ steady' = ctr_in /\ buffer' = <<>>
      /\ ctr_out' = IF Backlog <= PERIOD THEN ctr_out ELSE (ctr_in - PERIOD) % UINT
  BY DEF SpkSnap, Take
<1>7. CASE Backlog <= PERIOD
  BY <1>1, <1>2, <1>3, <1>4, <1>6, <1>7, Sizes
<1>8. CASE ~ (Backlog <= PERIOD)
  BY <1>1, <1>2, <1>5, <1>6, <1>8, Sizes
<1> QED
  BY <1>7, <1>8

LEMMA WholeStep == TypeOK /\ CounterInv /\ WholeInv /\ [Next]_vars => WholeInv'
<1> SUFFICES ASSUME TypeOK, CounterInv, WholeInv, [Next]_vars, Clean' PROVE WholeInv'
  BY DEF WholeInv
<1>0. /\ ctr_in \in Int /\ ctr_out \in Int /\ steady \in Int /\ frames \in Int
      /\ 0 <= ctr_in /\ 0 <= ctr_out
  BY Sizes DEF TypeOK, Uint
<1>1. CASE MicRead
  <2>1. Clean
    BY <1>1, CleanRead
  <2> QED
    BY <1>1, <2>1 DEF MicRead, spkVars, WholeInv
<1>2. CASE MicLoad
  <2>1. Clean
    BY <1>2 DEF MicLoad, Clean
  <2>2. frames = PERIOD /\ ctr_in + PERIOD <= captured
    BY <1>2, <2>1 DEF MicLoad, CounterInv
  <2>3. (ctr_in + frames) % UINT = ctr_in + PERIOD
    BY <1>0, <2>2, CapturedSmall, Sizes, WrapOnce
  <2>4. frames' = ctr_in + PERIOD
    BY <1>2, <2>3 DEF MicLoad
  <2>5. Whole(frames')
    BY <2>1, <2>4, WholeSums DEF WholeInv
  <2> QED
    BY <1>2, <2>1, <2>5 DEF MicLoad, spkVars, WholeInv
<1>3. CASE MicStore
  BY <1>3 DEF MicStore, spkVars, WholeInv, Clean
<1>4. CASE MicInit
  BY <1>4 DEF MicInit, spkVars, WholeInv, Clean
<1>5. CASE MicIndex
  <2>1. Clean
    BY <1>5 DEF MicIndex, Clean
  <2>2. Whole(ctr_in % BUF_SIZE)
    BY <2>1, WholeMasked DEF WholeInv
  <2> QED
    BY <1>5, <2>1, <2>2 DEF MicIndex, spkVars, WholeInv
<1>6. CASE SpkInit \/ SpkInitIn \/ SpkCaughtUp \/ SpkResetIn
  <2>1. Clean /\ UNCHANGED micVars /\ spk # "copy" /\ spk' # "copy"
    BY <1>6 DEF SpkInit, SpkInitIn, SpkCaughtUp, SpkResetIn, micVars, Clean
  <2>2. /\ ctr_in' = ctr_in \/ ctr_in' = 0
        /\ ctr_out' = ctr_out \/ ctr_out' = 0
    BY <1>6 DEF SpkInit, SpkInitIn, SpkCaughtUp, SpkResetIn
  <2> QED
    BY <2>1, <2>2, WholeSums DEF micVars, WholeInv
<1>7. CASE SpkSnap
  <2>1. Clean /\ UNCHANGED <<micVars, ctr_in>>
    BY <1>7 DEF SpkSnap, Take, micVars, Clean
  <2>2. spk' = "copy" /\ Whole(steady') /\ buffer' = <<>> /\ steady' - ctr_out' = PERIOD
    BY <1>7, <2>1, TakesOnePeriod
  <2>3. Len(buffer') + (steady' - ctr_out') = PERIOD
    BY <2>2, Sizes
  <2> QED
    BY <2>1, <2>2, <2>3 DEF micVars, WholeInv
<1>8. CASE SpkCopy
  <2>1. Clean /\ UNCHANGED <<micVars, ctr_in, spk, steady>> /\ spk = "copy"
    BY <1>8 DEF SpkCopy, Copy, micVars, Clean
  <2>2. Len(buffer') = Len(buffer) + 1 /\ Len(buffer) \in Nat /\ ctr_out' = ctr_out + 1
    BY <1>8 DEF SpkCopy, Copy, TypeOK
  <2>3. Len(buffer) + (steady - ctr_out) = PERIOD
    BY <2>1 DEF WholeInv
  <2>4. Len(buffer') + (steady - ctr_out') = PERIOD
    BY <1>0, <2>2, <2>3
  <2> QED
    BY <2>1, <2>4 DEF micVars, WholeInv
<1>9. CASE SpkStore \/ SpkWrite
  <2>1. /\ Clean /\ UNCHANGED <<micVars, ctr_in, ctr_out>>
        /\ spk = "copy" /\ spk' = "check" /\ ctr_out >= steady
    BY <1>9 DEF SpkStore, SpkWrite, micVars, Clean
  <2>2. ctr_out = steady
    BY <1>0, <2>1 DEF CounterInv
  <2> QED
    BY <2>1, <2>2 DEF micVars, WholeInv
<1>10. CASE SpkBehind
  BY <1>10 DEF SpkBehind, micVars, WholeInv, Clean
<1>11. CASE UNCHANGED vars
  BY <1>11 DEF vars, micVars, spkVars, WholeInv, Clean
<1> QED
  BY <1>1, <1>2, <1>3, <1>4, <1>5, <1>6, <1>7, <1>8, <1>9, <1>10, <1>11
  DEF Next, MicWork, Speaker

LEMMA WholeInit == Init => WholeInv
BY WholeSums DEF Init, WholeInv

(* The microphone's period always fits between its index and the end of    *)
(* the ring while the reads are whole, though the index is masked before   *)
(* the period is added (button_test.c:75-80).                              *)
THEOREM MicStaysInRing == Spec => []MicInRing
<1>1. TypeOK /\ WholeInv => MicInRing
  <2> SUFFICES ASSUME TypeOK, WholeInv, Clean PROVE index + PERIOD <= BUF_SIZE
    BY DEF MicInRing
  <2>1. index \in Nat /\ index < BUF_SIZE
    BY Sizes DEF TypeOK, FromMicrophone
  <2>2. index % BUF_SIZE = index
    BY <2>1, Sizes
  <2> QED
    BY <2>2, WholeMasked DEF WholeInv
<1>2. Init => CounterInv
  BY DEF Init, CounterInv
<1> QED
  BY <1>1, <1>2, WholeInit, WholeStep, CounterStep, TypeCorrect, PTL DEF Spec
-----------------------------------------------------------------------------
(* What has been written: the ring from the microphone thread's start on,  *)
(* to_speaker from the speaker thread's; nothing is read from the ring     *)
(* before something was captured.                                          *)
FilledInv ==
  Clean =>
    /\ mic = "init" => captured = 0
    /\ mic # "init" => \A a \in FromMicrophone : mem[a] # Junk
    /\ spk # "init" => \A a \in ToSpeaker : mem[a] # Junk
    /\ \A i \in 1 .. Len(buffer) : buffer[i] # Junk
    /\ \A i \in DOMAIN played : played[i] # Junk

LEMMA FilledStep ==
  TypeOK /\ CounterInv /\ WholeInv /\ FilledInv /\ [Next]_vars => FilledInv'
<1> SUFFICES ASSUME TypeOK, CounterInv, WholeInv, FilledInv, [Next]_vars, Clean'
             PROVE  FilledInv'
  BY DEF FilledInv
<1>0. /\ mem \in MemType /\ ctr_out \in Int /\ steady \in Int /\ 0 <= ctr_out
      /\ captured \in Nat /\ index \in Nat
  BY Sizes, CapturedSmall DEF TypeOK, Uint, MemType, FromMicrophone
<1>1. Junk \notin Nat /\ 0 # Junk
  BY AudioAssumption
<1>2. DOMAIN mem = FromMicrophone \cup ToSpeaker
  BY <1>0 DEF MemType
<1>3. \A a \in FromMicrophone : a \notin ToSpeaker
  BY Sizes DEF FromMicrophone, ToSpeaker
<1>4. CASE MicInit
  <2>1. Clean /\ mem' = Silence(FromMicrophone)
    BY <1>4 DEF MicInit, Clean
  <2>2. /\ \A a \in FromMicrophone : mem'[a] = 0
        /\ \A a \in ToSpeaker : mem'[a] = mem[a]
    BY <1>2, <1>3, <2>1 DEF Silence
  <2> QED
    BY <1>1, <1>4, <2>1, <2>2 DEF MicInit, spkVars, FilledInv
<1>5. CASE MicRead
  <2>1. Clean /\ mic # "init" /\ mic' # "init" /\ UNCHANGED spkVars
    BY <1>5, CleanRead DEF MicRead
  <2>2. PICK n \in ReadOutcomes : mem' = [a \in DOMAIN mem |->
           IF a \in index .. index + n - 1 THEN captured + 1 + a - index ELSE mem[a]]
    BY <1>5 DEF MicRead
  <2>3. \A a \in index .. index + n - 1 : captured + 1 + a - index \in Nat
    BY <1>0, Sizes
  <2>4. \A a \in FromMicrophone \cup ToSpeaker : mem[a] # Junk => mem'[a] # Junk
    BY <1>1, <1>2, <2>2, <2>3
  <2> QED
    BY <2>1, <2>4 DEF spkVars, FilledInv
<1>6. CASE MicLoad \/ MicStore \/ MicIndex
  BY <1>6 DEF MicLoad, MicStore, MicIndex, spkVars, FilledInv, Clean
<1>7. CASE SpkInit
  <2>1. Clean /\ mem' = Silence(ToSpeaker) /\ UNCHANGED micVars
    BY <1>7 DEF SpkInit, micVars, Clean
  <2>2. /\ \A a \in ToSpeaker : mem'[a] = 0
        /\ \A a \in FromMicrophone : mem'[a] = mem[a]
    BY <1>2, <1>3, <2>1 DEF Silence
  <2> QED
    BY <1>1, <1>7, <2>1, <2>2 DEF SpkInit, micVars, FilledInv
<1>8. CASE SpkInitIn \/ SpkBehind \/ SpkCaughtUp \/ SpkResetIn
  BY <1>8 DEF SpkInitIn, SpkBehind, SpkCaughtUp, SpkResetIn, micVars, FilledInv, Clean
<1>9. CASE SpkSnap
  <2>1. /\ Clean /\ UNCHANGED <<mem, micVars, played>>
        /\ buffer' = <<>> /\ spk # "init"
    BY <1>9 DEF SpkSnap, Take, micVars, Clean
  <2> QED
    BY <2>1 DEF micVars, FilledInv
<1>10. CASE SpkCopy
  <2>1. /\ Clean /\ UNCHANGED <<mem, micVars, played, spk>> /\ spk = "copy" /\ ctr_out < steady
        /\ buffer' = Append(buffer, mem[ctr_out % BUF_SIZE])
    BY <1>10 DEF SpkCopy, Copy, micVars, Clean
  <2>2. mic # "init"
    <3>1. ctr_out < captured
      BY <1>0, <2>1, Sizes DEF CounterInv, TypeOK, Uint
    <3> QED
      BY <1>0, <2>1, <3>1 DEF FilledInv
  <2>3. ctr_out % BUF_SIZE \in FromMicrophone
    BY <1>0, Sizes, Modulo DEF FromMicrophone
  <2>4. mem[ctr_out % BUF_SIZE] # Junk
    BY <2>1, <2>2, <2>3 DEF FilledInv
  <2>5. \A i \in 1 .. Len(buffer') : buffer'[i] # Junk
    BY <2>1, <2>4 DEF FilledInv, TypeOK
  <2> QED
    BY <2>1, <2>5 DEF micVars, FilledInv
<1>11. CASE SpkStore
  <2> DEFINE base == BUF_SIZE + PERIOD * chunks
  <2>1. /\ Clean /\ UNCHANGED <<micVars, buffer, played>>
        /\ spk = "copy" /\ spk' = "check" /\ ctr_out >= steady
    BY <1>11 DEF SpkStore, micVars, Clean
  <2>2. Len(buffer) = PERIOD
    <3>1. ctr_out = steady /\ Len(buffer) + (steady - ctr_out) = PERIOD
      BY <1>0, <2>1 DEF CounterInv, WholeInv
    <3> QED
      BY <1>0, <3>1 DEF TypeOK
  <2>3. base \in Nat /\ base >= BUF_SIZE
    <3>1. PERIOD * chunks \in Nat
      BY Sizes DEF TypeOK
    <3> QED
      BY <3>1, Sizes
  <2>4. mem' = [a \in DOMAIN mem |->
          IF a \notin base .. base + PERIOD - 1 THEN mem[a]
          ELSE IF a - base < Len(buffer) THEN buffer[a - base + 1] ELSE Junk]
    BY <1>11 DEF SpkStore
  <2> HIDE DEF base
  <2>5. \A a \in base .. base + PERIOD - 1 :
          a - base < Len(buffer) /\ a - base + 1 \in 1 .. Len(buffer)
    BY <2>2, <2>3, Sizes
  <2>6. \A a \in base .. base + PERIOD - 1 : buffer[a - base + 1] # Junk
    BY <2>1, <2>5 DEF FilledInv
  <2>7. \A a \in FromMicrophone \cup ToSpeaker : mem[a] # Junk => mem'[a] # Junk
    BY <1>2, <2>4, <2>5, <2>6
  <2> QED
    BY <2>1, <2>7 DEF micVars, FilledInv
<1>12. CASE SpkWrite
  <2>1. /\ Clean /\ UNCHANGED <<mem, micVars, buffer>> /\ spk = "copy"
        /\ played' = [i \in 1 .. SPKR_BUF_SIZE |-> mem[BUF_SIZE + i - 1]]
    BY <1>12 DEF SpkWrite, micVars, Clean
  <2>2. \A i \in 1 .. SPKR_BUF_SIZE : BUF_SIZE + i - 1 \in ToSpeaker
    BY Sizes DEF SPKR_BUF_SIZE, ToSpeaker
  <2>3. \A i \in DOMAIN played' : played'[i] # Junk
    BY <2>1, <2>2 DEF FilledInv
  <2> QED
    BY <1>12, <2>1, <2>3 DEF SpkWrite, micVars, FilledInv
<1>13. CASE UNCHANGED vars
  BY <1>13 DEF vars, micVars, spkVars, FilledInv, Clean
<1> QED
  BY <1>4, <1>5, <1>6, <1>7, <1>8, <1>9, <1>10, <1>11, <1>12, <1>13
  DEF Next, MicWork, Speaker

(* What is played was captured, or silence at the start, while the reads   *)
(* are whole: each period that is moved to to_speaker was copied in full   *)
(* (button_test.c:133-151, 160-163), from a ring that was cleared before   *)
(* the first sample was counted.                                           *)
THEOREM OnlySamplesPlayed == Spec => []NoJunkPlayed
<1>1. Init => CounterInv /\ FilledInv
  BY DEF Init, CounterInv, FilledInv
<1>2. FilledInv => NoJunkPlayed
  BY DEF FilledInv, NoJunkPlayed
<1> QED
  BY <1>1, <1>2, WholeInit, WholeStep, CounterStep, FilledStep, TypeCorrect, PTL DEF Spec
=============================================================================
