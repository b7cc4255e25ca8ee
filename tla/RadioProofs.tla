---------------------------- MODULE RadioProofs ----------------------------
(***************************************************************************)
(* Theorems about the two threads of rf24.c and the chip, for any calls of *)
(* the application, any packets and FIFO sizes, and both kinds of length.  *)
(***************************************************************************)
EXTENDS Radio, SequenceTheorems, TLAPS

(* How often a call still writes the TX FIFO: never or once.  Neither the  *)
(* payloads nor the calls that empty the RX FIFO outnumber the calls.      *)
WriteInv ==
  /\ app.written <= app.ops /\ app.emptying <= app.ops
  /\ \A i \in 1 .. Len(app.todo) :
       app.todo[i] = "write_payload" => app.written < app.ops
  /\ \A i, j \in 1 .. Len(app.todo) :
       app.todo[i] = "write_payload" /\ app.todo[j] = "write_payload" => i = j

(* A list of steps a call may begin with.                                  *)
OneWrite(s) ==
  /\ s \in Seq(StepNames)
  /\ \A i \in 1 .. Len(s) : s[i] # "create_thread"
  /\ \A i, j \in 1 .. Len(s) : s[i] = "write_payload" /\ s[j] = "write_payload" => i = j

LEMMA Constants ==
  /\ MaxOps \in Nat /\ MaxPackets \in Nat
  /\ FifoDepth \in Nat /\ FifoDepth >= 1 /\ QSize \in Nat /\ QSize >= 1
  /\ NoQueue \notin Seq(Nat)
  BY RadioAssumption

(* Lists of steps that neither write the TX FIFO nor create the thread.    *)
Quiet == StepNames \ {"write_payload", "create_thread"}

LEMMA Tuples ==
  ASSUME NEW S, NEW a \in S, NEW b \in S, NEW c \in S, NEW d \in S, NEW e \in S
  PROVE  /\ <<a>> \in Seq(S)
         /\ <<a, b>> \in Seq(S)
         /\ <<a, b, c>> \in Seq(S)
         /\ <<a, b, c, d>> \in Seq(S)
         /\ <<a, b, c, d, e>> \in Seq(S)
  OBVIOUS

LEMMA QuietOnce ==
  ASSUME NEW s \in Seq(Quiet)
  PROVE  OneWrite(s)
<1>1. \A i \in 1 .. Len(s) : s[i] \in Quiet
  OBVIOUS
<1>2. s \in Seq(StepNames)
  BY DEF Quiet
<1> QED
  BY <1>1, <1>2 DEF OneWrite, Quiet

LEMMA WhichPart ==
  ASSUME NEW s \in Seq(StepNames), NEW t \in Seq(StepNames)
  PROVE  /\ s \o t \in Seq(StepNames)
         /\ Len(s) \in Nat
         /\ \A i \in 1 .. Len(s \o t) :
              \/ i \in 1 .. Len(s) /\ (s \o t)[i] = s[i]
              \/ i - Len(s) \in 1 .. Len(t) /\ (s \o t)[i] = t[i - Len(s)]
  OBVIOUS

LEMMA Joined ==
  ASSUME NEW s, NEW t
  PROVE  /\ s \in Seq(Quiet) /\ t \in Seq(Quiet) => s \o t \in Seq(Quiet)
         /\ s \in Seq(Quiet) /\ OneWrite(t) => OneWrite(s \o t)
         /\ OneWrite(s) /\ t \in Seq(Quiet) => OneWrite(s \o t)
<1>1. s \in Seq(Quiet) => OneWrite(s) /\ \A i \in 1 .. Len(s) : s[i] # "write_payload"
  BY QuietOnce DEF Quiet
<1>2. t \in Seq(Quiet) => OneWrite(t) /\ \A i \in 1 .. Len(t) : t[i] # "write_payload"
  BY QuietOnce DEF Quiet
<1>3. s \in Seq(Quiet) /\ t \in Seq(Quiet) => s \o t \in Seq(Quiet)
  OBVIOUS
<1>4. s \in Seq(Quiet) /\ OneWrite(t) => OneWrite(s \o t)
  <2> SUFFICES ASSUME s \in Seq(Quiet), OneWrite(t) PROVE OneWrite(s \o t)
    OBVIOUS
  <2>1. s \in Seq(StepNames) /\ t \in Seq(StepNames)
    BY <1>1 DEF OneWrite
  <2>2. \A i \in 1 .. Len(s \o t) :
          /\ (s \o t)[i] # "create_thread"
          /\ (s \o t)[i] = "write_payload" =>
               i - Len(s) \in 1 .. Len(t) /\ t[i - Len(s)] = "write_payload"
    BY <1>1, <2>1, WhichPart DEF OneWrite
  <2>3. \A i, j \in 1 .. Len(s \o t) :
          (s \o t)[i] = "write_payload" /\ (s \o t)[j] = "write_payload"
            => i - Len(s) = j - Len(s)
    BY <2>2 DEF OneWrite
  <2>4. s \o t \in Seq(StepNames) /\ Len(s) \in Nat
    BY <2>1, WhichPart
  <2> QED
    BY <2>2, <2>3, <2>4 DEF OneWrite
<1>5. OneWrite(s) /\ t \in Seq(Quiet) => OneWrite(s \o t)
  <2> SUFFICES ASSUME OneWrite(s), t \in Seq(Quiet) PROVE OneWrite(s \o t)
    OBVIOUS
  <2>1. s \in Seq(StepNames) /\ t \in Seq(StepNames)
    BY <1>2 DEF OneWrite
  <2>2. \A i \in 1 .. Len(s \o t) :
          /\ (s \o t)[i] # "create_thread"
          /\ (s \o t)[i] = "write_payload" => i \in 1 .. Len(s) /\ s[i] = "write_payload"
    BY <1>2, <2>1, WhichPart DEF OneWrite
  <2> QED
    BY <2>1, <2>2, WhichPart DEF OneWrite
<1> QED
  BY <1>3, <1>4, <1>5

LEMMA QuietNames ==
  /\ OneStep \subseteq Quiet
  /\ {"ce_low", "ce_high", "clear_flags", "clear_rx_dr", "direct_read", "flush_rx",
      "flush_tx", "config_rx", "config_tx", "rst_cfg", "listening", "not_listening",
      "create_queue", "poll_outcome", "getStatus"} \subseteq Quiet
  BY DEF Quiet, StepNames, OneStep

LEMMA QuietLists ==
  /\ rf24_startListening \in Seq(Quiet)
  /\ rf24_stopListening \in Seq(Quiet)
  /\ setDefaults \in Seq(Quiet)
  /\ rf24_resetcfg \in Seq(Quiet)
  /\ read_payload \in Seq(Quiet)
<1>1. rf24_startListening \in Seq(Quiet)
  BY QuietNames, Tuples DEF rf24_startListening
<1>2. rf24_stopListening \in Seq(Quiet)
  BY QuietNames, Tuples DEF rf24_stopListening
<1>3. setDefaults \in Seq(Quiet)
  BY QuietNames, Tuples DEF setDefaults
<1>4. <<"rst_cfg">> \in Seq(Quiet)
  BY QuietNames, Tuples
<1>5. rf24_resetcfg \in Seq(Quiet)
  BY <1>3, <1>4, Joined DEF rf24_resetcfg
<1>6. read_payload \in Seq(Quiet)
  BY QuietNames, Tuples DEF read_payload
<1> QED
  BY <1>1, <1>2, <1>3, <1>5, <1>6

LEMMA InitSteps ==
  /\ rf24_init_radio \in Seq(StepNames)
  /\ Len(rf24_init_radio) = 7
  /\ rf24_init_radio[1] = "ce_low"
  /\ rf24_init_radio[2] = "clear_flags"
  /\ rf24_init_radio[3] = "flush_rx"
  /\ rf24_init_radio[4] = "flush_tx"
  /\ rf24_init_radio[5] = "not_listening"
  /\ rf24_init_radio[6] = "create_thread"
  /\ rf24_init_radio[7] = "create_queue"
<1>1. \A i \in 1 .. 7 : rf24_init_radio[i] =
        IF i <= 5 THEN setDefaults[i] ELSE <<"create_thread", "create_queue">>[i - 5]
  BY DEF rf24_init_radio, setDefaults
<1>2. setDefaults \in Seq(StepNames) /\ <<"create_thread", "create_queue">> \in Seq(StepNames)
  BY Tuples DEF setDefaults, StepNames
<1>3. rf24_init_radio \in Seq(StepNames)
  BY <1>2 DEF rf24_init_radio
<1> QED
  BY <1>1, <1>3 DEF rf24_init_radio, setDefaults

LEMMA WriteOnce == \A op \in Calls : OneWrite(Steps(op))
<1>1. OneWrite(TransmitOnly)
  <2>1. TransmitOnly \in Seq(StepNames)
    BY Tuples DEF TransmitOnly, StepNames
  <2> QED
    BY <2>1 DEF OneWrite, TransmitOnly
<1>2. <<"ce_low">> \in Seq(Quiet) /\ <<"poll_outcome", "getStatus">> \in Seq(Quiet)
  BY QuietNames, Tuples
<1>3. OneWrite(<<"ce_low">> \o TransmitOnly)
  BY <1>1, <1>2, Joined
<1>4. OneWrite(<<"ce_low">> \o TransmitOnly \o rf24_startListening)
  BY <1>3, QuietLists, Joined
<1>5. OneWrite(transmit_payload)
  BY <1>1, <1>4 DEF transmit_payload
<1>6. OneWrite(rf24_write)
  BY <1>2, <1>5, Joined DEF rf24_write
<1>7. \A op \in OneStep : OneWrite(<<op>>)
  BY QuietNames, Tuples, QuietOnce
<1>8. /\ OneWrite(rf24_startListening)
      /\ OneWrite(rf24_stopListening)
      /\ OneWrite(rf24_resetcfg)
  BY QuietLists, QuietOnce
<1> QED
  BY <1>5, <1>6, <1>7, <1>8 DEF Steps, Calls, OneStep
-----------------------------------------------------------------------------
(* Types.                                                                  *)
ChipOK ==
  /\ chip \in ChipType
  /\ Len(chip.rx) <= FifoDepth /\ Len(chip.tx) <= FifoDepth
  /\ chip.sending => chip.tx # <<>>

AppOK == app \in AppType /\ WriteInv

QueueOK ==
  /\ isr \in IsrType
  /\ packets = NoQueue \/ (packets \in Seq(Packets) /\ Len(packets) <= QSize)
  /\ delivered \in DeliveredType

Types == ChipOK /\ AppOK /\ QueueOK

LEMMA TypesInit == Init => Types
<1> SUFFICES ASSUME Init PROVE Types
  OBVIOUS
<1>1. ChipOK
  <2>1. chip \in [ce : BOOLEAN, config : SUBSET Powers, flags : SUBSET Flags, edge : {FALSE},
                  rx : {<<>>, <<Junk>>}, tx : {<<>>, <<Junk>>}, sending : {FALSE},
                  air : {0}, acked : {{}}]
    BY DEF Init
  <2>2. /\ chip.rx \in {<<>>, <<Junk>>} /\ chip.tx \in {<<>>, <<Junk>>}
        /\ chip.sending = FALSE /\ chip.air = 0 /\ chip.acked = {} /\ chip.edge = FALSE
    BY <2>1
  <2>3. /\ chip.rx \in Seq(Packets) /\ Len(chip.rx) <= 1
        /\ chip.tx \in Seq(Payloads) /\ Len(chip.tx) <= 1
    <3>1. Junk \in Packets /\ Junk \in Payloads
      BY Constants DEF Packets, Payloads, Junk
    <3>2. <<Junk>> \in Seq(Packets) /\ <<Junk>> \in Seq(Payloads) /\ Len(<<Junk>>) <= 1
      BY <3>1
    <3>3. \A q \in {<<>>, <<Junk>>} : q \in Seq(Packets) /\ q \in Seq(Payloads) /\ Len(q) <= 1
      <4>1. <<>> \in Seq(Packets) /\ <<>> \in Seq(Payloads) /\ Len(<<>>) <= 1
        OBVIOUS
      <4> QED
        BY <3>2, <4>1, Zenon
    <3> QED
      BY <2>2, <3>3
  <2>4. chip.air \in Packets
    BY <2>2, Constants DEF Packets
  <2>5. chip \in ChipType
    BY <2>1, <2>2, <2>3, <2>4 DEF ChipType
  <2> QED
    BY <2>2, <2>3, <2>5, Constants DEF ChipOK
<1>2. AppOK
  <2>1. app.todo \in Seq(StepNames)
    BY InitSteps DEF Init
  <2>2. \A i \in 1 .. Len(app.todo) : app.todo[i] # "write_payload"
    <3>1. \A i \in 1 .. 7 : i = 1 \/ i = 2 \/ i = 3 \/ i = 4 \/ i = 5 \/ i = 6 \/ i = 7
      OBVIOUS
    <3>2. app.todo = rf24_init_radio
      BY DEF Init
    <3>3. \A i \in 1 .. 7 : rf24_init_radio[i] # "write_payload"
      BY <3>1, InitSteps
    <3> QED
      BY <3>2, <3>3, InitSteps
  <2> QED
    BY <2>1, <2>2, Constants DEF Init, AppOK, AppType, WriteInv, Payloads
<1>3. QueueOK
  <2>1. <<>> \in Seq(Packets)
    OBVIOUS
  <2> QED
    BY <2>1, Constants DEF Init, QueueOK, IsrType, DeliveredType, Packets
<1> QED
  BY <1>1, <1>2, <1>3 DEF Types

(* A step done is a step fewer, and a write done is the last of its call.  *)
LEMMA Advance ==
  ASSUME AppOK, app.todo # <<>>,
         app'.todo = Tail(app.todo), app'.ops = app.ops, app'.emptying = app.emptying,
         \/ app'.written = app.written
         \/ app'.written = app.written + 1 /\ Head(app.todo) = "write_payload"
  PROVE  /\ app'.todo \in Seq(StepNames)
         /\ app'.written \in Payloads
         /\ WriteInv'
<1> USE DEF AppOK, AppType, WriteInv, Payloads
<1>1. /\ app.todo \in Seq(StepNames) /\ app.ops \in 0 .. MaxOps /\ app.written \in 0 .. MaxOps
      /\ MaxOps \in Nat
  BY Constants
<1>2. /\ app'.todo \in Seq(StepNames)
      /\ Len(app'.todo) = Len(app.todo) - 1
      /\ \A i \in 1 .. Len(app'.todo) : i + 1 \in 1 .. Len(app.todo) /\ app'.todo[i] = app.todo[i + 1]
  BY <1>1
<1>3. Len(app.todo) > 0 /\ Head(app.todo) = app.todo[1] /\ 1 \in 1 .. Len(app.todo)
  BY <1>1
<1>4. \A i, j \in 1 .. Len(app'.todo) :
        app'.todo[i] = "write_payload" /\ app'.todo[j] = "write_payload" => i = j
  <2> SUFFICES ASSUME NEW i \in 1 .. Len(app'.todo), NEW j \in 1 .. Len(app'.todo),
                      app'.todo[i] = "write_payload", app'.todo[j] = "write_payload"
               PROVE  i = j
    OBVIOUS
  <2>1. i + 1 = j + 1
    BY <1>2
  <2> QED
    BY <2>1, <1>2
<1>5. CASE app'.written = app.written
  <2>1. \A i \in 1 .. Len(app'.todo) :
          app'.todo[i] = "write_payload" => app'.written < app'.ops
    BY <1>2, <1>5
  <2> QED
    BY <1>1, <1>2, <1>4, <1>5, <2>1
<1>6. CASE app'.written = app.written + 1 /\ Head(app.todo) = "write_payload"
  <2>1. \A i \in 1 .. Len(app'.todo) : app'.todo[i] # "write_payload"
    <3> SUFFICES ASSUME NEW i \in 1 .. Len(app'.todo), app'.todo[i] = "write_payload"
                 PROVE  FALSE
      OBVIOUS
    <3>1. i + 1 = 1
      BY <1>2, <1>3, <1>6
    <3> QED
      BY <3>1, <1>2
  <2>2. app.written < app.ops
    BY <1>3, <1>6
  <2> QED
    BY <1>1, <1>2, <1>4, <1>6, <2>1, <2>2
<1> QED
  BY <1>5, <1>6

LEMMA RaiseOK ==
  ASSUME NEW c \in ChipType, NEW f \in Flags
  PROVE  /\ Raise(c, f) \in ChipType
         /\ Raise(c, f) = [c EXCEPT !.flags = @ \cup {f}, !.edge = @ \/ c.flags = {}]
  BY DEF Raise, ChipType

LEMMA ChipTypes ==
  ASSUME ChipOK, Types, Chip
  PROVE  ChipOK'
<1> USE Constants DEF ChipOK, ChipType, Packets, Payloads
<1>0. chip \in ChipType
  OBVIOUS
<1>1. CASE Arrive
  <2>1. chip.rx \in Seq(Packets) /\ chip.air + 1 \in Packets
    BY <1>1 DEF Arrive
  <2>2. Append(chip.rx, chip.air + 1) \in Seq(Packets)
        /\ Len(Append(chip.rx, chip.air + 1)) = Len(chip.rx) + 1
    BY <2>1
  <2>3. chip' = [chip EXCEPT !.air = @ + 1, !.rx = Append(@, chip.air + 1),
                             !.flags = @ \cup {"RX_DR"}, !.edge = @ \/ chip.flags = {}]
    BY <1>0, <1>1 DEF Arrive, Raise
  <2>4. /\ chip'.flags \subseteq Flags /\ chip'.edge \in BOOLEAN
        /\ chip'.rx = Append(chip.rx, chip.air + 1) /\ chip'.air = chip.air + 1
        /\ chip'.tx = chip.tx /\ chip'.sending = chip.sending
    BY <1>0, <2>3 DEF Flags
  <2>5. chip' \in ChipType
    BY <1>0, <2>1, <2>2, <2>3, <2>4
  <2>6. Len(chip'.rx) <= FifoDepth
    BY <1>1, <2>2, <2>4 DEF Arrive
  <2> QED
    BY <2>4, <2>5, <2>6
<1>2. CASE TxStart
  BY <1>2 DEF TxStart, TxReady
<1>3. CASE TxDone
  <2>1. /\ Tail(chip.tx) \in Seq(Payloads) /\ Len(Tail(chip.tx)) <= Len(chip.tx)
        /\ Head(chip.tx) \in Payloads
    BY <1>3 DEF TxDone
  <2>2. chip' = [chip EXCEPT !.sending = FALSE, !.tx = Tail(@), !.acked = @ \cup {Head(chip.tx)},
                             !.flags = @ \cup {"TX_DS"}, !.edge = @ \/ chip.flags = {}]
    BY <1>0, <1>3 DEF TxDone, Raise
  <2>3. /\ chip'.flags \subseteq Flags /\ chip'.edge \in BOOLEAN
        /\ chip'.rx = chip.rx /\ chip'.tx = Tail(chip.tx) /\ chip'.sending = FALSE
        /\ chip'.acked \subseteq Payloads
    BY <1>0, <2>1, <2>2 DEF Flags
  <2>4. chip' \in ChipType
    BY <1>0, <2>1, <2>2, <2>3
  <2> QED
    BY <2>1, <2>3, <2>4
<1>4. CASE TxFail
  BY <1>4 DEF TxFail, Raise, Flags
<1> QED
  BY <1>1, <1>2, <1>3, <1>4 DEF Chip

LEMMA AppTypes ==
  ASSUME Types, Call \/ AppStep
  PROVE  AppOK'
<1>0. app \in AppType /\ app.todo \in Seq(StepNames) /\ AppOK /\ WriteInv
  BY DEF Types, AppOK, AppType
<1>1. CASE Call
  <2>1. PICK op \in Ops : app' = [app EXCEPT !.ops = @ + 1, !.todo = Steps(op),
                                 !.emptying = IF op \in Emptying THEN @ + 1 ELSE @]
    BY <1>1 DEF Call
  <2>2. OneWrite(Steps(op))
    BY WriteOnce, RadioAssumption
  <2>3. /\ app'.ops = app.ops + 1 /\ app'.todo = Steps(op) /\ app'.written = app.written
        /\ app'.emptying = app.emptying \/ app'.emptying = app.emptying + 1
    BY <1>0, <2>1 DEF AppType
  <2>4. /\ app'.ops \in 0 .. MaxOps /\ app.written < app'.ops /\ app'.ops \in Nat
        /\ app'.emptying \in 0 .. MaxOps /\ app'.emptying <= app'.ops
    <3>1. /\ app.ops < MaxOps /\ app.ops \in 0 .. MaxOps /\ app.written <= app.ops
          /\ app.written \in 0 .. MaxOps
          /\ app.emptying \in 0 .. MaxOps /\ app.emptying <= app.ops
      BY <1>0, <1>1 DEF Call, AppType, WriteInv, Payloads
    <3> QED
      BY <2>3, <3>1, Constants
  <2>5. app' \in AppType
    BY <1>0, <2>1, <2>2, <2>3, <2>4 DEF AppType, OneWrite
  <2>6. WriteInv'
    <3>1. app.written \in Nat /\ app'.written < app'.ops
      BY <1>0, <2>3, <2>4, Constants DEF AppType, Payloads
    <3>2. app'.written <= app'.ops
      BY <2>3, <2>4, <3>1
    <3>3. \A i, j \in 1 .. Len(app'.todo) :
            app'.todo[i] = "write_payload" /\ app'.todo[j] = "write_payload" => i = j
      BY <2>2, <2>3 DEF OneWrite
    <3> QED
      BY <2>4, <3>1, <3>2, <3>3 DEF WriteInv
  <2> QED
    BY <2>5, <2>6 DEF AppOK
<1>2. CASE DirectTest
  <2>1. read_payload \in Seq(StepNames) /\ <<>> \in Seq(StepNames)
        /\ \A i \in 1 .. Len(read_payload) : read_payload[i] # "write_payload"
    <3>1. read_payload \in Seq(Quiet)
      BY QuietLists
    <3> QED
      BY <3>1 DEF Quiet
  <2>2. app'.todo \in {<<>>, read_payload}
        /\ app' = [app EXCEPT !.todo = app'.todo]
    BY <1>0, <1>2 DEF DirectTest, AppType
  <2>3. app'.ops = app.ops /\ app'.written = app.written /\ app'.emptying = app.emptying
    BY <1>0, <2>2 DEF AppType
  <2>4. app' \in AppType
    BY <1>0, <2>1, <2>2 DEF AppType
  <2> QED
    BY <1>0, <2>1, <2>2, <2>3, <2>4 DEF AppOK, WriteInv
<1>3. CASE \/ ChipStep \/ DirectRead \/ SetListening \/ CreateThread \/ CreateQueue
           \/ write_payload \/ PollOutcome \/ rf24_getStatus \/ rf24_recv
  <2>1. app.todo # <<>>
    BY <1>3 DEF ChipStep, DirectRead, SetListening, CreateThread, CreateQueue, write_payload,
                PollOutcome, AwaitOutcome, Timeout, rf24_getStatus, rf24_recv, At
  <2>2. /\ app'.todo = Tail(app.todo) /\ app'.ops = app.ops /\ app'.emptying = app.emptying
        /\ app'.listening \in BOOLEAN /\ app'.ok \in BOOLEAN /\ app'.reached \in BOOLEAN
        /\ app' = [app EXCEPT !.todo = app'.todo, !.written = app'.written,
                              !.listening = app'.listening, !.ok = app'.ok,
                              !.reached = app'.reached]
    <3>1. CASE \/ ChipStep \/ DirectRead \/ CreateThread \/ CreateQueue \/ PollOutcome
               \/ rf24_recv
      <4>1. app' = Done(app)
        BY <3>1 DEF ChipStep, DirectRead, CreateThread, CreateQueue, PollOutcome, AwaitOutcome,
                    Timeout, rf24_recv
      <4> QED
        BY <1>0, <4>1 DEF Done, AppType
    <3>2. CASE SetListening
      BY <1>0, <3>2 DEF SetListening, Done, AppType
    <3>3. CASE write_payload
      BY <1>0, <3>3 DEF write_payload, Done, AppType
    <3>4. CASE rf24_getStatus
      <4>1. app' = [app EXCEPT !.todo = Tail(@), !.ok = "TX_DS" \in chip.flags,
                               !.reached = app.written \in chip.acked]
        BY <1>0, <3>4 DEF rf24_getStatus, Done, AppType
      <4>2. /\ app'.todo = Tail(app.todo) /\ app'.ops = app.ops /\ app'.written = app.written
            /\ app'.listening = app.listening /\ app'.emptying = app.emptying
        BY <1>0, <4>1 DEF AppType
      <4>3. app'.ok \in BOOLEAN /\ app'.reached \in BOOLEAN
        BY <1>0, <4>1 DEF AppType
      <4>4. app' = [app EXCEPT !.todo = app'.todo, !.ok = app'.ok, !.reached = app'.reached]
        BY <1>0, <4>1 DEF AppType
      <4> QED
        BY <1>0, <4>2, <4>3, <4>4 DEF AppType
    <3> QED
      BY <1>3, <3>1, <3>2, <3>3, <3>4
  <2>3. \/ app'.written = app.written
        \/ app'.written = app.written + 1 /\ Head(app.todo) = "write_payload"
    BY <1>0, <1>3 DEF ChipStep, DirectRead, SetListening, CreateThread, CreateQueue,
         write_payload, PollOutcome, AwaitOutcome, Timeout, rf24_getStatus, rf24_recv, At, Done,
         AppType
  <2>4. app'.todo \in Seq(StepNames) /\ app'.written \in Payloads /\ WriteInv'
    BY <1>0, <2>1, <2>2, <2>3, Advance
  <2>5. app' \in AppType
    BY <1>0, <2>2, <2>4 DEF AppType
  <2> QED
    BY <2>4, <2>5 DEF AppOK
<1> QED
  BY <1>1, <1>2, <1>3 DEF AppStep

(* What a transaction leaves of the chip.                                  *)
LEMMA TransactionTypes ==
  ASSUME ChipOK,
         \/ chip' = enable_radio(chip) \/ chip' = disable_radio(chip)
         \/ \E fs \in SUBSET Flags : chip' = ClearFlags(chip, fs)
         \/ chip' = flush_rx(chip) \/ chip' = flush_tx(chip)
         \/ \E bits \in SUBSET Powers : chip' = WriteConfig(chip, bits)
         \/ chip' = read_rx(chip)
         \/ \E e \in BOOLEAN : chip' = [chip EXCEPT !.edge = e]
  PROVE  ChipOK'
<1> USE DEF ChipOK
<1>0. /\ chip \in ChipType
      /\ chip.rx \in Seq(Packets) /\ chip.tx \in Seq(Payloads)
  BY DEF ChipType
<1>1. CASE \/ chip' = enable_radio(chip) \/ chip' = disable_radio(chip)
           \/ \E e \in BOOLEAN : chip' = [chip EXCEPT !.edge = e]
  BY <1>0, <1>1 DEF enable_radio, disable_radio, ChipType
<1>2. CASE \E fs \in SUBSET Flags : chip' = ClearFlags(chip, fs)
  BY <1>0, <1>2 DEF ClearFlags, ChipType
<1>3. CASE chip' = flush_rx(chip) \/ chip' = flush_tx(chip)
  <2>1. /\ <<>> \in Seq(Packets) /\ <<>> \in Seq(Payloads) /\ Len(<<>>) <= FifoDepth
    BY Constants
  <2> QED
    BY <1>0, <1>3, <2>1 DEF flush_rx, flush_tx, ChipType
<1>4. CASE \E bits \in SUBSET Powers : chip' = WriteConfig(chip, bits)
  <2>1. PICK bits \in SUBSET Powers :
          chip' = [chip EXCEPT !.config = bits, !.sending = @ /\ "PWR_UP" \in bits]
    BY <1>4 DEF WriteConfig
  <2>2. /\ chip'.rx = chip.rx /\ chip'.tx = chip.tx /\ chip'.sending \in BOOLEAN
        /\ chip'.sending => chip.sending
    BY <1>0, <2>1 DEF ChipType
  <2>3. chip' \in ChipType
    BY <1>0, <2>1, <2>2 DEF ChipType
  <2> QED
    BY <2>2, <2>3
<1>5. CASE chip' = read_rx(chip)
  <2>1. chip.rx # <<>> => Tail(chip.rx) \in Seq(Packets) /\ Len(Tail(chip.rx)) <= Len(chip.rx)
    BY <1>0
  <2>2. /\ chip'.rx \in Seq(Packets) /\ Len(chip'.rx) <= FifoDepth
        /\ chip'.tx = chip.tx /\ chip'.sending = chip.sending
        /\ chip' = [chip EXCEPT !.rx = chip'.rx]
    <3>1. chip'.tx = chip.tx /\ chip'.sending = chip.sending
          /\ chip'.rx = IF chip.rx = <<>> THEN chip.rx ELSE Tail(chip.rx)
      BY <1>0, <1>5 DEF read_rx, ChipType
    <3>2. chip' = [chip EXCEPT !.rx = chip'.rx]
      BY <1>0, <1>5, <3>1 DEF read_rx, ChipType
    <3>3. Len(chip.rx) \in Nat /\ (chip.rx # <<>> => Len(Tail(chip.rx)) \in Nat)
      BY <1>0, <2>1
    <3> QED
      BY <1>0, <2>1, <3>1, <3>2, <3>3, Constants
  <2>3. chip' \in ChipType
    BY <1>0, <2>2 DEF ChipType
  <2> QED
    BY <2>2, <2>3
<1> QED
  BY <1>1, <1>2, <1>3, <1>4, <1>5

LEMMA AppChipTypes ==
  ASSUME Types, AppStep
  PROVE  ChipOK'
<1>0. ChipOK /\ chip \in ChipType
  BY DEF Types, ChipOK
<1>1. CASE ChipStep
  <2>1. chip.config \in SUBSET Powers /\ Flags \in SUBSET Flags /\ {"RX_DR"} \in SUBSET Flags
    BY <1>0 DEF ChipType, Flags
  <2>2. /\ Powers \in SUBSET Powers /\ chip.config \ {"PRIM_RX"} \in SUBSET Powers
        /\ chip.config \cup {"PWR_UP"} \in SUBSET Powers
        /\ chip.config \ {"PWR_UP"} \in SUBSET Powers
    BY <2>1 DEF Powers
  <2> QED
    BY <1>0, <1>1, <2>1, <2>2, TransactionTypes, Zenon DEF ChipStep
<1>2. CASE CreateThread \/ DirectRead
  BY <1>0, <1>2, TransactionTypes DEF CreateThread, DirectRead
<1>3. CASE write_payload
  <2>1. app.written + 1 \in Payloads
    <3>1. app' \in AppType /\ app \in AppType
      BY <1>3, AppTypes DEF AppStep, AppOK, Types
    <3>2. app'.written = app.written + 1
      BY <1>3, <3>1 DEF write_payload, Done, AppType
    <3> QED
      BY <3>1, <3>2 DEF AppType
  <2>2. CASE Len(chip.tx) < FifoDepth
    <3>1. chip' = [chip EXCEPT !.tx = Append(@, app.written + 1)]
      BY <1>3, <2>2 DEF write_payload, WritePayload
    <3>2. chip.tx \in Seq(Payloads)
      BY <1>0 DEF ChipType
    <3> DEFINE tx == Append(chip.tx, app.written + 1)
    <3>3. tx \in Seq(Payloads) /\ Len(tx) <= FifoDepth /\ tx # <<>>
      <4>1. tx \in Seq(Payloads) /\ Len(tx) = Len(chip.tx) + 1 /\ Len(chip.tx) \in Nat
        BY <2>1, <3>2
      <4> HIDE DEF tx
      <4>2. tx # <<>>
        BY <4>1
      <4> QED
        BY <2>2, <4>1, <4>2, Constants
    <3> QED
      BY <1>0, <3>1, <3>3 DEF ChipOK, ChipType
  <2>3. CASE ~ (Len(chip.tx) < FifoDepth)
    BY <1>0, <1>3, <2>3 DEF write_payload, WritePayload, ChipOK
  <2> QED
    BY <2>2, <2>3
<1>4. CASE \/ DirectTest \/ SetListening \/ CreateQueue
           \/ PollOutcome \/ rf24_getStatus \/ rf24_recv
  BY <1>0, <1>4 DEF DirectTest, SetListening, CreateQueue, PollOutcome, AwaitOutcome,
                    Timeout, rf24_getStatus, rf24_recv, ChipOK
<1> QED
  BY <1>1, <1>2, <1>3, <1>4 DEF AppStep

LEMMA IsrChipTypes ==
  ASSUME Types, IsrStep
  PROVE  ChipOK'
<1>0. ChipOK /\ chip \in ChipType
  BY DEF Types, ChipOK
<1>1. CASE IsrWake
  BY <1>0, <1>1, TransactionTypes DEF IsrWake
<1>2. CASE IsrFlush
  BY <1>0, <1>2, TransactionTypes DEF IsrFlush
<1>3. CASE IsrDisable \/ IsrEnable
  BY <1>0, <1>3, TransactionTypes DEF IsrDisable, IsrEnable
<1>4. CASE IsrRead
  BY <1>0, <1>4, TransactionTypes DEF IsrRead
<1>5. CASE IsrClearOne \/ IsrClear
  <2>1. {"RX_DR"} \in SUBSET Flags
    BY DEF Flags
  <2> QED
    BY <1>0, <1>5, <2>1, TransactionTypes DEF IsrClearOne, IsrClear
<1>6. CASE IsrTxDs
  <2>1. isr.peeked \cap {"TX_DS"} \in SUBSET Flags
    BY DEF Flags
  <2> QED
    BY <1>0, <1>6, <2>1, TransactionTypes DEF IsrTxDs
<1>7. CASE IsrPeek \/ IsrTest \/ IsrLength \/ IsrAdd
  BY <1>0, <1>7 DEF IsrPeek, IsrTest, IsrLength, IsrAdd, ChipOK
<1> QED
  BY <1>1, <1>2, <1>3, <1>4, <1>5, <1>6, <1>7 DEF IsrStep

-----------------------------------------------------------------------------
(* Until the queue exists, the application is in rf24_init_radio, which    *)
(* has Left steps to go, and has kept the chip from receiving and sending; *)
(* so the interrupt thread, once created, has found no flag.               *)
Left == Len(app.todo)

InitLeft == \A i \in 1 .. Left : app.todo[i] = rf24_init_radio[i + (7 - Left)]

BootInv ==
  packets = NoQueue =>
    /\ Left \in 1 .. 7
    /\ InitLeft
    /\ ~ chip.sending
    /\ Left = 7 => ~ TxReady(chip)
    /\ Left < 7 => ~ chip.ce
    /\ Left < 6 => chip.flags = {}
    /\ isr.pc \in {"off", "poll", "peek", "txds"}
    /\ isr.pc # "off" => Left = 1

LEMMA BootHead ==
  ASSUME Types, BootInv, packets = NoQueue
  PROVE  /\ app.todo \in Seq(StepNames) /\ app.todo # <<>>
         /\ Head(app.todo) = rf24_init_radio[8 - Left]
         /\ Len(Tail(app.todo)) = Left - 1
         /\ \A i \in 1 .. Left - 1 : Tail(app.todo)[i] = app.todo[i + 1]
<1>1. app.todo \in Seq(StepNames)
  BY DEF Types, AppOK, AppType
<1>2. Left \in 1 .. 7 /\ \A i \in 1 .. Left : app.todo[i] = rf24_init_radio[i + (7 - Left)]
  BY DEF BootInv, InitLeft
<1>3. app.todo # <<>> /\ Head(app.todo) = app.todo[1]
  <2>1. Len(app.todo) >= 1
    BY <1>2 DEF Left
  <2> QED
    BY <1>1, <2>1
<1>4. app.todo[1] = rf24_init_radio[8 - Left]
  <2>1. 1 \in 1 .. Left /\ 1 + (7 - Left) = 8 - Left
    BY <1>2
  <2> QED
    BY <1>2, <2>1
<1>5. /\ Len(Tail(app.todo)) = Left - 1
      /\ \A i \in 1 .. Left - 1 : Tail(app.todo)[i] = app.todo[i + 1]
  BY <1>1, <1>3 DEF Left
<1> QED
  BY <1>1, <1>3, <1>4, <1>5

LEMMA NoRecvInBoot ==
  ASSUME Types, BootInv, At("recv") \/ At("recv_block")
  PROVE  packets # NoQueue
<1> SUFFICES ASSUME packets = NoQueue PROVE FALSE
  OBVIOUS
<1>1. Left \in 1 .. 7
  BY DEF BootInv
<1>2. Left = 1 \/ Left = 2 \/ Left = 3 \/ Left = 4 \/ Left = 5 \/ Left = 6 \/ Left = 7
  BY <1>1
<1> QED
  BY <1>2, BootHead, InitSteps DEF At

LEMMA BootInit == Init => BootInv
<1> SUFFICES ASSUME Init PROVE BootInv
  OBVIOUS
<1>1. Left = 7 /\ app.todo = rf24_init_radio
  BY InitSteps DEF Init, Left
<1>2. ~ chip.sending /\ ~ TxReady(chip) /\ isr.pc = "off"
  BY DEF Init
<1> QED
  BY <1>1, <1>2 DEF BootInv, InitLeft

(* One more step of rf24_init_radio.                                       *)
LEMMA BootTodo ==
  ASSUME Types, BootInv, packets = NoQueue, app'.todo = Tail(app.todo), Left > 1
  PROVE  /\ Left' = Left - 1 /\ Left' \in 1 .. 7
         /\ InitLeft'
<1>1. Left \in 1 .. 7 /\ \A i \in 1 .. Left : app.todo[i] = rf24_init_radio[i + (7 - Left)]
  BY DEF BootInv, InitLeft
<1>2. /\ Left' = Left - 1 /\ Left' \in 1 .. 7
      /\ \A i \in 1 .. Left' : app'.todo[i] = app.todo[i + 1]
  <2>1. Left' = Len(Tail(app.todo))
    BY DEF Left
  <2>2. Left' = Left - 1
    BY <2>1, BootHead
  <2>3. Left' \in 1 .. 7
    BY <1>1, <2>2
  <2> QED
    BY <2>2, <2>3, BootHead
<1>3. ASSUME NEW i \in 1 .. Left'
      PROVE  app'.todo[i] = rf24_init_radio[i + (7 - Left')]
  <2>1. i + 1 \in 1 .. Left /\ (i + 1) + (7 - Left) = i + (7 - Left')
    BY <1>1, <1>2
  <2> QED
    BY <1>1, <1>2, <2>1
<1> QED
  BY <1>2, <1>3 DEF InitLeft

LEMMA BootChip ==
  ASSUME Types, BootInv, packets = NoQueue, packets' = NoQueue, Chip
  PROVE  BootInv'
<1>1. chip \in ChipType /\ Left \in 1 .. 7 /\ (chip.ce => Left = 7)
  BY DEF Types, ChipOK, BootInv
<1>2. Arrive
  BY <1>1 DEF Chip, TxStart, TxDone, TxFail, BootInv, TxReady
<1>3. /\ app' = app /\ isr' = isr /\ chip'.ce = chip.ce /\ chip'.sending = chip.sending
      /\ chip'.config = chip.config /\ chip.config = Powers /\ chip.ce
  BY <1>1, <1>2 DEF Arrive, Receiving, Raise, ChipType
<1>4. Left' = Left /\ (InitLeft => InitLeft')
  BY <1>3 DEF Left, InitLeft
<1>5. Left = 7 /\ ~ TxReady(chip')
  <2>1. chip'.config # {"PWR_UP"}
    BY <1>3 DEF Powers
  <2> QED
    BY <1>1, <1>3, <2>1 DEF TxReady
<1> QED
  BY <1>3, <1>4, <1>5 DEF BootInv

LEMMA BootApp ==
  ASSUME Types, BootInv, packets = NoQueue, packets' = NoQueue, Call \/ AppStep
  PROVE  BootInv'
<1> DEFINE name == rf24_init_radio[8 - Left]
<1>1. chip \in ChipType /\ isr \in IsrType /\ app \in AppType
  BY DEF Types, ChipOK, AppOK, QueueOK
<1>2. /\ app.todo # <<>> /\ \A s : At(s) => s = name
  BY BootHead DEF At
<1>3. Left = 1 \/ Left = 2 \/ Left = 3 \/ Left = 4 \/ Left = 5 \/ Left = 6 \/ Left = 7
  BY DEF BootInv
<1>4. CASE Left = 1
  <2>1. name = "create_queue"
    BY <1>4, InitSteps
  <2> HIDE DEF name
  <2>2. CreateQueue
    BY <1>2, <2>1 DEF Call, AppStep, ChipStep, DirectTest, DirectRead, SetListening, CreateThread,
         write_payload, PollOutcome, AwaitOutcome, Timeout, rf24_getStatus, rf24_recv
  <2>3. <<>> \in Seq(Nat)
    OBVIOUS
  <2> QED
    BY <2>2, <2>3, Constants DEF CreateQueue
<1>5. CASE Left = 2
  <2>1. name = "create_thread"
    BY <1>5, InitSteps
  <2> HIDE DEF name
  <2>2. CreateThread
    BY <1>2, <2>1 DEF Call, AppStep, ChipStep, DirectTest, DirectRead, SetListening, CreateQueue,
         write_payload, PollOutcome, AwaitOutcome, Timeout, rf24_getStatus, rf24_recv
  <2>3. /\ app'.todo = Tail(app.todo) /\ isr'.pc = "poll" /\ chip'.ce = chip.ce
        /\ chip'.sending = chip.sending /\ chip'.flags = chip.flags
    BY <1>1, <2>2 DEF CreateThread, Done, AppType, IsrType, ChipType
  <2>4. Left' = 1 /\ InitLeft'
    BY <1>5, <2>3, BootTodo
  <2> QED
    BY <1>5, <2>3, <2>4 DEF BootInv
<1>6. CASE Left = 3
  <2>1. name = "not_listening"
    BY <1>6, InitSteps
  <2> HIDE DEF name
  <2>2. SetListening
    BY <1>2, <2>1 DEF Call, AppStep, ChipStep, DirectTest, DirectRead, CreateThread, CreateQueue,
         write_payload, PollOutcome, AwaitOutcome, Timeout, rf24_getStatus, rf24_recv
  <2>3. app'.todo = Tail(app.todo) /\ isr' = isr /\ chip' = chip
    BY <1>1, <2>2 DEF SetListening, Done, AppType
  <2>4. Left' = 2 /\ InitLeft'
    BY <1>6, <2>3, BootTodo
  <2> QED
    BY <1>6, <2>3, <2>4 DEF BootInv
<1>7. CASE Left > 3
  <2>1. /\ Left = 4 => name = "flush_tx"
        /\ Left = 5 => name = "flush_rx"
        /\ Left = 6 => name = "clear_flags"
        /\ Left = 7 => name = "ce_low"
    BY InitSteps
  <2> HIDE DEF name
  <2>2. name \in {"flush_tx", "flush_rx", "clear_flags", "ce_low"}
    BY <1>3, <1>7, <2>1
  <2>3. ChipStep
    BY <1>2, <2>2 DEF Call, AppStep, DirectTest, DirectRead, SetListening, CreateThread, CreateQueue,
         write_payload, PollOutcome, AwaitOutcome, Timeout, rf24_getStatus, rf24_recv
  <2>4. /\ app'.todo = Tail(app.todo) /\ isr' = isr
        /\ \/ name = "flush_tx" /\ chip' = flush_tx(chip)
           \/ name = "flush_rx" /\ chip' = flush_rx(chip)
           \/ name = "clear_flags" /\ chip' = ClearFlags(chip, Flags)
           \/ name = "ce_low" /\ chip' = disable_radio(chip)
    <3>1. app' = Done(app) /\ isr' = isr
      BY <2>3 DEF ChipStep
    <3>2. app'.todo = Tail(app.todo)
      BY <1>1, <3>1 DEF Done, AppType
    <3> QED
      BY <1>2, <2>2, <2>3, <3>1, <3>2 DEF ChipStep
  <2>5. /\ ~ chip.sending /\ (Left < 7 => ~ chip.ce) /\ (Left < 6 => chip.flags = {})
        /\ isr.pc = "off"
    BY <1>7 DEF BootInv
  <2>6. /\ ~ chip'.sending /\ ~ chip'.ce
        /\ Left < 7 => chip'.flags = {}
    <3>1. CASE name = "ce_low"
      <4>1. Left = 7 /\ chip' = disable_radio(chip)
        BY <1>3, <1>7, <2>1, <2>4, <3>1
      <4> QED
        BY <1>1, <2>5, <4>1 DEF disable_radio, ChipType
    <3>2. CASE name = "clear_flags"
      <4>1. chip' = ClearFlags(chip, Flags) /\ Left = 6
        BY <1>3, <1>7, <2>1, <2>4, <3>2
      <4> QED
        BY <1>1, <2>5, <4>1 DEF ClearFlags, ChipType
    <3>3. CASE name \in {"flush_tx", "flush_rx"}
      <4>1. (chip' = flush_tx(chip) \/ chip' = flush_rx(chip)) /\ Left < 6
        BY <1>3, <1>7, <2>1, <2>4, <3>3
      <4>2. ~ chip.ce /\ chip.flags = {}
        BY <1>3, <1>7, <2>5, <4>1
      <4> QED
        BY <1>1, <2>5, <4>1, <4>2 DEF flush_tx, flush_rx, ChipType
    <3> QED
      BY <2>2, <3>1, <3>2, <3>3
  <2>7. /\ Left' = Left - 1 /\ Left' \in 1 .. 7
        /\ InitLeft'
    <3>1. Left > 1
      BY <1>3, <1>7
    <3> QED
      BY <2>4, <3>1, BootTodo
  <2> QED
    BY <1>3, <2>4, <2>5, <2>6, <2>7 DEF BootInv
<1> QED
  BY <1>3, <1>4, <1>5, <1>6, <1>7

LEMMA BootIsr ==
  ASSUME Types, BootInv, packets = NoQueue, packets' = NoQueue, IsrStep
  PROVE  BootInv'
<1>1. /\ chip \in ChipType /\ isr \in IsrType
      /\ isr.pc \in {"off", "poll", "peek", "txds"} /\ (isr.pc # "off" => Left = 1)
  BY DEF Types, ChipOK, QueueOK, BootInv
<1>2. IsrWake \/ IsrPeek \/ IsrTxDs
  BY <1>1 DEF IsrStep, IsrTest, IsrLength, IsrFlush, IsrDisable, IsrRead, IsrClearOne,
              IsrEnable, IsrAdd, IsrClear, Go
<1>3. Left = 1 /\ chip.flags = {} /\ ~ chip.sending /\ ~ chip.ce
  BY <1>1, <1>2 DEF IsrWake, IsrPeek, IsrTxDs, Go, BootInv
<1>4. /\ app' = app /\ isr'.pc \in {"poll", "peek", "txds"}
      /\ chip'.flags = {} /\ ~ chip'.sending /\ ~ chip'.ce
  BY <1>1, <1>2, <1>3 DEF IsrWake, IsrPeek, IsrTxDs, Go, ClearFlags, ChipType, IsrType
<1>5. Left' = Left /\ (InitLeft => InitLeft')
  BY <1>4 DEF Left, InitLeft
<1> QED
  BY <1>3, <1>4, <1>5 DEF BootInv

(* The queue, once created, is there to stay.                              *)
LEMMA QueueStays ==
  ASSUME Types, [Next]_vars, packets # NoQueue
  PROVE  packets' # NoQueue
<1>1. packets \in Seq(Nat)
  <2>1. packets \in Seq(Packets)
    BY DEF Types, QueueOK
  <2>2. Packets \subseteq Nat
    BY Constants DEF Packets
  <2>3. \A i \in 1 .. Len(packets) : packets[i] \in Nat
    <3>1. \A i \in 1 .. Len(packets) : packets[i] \in Packets
      BY <2>1
    <3> QED
      BY <2>2, <3>1
  <2> QED
    BY <2>1, <2>3
<1>2. CASE packets' = packets
  BY <1>2
<1>3. CASE CreateQueue
  <2>1. packets' = <<>> /\ <<>> \in Seq(Nat)
    BY <1>3 DEF CreateQueue
  <2> QED
    BY <2>1, Constants
<1>4. CASE rf24_recv
  <2>1. packets # <<>> => Tail(packets) \in Seq(Nat)
    BY <1>1
  <2> QED
    BY <1>4, <1>2, <2>1, Constants DEF rf24_recv
<1>5. CASE IsrAdd
  <2>1. isr.held \in {<<>>} \cup {<<p>> : p \in Packets} /\ Packets \subseteq Nat
    BY DEF Types, QueueOK, IsrType, Packets
  <2>2. isr.held \in Seq(Nat)
    <3>1. CASE isr.held = <<>>
      BY <3>1
    <3>2. CASE \E p \in Packets : isr.held = <<p>>
      BY <2>1, <3>2
    <3> QED
      BY <2>1, <3>1, <3>2
  <2>3. packets \o isr.held \in Seq(Nat)
    BY <1>1, <2>2
  <2> QED
    BY <1>5, <1>2, <2>3, Constants DEF IsrAdd
<1> QED
  BY <1>2, <1>3, <1>4, <1>5 DEF Next, Chip, Arrive, TxStart, TxDone, TxFail, Call, AppStep,
       ChipStep, DirectTest, DirectRead, SetListening, CreateThread, write_payload, PollOutcome,
       AwaitOutcome, Timeout, rf24_getStatus, IsrStep, IsrWake, IsrPeek, IsrTest, IsrLength,
       IsrFlush, IsrDisable, IsrRead, IsrClearOne, IsrEnable, IsrClear, IsrTxDs, Go, vars

LEMMA BootNext == Types /\ BootInv /\ [Next]_vars => BootInv'
<1> SUFFICES ASSUME Types, BootInv, [Next]_vars, packets' = NoQueue PROVE BootInv'
  BY DEF BootInv
<1>1. packets = NoQueue
  BY QueueStays
<1>2. CASE UNCHANGED vars
  BY <1>2 DEF vars, BootInv, InitLeft, Left, TxReady
<1> QED
  BY <1>1, <1>2, BootChip, BootApp, BootIsr DEF Next

(* What becomes of the steps still to be made: none is made out of turn.   *)
LEMMA TodoNext ==
  ASSUME Types, [Next]_vars
  PROVE  \/ app'.todo = app.todo
         \/ /\ app.todo # <<>> /\ app'.todo = Tail(app.todo)
            /\ \A i \in 1 .. Len(app'.todo) :
                 i + 1 \in 1 .. Len(app.todo) /\ app'.todo[i] = app.todo[i + 1]
         \/ Call /\ \E op \in Ops : app'.todo = Steps(op)
         \/ DirectTest /\ (app'.todo = <<>> \/ app'.todo = read_payload)
<1>1. app \in AppType /\ app.todo \in Seq(StepNames)
  BY DEF Types, AppOK, AppType
<1>2. CASE Call
  <2>1. PICK op \in Ops : app' = [app EXCEPT !.ops = @ + 1, !.todo = Steps(op),
                                 !.emptying = IF op \in Emptying THEN @ + 1 ELSE @]
    BY <1>2 DEF Call
  <2> QED
    BY <1>1, <1>2, <2>1 DEF AppType
<1>3. CASE DirectTest
  BY <1>1, <1>3 DEF DirectTest, AppType
<1>4. CASE \/ ChipStep \/ DirectRead \/ SetListening \/ CreateThread \/ CreateQueue
           \/ write_payload \/ PollOutcome \/ rf24_getStatus \/ rf24_recv
  <2>1. app.todo # <<>> /\ app'.todo = Tail(app.todo)
    BY <1>1, <1>4 DEF ChipStep, DirectRead, SetListening, CreateThread, CreateQueue, write_payload,
       PollOutcome, AwaitOutcome, Timeout, rf24_getStatus, rf24_recv, At, Done, AppType
  <2>2. \A i \in 1 .. Len(app'.todo) :
          i + 1 \in 1 .. Len(app.todo) /\ app'.todo[i] = app.todo[i + 1]
    BY <1>1, <2>1
  <2> QED
    BY <2>1, <2>2
<1>5. CASE Chip \/ IsrStep \/ UNCHANGED vars
  BY <1>5 DEF Chip, Arrive, TxStart, TxDone, TxFail, vars, IsrStep, IsrWake, IsrPeek, IsrTest,
       IsrLength, IsrFlush, IsrDisable, IsrRead, IsrClearOne, IsrEnable, IsrAdd, IsrClear,
       IsrTxDs, Go
<1> QED
  BY <1>2, <1>3, <1>4, <1>5 DEF Next, AppStep

(* rf24_init_radio ends with the creation of the queue.                    *)
LEMMA BootEnds ==
  ASSUME Types, BootInv, [Next]_vars, packets = NoQueue, packets' # NoQueue
  PROVE  CreateQueue /\ Left = 1 /\ Len(app'.todo) = 0
<1>1. app \in AppType
  BY DEF Types, AppOK
<1>2. CreateQueue
  <2>1. ~ rf24_recv \/ packets' = packets
    BY NoRecvInBoot DEF rf24_recv
  <2> QED
    BY <2>1 DEF Next, Chip, Arrive, TxStart, TxDone, TxFail, Call, AppStep,
         ChipStep, DirectTest, DirectRead, SetListening, CreateThread, write_payload, PollOutcome,
         AwaitOutcome, Timeout, rf24_getStatus, IsrStep, IsrWake, IsrPeek, IsrTest,
         IsrLength, IsrFlush, IsrDisable, IsrRead, IsrClearOne, IsrEnable, IsrAdd, IsrClear,
         IsrTxDs, Go, vars
<1>3. app'.todo = Tail(app.todo) /\ app.todo # <<>> /\ Head(app.todo) = "create_queue"
  BY <1>1, <1>2 DEF CreateQueue, At, Done, AppType
<1>4. Left = 1
  <2>1. Left = 1 \/ Left = 2 \/ Left = 3 \/ Left = 4 \/ Left = 5 \/ Left = 6 \/ Left = 7
    BY DEF BootInv
  <2> QED
    BY <1>3, <2>1, BootHead, InitSteps
<1>5. Len(app'.todo) = 0
  BY <1>3, <1>4, BootHead
<1> QED
  BY <1>2, <1>4, <1>5

(* Only a step of rf24_init_radio shortens what is left of it.             *)
LEMMA BootStep ==
  ASSUME Types, BootInv, [Next]_vars, packets = NoQueue, Left' # Left
  PROVE  Left' = Left - 1 /\ AppStep /\ At(rf24_init_radio[8 - Left])
<1>1. /\ Left \in 1 .. 7 /\ app.todo # <<>> /\ Head(app.todo) = rf24_init_radio[8 - Left]
      /\ Len(Tail(app.todo)) = Left - 1
  BY BootHead DEF BootInv
<1>2. app'.todo # app.todo
  BY DEF Left
<1>3. AppStep
  BY <1>1, <1>2 DEF Next, Chip, Arrive, TxStart, TxDone, TxFail, Call, IsrStep, IsrWake,
       IsrPeek, IsrTest, IsrLength, IsrFlush, IsrDisable, IsrRead, IsrClearOne, IsrEnable,
       IsrAdd, IsrClear, IsrTxDs, Go, vars
<1>4. ~ DirectTest
  <2>1. Left = 1 \/ Left = 2 \/ Left = 3 \/ Left = 4 \/ Left = 5 \/ Left = 6 \/ Left = 7
    BY <1>1
  <2> QED
    BY <1>1, <2>1, InitSteps DEF DirectTest, At
<1>5. app'.todo = Tail(app.todo)
  BY <1>1, <1>2, <1>4, TodoNext DEF Call
<1> QED
  BY <1>1, <1>3, <1>5 DEF At, Left

(* The thread is created once, before the queue.                           *)
CreateInv ==
  \A i \in 1 .. Len(app.todo) : app.todo[i] = "create_thread" => packets = NoQueue

LEMMA CreateInit == Init => CreateInv
  BY DEF Init, CreateInv

LEMMA CreateNext == Types /\ BootInv /\ CreateInv /\ [Next]_vars => CreateInv'
<1> SUFFICES ASSUME Types, BootInv, CreateInv, [Next]_vars, packets' # NoQueue
             PROVE  CreateInv'
  BY DEF CreateInv
<1>1. CASE packets = NoQueue
  BY <1>1, BootEnds DEF CreateInv
<1>2. CASE packets # NoQueue
  <2>1. \A i \in 1 .. Len(app.todo) : app.todo[i] # "create_thread"
    BY <1>2 DEF CreateInv
  <2>2. CASE app'.todo = app.todo
    BY <2>1, <2>2 DEF CreateInv
  <2>3. CASE \A i \in 1 .. Len(app'.todo) :
               i + 1 \in 1 .. Len(app.todo) /\ app'.todo[i] = app.todo[i + 1]
    BY <2>1, <2>3 DEF CreateInv
  <2>4. CASE \E op \in Ops : app'.todo = Steps(op)
    BY <2>4, WriteOnce, RadioAssumption DEF OneWrite, CreateInv
  <2>5. CASE app'.todo = <<>>
    BY <2>5 DEF CreateInv
  <2>6. CASE app'.todo = read_payload
    BY <2>6, QuietLists, QuietOnce DEF OneWrite, CreateInv
  <2> QED
    BY <2>2, <2>3, <2>4, <2>5, <2>6, TodoNext
<1> QED
  BY <1>1, <1>2

LEMMA RxHeadType ==
  ASSUME NEW c \in ChipType
  PROVE  RxHead(c) \in Packets
<1>1. c.rx \in Seq(Packets) /\ (c.rx # <<>> => Head(c.rx) \in Packets)
  BY DEF ChipType
<1>2. Junk \in Packets
  BY Constants DEF Junk, Packets
<1> QED
  BY <1>1, <1>2 DEF RxHead

LEMMA QueueTypes ==
  ASSUME Types, BootInv, [Next]_vars
  PROVE  QueueOK'
<1>0. /\ isr \in IsrType /\ delivered \in DeliveredType
      /\ delivered.queue \in Seq(Packets) /\ delivered.fifo \in Seq(Packets)
      /\ packets = NoQueue \/ (packets \in Seq(Packets) /\ Len(packets) <= QSize)
      /\ chip \in ChipType /\ chip.rx \in Seq(Packets)
  BY DEF Types, QueueOK, ChipOK, ChipType, DeliveredType
<1>1. CASE UNCHANGED <<packets, delivered>> /\ isr' \in IsrType
  BY <1>0, <1>1 DEF QueueOK
<1>2. CASE CreateThread
  BY <1>0, <1>1, <1>2 DEF CreateThread, IsrType
<1>3. CASE CreateQueue
  <2>1. <<>> \in Seq(Packets) /\ Len(<<>>) <= QSize
    BY Constants
  <2> QED
    BY <1>0, <1>3, <2>1 DEF CreateQueue, QueueOK
<1>4. CASE rf24_recv
  <2>1. CASE UNCHANGED <<packets, delivered>>
    BY <1>0, <1>1, <1>4, <2>1 DEF rf24_recv
  <2>2. CASE /\ packets \in Seq(Packets) /\ Len(packets) <= QSize /\ packets # <<>>
             /\ delivered' = [delivered EXCEPT !.queue = Append(@, Head(packets))]
             /\ packets' = Tail(packets)
    <3>1. /\ Tail(packets) \in Seq(Packets) /\ Len(Tail(packets)) = Len(packets) - 1
          /\ Head(packets) \in Packets /\ Len(packets) \in Nat
      BY <2>2
    <3>2. delivered' \in DeliveredType
      <4>1. Append(delivered.queue, Head(packets)) \in Seq(Packets)
        BY <1>0, <3>1
      <4> QED
        BY <1>0, <2>2, <4>1 DEF DeliveredType
    <3>3. Len(packets') <= QSize
      BY <2>2, <3>1, Constants
    <3>4. isr' = isr
      BY <1>4 DEF rf24_recv
    <3> QED
      BY <1>0, <2>2, <3>1, <3>2, <3>3, <3>4 DEF QueueOK
  <2>3. \/ UNCHANGED <<packets, delivered>>
        \/ /\ packets # <<>>
           /\ delivered' = [delivered EXCEPT !.queue = Append(@, Head(packets))]
           /\ packets' = Tail(packets)
    BY <1>4 DEF rf24_recv
  <2>4. packets # NoQueue \/ UNCHANGED <<packets, delivered>>
    BY <1>4, NoRecvInBoot DEF rf24_recv
  <2> QED
    BY <1>0, <2>1, <2>2, <2>3, <2>4
<1>5. CASE IsrAdd
  <2>1. isr' \in IsrType /\ isr.held \in {<<>>} \cup {<<p>> : p \in Packets}
    BY <1>0, <1>5 DEF IsrAdd, IsrType
  <2>2. isr.held \in Seq(Packets) /\ Len(isr.held) <= 1
    <3>1. CASE isr.held = <<>>
      BY <3>1
    <3>2. CASE \E p \in Packets : isr.held = <<p>>
      BY <3>2
    <3> QED
      BY <2>1, <3>1, <3>2
  <2>3. CASE packets # NoQueue /\ Len(packets) < QSize
    <3>1. /\ packets \o isr.held \in Seq(Packets)
          /\ Len(packets \o isr.held) = Len(packets) + Len(isr.held)
          /\ Len(packets) \in Nat /\ Len(isr.held) \in Nat
      BY <1>0, <2>2, <2>3
    <3>2. Len(packets \o isr.held) <= QSize
      BY <2>2, <2>3, <3>1, Constants
    <3>3. packets' = packets \o isr.held /\ delivered' = delivered
      BY <1>5, <2>3 DEF IsrAdd
    <3> QED
      BY <1>0, <2>1, <3>1, <3>2, <3>3 DEF QueueOK
  <2>4. CASE ~ (packets # NoQueue /\ Len(packets) < QSize)
    BY <1>0, <1>1, <1>5, <2>1, <2>4 DEF IsrAdd
  <2> QED
    BY <2>3, <2>4
<1>6. CASE IsrRead
  <2>1. RxHead(chip) \in Packets
    BY <1>0, RxHeadType
  <2>2. <<RxHead(chip)>> \in {<<p>> : p \in Packets}
    BY <2>1
  <2>3. isr' \in IsrType
    <3>1. isr.phantoms \in Nat /\ isr.phantoms + 1 \in Nat
      BY <1>0 DEF IsrType
    <3> DEFINE n == IF chip.rx = <<>> THEN isr.phantoms + 1 ELSE isr.phantoms
               h == <<RxHead(chip)>>
    <3>2. isr' = [isr EXCEPT !.pc = "clear_one", !.held = h, !.phantoms = n]
      BY <1>6 DEF IsrRead
    <3>3. n \in Nat /\ h \in {<<>>} \cup {<<p>> : p \in Packets}
      BY <2>2, <3>1
    <3> HIDE DEF n, h
    <3> QED
      BY <1>0, <3>2, <3>3 DEF IsrType
  <2> QED
    BY <1>1, <1>6, <2>3 DEF IsrRead
<1>7. CASE IsrPeek
  BY <1>0, <1>1, <1>7 DEF IsrPeek, IsrType, ChipType
<1>8. CASE \/ IsrWake \/ IsrTest \/ IsrLength \/ IsrFlush \/ IsrDisable
           \/ IsrClearOne \/ IsrEnable \/ IsrClear \/ IsrTxDs
  BY <1>0, <1>1, <1>8 DEF IsrWake, IsrTest, IsrLength, IsrFlush, IsrDisable,
                          IsrClearOne, IsrEnable, IsrClear, IsrTxDs, Go, IsrType
<1>9. CASE \/ Chip \/ Call \/ ChipStep \/ DirectTest \/ SetListening \/ write_payload
           \/ PollOutcome \/ rf24_getStatus \/ UNCHANGED vars
  BY <1>0, <1>1, <1>9 DEF Chip, Arrive, TxStart, TxDone, TxFail, Call, ChipStep, DirectTest,
       SetListening, write_payload, PollOutcome, AwaitOutcome, Timeout, rf24_getStatus, vars
<1>10. CASE DirectRead
  <2>1. Append(delivered.fifo, RxHead(chip)) \in Seq(Packets)
    BY <1>0, RxHeadType
  <2>2. /\ delivered' = [delivered EXCEPT !.fifo = Append(@, RxHead(chip))]
        /\ isr' = isr /\ packets' = packets
    BY <1>10 DEF DirectRead
  <2>3. delivered' \in DeliveredType
    BY <1>0, <2>1, <2>2 DEF DeliveredType
  <2> QED
    BY <1>0, <2>2, <2>3 DEF QueueOK
<1> QED
  BY <1>2, <1>3, <1>4, <1>5, <1>6, <1>7, <1>8, <1>9, <1>10 DEF Next, AppStep, IsrStep

LEMMA TypesNext == Types /\ BootInv /\ [Next]_vars => Types'
<1> SUFFICES ASSUME Types, BootInv, [Next]_vars PROVE Types'
  OBVIOUS
<1>1. ChipOK'
  <2>1. Call \/ UNCHANGED vars => ChipOK'
    BY DEF Types, ChipOK, Call, vars
  <2>2. Chip => ChipOK'
    BY ChipTypes DEF Types
  <2> QED
    BY <2>1, <2>2, AppChipTypes, IsrChipTypes DEF Next
<1>2. AppOK'
  <2>1. Chip \/ IsrStep \/ UNCHANGED vars => app' = app
    BY DEF Chip, Arrive, TxStart, TxDone, TxFail, vars, IsrStep, IsrWake, IsrPeek, IsrTest,
           IsrLength, IsrFlush, IsrDisable, IsrRead, IsrClearOne, IsrEnable, IsrAdd,
           IsrClear, IsrTxDs, Go
  <2>2. app' = app => AppOK'
    BY DEF Types, AppOK, WriteInv
  <2> QED
    BY <2>1, <2>2, AppTypes DEF Next
<1> QED
  BY <1>1, <1>2, QueueTypes DEF Types

(* Every variable keeps its type, the FIFOs and the queue their sizes, and *)
(* the chip sends only while its TX FIFO holds something.                  *)
THEOREM TypeCorrect == Spec => []TypeOK
<1>1. Types => TypeOK
  BY DEF Types, ChipOK, AppOK, QueueOK, TypeOK
<1> QED
  BY <1>1, TypesInit, TypesNext, BootInit, BootNext, PTL DEF Spec

(* The queue exists before the interrupt thread first puts a packet in it  *)
(* (rf24.c:523-524): while it does not, the chip raises no flag.           *)
THEOREM QueueIsReady == Spec => []QueueReady
<1>1. BootInv => QueueReady
  BY DEF BootInv, QueueReady
<1> QED
  BY <1>1, TypesInit, TypesNext, BootInit, BootNext, PTL DEF Spec
-----------------------------------------------------------------------------
(* Order: the packets that are not junk rise along the pipeline, part by   *)
(* part and from each part to the next, and none is newer than the latest; *)
(* what the application has read from the FIFO itself rises too, is older  *)
(* than what is in the FIFO, and is nowhere else.                          *)
Before(s, t) ==
  \A i \in 1 .. Len(s), j \in 1 .. Len(t) : (s[i] # Junk /\ t[j] # Junk) => s[i] < t[j]

UpTo(s, n) == \A i \in 1 .. Len(s) : s[i] <= n

Ordered(d, q, h, r, n) ==
  /\ Rising(d) /\ Rising(q) /\ Rising(h) /\ Rising(r)
  /\ Before(d, q) /\ Before(d, h) /\ Before(d, r)
  /\ Before(q, h) /\ Before(q, r) /\ Before(h, r)
  /\ UpTo(d, n) /\ UpTo(q, n) /\ UpTo(h, n) /\ UpTo(r, n)

Apart(s, t) ==
  \A i \in 1 .. Len(s), j \in 1 .. Len(t) : s[i] # Junk => s[i] # t[j]

Direct(f, d, q, h, r, n) ==
  /\ Rising(f) /\ Before(f, r) /\ UpTo(f, n)
  /\ Apart(d, f) /\ Apart(q, f) /\ Apart(h, f)

Whole(f, d, q, h, r, n) == Ordered(d, q, h, r, n) /\ Direct(f, d, q, h, r, n)

LEMMA Trivial ==
  ASSUME NEW s, NEW n \in Nat, NEW x \in Nat
  PROVE  /\ Rising(<<>>) /\ Before(s, <<>>) /\ Before(<<>>, s) /\ UpTo(<<>>, n)
         /\ Rising(<<x>>) /\ (x <= n => UpTo(<<x>>, n))
         /\ Before(s, <<Junk>>) /\ Before(<<Junk>>, s)
  BY DEF Rising, Before, UpTo, Junk

LEMMA HeadAndTail ==
  ASSUME NEW q \in Seq(Nat), q # <<>>, NEW s \in Seq(Nat), NEW n \in Nat
  PROVE  /\ Before(s, q) => Before(s, <<Head(q)>>) /\ Before(s, Tail(q))
         /\ Before(q, s) => Before(<<Head(q)>>, s) /\ Before(Tail(q), s)
         /\ Rising(q) => Rising(Tail(q)) /\ Before(<<Head(q)>>, Tail(q))
         /\ UpTo(q, n) => UpTo(<<Head(q)>>, n) /\ UpTo(Tail(q), n)
<1>1. /\ Len(q) \in Nat /\ 1 \in 1 .. Len(q) /\ Head(q) = q[1]
      /\ Len(Tail(q)) = Len(q) - 1
  OBVIOUS
<1>2. \A i \in 1 .. Len(Tail(q)) : i + 1 \in 1 .. Len(q) /\ i \in Nat /\ Tail(q)[i] = q[i + 1]
  OBVIOUS
<1>3. Len(<<Head(q)>>) = 1 /\ <<Head(q)>>[1] = q[1]
  BY <1>1
<1>4. Before(s, q) => Before(s, <<Head(q)>>) /\ Before(s, Tail(q))
  BY <1>1, <1>2, <1>3 DEF Before
<1>5. Before(q, s) => Before(<<Head(q)>>, s) /\ Before(Tail(q), s)
  BY <1>1, <1>2, <1>3 DEF Before
<1>6. Rising(q) => Rising(Tail(q)) /\ Before(<<Head(q)>>, Tail(q))
  BY <1>1, <1>2, <1>3 DEF Rising, Before
<1>7. UpTo(q, n) => UpTo(<<Head(q)>>, n) /\ UpTo(Tail(q), n)
  BY <1>1, <1>2, <1>3 DEF UpTo
<1> QED
  BY <1>4, <1>5, <1>6, <1>7

LEMMA Longer ==
  ASSUME NEW s \in Seq(Nat), NEW t \in Seq(Nat), NEW x \in Nat, NEW n \in Nat
  PROVE  /\ Before(s, t) /\ Before(s, <<x>>) => Before(s, Append(t, x))
         /\ Before(t, s) /\ Before(<<x>>, s) => Before(Append(t, x), s)
         /\ Rising(t) /\ Before(t, <<x>>) => Rising(Append(t, x))
         /\ UpTo(t, n) /\ x <= n => UpTo(Append(t, x), n)
<1>1. /\ Len(Append(t, x)) = Len(t) + 1 /\ Len(t) \in Nat
      /\ Append(t, x)[Len(t) + 1] = x
      /\ \A i \in 1 .. Len(t) : Append(t, x)[i] = t[i]
  OBVIOUS
<1>2. \A i \in 1 .. Len(t) + 1 : i \in 1 .. Len(t) \/ i = Len(t) + 1
  BY <1>1
<1>3. Len(<<x>>) = 1 /\ <<x>>[1] = x /\ 1 \in 1 .. 1
  OBVIOUS
<1>4. Before(s, t) /\ Before(s, <<x>>) => Before(s, Append(t, x))
  BY <1>1, <1>2, <1>3 DEF Before
<1>5. Before(t, s) /\ Before(<<x>>, s) => Before(Append(t, x), s)
  BY <1>1, <1>2, <1>3 DEF Before
<1>6. Rising(t) /\ Before(t, <<x>>) => Rising(Append(t, x))
  BY <1>1, <1>2, <1>3 DEF Before, Rising
<1>7. UpTo(t, n) /\ x <= n => UpTo(Append(t, x), n)
  BY <1>1, <1>2 DEF UpTo
<1> QED
  BY <1>4, <1>5, <1>6, <1>7

LEMMA Concatenated ==
  ASSUME NEW s \in Seq(Nat), NEW t \in Seq(Nat), NEW u \in Seq(Nat), NEW n \in Nat
  PROVE  /\ Before(u, s) /\ Before(u, t) => Before(u, s \o t)
         /\ Before(s, u) /\ Before(t, u) => Before(s \o t, u)
         /\ Rising(s) /\ Rising(t) /\ Before(s, t) => Rising(s \o t)
         /\ UpTo(s, n) /\ UpTo(t, n) => UpTo(s \o t, n)
<1>1. /\ Len(s \o t) = Len(s) + Len(t) /\ Len(s) \in Nat /\ Len(t) \in Nat
      /\ \A i \in 1 .. Len(s) : (s \o t)[i] = s[i]
  OBVIOUS
<1>2. \A i \in 1 .. Len(s \o t) :
        i \in 1 .. Len(s) \/ (i - Len(s) \in 1 .. Len(t) /\ i > Len(s)
                              /\ (s \o t)[i] = t[i - Len(s)])
  OBVIOUS
<1>4. Before(u, s) /\ Before(u, t) => Before(u, s \o t)
  BY <1>1, <1>2 DEF Before
<1>5. Before(s, u) /\ Before(t, u) => Before(s \o t, u)
  BY <1>1, <1>2 DEF Before
<1>6. Rising(s) /\ Rising(t) /\ Before(s, t) => Rising(s \o t)
  <2> SUFFICES ASSUME Rising(s), Rising(t), Before(s, t),
                      NEW i \in 1 .. Len(s \o t), NEW j \in 1 .. Len(s \o t), i < j,
                      (s \o t)[i] # Junk, (s \o t)[j] # Junk
               PROVE  (s \o t)[i] < (s \o t)[j]
    BY DEF Rising
  <2>1. CASE j \in 1 .. Len(s)
    BY <1>1, <2>1 DEF Rising
  <2>2. CASE i \in 1 .. Len(s) /\ j > Len(s)
    BY <1>1, <1>2, <2>2 DEF Before
  <2>3. CASE i > Len(s)
    <3>1. /\ i - Len(s) \in 1 .. Len(t) /\ j - Len(s) \in 1 .. Len(t)
          /\ i - Len(s) < j - Len(s)
      BY <1>1, <1>2, <2>3
    <3>2. (s \o t)[i] = t[i - Len(s)] /\ (s \o t)[j] = t[j - Len(s)]
      BY <1>1, <1>2, <2>3
    <3> QED
      BY <3>1, <3>2 DEF Rising
  <2> QED
    BY <1>1, <2>1, <2>2, <2>3
<1>7. UpTo(s, n) /\ UpTo(t, n) => UpTo(s \o t, n)
  BY <1>1, <1>2 DEF UpTo
<1> QED
  BY <1>4, <1>5, <1>6, <1>7

(* What the steps of the pipeline do to the order.                         *)
LEMMA PipelineSteps ==
  ASSUME NEW d \in Seq(Nat), NEW q \in Seq(Nat), NEW h \in Seq(Nat), NEW r \in Seq(Nat),
         NEW n \in Nat, Ordered(d, q, h, r, n)
  PROVE  /\ q # <<>> => Ordered(Append(d, Head(q)), Tail(q), h, r, n)
         /\ h = <<>> => Ordered(d, q, <<Junk>>, r, n)
         /\ h = <<>> /\ r # <<>> => Ordered(d, q, <<Head(r)>>, Tail(r), n)
         /\ Ordered(d, q \o h, <<>>, r, n)
         /\ Ordered(d, <<>>, h, r, n) /\ Ordered(d, q, <<>>, r, n) /\ Ordered(d, q, h, <<>>, n)
         /\ r # <<>> => Ordered(d, q, h, Tail(r), n)
         /\ Ordered(d, q, h, Append(r, n + 1), n + 1)
<1> USE DEF Ordered
<1>1. Junk \in Nat /\ Junk <= n
  BY DEF Junk
<1>2. ASSUME q # <<>>
      PROVE  Ordered(Append(d, Head(q)), Tail(q), h, r, n)
  <2>1. Head(q) \in Nat /\ Tail(q) \in Seq(Nat) /\ Head(q) <= n
    <3>1. Head(q) = q[1] /\ 1 \in 1 .. Len(q) /\ Tail(q) \in Seq(Nat)
      BY <1>2
    <3> QED
      BY <3>1 DEF UpTo
  <2> DEFINE x == Head(q)
             t == Tail(q)
  <2>2. /\ Before(d, <<x>>) /\ Before(d, t) /\ Before(<<x>>, t) /\ Rising(t)
        /\ Before(<<x>>, h) /\ Before(t, h) /\ Before(<<x>>, r) /\ Before(t, r) /\ UpTo(t, n)
    BY <1>2, HeadAndTail
  <2> HIDE DEF x, t
  <2>3. x \in Nat /\ t \in Seq(Nat) /\ x <= n
    BY <2>1 DEF x, t
  <2>4. /\ Rising(Append(d, x)) /\ Before(Append(d, x), t) /\ Before(Append(d, x), h)
        /\ Before(Append(d, x), r) /\ UpTo(Append(d, x), n)
    BY <2>2, <2>3, Longer
  <2> QED
    BY <2>2, <2>4 DEF x, t
<1>3. h = <<>> => Ordered(d, q, <<Junk>>, r, n)
  BY <1>1, Trivial
<1>4. ASSUME h = <<>>, r # <<>>
      PROVE  Ordered(d, q, <<Head(r)>>, Tail(r), n)
  <2>1. Head(r) \in Nat
    BY <1>4
  <2> QED
    BY <1>4, <2>1, HeadAndTail, Trivial
<1>5. Ordered(d, q \o h, <<>>, r, n)
  BY Concatenated, Trivial
<1>6. Ordered(d, <<>>, h, r, n) /\ Ordered(d, q, <<>>, r, n) /\ Ordered(d, q, h, <<>>, n)
  BY Trivial
<1>7. r # <<>> => Ordered(d, q, h, Tail(r), n)
  BY HeadAndTail
<1>8. Ordered(d, q, h, Append(r, n + 1), n + 1)
  <2>1. ASSUME NEW s \in Seq(Nat), UpTo(s, n)
        PROVE  Before(s, <<n + 1>>) /\ UpTo(s, n + 1)
    BY <2>1 DEF Before, UpTo
  <2>2. n + 1 \in Nat /\ n + 1 <= n + 1
    OBVIOUS
  <2> QED
    BY <2>1, <2>2, Longer
<1> QED
  BY <1>2, <1>3, <1>4, <1>5, <1>6, <1>7, <1>8

LEMMA ApartParts ==
  ASSUME NEW s \in Seq(Nat), NEW t \in Seq(Nat), NEW u \in Seq(Nat), NEW x \in Nat
  PROVE  /\ Apart(<<>>, s) /\ Apart(<<Junk>>, s) /\ Apart(s, <<Junk>>)
         /\ s # <<>> /\ Apart(s, t) => Apart(<<Head(s)>>, t) /\ Apart(Tail(s), t)
         /\ Apart(s, t) /\ Apart(<<x>>, t) => Apart(Append(s, x), t)
         /\ Apart(s, t) /\ Apart(s, <<x>>) => Apart(s, Append(t, x))
         /\ Apart(s, u) /\ Apart(t, u) => Apart(s \o t, u)
         /\ Before(s, t) \/ Before(t, s) => Apart(s, t)
<1>1. Apart(<<>>, s) /\ Apart(<<Junk>>, s) /\ Apart(s, <<Junk>>)
  BY DEF Apart
<1>2. ASSUME s # <<>>, Apart(s, t) PROVE Apart(<<Head(s)>>, t) /\ Apart(Tail(s), t)
  <2>1. /\ Head(s) = s[1] /\ 1 \in 1 .. Len(s)
        /\ \A i \in 1 .. Len(Tail(s)) : i + 1 \in 1 .. Len(s) /\ Tail(s)[i] = s[i + 1]
    BY <1>2
  <2> QED
    BY <1>2, <2>1 DEF Apart
<1>3. \A v \in Seq(Nat) : /\ Len(Append(v, x)) = Len(v) + 1 /\ Len(v) \in Nat
                         /\ \A i \in 1 .. Len(v) : Append(v, x)[i] = v[i]
                         /\ Append(v, x)[Len(v) + 1] = x
  OBVIOUS
<1>4. \A v \in Seq(Nat) : \A i \in 1 .. Len(v) + 1 : i \in 1 .. Len(v) \/ i = Len(v) + 1
  BY <1>3
<1>5. Len(<<x>>) = 1 /\ <<x>>[1] = x /\ 1 \in 1 .. 1
  OBVIOUS
<1>6. Apart(s, t) /\ Apart(<<x>>, t) => Apart(Append(s, x), t)
  BY <1>3, <1>4, <1>5 DEF Apart
<1>7. Apart(s, t) /\ Apart(s, <<x>>) => Apart(s, Append(t, x))
  BY <1>3, <1>4, <1>5 DEF Apart
<1>8. Apart(s, u) /\ Apart(t, u) => Apart(s \o t, u)
  <2>1. \A i \in 1 .. Len(s \o t) :
          \/ i \in 1 .. Len(s) /\ (s \o t)[i] = s[i]
          \/ i - Len(s) \in 1 .. Len(t) /\ (s \o t)[i] = t[i - Len(s)]
    OBVIOUS
  <2> QED
    BY <2>1 DEF Apart
<1>9. Before(s, t) \/ Before(t, s) => Apart(s, t)
  <2>1. \A i \in 1 .. Len(s) : s[i] \in Nat
    OBVIOUS
  <2>2. \A j \in 1 .. Len(t) : t[j] \in Nat
    OBVIOUS
  <2> QED
    BY <2>1, <2>2 DEF Apart, Before
<1> QED
  BY <1>1, <1>2, <1>6, <1>7, <1>8, <1>9

(* The same steps, and a read by the application.                          *)
LEMMA WholeSteps ==
  ASSUME NEW f \in Seq(Nat), NEW d \in Seq(Nat), NEW q \in Seq(Nat), NEW h \in Seq(Nat),
         NEW r \in Seq(Nat), NEW n \in Nat, Whole(f, d, q, h, r, n)
  PROVE  /\ q # <<>> => Whole(f, Append(d, Head(q)), Tail(q), h, r, n)
         /\ h = <<>> => Whole(f, d, q, <<Junk>>, r, n)
         /\ h = <<>> /\ r # <<>> => Whole(f, d, q, <<Head(r)>>, Tail(r), n)
         /\ Whole(f, d, q \o h, <<>>, r, n)
         /\ Whole(f, d, <<>>, h, r, n) /\ Whole(f, d, q, <<>>, r, n)
         /\ Whole(f, d, q, h, <<>>, n)
         /\ Whole(Append(f, Junk), d, q, h, r, n)
         /\ r # <<>> => Whole(Append(f, Head(r)), d, q, h, Tail(r), n)
         /\ Whole(f, d, q, h, Append(r, n + 1), n + 1)
<1>1. Ordered(d, q, h, r, n) /\ Direct(f, d, q, h, r, n)
  BY DEF Whole
<1>2. Apart(<<>>, f) /\ Apart(<<Junk>>, f) /\ Junk \in Nat /\ Junk <= n
  <2>1. Junk \in Nat /\ Junk <= n
    BY DEF Junk
  <2>2. Apart(<<>>, f) /\ Apart(<<Junk>>, f)
    BY DEF Apart
  <2> QED
    BY <2>1, <2>2
<1>3. /\ q # <<>> => Ordered(Append(d, Head(q)), Tail(q), h, r, n)
      /\ h = <<>> => Ordered(d, q, <<Junk>>, r, n)
      /\ h = <<>> /\ r # <<>> => Ordered(d, q, <<Head(r)>>, Tail(r), n)
      /\ Ordered(d, q \o h, <<>>, r, n)
      /\ Ordered(d, <<>>, h, r, n) /\ Ordered(d, q, <<>>, r, n) /\ Ordered(d, q, h, <<>>, n)
      /\ r # <<>> => Ordered(d, q, h, Tail(r), n)
      /\ Ordered(d, q, h, Append(r, n + 1), n + 1)
  BY <1>1, PipelineSteps
<1>4. ASSUME q # <<>> PROVE Direct(f, Append(d, Head(q)), Tail(q), h, r, n)
  <2>1. Head(q) \in Nat
    BY <1>4
  <2>2. Apart(<<Head(q)>>, f) /\ Apart(Tail(q), f)
    BY <1>1, <1>4, ApartParts DEF Direct
  <2>3. Apart(Append(d, Head(q)), f)
    BY <1>1, <2>1, <2>2, ApartParts DEF Direct
  <2> QED
    BY <1>1, <2>2, <2>3 DEF Direct
<1>5. ASSUME r # <<>>
      PROVE  /\ Head(r) \in Nat /\ Tail(r) \in Seq(Nat) /\ Head(r) <= n
             /\ Before(f, <<Head(r)>>) /\ Before(f, Tail(r))
             /\ Before(<<Head(r)>>, Tail(r))
  <2>1. Head(r) = r[1] /\ 1 \in 1 .. Len(r) /\ Tail(r) \in Seq(Nat) /\ Head(r) \in Nat
    BY <1>5
  <2>2. Head(r) <= n
    BY <1>1, <2>1 DEF Ordered, UpTo
  <2> QED
    BY <1>1, <1>5, <2>1, <2>2, HeadAndTail DEF Direct, Ordered
<1>6. h = <<>> => Direct(f, d, q, <<Junk>>, r, n)
  BY <1>1, <1>2 DEF Direct
<1>7. ASSUME r # <<>> PROVE Direct(f, d, q, <<Head(r)>>, Tail(r), n)
  <2>1. Head(r) \in Nat /\ Before(f, <<Head(r)>>) /\ Before(f, Tail(r))
    BY <1>5, <1>7
  <2> DEFINE one == <<Head(r)>>
  <2>2. one \in Seq(Nat)
    BY <2>1
  <2> HIDE DEF one
  <2>3. Apart(one, f)
    BY <2>1, <2>2, ApartParts DEF one
  <2> QED
    BY <1>1, <2>1, <2>3 DEF Direct, one
<1>8. Direct(f, d, q \o h, <<>>, r, n)
  BY <1>1, <1>2, ApartParts DEF Direct
<1>9. /\ Direct(f, d, <<>>, h, r, n) /\ Direct(f, d, q, <<>>, r, n)
      /\ Direct(f, d, q, h, <<>>, n)
  BY <1>1, <1>2, Trivial DEF Direct
<1>10. Direct(Append(f, Junk), d, q, h, r, n)
  <2>1. \A v \in Seq(Nat) : Before(v, <<Junk>>) /\ Before(<<Junk>>, v) /\ Apart(v, <<Junk>>)
    BY <1>2, Trivial, ApartParts
  <2>2. Rising(Append(f, Junk)) /\ Before(Append(f, Junk), r) /\ UpTo(Append(f, Junk), n)
    BY <1>1, <1>2, <2>1, Longer DEF Direct
  <2>3. /\ Apart(d, Append(f, Junk)) /\ Apart(q, Append(f, Junk))
        /\ Apart(h, Append(f, Junk))
    BY <1>1, <1>2, <2>1, ApartParts DEF Direct
  <2> QED
    BY <2>2, <2>3 DEF Direct
<1>11. ASSUME r # <<>> PROVE Direct(Append(f, Head(r)), d, q, h, Tail(r), n)
  <2> DEFINE x == Head(r)
             t == Tail(r)
  <2>1. /\ x \in Nat /\ t \in Seq(Nat) /\ x <= n
        /\ Before(f, <<x>>) /\ Before(f, t) /\ Before(<<x>>, t)
    BY <1>5, <1>11
  <2>2. Before(d, <<x>>) /\ Before(q, <<x>>) /\ Before(h, <<x>>)
    BY <1>1, <1>11, HeadAndTail DEF Ordered
  <2> HIDE DEF x, t
  <2>3. <<x>> \in Seq(Nat)
    BY <2>1
  <2>4. Apart(d, <<x>>) /\ Apart(q, <<x>>) /\ Apart(h, <<x>>)
    BY <2>2, <2>3, ApartParts
  <2>5. Rising(Append(f, x)) /\ Before(Append(f, x), t) /\ UpTo(Append(f, x), n)
    BY <1>1, <2>1, Longer DEF Direct
  <2>6. Apart(d, Append(f, x)) /\ Apart(q, Append(f, x)) /\ Apart(h, Append(f, x))
    BY <1>1, <2>1, <2>4, ApartParts DEF Direct
  <2> QED
    BY <2>5, <2>6 DEF Direct, x, t
<1>12. Direct(f, d, q, h, Append(r, n + 1), n + 1)
  <2>1. Before(f, <<n + 1>>) /\ UpTo(f, n + 1)
    BY <1>1 DEF Direct, Before, UpTo
  <2>2. n + 1 \in Nat
    OBVIOUS
  <2>3. Before(f, Append(r, n + 1))
    BY <1>1, <2>1, <2>2, Longer DEF Direct
  <2> QED
    BY <1>1, <2>1, <2>3 DEF Direct
<1>13. Ordered(d, q, h, r, n)
  BY <1>1
<1> QED
  BY <1>3, <1>4, <1>6, <1>7, <1>8, <1>9, <1>10, <1>11, <1>12, <1>13 DEF Whole

(* A packet is held only on its way from the FIFO to the queue.            *)
HeldInv == isr.pc \notin {"clear_one", "enable", "add"} => isr.held = <<>>

OrderInv ==
  /\ HeldInv
  /\ Whole(delivered.fifo, delivered.queue, Queued, isr.held, chip.rx, chip.air)

LEMMA PipelineTypes ==
  ASSUME Types
  PROVE  /\ delivered.fifo \in Seq(Nat) /\ delivered.queue \in Seq(Nat)
         /\ Queued \in Seq(Nat)
         /\ isr.held \in Seq(Nat) /\ chip.rx \in Seq(Nat) /\ chip.air \in Nat
<1>1. Packets \subseteq Nat
  BY Constants DEF Packets
<1>2. \A s \in Seq(Packets) : s \in Seq(Nat)
  <2> SUFFICES ASSUME NEW s \in Seq(Packets) PROVE s \in Seq(Nat)
    OBVIOUS
  <2>1. \A i \in 1 .. Len(s) : s[i] \in Packets
    OBVIOUS
  <2>2. \A i \in 1 .. Len(s) : s[i] \in Nat
    BY <1>1, <2>1
  <2> QED
    BY <2>2
<1>3. /\ delivered.fifo \in Seq(Packets) /\ delivered.queue \in Seq(Packets)
      /\ chip.rx \in Seq(Packets) /\ chip.air \in Packets
      /\ packets # NoQueue => packets \in Seq(Packets)
      /\ isr.held \in {<<>>} \cup {<<p>> : p \in Packets}
  BY DEF Types, QueueOK, ChipOK, ChipType, IsrType, DeliveredType
<1>4. isr.held \in Seq(Nat)
  <2>1. CASE isr.held = <<>>
    BY <2>1
  <2>2. CASE \E p \in Packets : isr.held = <<p>>
    BY <1>1, <2>2
  <2> QED
    BY <1>3, <2>1, <2>2
<1>5. Queued \in Seq(Nat)
  <2>1. <<>> \in Seq(Nat)
    OBVIOUS
  <2> QED
    BY <1>2, <1>3, <2>1 DEF Queued
<1> QED
  BY <1>1, <1>2, <1>3, <1>4, <1>5

LEMMA OrderInit == Init => OrderInv
<1> SUFFICES ASSUME Init PROVE OrderInv
  OBVIOUS
<1>1. /\ delivered.fifo = <<>> /\ delivered.queue = <<>> /\ Queued = <<>> /\ isr.held = <<>>
      /\ chip.air = 0
      /\ chip.rx = <<>> \/ chip.rx = <<Junk>>
  BY DEF Init, Queued
<1>2. /\ Rising(<<Junk>>) /\ UpTo(<<Junk>>, 0) /\ Rising(<<>>) /\ UpTo(<<>>, 0)
      /\ Apart(<<>>, <<>>)
  BY Trivial DEF Junk, Apart
<1> QED
  BY <1>1, <1>2, Trivial DEF OrderInv, HeldInv, Whole, Ordered, Direct

(* The steps of the pipeline, in the terms of the model.                   *)
LEMMA OrderNext ==
  ASSUME Types, BootInv, CreateInv, OrderInv, [Next]_vars
  PROVE  OrderInv'
<1> DEFINE f == delivered.fifo
           d == delivered.queue
           q == Queued
           h == isr.held
           r == chip.rx
           n == chip.air
<1>1. /\ chip \in ChipType /\ isr \in IsrType
      /\ chip.rx \in Seq(Packets) /\ delivered \in DeliveredType
  BY DEF Types, ChipOK, QueueOK, ChipType
<1>2. /\ f \in Seq(Nat) /\ d \in Seq(Nat) /\ q \in Seq(Nat) /\ h \in Seq(Nat) /\ r \in Seq(Nat) /\ n \in Nat
      /\ Whole(f, d, q, h, r, n) /\ HeldInv
  BY PipelineTypes DEF OrderInv
<1>3. /\ q # <<>> => Whole(f, Append(d, Head(q)), Tail(q), h, r, n)
      /\ h = <<>> => Whole(f, d, q, <<Junk>>, r, n)
      /\ h = <<>> /\ r # <<>> => Whole(f, d, q, <<Head(r)>>, Tail(r), n)
      /\ Whole(f, d, q \o h, <<>>, r, n)
      /\ Whole(f, d, <<>>, h, r, n) /\ Whole(f, d, q, <<>>, r, n)
      /\ Whole(f, d, q, h, <<>>, n)
      /\ Whole(Append(f, Junk), d, q, h, r, n)
      /\ r # <<>> => Whole(Append(f, Head(r)), d, q, h, Tail(r), n)
      /\ Whole(f, d, q, h, Append(r, n + 1), n + 1)
  BY <1>2, WholeSteps
<1> HIDE DEF f, d, q, h, r, n
<1>4. CASE Arrive
  <2>1. /\ chip'.rx = Append(r, n + 1) /\ chip'.air = n + 1
        /\ delivered' = delivered /\ Queued' = q /\ isr' = isr
    BY <1>1, <1>4 DEF Arrive, Raise, ChipType, q, r, n, Queued
  <2> QED
    BY <1>2, <1>3, <2>1 DEF OrderInv, HeldInv, f, d, h
<1>5. CASE TxStart \/ TxDone \/ TxFail \/ Call \/ DirectTest \/ SetListening \/ CreateThread
           \/ write_payload \/ PollOutcome \/ rf24_getStatus \/ UNCHANGED vars
  <2>1. /\ chip'.rx = r /\ chip'.air = n /\ delivered' = delivered /\ Queued' = q /\ isr'.held = h
        /\ isr'.pc = isr.pc \/ CreateThread
    <3>1. CASE TxStart \/ TxDone \/ TxFail
      BY <1>1, <3>1 DEF TxStart, TxDone, TxFail, Raise, ChipType, q, h, r, n, Queued
    <3>2. CASE write_payload
      BY <1>1, <3>2 DEF write_payload, WritePayload, ChipType, q, h, r, n, Queued
    <3>3. CASE CreateThread
      BY <1>1, <3>3 DEF CreateThread, ChipType, IsrType, q, h, r, n, Queued
    <3>4. CASE \/ Call \/ DirectTest \/ SetListening \/ PollOutcome \/ rf24_getStatus
               \/ UNCHANGED vars
      BY <3>4 DEF Call, DirectTest, SetListening, PollOutcome, AwaitOutcome, Timeout,
         rf24_getStatus, vars, q, h, r, n, Queued
    <3> QED
      BY <1>5, <3>1, <3>2, <3>3, <3>4
  <2>2. CASE isr'.pc = isr.pc
    BY <1>2, <2>1, <2>2 DEF OrderInv, HeldInv, f, d, h
  <2>3. CASE CreateThread
    <3>1. app.todo \in Seq(StepNames) /\ app.todo # <<>> /\ Head(app.todo) = "create_thread"
      BY <2>3 DEF Types, AppOK, AppType, CreateThread, At
    <3>2. app.todo[1] = "create_thread" /\ 1 \in 1 .. Len(app.todo)
      BY <3>1
    <3>3. packets = NoQueue
      BY <3>2 DEF CreateInv
    <3>4. h = <<>>
      BY <1>2, <3>3 DEF BootInv, HeldInv, h
    <3> QED
      BY <1>2, <2>1, <3>4 DEF OrderInv, HeldInv, f, d
  <2> QED
    BY <2>1, <2>2, <2>3
<1>6. CASE CreateQueue
  <2>1. chip' = chip /\ isr' = isr /\ delivered' = delivered /\ Queued' = <<>>
    BY <1>6 DEF CreateQueue, Queued
  <2> QED
    BY <1>2, <1>3, <2>1 DEF OrderInv, HeldInv, f, d, h, r, n
<1>7. CASE ChipStep
  <2>1. /\ chip'.rx = r \/ chip'.rx = <<>>
        /\ chip'.air = n
    BY <1>1, <1>7 DEF ChipStep, disable_radio, enable_radio, ClearFlags, flush_rx, flush_tx,
         WriteConfig, ChipType, r, n
  <2>2. delivered' = delivered /\ Queued' = q /\ isr' = isr
    BY <1>7 DEF ChipStep, q, Queued
  <2> QED
    BY <1>2, <1>3, <2>1, <2>2 DEF OrderInv, HeldInv, f, d, h
<1>8. CASE rf24_recv
  <2>1. isr' = isr /\ chip' = chip
    BY <1>8 DEF rf24_recv
  <2>2. /\ delivered'.fifo = f
        /\ \/ delivered'.queue = d /\ Queued' = q
           \/ q # <<>> /\ delivered'.queue = Append(d, Head(q)) /\ Queued' = Tail(q)
    <3>1. packets # NoQueue
      BY <1>8, NoRecvInBoot DEF rf24_recv
    <3>2. packets' # NoQueue
      BY <3>1, QueueStays
    <3> QED
      BY <1>1, <1>8, <3>1, <3>2 DEF rf24_recv, Queued, DeliveredType, f, d, q
  <2> QED
    BY <1>2, <1>3, <2>1, <2>2 DEF OrderInv, HeldInv, h, r, n
<1>9. CASE IsrRead
  <2>1. h = <<>>
    BY <1>2, <1>9 DEF IsrRead, HeldInv, h
  <2>2. /\ delivered' = delivered /\ Queued' = q /\ chip'.air = n /\ isr'.pc = "clear_one"
        /\ \/ r = <<>> /\ isr'.held = <<Junk>> /\ chip'.rx = r
           \/ r # <<>> /\ isr'.held = <<Head(r)>> /\ chip'.rx = Tail(r)
    BY <1>1, <1>9 DEF IsrRead, read_rx, RxHead, Queued, ChipType, IsrType, q, r, n
  <2> QED
    BY <1>3, <2>1, <2>2 DEF OrderInv, HeldInv, f, d
<1>10. CASE IsrAdd
  <2>1. /\ delivered' = delivered /\ chip' = chip /\ isr'.held = <<>>
    BY <1>1, <1>10 DEF IsrAdd, IsrType
  <2>2. Queued' = q \/ Queued' = q \o h
    <3>1. packets # NoQueue /\ packets' # NoQueue
      <4>1. packets # NoQueue
        BY <1>10 DEF IsrAdd, BootInv
      <4> QED
        BY <4>1, QueueStays
    <3> QED
      BY <1>10, <3>1 DEF IsrAdd, Queued, q, h
  <2> QED
    BY <1>3, <2>1, <2>2 DEF OrderInv, HeldInv, f, d, r, n
<1>11. CASE \/ IsrWake \/ IsrPeek \/ IsrTest \/ IsrLength \/ IsrFlush \/ IsrDisable
            \/ IsrClearOne \/ IsrEnable \/ IsrClear \/ IsrTxDs
  <2>1. /\ delivered' = delivered /\ Queued' = q /\ chip'.air = n /\ isr'.held = h
        /\ chip'.rx = r \/ chip'.rx = <<>>
    BY <1>1, <1>11 DEF IsrWake, IsrPeek, IsrTest, IsrLength, IsrFlush, IsrDisable, IsrClearOne,
         IsrEnable, IsrClear, IsrTxDs, Go, ClearFlags, flush_rx, disable_radio, enable_radio,
         ChipType, IsrType, Queued, q, h, r, n
  <2>2. HeldInv'
    BY <1>1, <1>2, <1>11, <2>1 DEF IsrWake, IsrPeek, IsrTest, IsrLength, IsrFlush, IsrDisable,
         IsrClearOne, IsrEnable, IsrClear, IsrTxDs, Go, HeldInv, IsrType, h
  <2> QED
    BY <1>2, <1>3, <2>1, <2>2 DEF OrderInv, f, d
<1>12. CASE DirectRead
  <2>1. isr' = isr /\ Queued' = q /\ delivered'.queue = d /\ chip'.air = n
    BY <1>1, <1>12 DEF DirectRead, read_rx, ChipType, Queued, DeliveredType, d, q, n
  <2>2. \/ r = <<>> /\ delivered'.fifo = Append(f, Junk) /\ chip'.rx = r
        \/ r # <<>> /\ delivered'.fifo = Append(f, Head(r)) /\ chip'.rx = Tail(r)
    BY <1>1, <1>12 DEF DirectRead, read_rx, RxHead, ChipType, DeliveredType, f, r
  <2> QED
    BY <1>2, <1>3, <2>1, <2>2 DEF OrderInv, HeldInv, h
<1> QED
  BY <1>4, <1>5, <1>6, <1>7, <1>8, <1>9, <1>10, <1>11, <1>12 DEF Next, Chip, AppStep, IsrStep

(* Each packet reaches the application once at the most, through the queue *)
(* or by its own read of the FIFO, and each of the two ways keeps the      *)
(* order of arrival, whatever the two threads do to each other             *)
(* (rf24.c:807-825, 575-582, receiver.c:113-124): a step takes the head of *)
(* one part to the end of the next, or drops it.                           *)
THEOREM PacketsInOrder == Spec => []InOrder
<1>1. Types /\ OrderInv => InOrder
  <2> SUFFICES ASSUME Types, OrderInv PROVE InOrder
    OBVIOUS
  <2> DEFINE f == delivered.fifo
             d == delivered.queue
             q == Queued
             h == isr.held
             r == chip.rx
             n == chip.air
  <2>1. /\ f \in Seq(Nat) /\ d \in Seq(Nat) /\ q \in Seq(Nat) /\ h \in Seq(Nat)
        /\ r \in Seq(Nat) /\ n \in Nat
        /\ Ordered(d, q, h, r, n) /\ Direct(f, d, q, h, r, n)
    BY PipelineTypes DEF OrderInv, Whole
  <2>2. Pipeline = (d \o q) \o h
    BY DEF Pipeline
  <2> HIDE DEF f, d, q, h, r, n
  <2>3. d \o q \in Seq(Nat) /\ (d \o q) \o h \in Seq(Nat)
    BY <2>1
  <2>4. Rising(d \o q) /\ Before(d \o q, h) /\ Before(d \o q, r)
    BY <2>1, Concatenated DEF Ordered
  <2>5. Rising((d \o q) \o h) /\ Before((d \o q) \o h, r)
    BY <2>1, <2>3, <2>4, Concatenated DEF Ordered
  <2>6. Rising(Pipeline \o r)
    BY <2>1, <2>2, <2>3, <2>5, Concatenated DEF Ordered
  <2>7. Rising(f \o r)
    BY <2>1, Concatenated DEF Ordered, Direct
  <2>8. Apart(d \o q, f)
    BY <2>1, ApartParts DEF Direct
  <2>9. Apart((d \o q) \o h, f)
    BY <2>1, <2>3, <2>8, ApartParts DEF Direct
  <2> QED
    BY <2>2, <2>6, <2>7, <2>9 DEF InOrder, Apart, f, r
<1> QED
  BY <1>1, TypesInit, TypesNext, BootInit, BootNext, CreateInit, CreateNext,
     OrderInit, OrderNext, PTL DEF Spec
-----------------------------------------------------------------------------
(* An application that only receives, with memory enough for every packet: *)
(* the chip has nothing to send and raises no flag but RX_DR, which the    *)
(* interrupt thread clears before it polls again unless it falls anew.     *)
ReceiveOnly == Ops \cap {"send", "write"} = {} /\ ~ MallocMayFail

ArmedInv ==
  /\ \A i \in 1 .. Len(app.todo) : app.todo[i] # "write_payload"
  /\ packets = NoQueue /\ Left < 4 => chip.tx = <<>>
  /\ packets # NoQueue => chip.tx = <<>> /\ chip.flags \subseteq {"RX_DR"}
  /\ isr.pc \in {"poll", "txds"} => chip.flags = {} \/ chip.edge

LEMMA InitQuiet == \A i \in 1 .. 7 : rf24_init_radio[i] # "write_payload"
<1>1. \A i \in 1 .. 7 : i = 1 \/ i = 2 \/ i = 3 \/ i = 4 \/ i = 5 \/ i = 6 \/ i = 7
  OBVIOUS
<1> QED
  BY <1>1, InitSteps

LEMMA ReceiveSteps ==
  ASSUME ReceiveOnly, NEW op \in Ops
  PROVE  Steps(op) \in Seq(Quiet)
<1>1. op \in OneStep \/ op \in {"startListening", "stopListening", "resetcfg"}
  BY RadioAssumption DEF ReceiveOnly, Calls
<1>2. op \in OneStep => <<op>> \in Seq(Quiet)
  BY QuietNames, Tuples
<1> QED
  BY <1>1, <1>2, QuietLists DEF Steps, OneStep

LEMMA ArmedInit == Init => ArmedInv
<1> SUFFICES ASSUME Init PROVE ArmedInv
  OBVIOUS
<1>1. app.todo = rf24_init_radio /\ packets = NoQueue /\ isr.pc = "off"
  BY DEF Init
<1>2. Left = 7
  BY <1>1, InitSteps DEF Left
<1> QED
  BY <1>1, <1>2, InitQuiet, InitSteps DEF ArmedInv

LEMMA NothingToWrite ==
  ASSUME ReceiveOnly, Types, ArmedInv, [Next]_vars
  PROVE  \A i \in 1 .. Len(app'.todo) : app'.todo[i] # "write_payload"
<1>1. \A i \in 1 .. Len(app.todo) : app.todo[i] # "write_payload"
  BY DEF ArmedInv
<1>2. CASE \/ app'.todo = app.todo \/ app'.todo = <<>>
           \/ \A i \in 1 .. Len(app'.todo) :
                i + 1 \in 1 .. Len(app.todo) /\ app'.todo[i] = app.todo[i + 1]
  BY <1>1, <1>2
<1>3. \A s \in Seq(Quiet) : \A i \in 1 .. Len(s) : s[i] # "write_payload"
  <2>1. \A s \in Seq(Quiet) : \A i \in 1 .. Len(s) : s[i] \in Quiet
    OBVIOUS
  <2> QED
    BY <2>1 DEF Quiet
<1>4. CASE app'.todo = read_payload \/ \E op \in Ops : app'.todo = Steps(op)
  BY <1>3, <1>4, ReceiveSteps, QuietLists
<1> QED
  BY <1>2, <1>4, TodoNext

LEMMA ArmedNext ==
  ASSUME ReceiveOnly, Types, BootInv, ArmedInv, [Next]_vars
  PROVE  ArmedInv'
<1>1. /\ chip \in ChipType /\ isr \in IsrType /\ app.todo \in Seq(StepNames)
      /\ chip.sending => chip.tx # <<>>
      /\ chip.flags \subseteq Flags
  BY DEF Types, ChipOK, QueueOK, AppOK, AppType, ChipType
<1>2. /\ isr.pc # "off" => chip.tx = <<>> /\ chip.flags \subseteq {"RX_DR"} /\ ~ chip.sending
  <2>1. CASE packets # NoQueue
    BY <1>1, <2>1 DEF ArmedInv
  <2>2. CASE packets = NoQueue
    BY <1>1, <2>2 DEF ArmedInv, BootInv
  <2> QED
    BY <2>1, <2>2
<1>3. ~ write_payload
  <2>1. app.todo # <<>> => Head(app.todo) = app.todo[1] /\ 1 \in 1 .. Len(app.todo)
    BY <1>1
  <2> QED
    BY <2>1 DEF write_payload, At, ArmedInv
<1>4. /\ chip'.tx = chip.tx \/ chip'.tx = <<>> \/ chip.sending
      /\ chip'.flags \subseteq chip.flags \cup {"RX_DR"} \/ chip.sending
  <2>1. CASE Arrive \/ TxStart \/ TxDone \/ TxFail
    BY <1>1, <2>1 DEF Arrive, TxStart, TxDone, TxFail, Raise, ChipType
  <2>2. CASE ChipStep \/ DirectRead \/ CreateThread
    BY <1>1, <2>2 DEF ChipStep, DirectRead, CreateThread, disable_radio, enable_radio, ClearFlags,
         flush_rx, flush_tx, read_rx, WriteConfig, ChipType
  <2>3. CASE \/ Call \/ DirectTest \/ SetListening \/ CreateQueue \/ PollOutcome
             \/ rf24_getStatus \/ rf24_recv \/ UNCHANGED vars
    BY <2>3 DEF Call, DirectTest, SetListening, CreateQueue, PollOutcome, AwaitOutcome, Timeout,
         rf24_getStatus, rf24_recv, vars
  <2>4. CASE IsrStep
    BY <1>1, <2>4 DEF IsrStep, IsrWake, IsrPeek, IsrTest, IsrLength, IsrFlush, IsrDisable,
         IsrRead, IsrClearOne, IsrEnable, IsrAdd, IsrClear, IsrTxDs, Go, disable_radio,
         enable_radio, ClearFlags, flush_rx, read_rx, ChipType
  <2> QED
    BY <1>3, <2>1, <2>2, <2>3, <2>4 DEF Next, Chip, AppStep
<1>5. packets' # NoQueue => chip'.tx = <<>> /\ chip'.flags \subseteq {"RX_DR"}
  <2> SUFFICES ASSUME packets' # NoQueue
               PROVE  chip'.tx = <<>> /\ chip'.flags \subseteq {"RX_DR"}
    OBVIOUS
  <2>1. chip.tx = <<>> /\ chip.flags \subseteq {"RX_DR"}
    <3>1. CASE packets # NoQueue
      BY <3>1 DEF ArmedInv
    <3>2. CASE packets = NoQueue
      <4>1. Left = 1
        BY <3>2, BootEnds
      <4> QED
        BY <3>2, <4>1 DEF ArmedInv, BootInv
    <3> QED
      BY <3>1, <3>2
  <2> QED
    BY <1>1, <1>4, <2>1
<1>6. packets' = NoQueue /\ Left' < 4 => chip'.tx = <<>>
  <2> SUFFICES ASSUME packets' = NoQueue, Left' < 4 PROVE chip'.tx = <<>>
    OBVIOUS
  <2>1. packets = NoQueue
    BY QueueStays
  <2>2. CASE Left < 4
    BY <1>1, <1>4, <2>1, <2>2 DEF ArmedInv
  <2>3. CASE ~ (Left < 4)
    <3>1. Left' # Left /\ Left \in 1 .. 7
      BY <2>1, <2>3 DEF BootInv
    <3>2. Left' = Left - 1 /\ AppStep /\ At(rf24_init_radio[8 - Left])
      BY <2>1, <3>1, BootStep
    <3>3. Left = 4
      BY <2>3, <3>1, <3>2
    <3>4. AppStep /\ At("flush_tx")
      BY <3>2, <3>3, InitSteps
    <3>5. ChipStep
      BY <3>4 DEF AppStep, DirectTest, DirectRead, SetListening, CreateThread, CreateQueue, write_payload,
         PollOutcome, AwaitOutcome, Timeout, rf24_getStatus, rf24_recv, At
    <3>6. chip' = flush_tx(chip)
      BY <3>4, <3>5 DEF ChipStep, At
    <3> QED
      BY <1>1, <3>6 DEF flush_tx, ChipType
  <2> QED
    BY <2>2, <2>3
<1>7. isr'.pc \in {"poll", "txds"} => chip'.flags = {} \/ chip'.edge
  <2>1. CASE Arrive \/ TxStart \/ TxDone \/ TxFail
    <3>1. isr' = isr
      BY <2>1 DEF Arrive, TxStart, TxDone, TxFail
    <3>2. \/ chip'.flags = chip.flags /\ chip'.edge = chip.edge
          \/ chip.flags = {} /\ chip'.edge
          \/ chip.edge /\ chip'.edge
          \/ chip.flags # {} /\ ~ chip.edge
      BY <1>1, <2>1 DEF Arrive, TxStart, TxDone, TxFail, Raise, ChipType
    <3> QED
      BY <3>1, <3>2 DEF ArmedInv
  <2>2. CASE ChipStep \/ DirectRead
    <3>1. isr' = isr /\ chip'.flags \subseteq chip.flags /\ chip'.edge = chip.edge
      BY <1>1, <2>2 DEF ChipStep, DirectRead, disable_radio, enable_radio, ClearFlags, flush_rx,
           flush_tx, read_rx, WriteConfig, ChipType
    <3> QED
      BY <3>1 DEF ArmedInv
  <2>3. CASE CreateThread
    BY <1>1, <2>3 DEF CreateThread, ChipType
  <2>4. CASE \/ Call \/ DirectTest \/ SetListening \/ CreateQueue \/ PollOutcome
             \/ rf24_getStatus \/ rf24_recv \/ UNCHANGED vars
    <3>1. chip' = chip /\ isr' = isr
      BY <2>4 DEF Call, DirectTest, SetListening, CreateQueue, PollOutcome, AwaitOutcome, Timeout,
           rf24_getStatus, rf24_recv, vars
    <3> QED
      BY <3>1 DEF ArmedInv
  <2>5. CASE \/ IsrWake \/ IsrTest \/ IsrFlush \/ IsrDisable \/ IsrRead \/ IsrClearOne
             \/ IsrEnable \/ IsrAdd
    BY <1>1, <2>5 DEF IsrWake, IsrTest, IsrFlush, IsrDisable, IsrRead, IsrClearOne,
         IsrEnable, IsrAdd, Go, IsrType
  <2>6. CASE IsrLength
    BY <1>1, <2>6 DEF IsrLength, Go, IsrType, ReceiveOnly
  <2>7. CASE IsrPeek
    BY <1>1, <1>2, <2>7 DEF IsrPeek, IsrType
  <2>8. CASE IsrClear
    <3>1. isr.pc = "clear" /\ chip' = ClearFlags(chip, {"RX_DR"})
      BY <2>8 DEF IsrClear, Go
    <3>2. chip'.flags = {}
      BY <1>1, <1>2, <3>1 DEF ClearFlags, ChipType
    <3> QED
      BY <3>2
  <2>9. CASE IsrTxDs
    <3>1. /\ isr.pc = "txds" /\ chip'.flags \subseteq chip.flags /\ chip'.edge = chip.edge
      BY <1>1, <2>9 DEF IsrTxDs, Go, ClearFlags, ChipType
    <3> QED
      BY <3>1 DEF ArmedInv
  <2> QED
    BY <1>3, <2>1, <2>2, <2>3, <2>4, <2>5, <2>6, <2>7, <2>8, <2>9
       DEF Next, Chip, AppStep, IsrStep
<1> QED
  BY <1>5, <1>6, <1>7, NothingToWrite DEF ArmedInv

(* An application that only receives, also from the FIFO itself, is woken  *)
(* by the next packet: while the interrupt thread sleeps no flag holds the *)
(* IRQ line low (rf24.c:807-835, receiver.c:113-118).                      *)
THEOREM SleepsArmed == ASSUME ReceiveOnly PROVE Spec => []IrqArmed
<1>1. ArmedInv => IrqArmed
  BY DEF ArmedInv, IrqArmed, Asleep
<1>2. Types /\ BootInv /\ ArmedInv /\ [Next]_vars => ArmedInv'
  BY ArmedNext
<1> QED
  BY <1>1, <1>2, TypesInit, TypesNext, BootInit, BootNext, ArmedInit, PTL DEF Spec
-----------------------------------------------------------------------------
(* A packet that never arrived.  The interrupt thread reads one when the   *)
(* FIFO, in which it has seen a packet, is empty by then: Window.  Only    *)
(* the steps of Takes empty it, a call makes one of them at the most, and  *)
(* until it has been made it is still to come: Pending.  (direct_test is   *)
(* counted because direct_read replaces it.)                               *)
Takes == {"flush_rx", "direct_read", "direct_test"}
Filling == StepNames \ Takes

OneTake(s) ==
  /\ s \in Seq(StepNames)
  /\ \A i, j \in 1 .. Len(s) : s[i] \in Takes /\ s[j] \in Takes => i = j

Pending == \E i \in 1 .. Len(app.todo) : app.todo[i] \in Takes
Window == isr.pc \in {"length", "disable", "read"} /\ chip.rx = <<>>

OneIf(b) == IF b THEN 1 ELSE 0

PhantomInv ==
  /\ OneTake(app.todo)
  /\ packets = NoQueue => isr.phantoms = 0
  /\ packets # NoQueue => isr.phantoms + OneIf(Window) + OneIf(Pending) <= app.emptying

LEMMA FillingOnce ==
  ASSUME NEW s \in Seq(Filling)
  PROVE  OneTake(s) /\ \A i \in 1 .. Len(s) : s[i] \notin Takes
<1>1. \A i \in 1 .. Len(s) : s[i] \in Filling
  OBVIOUS
<1>2. s \in Seq(StepNames)
  BY DEF Filling
<1> QED
  BY <1>1, <1>2 DEF OneTake, Filling

(* A call that is not one of Emptying takes nothing, one of them once.     *)
LEMMA TakeSteps ==
  /\ \A op \in Calls \ Emptying : Steps(op) \in Seq(Filling)
  /\ \A op \in Calls : OneTake(Steps(op))
  /\ OneTake(read_payload)
  /\ OneTake(rf24_init_radio)
<1>1. {"ce_low", "ce_high", "clear_flags", "config_rx", "config_tx", "rst_cfg", "listening",
       "write_payload", "poll_outcome", "getStatus", "recv", "recv_block", "powerUp",
       "powerDown"} \subseteq Filling
  BY DEF Filling, Takes, StepNames, OneStep
<1>2. /\ rf24_startListening \in Seq(Filling)
      /\ TransmitOnly \in Seq(Filling)
      /\ <<"ce_low">> \in Seq(Filling)
      /\ <<"rst_cfg">> \in Seq(Filling)
      /\ <<"poll_outcome", "getStatus">> \in Seq(Filling)
  BY <1>1, Tuples DEF rf24_startListening, TransmitOnly
<1>3. <<"ce_low">> \o TransmitOnly \o rf24_startListening \in Seq(Filling)
  BY <1>2
<1>4. transmit_payload \in Seq(Filling)
  BY <1>2, <1>3 DEF transmit_payload
<1>5. rf24_write \in Seq(Filling)
  BY <1>2, <1>4 DEF rf24_write
<1>6. \A op \in {"recv", "recv_block", "powerUp", "powerDown"} : <<op>> \in Seq(Filling)
  BY <1>1, Tuples
<1>7. \A op \in Calls \ Emptying : Steps(op) \in Seq(Filling)
  <2> SUFFICES ASSUME NEW op \in Calls \ Emptying PROVE Steps(op) \in Seq(Filling)
    OBVIOUS
  <2>1. op \in {"recv", "recv_block", "powerUp", "powerDown", "startListening", "send", "write"}
    BY DEF Calls, OneStep, Emptying
  <2> QED
    BY <1>2, <1>4, <1>5, <1>6, <2>1 DEF Steps
<1>8. OneTake(rf24_stopListening) /\ OneTake(setDefaults) /\ OneTake(read_payload)
  <2>1. /\ rf24_stopListening \in Seq(StepNames)
        /\ setDefaults \in Seq(StepNames)
        /\ read_payload \in Seq(StepNames)
    BY QuietLists DEF Quiet
  <2>2. OneTake(rf24_stopListening)
    BY <2>1 DEF OneTake, Takes, rf24_stopListening
  <2>3. OneTake(setDefaults)
    BY <2>1 DEF OneTake, Takes, setDefaults
  <2>4. OneTake(read_payload)
    BY <2>1 DEF OneTake, Takes, read_payload
  <2> QED
    BY <2>2, <2>3, <2>4
<1>9. OneTake(rf24_resetcfg)
  <2>1. \A i \in 1 .. Len(<<"rst_cfg">>) : <<"rst_cfg">>[i] \notin Takes
    BY <1>2, FillingOnce
  <2>2. <<"rst_cfg">> \in Seq(StepNames) /\ rf24_resetcfg \in Seq(StepNames)
    BY <1>2, QuietLists DEF Filling, Quiet
  <2> QED
    BY <1>8, <2>1, <2>2 DEF OneTake, rf24_resetcfg
<1>10. OneTake(<<"direct_test">>)
  <2>1. <<"direct_test">> \in Seq(StepNames)
    BY Tuples DEF StepNames, OneStep
  <2> QED
    BY <2>1 DEF OneTake
<1>11. \A op \in Calls : OneTake(Steps(op))
  <2> SUFFICES ASSUME NEW op \in Calls PROVE OneTake(Steps(op))
    OBVIOUS
  <2>1. CASE op \notin Emptying
    BY <1>7, <2>1, FillingOnce
  <2>2. CASE op \in Emptying
    BY <1>8, <1>9, <1>10, <2>2 DEF Emptying, Steps
  <2> QED
    BY <2>1, <2>2
<1>12. OneTake(rf24_init_radio)
  <2>1. \A i \in 1 .. 7 : i = 1 \/ i = 2 \/ i = 3 \/ i = 4 \/ i = 5 \/ i = 6 \/ i = 7
    OBVIOUS
  <2>2. \A i \in 1 .. 7 : rf24_init_radio[i] \in Takes => i = 3
    BY <2>1, InitSteps DEF Takes
  <2> QED
    BY <2>2, InitSteps DEF OneTake
<1> QED
  BY <1>7, <1>8, <1>11, <1>12

LEMMA PhantomInit == Init => PhantomInv
  BY TakeSteps DEF Init, PhantomInv

(* What a step does to the steps still to be made that take.               *)
LEMMA PendingNext ==
  ASSUME Types, OneTake(app.todo), [Next]_vars
  PROVE  /\ OneTake(app.todo)'
         /\ \/ Call /\ app'.emptying = app.emptying + 1
            \/ Call /\ app'.emptying = app.emptying /\ ~ Pending'
            \/ /\ app'.emptying = app.emptying /\ (Pending' => Pending)
               /\ DirectRead \/ (ChipStep /\ At("flush_rx")) => Pending /\ ~ Pending'
<1>1. app \in AppType /\ app.todo \in Seq(StepNames) /\ app.emptying \in Nat
  BY Constants DEF Types, AppOK, AppType
<1>2. app.todo # <<>> => Head(app.todo) = app.todo[1] /\ 1 \in 1 .. Len(app.todo)
  BY <1>1
<1>3. CASE Call
  <2>1. PICK op \in Ops : app' = [app EXCEPT !.ops = @ + 1, !.todo = Steps(op),
                                 !.emptying = IF op \in Emptying THEN @ + 1 ELSE @]
    BY <1>3 DEF Call
  <2>2. /\ app'.todo = Steps(op) /\ op \in Calls
        /\ app'.emptying = IF op \in Emptying THEN app.emptying + 1 ELSE app.emptying
    BY <1>1, <2>1, RadioAssumption DEF AppType
  <2>3. op \notin Emptying => ~ Pending'
    BY <2>2, TakeSteps, FillingOnce DEF Pending
  <2> QED
    BY <1>3, <2>2, <2>3, TakeSteps
<1>4. CASE ~ Call
  <2>1. app'.emptying = app.emptying
    BY <1>1, <1>4 DEF Next, Chip, Arrive, TxStart, TxDone, TxFail, AppStep, ChipStep, DirectTest,
       DirectRead, SetListening, CreateThread, CreateQueue, write_payload, PollOutcome,
       AwaitOutcome, Timeout, rf24_getStatus, rf24_recv, Done, AppType, IsrStep, IsrWake, IsrPeek,
       IsrTest, IsrLength, IsrFlush, IsrDisable, IsrRead, IsrClearOne, IsrEnable, IsrAdd,
       IsrClear, IsrTxDs, Go, vars
  <2>2. CASE app'.todo = app.todo
    <3>1. ~ DirectRead /\ ~ ChipStep
      <4>1. app.todo # <<>> => app.todo # Tail(app.todo)
        <5>1. app.todo # <<>> => Len(Tail(app.todo)) # Len(app.todo)
          BY <1>1
        <5> QED
          BY <5>1, Zenon
      <4> QED
        BY <1>1, <2>2, <4>1 DEF DirectRead, ChipStep, At, Done, AppType
    <3> QED
      BY <2>1, <2>2, <3>1 DEF Pending
  <2>3. CASE /\ app.todo # <<>> /\ app'.todo = Tail(app.todo)
             /\ \A i \in 1 .. Len(app'.todo) :
                  i + 1 \in 1 .. Len(app.todo) /\ app'.todo[i] = app.todo[i + 1]
    <3>1. Pending' => \E i \in 1 .. Len(app.todo) : i # 1 /\ app.todo[i] \in Takes
      BY <2>3 DEF Pending
    <3>2. Pending' => Pending
      BY <3>1 DEF Pending
    <3>3. app.todo[1] \in Takes => Pending /\ ~ Pending'
      BY <1>2, <2>3, <3>1 DEF OneTake, Pending
    <3>4. DirectRead \/ (ChipStep /\ At("flush_rx")) => app.todo[1] \in Takes
      BY <1>2, <2>3 DEF DirectRead, At, Takes
    <3>5. OneTake(app.todo)'
      <4>1. app'.todo \in Seq(StepNames)
        BY <1>1, <2>3
      <4>2. \A i, j \in 1 .. Len(app'.todo) :
              app'.todo[i] \in Takes /\ app'.todo[j] \in Takes => i + 1 = j + 1
        BY <2>3 DEF OneTake
      <4> QED
        BY <4>1, <4>2 DEF OneTake
    <3> QED
      BY <2>1, <3>2, <3>3, <3>4, <3>5
  <2>4. CASE DirectTest /\ (app'.todo = <<>> \/ app'.todo = read_payload)
    <3>1. Pending
      BY <1>2, <2>4 DEF DirectTest, At, Pending, Takes
    <3>2. OneTake(app.todo)'
      <4>1. OneTake(<<>>) /\ OneTake(read_payload)
        BY TakeSteps DEF OneTake
      <4> QED
        BY <2>4, <4>1
    <3>3. ~ DirectRead /\ ~ (ChipStep /\ At("flush_rx"))
      BY <2>4 DEF DirectTest, DirectRead, At
    <3> QED
      BY <2>1, <3>1, <3>2, <3>3
  <2> QED
    BY <1>4, <2>2, <2>3, <2>4, TodoNext
<1> QED
  BY <1>3, <1>4

(* The window opens only when the application takes, and closes when the   *)
(* interrupt thread reads the packet that never arrived.                   *)
LEMMA WindowNext ==
  ASSUME Types, [Next]_vars
  PROVE  \/ isr'.phantoms = isr.phantoms /\ (Window' => Window)
         \/ isr' = isr /\ (DirectRead \/ (ChipStep /\ At("flush_rx")))
         \/ IsrRead /\ isr'.phantoms = isr.phantoms + 1 /\ Window /\ ~ Window'
<1>1. /\ chip \in ChipType /\ isr \in IsrType /\ chip.rx \in Seq(Packets)
  BY DEF Types, ChipOK, QueueOK, ChipType
<1>2. CASE DirectRead \/ (ChipStep /\ At("flush_rx"))
  BY <1>2 DEF DirectRead, ChipStep
<1>3. CASE ChipStep /\ ~ At("flush_rx")
  <2>1. chip'.rx = chip.rx /\ isr' = isr
    BY <1>1, <1>3 DEF ChipStep, disable_radio, enable_radio, ClearFlags, flush_tx, WriteConfig,
       ChipType
  <2> QED
    BY <2>1 DEF Window
<1>4. CASE Arrive
  <2>1. chip'.rx = Append(chip.rx, chip.air + 1) /\ isr' = isr
    BY <1>1, <1>4 DEF Arrive, Raise, ChipType
  <2>2. Len(Append(chip.rx, chip.air + 1)) = Len(chip.rx) + 1 /\ Len(chip.rx) \in Nat
    BY <1>1
  <2>3. chip'.rx # <<>>
    BY <2>1, <2>2
  <2> QED
    BY <2>1, <2>3 DEF Window
<1>5. CASE \/ TxStart \/ TxDone \/ TxFail \/ write_payload \/ Call \/ DirectTest \/ SetListening
           \/ CreateQueue \/ PollOutcome \/ rf24_getStatus \/ rf24_recv \/ UNCHANGED vars
  <2>1. chip'.rx = chip.rx /\ isr' = isr
    BY <1>1, <1>5 DEF TxStart, TxDone, TxFail, Raise, write_payload, WritePayload, ChipType, Call,
       DirectTest, SetListening, CreateQueue, PollOutcome, AwaitOutcome, Timeout,
       rf24_getStatus, rf24_recv, vars
  <2> QED
    BY <2>1 DEF Window
<1>6. CASE CreateThread
  <2>1. isr'.pc = "poll" /\ isr'.phantoms = isr.phantoms
    BY <1>1, <1>6 DEF CreateThread, IsrType
  <2> QED
    BY <2>1 DEF Window
<1>7. CASE IsrRead
  <2>1. isr.pc = "read" /\ isr'.pc = "clear_one"
        /\ isr'.phantoms = IF chip.rx = <<>> THEN isr.phantoms + 1 ELSE isr.phantoms
    BY <1>1, <1>7 DEF IsrRead, IsrType
  <2> QED
    BY <1>7, <2>1 DEF Window
<1>8. CASE IsrTest \/ IsrLength \/ IsrDisable
  <2>1. chip'.rx = chip.rx /\ isr'.phantoms = isr.phantoms
    BY <1>1, <1>8 DEF IsrTest, IsrLength, IsrDisable, Go, disable_radio, ChipType, IsrType
  <2>2. isr'.pc \in {"length", "disable", "read"} /\ chip.rx = <<>>
          => isr.pc \in {"length", "disable"}
    BY <1>1, <1>8 DEF IsrTest, IsrLength, IsrDisable, Go, IsrType
  <2> QED
    BY <2>1, <2>2 DEF Window
<1>9. CASE \/ IsrWake \/ IsrPeek \/ IsrFlush \/ IsrClearOne \/ IsrEnable \/ IsrAdd
           \/ IsrClear \/ IsrTxDs
  <2>1. isr'.pc \notin {"length", "disable", "read"} /\ isr'.phantoms = isr.phantoms
    BY <1>1, <1>9 DEF IsrWake, IsrPeek, IsrFlush, IsrClearOne, IsrEnable, IsrAdd, IsrClear,
       IsrTxDs, Go, IsrType
  <2> QED
    BY <2>1 DEF Window
<1> QED
  BY <1>2, <1>3, <1>4, <1>5, <1>6, <1>7, <1>8, <1>9 DEF Next, Chip, AppStep, IsrStep

LEMMA PhantomNext ==
  ASSUME Types, BootInv, PhantomInv, [Next]_vars
  PROVE  PhantomInv'
<1>1. OneTake(app.todo) /\ OneTake(app.todo)'
  BY PendingNext DEF PhantomInv
<1>2. /\ isr \in IsrType /\ isr.phantoms \in Nat
      /\ app \in AppType /\ app.emptying \in Nat
      /\ app'.emptying \in Nat /\ isr'.phantoms \in Nat
  BY TypesNext, Constants DEF Types, AppOK, AppType, QueueOK, IsrType
<1>3. CASE packets = NoQueue
  <2>1. isr.phantoms = 0 /\ ~ Window /\ ~ IsrRead
    BY <1>3 DEF PhantomInv, BootInv, Window, IsrRead
  <2>2. isr'.phantoms = 0
    BY <2>1, WindowNext
  <2>3. packets' # NoQueue => ~ Window' /\ ~ Pending'
    <3> SUFFICES ASSUME packets' # NoQueue PROVE ~ Window' /\ ~ Pending'
      OBVIOUS
    <3>1. CreateQueue /\ Len(app'.todo) = 0
      BY <1>3, BootEnds
    <3>2. isr' = isr /\ chip' = chip
      BY <3>1 DEF CreateQueue
    <3> QED
      BY <2>1, <3>1, <3>2 DEF Window, Pending
  <2> QED
    BY <1>1, <1>2, <2>2, <2>3 DEF PhantomInv, OneIf
<1>4. CASE packets # NoQueue
  <2>1. isr.phantoms + OneIf(Window) + OneIf(Pending) <= app.emptying
    BY <1>4 DEF PhantomInv
  <2>2. packets' # NoQueue
    BY <1>4, QueueStays
  <2>3. isr'.phantoms + OneIf(Window') + OneIf(Pending') <= app'.emptying
    <3>1. CASE Call
      <4>1. Window' = Window /\ isr'.phantoms = isr.phantoms /\ ~ Pending
            /\ ~ DirectRead /\ ~ ChipStep
        BY <3>1 DEF Call, Window, Pending, DirectRead, ChipStep, At
      <4> QED
        BY <1>1, <1>2, <2>1, <4>1, PendingNext DEF OneIf
    <3>2. CASE ~ Call
      <4>1. /\ app'.emptying = app.emptying /\ (Pending' => Pending)
            /\ DirectRead \/ (ChipStep /\ At("flush_rx")) => Pending /\ ~ Pending'
        BY <1>1, <3>2, PendingNext
      <4> QED
        BY <1>2, <2>1, <4>1, WindowNext DEF OneIf
    <3> QED
      BY <3>1, <3>2
  <2> QED
    BY <1>1, <2>2, <2>3 DEF PhantomInv
<1> QED
  BY <1>3, <1>4

(* The interrupt thread hands over no more packets that never arrived than *)
(* the application has made calls that empty the FIFO beside it, whatever  *)
(* the order of their steps (rf24.c:810-822, 505, 546, receiver.c:115-116).*)
THEOREM PhantomsAreExplained == Spec => []PhantomsExplained
<1>1. Types /\ PhantomInv => PhantomsExplained
  <2> SUFFICES ASSUME Types, PhantomInv PROVE isr.phantoms <= app.emptying
    BY DEF PhantomsExplained
  <2>1. isr.phantoms \in Nat /\ app.emptying \in Nat
    BY Constants DEF Types, AppOK, AppType, QueueOK, IsrType
  <2> QED
    BY <2>1 DEF PhantomInv, OneIf
<1>2. Types /\ BootInv /\ PhantomInv /\ [Next]_vars => PhantomInv'
  BY PhantomNext
<1> QED
  BY <1>1, <1>2, TypesInit, TypesNext, BootInit, BootNext, PhantomInit, PTL DEF Spec
-----------------------------------------------------------------------------
(* An application that, once it listens, only sends and receives: every    *)
(* step that stops the chip from listening has one to come that undoes it. *)
StaysOn == Ops \cap {"stopListening", "resetcfg", "direct_test", "powerDown"} = {}

ToCome(step) == \E i \in 1 .. Len(app.todo) : app.todo[i] = step

(* The driver says it is listening, or is about to.                        *)
MeansToListen == app.listening \/ ToCome("listening")

Undone(s, down, up) ==
  \A i \in 1 .. Len(s) : s[i] = down => \E j \in 1 .. Len(s) : i < j /\ s[j] = up

Breaking == {"not_listening", "powerDown", "rst_cfg", "direct_test", "create_thread"}

ListenInv ==
  /\ packets = NoQueue => ~ MeansToListen
  /\ packets # NoQueue => \A i \in 1 .. Len(app.todo) : app.todo[i] \notin Breaking
  /\ MeansToListen =>
       /\ Undone(app.todo, "ce_low", "ce_high")
       /\ Undone(app.todo, "config_tx", "config_rx")
       /\ ToCome("ce_high") \/ isr.pc \in {"read", "clear_one", "enable"} \/ chip.ce
       /\ ToCome("config_rx") \/ chip.config = Powers

Resend == <<"ce_low">> \o TransmitOnly \o rf24_startListening

LEMMA Parts ==
  ASSUME NEW s \in Seq(StepNames), NEW t \in Seq(StepNames)
  PROVE  /\ s \o t \in Seq(StepNames) /\ Len(s \o t) = Len(s) + Len(t)
         /\ \A i \in 1 .. Len(s) : (s \o t)[i] = s[i]
         /\ \A i \in 1 .. Len(t) : (s \o t)[Len(s) + i] = t[i]
<1>1. s \o t \in Seq(StepNames) /\ Len(s \o t) = Len(s) + Len(t)
  OBVIOUS
<1>2. \A i \in 1 .. Len(s) : (s \o t)[i] = s[i]
  OBVIOUS
<1>3. \A i \in 1 .. Len(t) : (s \o t)[Len(s) + i] = t[i]
  OBVIOUS
<1> QED
  BY <1>1, <1>2, <1>3

LEMMA ResendSteps ==
  /\ Resend \in Seq(StepNames) /\ Len(Resend) = 9
  /\ Resend[1] = "ce_low" /\ Resend[2] = "config_tx" /\ Resend[3] = "write_payload"
  /\ Resend[4] = "ce_high" /\ Resend[5] = "ce_low" /\ Resend[6] = "config_rx"
  /\ Resend[7] = "clear_flags" /\ Resend[8] = "ce_high" /\ Resend[9] = "listening"
<1>1. TransmitOnly \in Seq(StepNames) /\ rf24_startListening \in Seq(StepNames)
      /\ <<"ce_low">> \in Seq(StepNames)
  BY Tuples DEF TransmitOnly, rf24_startListening, StepNames
<1>2. /\ Len(TransmitOnly) = 4 /\ Len(rf24_startListening) = 4
      /\ TransmitOnly[1] = "config_tx" /\ TransmitOnly[2] = "write_payload"
      /\ TransmitOnly[3] = "ce_high" /\ TransmitOnly[4] = "ce_low"
      /\ rf24_startListening[1] = "config_rx" /\ rf24_startListening[2] = "clear_flags"
      /\ rf24_startListening[3] = "ce_high" /\ rf24_startListening[4] = "listening"
  BY DEF TransmitOnly, rf24_startListening
<1> DEFINE front == <<"ce_low">> \o TransmitOnly
<1>3. /\ front \in Seq(StepNames) /\ Len(front) = 5 /\ front[1] = "ce_low"
      /\ front[2] = "config_tx" /\ front[3] = "write_payload"
      /\ front[4] = "ce_high" /\ front[5] = "ce_low"
  <2>1. Len(<<"ce_low">>) = 1 /\ <<"ce_low">>[1] = "ce_low"
    OBVIOUS
  <2> DEFINE one == <<"ce_low">>
  <2>2. front = one \o TransmitOnly /\ one \in Seq(StepNames) /\ Len(one) = 1 /\ one[1] = "ce_low"
    BY <1>1, <2>1
  <2> HIDE DEF front, one
  <2>3. /\ front \in Seq(StepNames) /\ Len(front) = 1 + 4 /\ front[1] = one[1]
        /\ front[1 + 1] = TransmitOnly[1] /\ front[1 + 2] = TransmitOnly[2]
        /\ front[1 + 3] = TransmitOnly[3] /\ front[1 + 4] = TransmitOnly[4]
    <3>1. /\ front \in Seq(StepNames) /\ Len(front) = Len(one) + Len(TransmitOnly)
          /\ \A i \in 1 .. Len(one) : front[i] = one[i]
          /\ \A i \in 1 .. Len(TransmitOnly) : front[Len(one) + i] = TransmitOnly[i]
      BY <1>1, <2>2, Parts, Zenon
    <3> QED
      BY <1>2, <2>2, <3>1
  <2> QED
    BY <1>2, <2>2, <2>3
<1>4. Resend = front \o rf24_startListening
  BY DEF Resend
<1> HIDE DEF front
<1>5. /\ Resend \in Seq(StepNames) /\ Len(Resend) = 5 + 4
      /\ \A i \in 1 .. 5 : Resend[i] = front[i]
      /\ Resend[5 + 1] = rf24_startListening[1] /\ Resend[5 + 2] = rf24_startListening[2]
      /\ Resend[5 + 3] = rf24_startListening[3] /\ Resend[5 + 4] = rf24_startListening[4]
  <2>1. /\ Resend \in Seq(StepNames) /\ Len(Resend) = Len(front) + Len(rf24_startListening)
        /\ \A i \in 1 .. Len(front) : Resend[i] = front[i]
        /\ \A i \in 1 .. Len(rf24_startListening) :
             Resend[Len(front) + i] = rf24_startListening[i]
    BY <1>1, <1>3, <1>4, Parts, Zenon
  <2> QED
    BY <1>2, <1>3, <2>1
<1> QED
  BY <1>2, <1>3, <1>5

(* What a call leaves to do, if it leaves the driver listening.            *)
Keeps(s) ==
  /\ \A i \in 1 .. Len(s) : s[i] \notin Breaking
  /\ \/ /\ \A i \in 1 .. Len(s) : s[i] # "listening"
        /\ ~ app.listening \/ \A i \in 1 .. Len(s) : s[i] \notin {"ce_low", "config_tx"}
     \/ /\ Undone(s, "ce_low", "ce_high") /\ Undone(s, "config_tx", "config_rx")
        /\ \E i \in 1 .. Len(s) : s[i] = "ce_high"
        /\ \E i \in 1 .. Len(s) : s[i] = "config_rx"

LEMMA KeepsListening ==
  ASSUME StaysOn, NEW op \in Ops, op = "write" => ~ app.listening
  PROVE  Keeps(Steps(op))
<1>1. Keeps(rf24_startListening)
  BY DEF Keeps, Undone, Breaking, rf24_startListening
<1>2. Keeps(Resend)
  <2>1. \A i \in 1 .. 9 : i = 1 \/ i = 2 \/ i = 3 \/ i = 4 \/ i = 5 \/ i = 6 \/ i = 7
                          \/ i = 8 \/ i = 9
    OBVIOUS
  <2>2. Undone(Resend, "ce_low", "ce_high")
    <3>1. \A i \in 1 .. 9 : Resend[i] = "ce_low" => i < 8
      BY <2>1, ResendSteps
    <3> QED
      BY <3>1, ResendSteps DEF Undone
  <2>3. Undone(Resend, "config_tx", "config_rx")
    <3>1. \A i \in 1 .. 9 : Resend[i] = "config_tx" => i < 6
      BY <2>1, ResendSteps
    <3> QED
      BY <3>1, ResendSteps DEF Undone
  <2>4. \A i \in 1 .. 9 : Resend[i] \notin Breaking
    BY <2>1, ResendSteps DEF Breaking
  <2> QED
    BY <2>2, <2>3, <2>4, ResendSteps DEF Keeps
<1>3. ~ app.listening => Keeps(TransmitOnly)
  BY DEF Keeps, Breaking, TransmitOnly
<1>4. Keeps(transmit_payload)
  BY <1>2, <1>3 DEF transmit_payload, Resend
<1>5. ~ app.listening => Keeps(rf24_write)
  BY DEF Keeps, Breaking, rf24_write, transmit_payload, TransmitOnly
<1>6. op \in {"recv", "recv_block", "powerUp", "startListening", "send", "write"}
  BY RadioAssumption DEF StaysOn, Calls, OneStep
<1>7. op \in {"recv", "recv_block", "powerUp"} => Keeps(<<op>>)
  BY DEF Keeps, Breaking
<1> QED
  BY <1>1, <1>4, <1>5, <1>6, <1>7 DEF Steps

LEMMA ListenInit == Init => ListenInv
<1> SUFFICES ASSUME Init PROVE ListenInv
  OBVIOUS
<1>1. app.todo = rf24_init_radio /\ ~ app.listening /\ packets = NoQueue
  BY DEF Init
<1>2. \A i \in 1 .. 7 : i = 1 \/ i = 2 \/ i = 3 \/ i = 4 \/ i = 5 \/ i = 6 \/ i = 7
  OBVIOUS
<1>3. ~ ToCome("listening")
  BY <1>1, <1>2, InitSteps DEF ToCome
<1> QED
  BY <1>1, <1>3 DEF ListenInv, MeansToListen

LEMMA ListenCall ==
  ASSUME StaysOn, Types, BootInv, ListenInv, Call
  PROVE  ListenInv'
<1>1. PICK op \in Ops : /\ op = "write" => ~ app.listening
                        /\ app' = [app EXCEPT !.ops = @ + 1, !.todo = Steps(op),
                             !.emptying = IF op \in Emptying THEN @ + 1 ELSE @]
  BY DEF Call
<1>2. /\ app'.todo = Steps(op) /\ app'.listening = app.listening /\ app.todo = <<>>
      /\ chip' = chip /\ isr' = isr /\ packets' = packets
  BY <1>1 DEF Call, Types, AppOK, AppType
<1>3. Keeps(app'.todo)
  BY <1>1, <1>2, KeepsListening
<1>4. packets # NoQueue
  BY <1>2 DEF BootInv, Left
<1>5. ~ ToCome("ce_high") /\ ~ ToCome("config_rx") /\ ~ ToCome("listening")
  BY <1>2 DEF ToCome
<1>6. ASSUME MeansToListen'
      PROVE  /\ Undone(app'.todo, "ce_low", "ce_high")
             /\ Undone(app'.todo, "config_tx", "config_rx")
             /\ ToCome("ce_high")' \/ isr'.pc \in {"read", "clear_one", "enable"} \/ chip'.ce
             /\ ToCome("config_rx")' \/ chip'.config = Powers
  <2>1. CASE \E i \in 1 .. Len(app'.todo) : app'.todo[i] = "listening"
    BY <1>3, <2>1 DEF Keeps, ToCome
  <2>2. CASE ~ \E i \in 1 .. Len(app'.todo) : app'.todo[i] = "listening"
    <3>1. app.listening /\ MeansToListen
      BY <1>2, <1>6, <2>2 DEF MeansToListen, ToCome
    <3>2. isr.pc \in {"read", "clear_one", "enable"} \/ chip.ce
      BY <1>5, <3>1 DEF ListenInv
    <3>3. chip.config = Powers
      BY <1>5, <3>1 DEF ListenInv
    <3> QED
      BY <1>2, <1>3, <3>1, <3>2, <3>3 DEF Keeps, Undone, ToCome
  <2> QED
    BY <2>1, <2>2
<1> QED
  BY <1>2, <1>3, <1>4, <1>6 DEF ListenInv, Keeps

(* One step fewer to come.                                                 *)
LEMMA ListenTail ==
  ASSUME Types, app.todo # <<>>, app'.todo = Tail(app.todo)
  PROVE  /\ \A step : ToCome(step)' => ToCome(step)
         /\ \A step : ToCome(step) /\ ~ At(step) => ToCome(step)'
         /\ \A down, up : Undone(app.todo, down, up) => Undone(app'.todo, down, up)
         /\ \A down, up : Undone(app.todo, down, up) /\ At(down) => ToCome(up)'
         /\ \A step : At(step) => ToCome(step)
<1>1. /\ app.todo \in Seq(StepNames) /\ Len(app.todo) \in Nat /\ 1 \in 1 .. Len(app.todo)
      /\ Head(app.todo) = app.todo[1] /\ Len(app'.todo) = Len(app.todo) - 1
      /\ \A i \in 1 .. Len(app'.todo) : i + 1 \in 1 .. Len(app.todo)
                                        /\ app'.todo[i] = app.todo[i + 1]
  BY DEF Types, AppOK, AppType
<1>2. \A j \in 1 .. Len(app.todo) : j > 1 =>
        j - 1 \in 1 .. Len(app'.todo) /\ app'.todo[j - 1] = app.todo[j]
  <2> SUFFICES ASSUME NEW j \in 1 .. Len(app.todo), j > 1
               PROVE  j - 1 \in 1 .. Len(app'.todo) /\ app'.todo[j - 1] = app.todo[j]
    OBVIOUS
  <2>1. j - 1 \in 1 .. Len(app'.todo) /\ (j - 1) + 1 = j
    BY <1>1
  <2> QED
    BY <1>1, <2>1
<1>3. \A step : ToCome(step)' => ToCome(step)
  BY <1>1 DEF ToCome
<1>4. ASSUME NEW step, ToCome(step), ~ At(step)
      PROVE  ToCome(step)'
  <2>1. PICK j \in 1 .. Len(app.todo) : app.todo[j] = step
    BY <1>4 DEF ToCome
  <2>2. j > 1
    BY <1>1, <1>4, <2>1 DEF At
  <2> QED
    BY <1>2, <2>1, <2>2 DEF ToCome
<1>5. ASSUME NEW down, NEW up, Undone(app.todo, down, up)
      PROVE  Undone(app'.todo, down, up)
  <2> SUFFICES ASSUME NEW i \in 1 .. Len(app'.todo), app'.todo[i] = down
               PROVE  \E j \in 1 .. Len(app'.todo) : i < j /\ app'.todo[j] = up
    BY DEF Undone
  <2>1. PICK j \in 1 .. Len(app.todo) : i + 1 < j /\ app.todo[j] = up
    BY <1>1, <1>5 DEF Undone
  <2>2. j - 1 \in 1 .. Len(app'.todo) /\ app'.todo[j - 1] = up /\ i < j - 1
    BY <1>1, <1>2, <2>1
  <2> QED
    BY <2>2
<1>6. ASSUME NEW down, NEW up, Undone(app.todo, down, up), At(down)
      PROVE  ToCome(up)'
  <2>1. PICK j \in 1 .. Len(app.todo) : 1 < j /\ app.todo[j] = up
    BY <1>1, <1>6 DEF Undone, At
  <2> QED
    BY <1>2, <2>1 DEF ToCome
<1>7. \A step : At(step) => ToCome(step)
  BY <1>1 DEF At, ToCome
<1> QED
  BY <1>3, <1>4, <1>5, <1>6, <1>7

(* A call done step by step starts to listen only with its last step.      *)
LEMMA MeantBefore ==
  ASSUME Types, BootInv, ListenInv, [Next]_vars, ~ Call
  PROVE  /\ MeansToListen' => MeansToListen
         /\ ~ DirectTest /\ (CreateThread => packets = NoQueue)
         /\ app'.todo = app.todo \/ (app.todo # <<>> /\ app'.todo = Tail(app.todo))
<1>1. app \in AppType /\ app.todo \in Seq(StepNames)
  BY DEF Types, AppOK, AppType
<1>2. app.todo # <<>> => Head(app.todo) = app.todo[1] /\ 1 \in 1 .. Len(app.todo)
  BY <1>1
<1>3. CreateThread => packets = NoQueue
  BY <1>2 DEF CreateThread, At, ListenInv, Breaking
<1>4. ~ DirectTest
  <2>1. CASE packets = NoQueue
    <3>1. Left = 1 \/ Left = 2 \/ Left = 3 \/ Left = 4 \/ Left = 5 \/ Left = 6 \/ Left = 7
      BY <2>1 DEF BootInv
    <3> QED
      BY <2>1, <3>1, BootHead, InitSteps DEF DirectTest, At
  <2>2. CASE packets # NoQueue
    BY <1>2, <2>2 DEF DirectTest, At, ListenInv, Breaking
  <2> QED
    BY <2>1, <2>2
<1>5. app'.todo = app.todo \/ (app.todo # <<>> /\ app'.todo = Tail(app.todo))
  BY <1>4, TodoNext
<1>6. app'.listening => app.listening \/ At("listening")
  BY <1>1, <1>4 DEF Next, Chip, Arrive, TxStart, TxDone, TxFail, AppStep, ChipStep, DirectRead,
     SetListening, CreateThread, CreateQueue, write_payload, PollOutcome, AwaitOutcome, Timeout,
     rf24_getStatus, rf24_recv, Done, AppType, IsrStep, IsrWake, IsrPeek, IsrTest, IsrLength,
     IsrFlush, IsrDisable, IsrRead, IsrClearOne, IsrEnable, IsrAdd, IsrClear, IsrTxDs, Go, vars
<1>7. MeansToListen' => MeansToListen
  <2>1. CASE app'.todo = app.todo
    BY <1>2, <1>6, <2>1 DEF MeansToListen, ToCome, At
  <2>2. CASE app.todo # <<>> /\ app'.todo = Tail(app.todo)
    BY <1>6, <2>2, ListenTail DEF MeansToListen
  <2> QED
    BY <1>5, <2>1, <2>2
<1> QED
  BY <1>3, <1>4, <1>5, <1>7

LEMMA StaysOpen ==
  ASSUME Types, BootInv, ListenInv, [Next]_vars, ~ Call, packets # NoQueue, MeansToListen
  PROVE  /\ ToCome("ce_high")' \/ isr'.pc \in {"read", "clear_one", "enable"} \/ chip'.ce
         /\ ToCome("config_rx")' \/ chip'.config = Powers
<1>1. /\ chip \in ChipType /\ isr \in IsrType /\ app.todo \in Seq(StepNames)
      /\ app \in AppType
  BY DEF Types, ChipOK, QueueOK, AppOK, AppType
<1>2. /\ Undone(app.todo, "ce_low", "ce_high") /\ Undone(app.todo, "config_tx", "config_rx")
      /\ ToCome("ce_high") \/ isr.pc \in {"read", "clear_one", "enable"} \/ chip.ce
      /\ ToCome("config_rx") \/ chip.config = Powers
      /\ \A i \in 1 .. Len(app.todo) : app.todo[i] \notin Breaking
  BY DEF ListenInv
<1>3. ~ DirectTest /\ ~ CreateThread
  BY MeantBefore
<1>4. CASE ChipStep
  <2>1. app.todo # <<>> /\ app'.todo = Tail(app.todo) /\ isr' = isr
    BY <1>1, <1>4 DEF ChipStep, At, Done, AppType
  <2>2. CASE At("ce_high")
    <3>1. chip' = enable_radio(chip)
      BY <1>4, <2>2 DEF ChipStep, At
    <3>2. chip'.ce /\ chip'.config = chip.config
      BY <1>1, <3>1 DEF enable_radio, ChipType
    <3> QED
      BY <1>2, <2>1, <2>2, <3>2, ListenTail DEF At
  <2>3. CASE At("ce_low")
    <3>1. chip' = disable_radio(chip)
      BY <1>4, <2>3 DEF ChipStep, At
    <3>2. chip'.config = chip.config
      BY <1>1, <3>1 DEF disable_radio, ChipType
    <3> QED
      BY <1>2, <2>1, <2>3, <3>2, ListenTail DEF At
  <2>4. CASE At("config_rx")
    <3>1. chip' = WriteConfig(chip, Powers)
      BY <1>4, <2>4 DEF ChipStep, At
    <3>2. chip'.config = Powers /\ chip'.ce = chip.ce
      BY <1>1, <3>1 DEF WriteConfig, ChipType
    <3> QED
      BY <1>2, <2>1, <2>4, <3>2, ListenTail DEF At
  <2>5. CASE At("config_tx")
    <3>1. chip' = WriteConfig(chip, chip.config \ {"PRIM_RX"})
      BY <1>4, <2>5 DEF ChipStep, At
    <3>2. chip'.ce = chip.ce
      BY <1>1, <3>1 DEF WriteConfig, ChipType
    <3> QED
      BY <1>2, <2>1, <2>5, <3>2, ListenTail DEF At
  <2>6. CASE ~ (At("ce_high") \/ At("ce_low") \/ At("config_rx") \/ At("config_tx"))
    <3>1. ~ At("powerDown") /\ ~ At("rst_cfg")
      <4>1. Head(app.todo) = app.todo[1] /\ 1 \in 1 .. Len(app.todo)
        BY <1>1, <2>1
      <4> QED
        BY <1>2, <4>1 DEF At, Breaking
    <3>2. /\ chip'.ce = chip.ce
          /\ chip'.config = chip.config \/ chip'.config = chip.config \cup {"PWR_UP"}
      BY <1>1, <1>4, <2>6, <3>1 DEF ChipStep, ClearFlags, flush_rx, flush_tx, WriteConfig, ChipType
    <3>3. chip.config = Powers => chip'.config = Powers
      BY <3>2 DEF Powers
    <3> QED
      BY <1>2, <2>1, <2>6, <3>2, <3>3, ListenTail
  <2> QED
    BY <2>2, <2>3, <2>4, <2>5, <2>6
<1>5. CASE \/ DirectRead \/ SetListening \/ CreateQueue \/ write_payload \/ PollOutcome
           \/ rf24_getStatus \/ rf24_recv
  <2>1. app.todo # <<>> /\ app'.todo = Tail(app.todo) /\ isr' = isr
        /\ chip'.ce = chip.ce /\ chip'.config = chip.config
    BY <1>1, <1>5 DEF DirectRead, read_rx, SetListening, CreateQueue, write_payload, WritePayload,
       PollOutcome, AwaitOutcome, Timeout, rf24_getStatus, rf24_recv, At, Done, AppType, ChipType
  <2>2. ~ At("ce_high") /\ ~ At("config_rx")
    BY <1>5 DEF DirectRead, SetListening, CreateQueue, write_payload, PollOutcome, AwaitOutcome,
       Timeout, rf24_getStatus, rf24_recv, At
  <2> QED
    BY <1>2, <2>1, <2>2, ListenTail
<1>6. CASE Chip \/ UNCHANGED vars
  <2>1. app' = app /\ isr' = isr /\ chip'.ce = chip.ce /\ chip'.config = chip.config
    BY <1>1, <1>6 DEF Chip, Arrive, TxStart, TxDone, TxFail, Raise, ChipType, vars
  <2> QED
    BY <1>2, <2>1 DEF ToCome
<1>7. CASE IsrStep
  <2>1. app' = app /\ chip'.config = chip.config
    BY <1>1, <1>7 DEF IsrStep, IsrWake, IsrPeek, IsrTest, IsrLength, IsrFlush, IsrDisable,
       IsrRead, IsrClearOne, IsrEnable, IsrAdd, IsrClear, IsrTxDs, Go, disable_radio,
       enable_radio, ClearFlags, flush_rx, read_rx, ChipType
  <2>2. CASE IsrDisable \/ IsrRead \/ IsrClearOne
    <3>1. isr'.pc \in {"read", "clear_one", "enable"}
      BY <1>1, <2>2 DEF IsrDisable, IsrRead, IsrClearOne, Go, IsrType
    <3> QED
      BY <1>2, <2>1, <3>1 DEF ToCome
  <2>3. CASE IsrEnable
    <3>1. chip'.ce
      BY <1>1, <2>3 DEF IsrEnable, enable_radio, ChipType
    <3> QED
      BY <1>2, <2>1, <3>1 DEF ToCome
  <2>4. CASE \/ IsrWake \/ IsrPeek \/ IsrTest \/ IsrLength \/ IsrFlush \/ IsrAdd
             \/ IsrClear \/ IsrTxDs
    <3>1. isr.pc \notin {"read", "clear_one", "enable"} /\ chip'.ce = chip.ce
      BY <1>1, <2>4 DEF IsrWake, IsrPeek, IsrTest, IsrLength, IsrFlush, IsrAdd, IsrClear,
         IsrTxDs, Go, ClearFlags, flush_rx, ChipType
    <3> QED
      BY <1>2, <2>1, <3>1 DEF ToCome
  <2> QED
    BY <1>7, <2>2, <2>3, <2>4 DEF IsrStep
<1> QED
  BY <1>3, <1>4, <1>5, <1>6, <1>7 DEF Next, AppStep

LEMMA ListenNext ==
  ASSUME StaysOn, Types, BootInv, ListenInv, [Next]_vars
  PROVE  ListenInv'
<1>1. CASE Call
  BY <1>1, ListenCall
<1>2. CASE ~ Call
  <2>1. packets' = NoQueue => packets = NoQueue
    BY QueueStays
  <2>2. packets' = NoQueue => ~ MeansToListen'
    BY <1>2, <2>1, MeantBefore DEF ListenInv
  <2>3. packets' # NoQueue => \A i \in 1 .. Len(app'.todo) : app'.todo[i] \notin Breaking
    <3>1. CASE packets = NoQueue
      BY <3>1, BootEnds
    <3>2. CASE packets # NoQueue
      <4>1. CASE app'.todo = app.todo
        BY <3>2, <4>1 DEF ListenInv
      <4>2. CASE app.todo # <<>> /\ app'.todo = Tail(app.todo)
        <5>1. \A i \in 1 .. Len(app'.todo) :
                i + 1 \in 1 .. Len(app.todo) /\ app'.todo[i] = app.todo[i + 1]
          BY <4>2 DEF Types, AppOK, AppType
        <5> QED
          BY <3>2, <5>1 DEF ListenInv
      <4> QED
        BY <1>2, <4>1, <4>2, MeantBefore
    <3> QED
      BY <3>1, <3>2
  <2>4. ASSUME MeansToListen'
        PROVE  /\ Undone(app'.todo, "ce_low", "ce_high")
               /\ Undone(app'.todo, "config_tx", "config_rx")
               /\ ToCome("ce_high")' \/ isr'.pc \in {"read", "clear_one", "enable"} \/ chip'.ce
               /\ ToCome("config_rx")' \/ chip'.config = Powers
    <3>1. MeansToListen /\ packets # NoQueue
      BY <1>2, <2>4, MeantBefore DEF ListenInv
    <3>2. Undone(app.todo, "ce_low", "ce_high") /\ Undone(app.todo, "config_tx", "config_rx")
      BY <3>1 DEF ListenInv
    <3>3. Undone(app'.todo, "ce_low", "ce_high") /\ Undone(app'.todo, "config_tx", "config_rx")
      <4>1. CASE app'.todo = app.todo
        BY <3>2, <4>1
      <4>2. CASE app.todo # <<>> /\ app'.todo = Tail(app.todo)
        BY <3>2, <4>2, ListenTail
      <4> QED
        BY <1>2, <4>1, <4>2, MeantBefore
    <3> QED
      BY <1>2, <3>1, <3>3, StaysOpen
  <2> QED
    BY <2>2, <2>3, <2>4 DEF ListenInv
<1> QED
  BY <1>1, <1>2

(* A driver that says it is listening does listen, between two calls and   *)
(* outside read_payload, whatever it sent in between (rf24.c:279-288,      *)
(* 533-541, 225-229).                                                      *)
THEOREM ReallyListens == ASSUME StaysOn PROVE Spec => []ListeningIsReal
<1>1. ListenInv => ListeningIsReal
  <2>1. Idle => ~ ToCome("ce_high") /\ ~ ToCome("config_rx")
    BY DEF Idle, ToCome
  <2> QED
    BY <2>1 DEF ListenInv, MeansToListen, ListeningIsReal
<1>2. Types /\ BootInv /\ ListenInv /\ [Next]_vars => ListenInv'
  BY ListenNext
<1> QED
  BY <1>1, <1>2, TypesInit, TypesNext, BootInit, BootNext, ListenInit, PTL DEF Spec
=============================================================================
