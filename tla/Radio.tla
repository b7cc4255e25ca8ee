------------------------------- MODULE Radio -------------------------------
(***************************************************************************)
(* rf24.c: the two threads of the driver and the nRF24L01 they share.      *)
(*                                                                         *)
(*  - the application's thread runs the functions of rf24.h one at a time; *)
(*  - radio_isr_thread sleeps in poll() until the chip pulls its IRQ line  *)
(*    low, then moves received packets into the queue "packets";           *)
(*  - the chip receives, transmits and raises flags whenever it is able.   *)
(*                                                                         *)
(* The mutex of spi.c makes each SPI transaction atomic and nothing more,  *)
(* and CE is a GPIO that both threads drive.  So a step of a thread is one *)
(* transaction or one write of CE; a function is the sequence of its       *)
(* steps.  Only the application's thread writes CONFIG and listening, so   *)
(* its read-modify-write of CONFIG is one step.  The queue is the FIFO     *)
(* that TSQueue is shown to implement.                                     *)
(***************************************************************************)
EXTENDS Naturals, Sequences

CONSTANTS
  Ops,           \* the functions the application calls
  MaxOps,        \* bound: how many calls it makes after rf24_init_radio
  MaxPackets,    \* bound: how many packets arrive
  Corrupt,       \* packets whose length register reads more than 32
  FifoDepth,     \* slots of the chip's RX and TX FIFOs (3 in the chip)
  QSize,         \* PACKET_BUFFER_SIZE
  DynPayloads,   \* dyn_payloads_set
  MallocMayFail,
  NoQueue        \* the value of packets before tsq_create

(* The functions that are one step, and those that are several; and the    *)
(* calls that may take packets from the chip's RX FIFO.                    *)
OneStep == {"recv", "recv_block", "direct_test", "powerUp", "powerDown"}
Calls == OneStep \cup {"startListening", "stopListening", "resetcfg", "send", "write"}
Emptying == {"stopListening", "resetcfg", "direct_test"}

ASSUME RadioAssumption ==
  /\ Ops \subseteq Calls
  /\ {MaxOps, MaxPackets} \subseteq Nat
  /\ {FifoDepth, QSize} \subseteq Nat \ {0}
  /\ {DynPayloads, MallocMayFail} \subseteq BOOLEAN
  /\ NoQueue \notin Seq(Nat)

VARIABLES
  chip,      \* the nRF24L01 and its two pins, see ChipType
  app,       \* the application's thread, see AppType
  isr,       \* the interrupt thread, see IsrType
  packets,   \* the queue between the threads, or NoQueue
  delivered  \* what the application has been given, see DeliveredType

vars == <<chip, app, isr, packets, delivered>>

Flags == {"RX_DR", "TX_DS", "MAX_RT"}
Powers == {"PWR_UP", "PRIM_RX"}
Junk == 0      \* what the chip returns when its RX FIFO is empty; also what
               \* an earlier run of the program left in the FIFOs
Packets == 0 .. MaxPackets
Payloads == 0 .. MaxOps
-----------------------------------------------------------------------------
(* What a transaction, or a write of CE, does to the chip.                 *)
enable_radio(c) == [c EXCEPT !.ce = TRUE]
disable_radio(c) == [c EXCEPT !.ce = FALSE]
ClearFlags(c, fs) == [c EXCEPT !.flags = @ \ fs]
flush_rx(c) == [c EXCEPT !.rx = <<>>]
flush_tx(c) == [c EXCEPT !.tx = <<>>, !.sending = FALSE]
read_rx(c) == [c EXCEPT !.rx = IF @ = <<>> THEN @ ELSE Tail(@)]
WriteConfig(c, bits) == [c EXCEPT !.config = bits, !.sending = @ /\ "PWR_UP" \in bits]

(* The chip ignores a payload that its TX FIFO has no room for.            *)
WritePayload(c, p) == IF Len(c.tx) < FifoDepth THEN [c EXCEPT !.tx = Append(@, p)] ELSE c

(* The payload that a read of the RX FIFO returns.                         *)
RxHead(c) == IF c.rx = <<>> THEN Junk ELSE Head(c.rx)

(* The IRQ line is low while a flag is set, so it falls only when the      *)
(* first flag is raised.                                                   *)
Raise(c, f) == [c EXCEPT !.flags = @ \cup {f}, !.edge = @ \/ c.flags = {}]

(* What the chip does by itself.                                           *)
Receiving == chip.ce /\ chip.config = Powers /\ ~ chip.sending

Arrive ==
  /\ Receiving
  /\ chip.air < MaxPackets
  /\ Len(chip.rx) < FifoDepth
  /\ chip' = Raise([chip EXCEPT !.air = @ + 1, !.rx = Append(@, chip.air + 1)], "RX_DR")
  /\ UNCHANGED <<app, isr, packets, delivered>>

(* A pulse of CE starts a transmission, which outlives the pulse.  The     *)
(* chip sends nothing while MAX_RT is set.                                 *)
TxReady(c) == c.ce /\ c.config = {"PWR_UP"} /\ c.tx # <<>> /\ "MAX_RT" \notin c.flags

TxStart ==
  /\ TxReady(chip) /\ ~ chip.sending
  /\ chip' = [chip EXCEPT !.sending = TRUE]
  /\ UNCHANGED <<app, isr, packets, delivered>>

TxDone ==
  /\ chip.sending
  /\ chip' = Raise([chip EXCEPT !.sending = FALSE, !.tx = Tail(@),
                                !.acked = @ \cup {Head(chip.tx)}], "TX_DS")
  /\ UNCHANGED <<app, isr, packets, delivered>>

TxFail ==
  /\ chip.sending
  /\ chip' = Raise([chip EXCEPT !.sending = FALSE], "MAX_RT")
  /\ UNCHANGED <<app, isr, packets, delivered>>
-----------------------------------------------------------------------------
(* The functions of rf24.h, as the steps the application's thread makes.   *)
(* Bugs the runs must notice stand before the definitions they would       *)
(* replace: a start that also flushes, a thread created before the chip is *)
(* quiet, a transmission that does not go back to listening, a wait with   *)
(* no timeout, a packet left in the queue, a corrupt packet left in the    *)
(* FIFO, a full queue that goes on growing, and a flag left set.           *)
StartWithFlush == <<"config_rx", "flush_rx", "clear_flags", "ce_high", "listening">>

rf24_startListening == <<"config_rx", "clear_flags", "ce_high", "listening">>

rf24_stopListening == <<"ce_low", "flush_tx", "flush_rx", "not_listening">>

setDefaults == <<"ce_low", "clear_flags", "flush_rx", "flush_tx", "not_listening">>

ThreadBeforeDefaults == <<"create_thread">> \o setDefaults \o <<"create_queue">>

rf24_init_radio == setDefaults \o <<"create_thread", "create_queue">>

rf24_resetcfg == <<"rst_cfg">> \o setDefaults

TransmitOnly == <<"config_tx", "write_payload", "ce_high", "ce_low">>

transmit_payload ==
  IF app.listening
  THEN <<"ce_low">> \o TransmitOnly \o rf24_startListening
  ELSE TransmitOnly

rf24_write == transmit_payload \o <<"poll_outcome", "getStatus">>

(* receiver.c reads the FIFO itself when it finds a payload there.         *)
read_payload == <<"ce_low", "direct_read", "clear_rx_dr", "ce_high">>

Steps(op) ==
  CASE op = "startListening" -> rf24_startListening
    [] op = "stopListening"  -> rf24_stopListening
    [] op = "resetcfg"       -> rf24_resetcfg
    [] op = "send"           -> transmit_payload
    [] op = "write"          -> rf24_write
    [] OTHER                 -> <<op>>

(* rf24_write must not be called while listening (rf24.h:76).              *)
Call ==
  /\ app.todo = <<>>
  /\ app.ops < MaxOps
  /\ \E op \in Ops :
       /\ op = "write" => ~ app.listening
       /\ app' = [app EXCEPT !.ops = @ + 1, !.todo = Steps(op),
                             !.emptying = IF op \in Emptying THEN @ + 1 ELSE @]
  /\ UNCHANGED <<chip, isr, packets, delivered>>

At(step) == app.todo # <<>> /\ Head(app.todo) = step
Done(a) == [a EXCEPT !.todo = Tail(@)]

(* Steps that change the chip and nothing else.                            *)
ChipStep ==
  /\ \/ At("ce_low") /\ chip' = disable_radio(chip)
     \/ At("ce_high") /\ chip' = enable_radio(chip)
     \/ At("clear_flags") /\ chip' = ClearFlags(chip, Flags)
     \/ At("clear_rx_dr") /\ chip' = ClearFlags(chip, {"RX_DR"})
     \/ At("flush_rx") /\ chip' = flush_rx(chip)
     \/ At("flush_tx") /\ chip' = flush_tx(chip)
     \/ At("config_rx") /\ chip' = WriteConfig(chip, Powers)
     \/ At("config_tx") /\ chip' = WriteConfig(chip, chip.config \ {"PRIM_RX"})
     \/ At("rst_cfg") /\ chip' = WriteConfig(chip, Powers)
     \/ At("powerUp") /\ chip' = WriteConfig(chip, chip.config \cup {"PWR_UP"})
     \/ At("powerDown") /\ chip' = WriteConfig(chip, chip.config \ {"PWR_UP"})
  /\ app' = Done(app)
  /\ UNCHANGED <<isr, packets, delivered>>

(* receiver.c: the test and the read are transactions of their own; the    *)
(* interrupt thread may read the payload in between.                       *)
DirectTest ==
  /\ At("direct_test")
  /\ app' = [app EXCEPT !.todo = IF chip.rx = <<>> THEN <<>> ELSE read_payload]
  /\ UNCHANGED <<chip, isr, packets, delivered>>

(* What receiver.c reads itself it prints at once, ahead of what waits in  *)
(* the queue.                                                              *)
DirectRead ==
  /\ At("direct_read") /\ app' = Done(app)
  /\ chip' = read_rx(chip)
  /\ delivered' = [delivered EXCEPT !.fifo = Append(@, RxHead(chip))]
  /\ UNCHANGED <<isr, packets>>

SetListening ==
  /\ \/ At("listening") /\ app' = [Done(app) EXCEPT !.listening = TRUE]
     \/ At("not_listening") /\ app' = [Done(app) EXCEPT !.listening = FALSE]
  /\ UNCHANGED <<chip, isr, packets, delivered>>

(* The first poll() of a GPIO file returns at once.                        *)
CreateThread ==
  /\ At("create_thread") /\ app' = Done(app)
  /\ isr' = [isr EXCEPT !.pc = "poll"]
  /\ chip' = [chip EXCEPT !.edge = TRUE]
  /\ UNCHANGED <<packets, delivered>>

CreateQueue ==
  /\ At("create_queue") /\ app' = Done(app)
  /\ packets' = <<>>
  /\ UNCHANGED <<chip, isr, delivered>>

write_payload ==
  /\ At("write_payload")
  /\ app' = [Done(app) EXCEPT !.written = @ + 1]
  /\ chip' = WritePayload(chip, app.written + 1)
  /\ UNCHANGED <<isr, packets, delivered>>

(* The loop of rf24_write ends with an outcome or after 500 ms.            *)
AwaitOutcome ==
  /\ At("poll_outcome") /\ app' = Done(app)
  /\ chip.flags \cap {"TX_DS", "MAX_RT"} # {}
  /\ UNCHANGED <<chip, isr, packets, delivered>>

Timeout ==
  /\ At("poll_outcome") /\ app' = Done(app)
  /\ UNCHANGED <<chip, isr, packets, delivered>>

PollOutcome == AwaitOutcome \/ Timeout

rf24_getStatus ==
  /\ At("getStatus")
  /\ app' = [Done(app) EXCEPT !.ok = "TX_DS" \in chip.flags,
                              !.reached = app.written \in chip.acked]
  /\ UNCHANGED <<chip, isr, packets, delivered>>

RecvAgain ==
  /\ At("recv") /\ packets # <<>>
  /\ app' = Done(app)
  /\ delivered' = [delivered EXCEPT !.queue = Append(@, Head(packets))]
  /\ UNCHANGED <<chip, isr, packets>>

rf24_recv ==
  /\ \/ /\ At("recv") \/ At("recv_block")
        /\ packets # <<>>
        /\ delivered' = [delivered EXCEPT !.queue = Append(@, Head(packets))]
        /\ packets' = Tail(packets)
     \/ At("recv") /\ packets = <<>> /\ UNCHANGED <<packets, delivered>>
  /\ app' = Done(app)
  /\ UNCHANGED <<chip, isr>>

AppStep ==
  \/ ChipStep \/ DirectTest \/ DirectRead \/ SetListening \/ CreateThread \/ CreateQueue
  \/ write_payload \/ PollOutcome \/ rf24_getStatus \/ rf24_recv
-----------------------------------------------------------------------------
(* The interrupt thread.                                                   *)
Go(from, to) ==
  /\ isr.pc = from
  /\ isr' = [isr EXCEPT !.pc = to]
  /\ UNCHANGED <<app, packets, delivered>>

IsrWake == chip.edge /\ Go("poll", "peek") /\ chip' = [chip EXCEPT !.edge = FALSE]

(* process_radio_interrupt.                                                *)
IsrPeek ==
  /\ isr.pc = "peek"
  /\ isr' = [isr EXCEPT !.pc = IF "RX_DR" \in chip.flags THEN "test" ELSE "txds",
                        !.peeked = chip.flags]
  /\ UNCHANGED <<chip, app, packets, delivered>>

(* retrieve_packets: the while condition.                                  *)
IsrTest == Go("test", IF chip.rx = <<>> THEN "clear" ELSE "length") /\ UNCHANGED chip

(* The length register of an empty FIFO may read anything.                 *)
HeadCorrupt == chip.rx # <<>> /\ Head(chip.rx) \in Corrupt
TooLong == DynPayloads /\ (chip.rx = <<>> \/ HeadCorrupt)
InRange == ~ (DynPayloads /\ HeadCorrupt)

IsrLength ==
  /\ \/ TooLong /\ Go("length", "flush")
     \/ InRange /\ Go("length", "disable")
     \/ InRange /\ MallocMayFail /\ Go("length", "txds")
  /\ UNCHANGED chip

IsrSkipFlush == Go("flush", "test") /\ UNCHANGED chip

IsrFlush == Go("flush", "test") /\ chip' = flush_rx(chip)

(* read_payload: CE low, the transfer, RX_DR cleared, CE high.             *)
IsrDisable == Go("disable", "read") /\ chip' = disable_radio(chip)

IsrRead ==
  /\ isr.pc = "read"
  /\ isr' = [isr EXCEPT !.pc = "clear_one", !.held = <<RxHead(chip)>>,
                        !.phantoms = IF chip.rx = <<>> THEN @ + 1 ELSE @]
  /\ chip' = read_rx(chip)
  /\ UNCHANGED <<app, packets, delivered>>

IsrClearOne == Go("clear_one", "enable") /\ chip' = ClearFlags(chip, {"RX_DR"})

IsrEnable == Go("enable", "add") /\ chip' = enable_radio(chip)

AddUnbounded ==
  /\ isr.pc = "add"
  /\ isr' = [isr EXCEPT !.pc = "test", !.held = <<>>]
  /\ packets' = packets \o isr.held
  /\ UNCHANGED <<chip, app, delivered>>

(* tsq_add does not block: a packet that finds the queue full is dropped.  *)
IsrAdd ==
  /\ isr.pc = "add"
  /\ isr' = [isr EXCEPT !.pc = "test", !.held = <<>>]
  /\ packets' = IF packets # NoQueue /\ Len(packets) < QSize
                THEN packets \o isr.held ELSE packets
  /\ UNCHANGED <<chip, app, delivered>>

IsrClearNot == Go("clear", "txds") /\ UNCHANGED chip

(* The last statement of retrieve_packets.                                 *)
IsrClear == Go("clear", "txds") /\ chip' = ClearFlags(chip, {"RX_DR"})

(* The end of process_radio_interrupt: MAX_RT is never cleared here.       *)
IsrTxDs == Go("txds", "poll") /\ chip' = ClearFlags(chip, isr.peeked \cap {"TX_DS"})

IsrStep ==
  \/ IsrWake \/ IsrPeek \/ IsrTest \/ IsrLength \/ IsrFlush
  \/ IsrDisable \/ IsrRead \/ IsrClearOne \/ IsrEnable \/ IsrAdd
  \/ IsrClear \/ IsrTxDs
-----------------------------------------------------------------------------
(* The chip keeps its state from whatever ran before, which is over: no    *)
(* transmission is under way or about to start.                            *)
Init ==
  /\ chip \in [ce : BOOLEAN, config : SUBSET Powers, flags : SUBSET Flags, edge : {FALSE},
               rx : {<<>>, <<Junk>>}, tx : {<<>>, <<Junk>>}, sending : {FALSE},
               air : {0}, acked : {{}}]
  /\ ~ TxReady(chip)
  /\ app = [todo |-> rf24_init_radio, ops |-> 0, listening |-> FALSE, written |-> 0,
            ok |-> FALSE, reached |-> FALSE, emptying |-> 0]
  /\ isr = [pc |-> "off", peeked |-> {}, held |-> <<>>, phantoms |-> 0]
  /\ packets = NoQueue /\ delivered = [queue |-> <<>>, fifo |-> <<>>]

Chip == Arrive \/ TxStart \/ TxDone \/ TxFail

Next == Chip \/ Call \/ AppStep \/ IsrStep

Spec == Init /\ [][Next]_vars

(* The operating system runs both threads; the air owes nobody anything.   *)
FairSpec == Spec /\ WF_vars(AppStep) /\ WF_vars(IsrStep)
-----------------------------------------------------------------------------
Idle == app.todo = <<>>
Asleep == isr.pc = "poll" /\ ~ chip.edge

ChipType ==
  [ce : BOOLEAN,             \* the CE pin
   config : SUBSET Powers,   \* the bits of CONFIG that are set
   flags : SUBSET Flags,     \* the interrupt flags of STATUS that are set
   edge : BOOLEAN,           \* IRQ has fallen and poll() has not reported it yet
   rx : Seq(Packets), tx : Seq(Payloads),  \* the FIFOs, oldest first
   sending : BOOLEAN,        \* the head of tx is in the air
   air : Packets,            \* how many packets have arrived
   acked : SUBSET Payloads]  \* the payloads the other end has acknowledged

StepNames ==
  OneStep \cup
  {"ce_low", "ce_high", "clear_flags", "clear_rx_dr", "direct_read", "flush_rx",
   "flush_tx", "config_rx", "config_tx", "rst_cfg", "listening", "not_listening",
   "create_thread", "create_queue", "write_payload", "poll_outcome", "getStatus"}

AppType ==
  [todo : Seq(StepNames),    \* the steps still to be made in the current call
   ops : 0 .. MaxOps,        \* how many calls it has begun
   listening : BOOLEAN,      \* the driver's variable of that name
   written : Payloads,       \* the latest payload written to tx
   ok : BOOLEAN, reached : BOOLEAN,  \* what rf24_write returned, and should have
   emptying : 0 .. MaxOps]   \* how many of the calls were of the kind Emptying

IsrType ==
  [pc : {"off", "poll", "peek", "test", "length", "flush", "disable", "read",
         "clear_one", "enable", "add", "clear", "txds"},
   peeked : SUBSET Flags,    \* the flags process_radio_interrupt saw
   held : {<<>>} \cup {<<p>> : p \in Packets},  \* read and not yet queued
   phantoms : Nat]           \* how often it has read an empty FIFO

DeliveredType ==
  [queue : Seq(Packets),     \* what rf24_recv has returned
   fifo : Seq(Packets)]      \* what the application has read from the FIFO itself

TypeOK ==
  /\ chip \in ChipType
  /\ Len(chip.rx) <= FifoDepth /\ Len(chip.tx) <= FifoDepth
  /\ chip.sending => chip.tx # <<>>
  /\ app \in AppType
  /\ isr \in IsrType
  /\ packets = NoQueue \/ (packets \in Seq(Packets) /\ Len(packets) <= QSize)
  /\ delivered \in DeliveredType

(* The packets on their way through the queue, oldest first.               *)
Queued == IF packets = NoQueue THEN <<>> ELSE packets
Pipeline == delivered.queue \o Queued \o isr.held

Rising(s) ==
  \A i, j \in 1 .. Len(s) : (i < j /\ s[i] # Junk /\ s[j] # Junk) => s[i] < s[j]

(* A packet reaches the application once at the most: through the queue,   *)
(* or because receiver.c reads it from the FIFO beside the interrupt       *)
(* thread, never both.  Each of the two ways keeps the order of arrival,   *)
(* whatever is dropped on it (rf24.c:807-825, 575-582, receiver.c:113-124).*)
(* Between the two there is no order: receiver.c may print a packet before *)
(* an older one that the interrupt thread holds or has queued.             *)
InOrder ==
  /\ Rising(Pipeline \o chip.rx)
  /\ Rising(delivered.fifo \o chip.rx)
  /\ \A i \in 1 .. Len(Pipeline), j \in 1 .. Len(delivered.fifo) :
       Pipeline[i] # Junk => Pipeline[i] # delivered.fifo[j]

(* The interrupt thread hands the application a packet that never arrived  *)
(* only when somebody empties the FIFO between its test and its read       *)
(* (rf24.c:810, 819), and only a call of stopListening or resetcfg or a    *)
(* read by the application does: no call explains two such packets, and    *)
(* neither listening again nor the thread's own flush explains one         *)
(* (rf24.c:505, 546, 533-541, 812-815, receiver.c:115-116).                *)
PhantomsExplained == isr.phantoms <= app.emptying

(* When the interrupt thread sleeps with no edge to come, no flag is set:  *)
(* the IRQ line is high and the next packet will make it fall.  This holds *)
(* for applications that only receive, also when they read the chip's FIFO *)
(* beside the interrupt thread (rf24.c:807-835, receiver.c:113-118).       *)
IrqArmed == Asleep => chip.flags = {}

(* When no call is under way and the interrupt thread is not inside        *)
(* read_payload, a driver that says it is listening does listen, whatever  *)
(* it sent in between (rf24.c:279-288, 533-541, 225-229).                  *)
ListeningIsReal ==
  (Idle /\ app.listening /\ isr.pc \notin {"read", "clear_one", "enable"})
    => chip.ce /\ chip.config = Powers

(* The queue exists before the interrupt thread first puts a packet in it, *)
(* although it is created after the thread (rf24.c:523-524).               *)
QueueReady == isr.pc = "add" => packets # NoQueue

(* The interrupt thread comes back to poll(): corrupt lengths, lost CE     *)
(* pulses and flushes by the application cannot keep it in its loop        *)
(* (rf24.c:810-822).                                                       *)
IsrReturns == (isr.pc = "peek") ~> (isr.pc = "poll")

(* rf24_write returns even if the interrupt thread clears the flag it is   *)
(* waiting for, or the chip sends nothing (rf24.c:616-620).                *)
WriteReturns == At("poll_outcome") ~> Idle

(* rf24.c:823: RX_DR is cleared "if there are no more payloads", so that   *)
(* no packet is left in the FIFO when the interrupt thread goes to sleep   *)
(* for good.                                                               *)
NotStranded == Asleep => chip.rx = <<>>

(* rf24.h:83: after rf24_stopListening the radio no longer listens.        *)
StopListeningStops == (Idle /\ ~ app.listening /\ Asleep) => ~ Receiving

(* rf24.h:105: rf24_write returns "True if the payload was delivered       *)
(* successfully false if not".                                             *)
WriteResult == app.ok = app.reached
=============================================================================
