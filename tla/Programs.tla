------------------------------ MODULE Programs ------------------------------
(***************************************************************************)
(* Which configuration functions sender.c and receiver.c call, and in      *)
(* which order; and, beside them, a program that calls any function at any *)
(* time, which is RadioConfig itself.  Both programs first run the same    *)
(* test suite, which sets a value and asserts that the getter returns it.  *)
(***************************************************************************)
EXTENDS RadioConfig, Sequences

CONSTANTS
  E1,        \* {0xF0, 0xF0, 0xF0, 0xF0, 0xE1}
  C2,        \* {0xA1, 0xA1, 0xA1, 0xA1, 0xC2}
  FreeCalls  \* bound: how many calls the program "any" makes

ASSUME ProgramsAssumption ==
  E1 \in Addresses /\ C2 \in Addresses /\ E1 # C2 /\ {0, 1} \subseteq Pipes

VARIABLES
  program,  \* which program runs
  todo,     \* the calls it has still to make
  failed    \* the values whose test has failed

progvars == <<reg, drv, asked, calls, program, todo, failed>>
-----------------------------------------------------------------------------
run_test_suite ==
  << <<"test_data_rate", "250KBPS">>, <<"test_data_rate", "1MBPS">>,
     <<"test_data_rate", "2MBPS">>, <<"test_power_level", "MIN">>,
     <<"test_power_level", "LOW">>, <<"test_power_level", "HIGH">>,
     <<"test_power_level", "MAX">> >>

(* A receiver that opens its pipes before it sets the size, as the sender  *)
(* does, stands before the real one.                                       *)
SizeLast ==
  << <<"rf24_init_radio">> >> \o run_test_suite \o
  << <<"rf24_resetcfg">>, <<"rf24_setAddressWidth", 5>>, <<"rf24_setRXAddressOnPipe", 0, E1>>,
     <<"rf24_setRXAddressOnPipe", 1, C2>>, <<"rf24_setPayloadSize", 5>>,
     <<"rf24_setAutoAckOnAll", FALSE>>, <<"rf24_setChannel", 60>>, <<"rf24_startListening">> >>

receiver ==
  << <<"rf24_init_radio">> >> \o run_test_suite \o
  << <<"rf24_resetcfg">>, <<"rf24_setAddressWidth", 5>>, <<"rf24_setPayloadSize", 5>>,
     <<"rf24_setRXAddressOnPipe", 0, E1>>, <<"rf24_setRXAddressOnPipe", 1, C2>>,
     <<"rf24_setAutoAckOnAll", FALSE>>, <<"rf24_setChannel", 60>>, <<"rf24_startListening">> >>

sender ==
  << <<"rf24_init_radio">> >> \o run_test_suite \o
  << <<"rf24_resetcfg">>, <<"rf24_setAddressWidth", 5>>, <<"rf24_setRXAddressOnPipe", 1, C2>>,
     <<"rf24_setChannel", 60>>, <<"rf24_setPayloadSize", 10>>, <<"rf24_setAutoAckOnAll", FALSE>>,
     <<"rf24_stopListening">>, <<"setTXAddress", E1>>, <<"rf24_write">> >>

(* assert: compare what was set with what the getter returns.              *)
Verdict(got, want) == failed' = IF got = want THEN failed ELSE failed \cup {want}

test_data_rate(rate) == SetRate(rate) /\ Verdict(rf24_getDataRate(reg'), rate)

test_power_level(level) == SetLevel(level) /\ Verdict(rf24_getPALevel(reg'), level)

Setup(call) ==
  \/ call = <<"rf24_init_radio">> /\ rf24_init_radio
  \/ call = <<"rf24_resetcfg">> /\ rf24_resetcfg
  \/ \E w \in 0 .. 6 : call = <<"rf24_setAddressWidth", w>> /\ rf24_setAddressWidth(w)
  \/ \E n \in Sizes : call = <<"rf24_setPayloadSize", n>> /\ rf24_setPayloadSize(n)
  \/ \E p \in Pipes, a \in Addresses :
       call = <<"rf24_setRXAddressOnPipe", p, a>> /\ OpenPipe(p, a)
  \/ \E e \in BOOLEAN : call = <<"rf24_setAutoAckOnAll", e>> /\ rf24_setAutoAckOnAll(e)
  \/ \E c \in Channels : call = <<"rf24_setChannel", c>> /\ rf24_setChannel(c)
  \/ call = <<"rf24_startListening">> /\ rf24_startListening
  \/ call = <<"rf24_stopListening">> /\ rf24_stopListening
  \/ \E a \in Addresses : call = <<"setTXAddress", a>> /\ setTXAddress(a)
  \/ call = <<"rf24_write">> /\ rf24_write

Test(call) ==
  \/ \E x \in Rates : call = <<"test_data_rate", x>> /\ test_data_rate(x)
  \/ \E x \in Levels : call = <<"test_power_level", x>> /\ test_power_level(x)

Scripted ==
  /\ todo # <<>> /\ todo' = Tail(todo)
  /\ Test(Head(todo)) \/ (Setup(Head(todo)) /\ UNCHANGED failed)
  /\ UNCHANGED program

Free ==
  /\ program = "any" /\ calls < FreeCalls /\ Next
  /\ UNCHANGED <<program, todo, failed>>

ProgInit ==
  /\ Init
  /\ \/ program = "any" /\ todo = <<>>
     \/ program = "receiver" /\ todo = receiver
     \/ program = "sender" /\ todo = sender
  /\ failed = {}

ProgNext == Scripted \/ Free

ProgSpec == ProgInit /\ [][ProgNext]_progvars
-----------------------------------------------------------------------------
(* The test suite's verdict is about the chip and nothing else: it fails   *)
(* exactly one test, and exactly on a chip without 250 kbit/s, which is    *)
(* how it prints the model (receiver.c:34-64), whatever values earlier     *)
(* tests and earlier runs have left in the registers they share.           *)
SuiteVerdict ==
  failed = IF reg.plus \/ program = "any" \/ calls < 2 THEN {} ELSE {"250KBPS"}

(* Sender and receiver end with the same settings, whatever earlier runs   *)
(* have left in their chips, and although the test suite has just set      *)
(* every rate: one rate, CRC, address width and channel, neither dynamic   *)
(* lengths nor acknowledgements; and what one sends to is what the other   *)
(* listens on (receiver.c:99-108, sender.c:101-107, 122-123).  The payload *)
(* length is not among them, and it differs: the sender writes 10 bytes    *)
(* (sender.c:127-132) to a receiver whose pipes take 5 (receiver.c:103).   *)
AirSettings ==
  [rate |-> rf24_getDataRate(reg), crc |-> rf24_getCRCLength(reg), setup_aw |-> reg.setup_aw,
   rf_ch |-> reg.rf_ch, en_aa |-> reg.en_aa, dynpd |-> reg.dynpd]

SameSettings ==
  todo = <<>> /\ program # "any" =>
    /\ AirSettings = [rate |-> "1MBPS", crc |-> "16", setup_aw |-> 3, rf_ch |-> 60,
                      en_aa |-> {}, dynpd |-> {}]
    /\ program = "sender" => reg.tx_addr = E1
    /\ program = "receiver" => 0 \in reg.en_rxaddr /\ reg.rx_addr[0] = E1

(* When the receiver listens, the widths of its pipes, written when each   *)
(* was opened, are the payload size (rf24.c:350, receiver.c:103-105).      *)
WidthsCurrent ==
  program = "receiver" /\ drv.listening => \A p \in {0, 1} : reg.width[p] = drv.payload_len
=============================================================================
