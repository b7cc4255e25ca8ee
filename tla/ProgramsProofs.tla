--------------------------- MODULE ProgramsProofs ---------------------------
(***************************************************************************)
(* The scripts of Programs are programs of RadioConfig: what is proved of  *)
(* every sequence of calls holds of sender.c and receiver.c.  What holds   *)
(* only of their own sequences needs to know where in its script a program *)
(* is, and which settings stand from each of its calls on (ScriptInv).     *)
(***************************************************************************)
EXTENDS Programs, RadioConfigProofs, SequenceTheorems

LEMMA CallIsCall ==
  ASSUME NEW call, Test(call) \/ Setup(call)
  PROVE  Next
<1>1. CASE Test(call)
  BY <1>1 DEF Test, test_data_rate, test_power_level, Next
<1>2. CASE Setup(call)
  BY <1>2 DEF Setup, Next
<1> QED
  BY <1>1, <1>2

LEMMA ProgramStep == [ProgNext]_progvars => [Next]_vars
<1> SUFFICES ASSUME [ProgNext]_progvars PROVE [Next]_vars
  OBVIOUS
<1>1. CASE Scripted
  BY <1>1, CallIsCall DEF Scripted
<1>2. CASE Free
  BY <1>2 DEF Free
<1>3. CASE UNCHANGED progvars
  BY <1>3 DEF progvars, vars
<1> QED
  BY <1>1, <1>2, <1>3 DEF ProgNext

LEMMA ProgramsAreCalls == ProgSpec => Spec
<1>1. ProgInit => Init
  BY DEF ProgInit
<1> QED
  BY <1>1, ProgramStep, PTL DEF ProgSpec, Spec

(* Through the test suite, the reset and the set-up, the getters return    *)
(* what sender.c and receiver.c asked for last (rf24.c:358-431).           *)
THEOREM ProgramsKeepSettings == ProgSpec => []SettingsKept
BY ProgramsAreCalls, SettingsStay, PTL

(* What the sender writes goes to the address it set, every byte of which  *)
(* is in the chip (rf24.c:323-326).                                        *)
THEOREM ProgramsSendWhereAsked == ProgSpec => []SentWhereAsked
BY ProgramsAreCalls, PacketsGoWhereAsked, PTL

-----------------------------------------------------------------------------
(* A call leaves the chip the one it is.                                   *)
LEMMA ChipStays ==
  ASSUME IInv, NEW call, Test(call) \/ Setup(call)
  PROVE  reg'.plus = reg.plus
<1> DEFINE r == [reg EXCEPT !.config = RST_CFG]
<1>a. reg \in RegType /\ drv \in DrvType
  BY DEF IInv, TypeOK
<1>0. r \in RegType /\ r.plus = reg.plus
  BY <1>a DEF RegType
<1> HIDE DEF r
<1>3. \A q \in RegType : DefaultRegisters(q).plus = q.plus
  <2> TAKE q \in RegType
  <2> DEFINE d == DefaultRegisters(q)
  <2>1. d = [q EXCEPT !.rf_setup = d.rf_setup, !.config = d.config,
                      !.dynpd = {}, !.rf_ch = 76, !.setup_aw = 3]
    BY DefaultsEffect
  <2> HIDE DEF d
  <2>2. d.plus = q.plus
    BY <2>1 DEF RegType
  <2> QED
    BY <2>2 DEF d
<1>1. CASE Test(call)
  <2>1. CASE \E x \in Rates : SetRate(x)
    BY <1>a, <2>1, RateEffect DEF SetRate, RegType
  <2>2. CASE \E x \in Levels : SetLevel(x)
    BY <1>a, <2>2, LevelEffect DEF SetLevel, RegType
  <2> QED
    BY <1>1, <2>1, <2>2 DEF Test, test_data_rate, test_power_level
<1>2. CASE Setup(call)
  <2>1. CASE rf24_init_radio
    BY <1>a, <1>3, <2>1 DEF rf24_init_radio, SetDefaults
  <2>2. CASE rf24_resetcfg
    <3>1. reg' = DefaultRegisters(r)
      BY <2>2 DEF rf24_resetcfg, SetDefaults, r
    <3> QED
      BY <1>0, <1>3, <3>1
  <2>3. CASE \E p \in Pipes, a \in Addresses : OpenPipe(p, a)
    BY <1>a, <2>3 DEF OpenPipe, rf24_setRXAddressOnPipe, WritePipe, RegType
  <2>4. CASE \/ \E w \in 0 .. 6 : rf24_setAddressWidth(w)
             \/ \E n \in Sizes : rf24_setPayloadSize(n)
             \/ \E e \in BOOLEAN : rf24_setAutoAckOnAll(e)
             \/ \E c \in Channels : rf24_setChannel(c)
    BY <1>a, <2>4 DEF rf24_setAddressWidth, rf24_setPayloadSize, rf24_setAutoAckOnAll,
       rf24_setChannel, RegType
  <2>5. CASE \/ rf24_startListening \/ rf24_stopListening \/ rf24_write
             \/ \E a \in Addresses : setTXAddress(a)
    BY <1>a, <2>5 DEF rf24_startListening, rf24_stopListening, rf24_write, transmit_payload,
       Listen, setTXAddress, Target, RegType
  <2> QED
    BY <1>2, <2>1, <2>2, <2>3, <2>4, <2>5 DEF Setup
<1> QED
  BY <1>1, <1>2

(* A test fails only if it asks a chip that cannot do it for 250 kbit/s.   *)
LEMMA TestResult ==
  ASSUME IInv, IInv', reg'.plus = reg.plus, NEW call, Test(call)
  PROVE  failed' = IF call = <<"test_data_rate", "250KBPS">> /\ ~ reg.plus
                   THEN failed \cup {"250KBPS"} ELSE failed
<1>0. asked \in AskedType /\ calls \in Nat
  BY DEF IInv, TypeOK
<1>1. SettingsKept'
  BY SettingsFollow, PTL
<1>2. CASE \E x \in Rates : call = <<"test_data_rate", x>> /\ test_data_rate(x)
  <2>1. PICK x \in Rates : call = <<"test_data_rate", x>> /\ test_data_rate(x)
    BY <1>2
  <2>2. calls' > 0 /\ asked'.rate = x
    BY <1>0, <2>1 DEF AskedType, test_data_rate, SetRate, Calls
  <2>3. rf24_getDataRate(reg') = IF x = "250KBPS" /\ ~ reg.plus THEN "1MBPS" ELSE x
    BY <1>1, <2>2 DEF SettingsKept
  <2>4. failed' = IF rf24_getDataRate(reg') = x THEN failed ELSE failed \cup {x}
    BY <2>1 DEF test_data_rate, Verdict
  <2>5. call = <<"test_data_rate", "250KBPS">> <=> x = "250KBPS"
    BY <2>1
  <2> QED
    BY <2>3, <2>4, <2>5
<1>3. CASE \E x \in Levels : call = <<"test_power_level", x>> /\ test_power_level(x)
  <2>1. PICK x \in Levels : call = <<"test_power_level", x>> /\ test_power_level(x)
    BY <1>3
  <2>2. calls' > 0 /\ asked'.level = x
    BY <1>0, <2>1 DEF AskedType, test_power_level, SetLevel, Calls
  <2>3. rf24_getPALevel(reg') = x
    BY <1>1, <2>2 DEF SettingsKept
  <2>4. call # <<"test_data_rate", "250KBPS">>
    BY <2>1
  <2> QED
    BY <2>1, <2>3, <2>4 DEF test_power_level, Verdict
<1> QED
  BY <1>2, <1>3 DEF Test

(* Until the first test, where in its script a program is; from then on,   *)
(* the verdict.                                                            *)
SuiteInv ==
  /\ IInv
  /\ program = "any" => todo = <<>>
  /\ program # "any" /\ calls = 0 => todo \in {sender, receiver}
  /\ program # "any" /\ calls = 1 => todo \in {Tail(sender), Tail(receiver)}
  /\ SuiteVerdict

LEMMA SuiteInit == ProgInit => SuiteInv
<1> SUFFICES ASSUME ProgInit PROVE SuiteInv
  OBVIOUS
<1>1. IInv
  BY InitInv DEF ProgInit
<1> QED
  BY <1>1 DEF ProgInit, Init, SuiteInv, SuiteVerdict

(* The two scripts, call by call.                                          *)
Suite ==
  {<<"test_data_rate", "250KBPS">>, <<"test_data_rate", "1MBPS">>,
   <<"test_data_rate", "2MBPS">>, <<"test_power_level", "MIN">>,
   <<"test_power_level", "LOW">>, <<"test_power_level", "HIGH">>,
   <<"test_power_level", "MAX">>}

ScriptCalls ==
  Suite \cup
  {<<"rf24_init_radio">>, <<"rf24_resetcfg">>, <<"rf24_setAddressWidth", 5>>,
   <<"rf24_setRXAddressOnPipe", 0, E1>>, <<"rf24_setRXAddressOnPipe", 1, C2>>,
   <<"rf24_setPayloadSize", 5>>, <<"rf24_setPayloadSize", 10>>,
   <<"rf24_setAutoAckOnAll", FALSE>>, <<"rf24_setChannel", 60>>, <<"rf24_startListening">>,
   <<"rf24_stopListening">>, <<"setTXAddress", E1>>, <<"rf24_write">>}

LEMMA Scripts ==
  /\ \A s \in {sender, receiver} :
       /\ s \in Seq(ScriptCalls)
       /\ Head(s) = <<"rf24_init_radio">> /\ Head(Tail(s)) = <<"test_data_rate", "250KBPS">>
       /\ \A k \in 2 .. 8 : s[k] \in Suite
       /\ s[9] = <<"rf24_resetcfg">> /\ s[10] = <<"rf24_setAddressWidth", 5>>
  /\ Len(receiver) = 16 /\ Len(sender) = 17
  /\ receiver[11] = <<"rf24_setPayloadSize", 5>>
  /\ receiver[12] = <<"rf24_setRXAddressOnPipe", 0, E1>>
  /\ receiver[13] = <<"rf24_setRXAddressOnPipe", 1, C2>>
  /\ receiver[14] = <<"rf24_setAutoAckOnAll", FALSE>>
  /\ receiver[15] = <<"rf24_setChannel", 60>>
  /\ receiver[16] = <<"rf24_startListening">>
  /\ sender[11] = <<"rf24_setRXAddressOnPipe", 1, C2>>
  /\ sender[12] = <<"rf24_setChannel", 60>>
  /\ sender[13] = <<"rf24_setPayloadSize", 10>>
  /\ sender[14] = <<"rf24_setAutoAckOnAll", FALSE>>
  /\ sender[15] = <<"rf24_stopListening">>
  /\ sender[16] = <<"setTXAddress", E1>>
  /\ sender[17] = <<"rf24_write">>
<1> DEFINE i == <<"rf24_init_radio">>
           s1 == <<"test_data_rate", "250KBPS">>
           s2 == <<"test_data_rate", "1MBPS">>
           s3 == <<"test_data_rate", "2MBPS">>
           s4 == <<"test_power_level", "MIN">>
           s5 == <<"test_power_level", "LOW">>
           s6 == <<"test_power_level", "HIGH">>
           s7 == <<"test_power_level", "MAX">>
           c1 == <<"rf24_resetcfg">>
           c2 == <<"rf24_setAddressWidth", 5>>
           c3 == <<"rf24_setRXAddressOnPipe", 1, C2>>
           c4 == <<"rf24_setAutoAckOnAll", FALSE>>
           c5 == <<"rf24_setChannel", 60>>
           r1 == <<"rf24_setPayloadSize", 5>>
           r2 == <<"rf24_setRXAddressOnPipe", 0, E1>>
           r3 == <<"rf24_startListening">>
           t1 == <<"rf24_setPayloadSize", 10>>
           t2 == <<"rf24_stopListening">>
           t3 == <<"setTXAddress", E1>>
           t4 == <<"rf24_write">>
<1>1. run_test_suite = <<s1, s2, s3, s4, s5, s6, s7>>
  BY DEF run_test_suite
<1>2. receiver = (<<i>> \o run_test_suite) \o <<c1, c2, r1, r2, c3, c4, c5, r3>>
  BY DEF receiver
<1>3. sender = (<<i>> \o run_test_suite) \o <<c1, c2, c3, c5, t1, c4, t2, t3, t4>>
  BY DEF sender
<1>4. Suite = {s1, s2, s3, s4, s5, s6, s7}
  BY DEF Suite
<1>5. /\ {s1, s2, s3, s4, s5, s6, s7, i, c1, c2} \subseteq ScriptCalls
      /\ {c3, c4, c5, r1, r2, r3, t1, t2, t3, t4} \subseteq ScriptCalls
  BY <1>4 DEF ScriptCalls
<1> HIDE DEF i, s1, s2, s3, s4, s5, s6, s7, c1, c2, c3, c4, c5, r1, r2, r3, t1, t2, t3, t4
<1>6. /\ Len(receiver) = 16
      /\ receiver[1] = i /\ receiver[2] = s1 /\ receiver[3] = s2 /\ receiver[4] = s3
      /\ receiver[5] = s4 /\ receiver[6] = s5 /\ receiver[7] = s6 /\ receiver[8] = s7
      /\ receiver[9] = c1 /\ receiver[10] = c2 /\ receiver[11] = r1 /\ receiver[12] = r2
      /\ receiver[13] = c3 /\ receiver[14] = c4 /\ receiver[15] = c5 /\ receiver[16] = r3
  BY <1>1, <1>2
<1>7. /\ Len(sender) = 17
      /\ sender[1] = i /\ sender[2] = s1 /\ sender[3] = s2 /\ sender[4] = s3
      /\ sender[5] = s4 /\ sender[6] = s5 /\ sender[7] = s6 /\ sender[8] = s7
      /\ sender[9] = c1 /\ sender[10] = c2 /\ sender[11] = c3 /\ sender[12] = c5
      /\ sender[13] = t1 /\ sender[14] = c4 /\ sender[15] = t2 /\ sender[16] = t3
      /\ sender[17] = t4
  BY <1>1, <1>3
<1>8. receiver \in Seq(ScriptCalls) /\ sender \in Seq(ScriptCalls)
  BY <1>1, <1>2, <1>3, <1>5
<1>9. \A k \in 2 .. 8 : k = 2 \/ k = 3 \/ k = 4 \/ k = 5 \/ k = 6 \/ k = 7 \/ k = 8
  OBVIOUS
<1>10. \A s \in {sender, receiver} : \A k \in 2 .. 8 : s[k] \in Suite
  BY <1>4, <1>6, <1>7, <1>9
<1>11. Head(receiver) = i /\ Head(Tail(receiver)) = s1
  BY <1>1, <1>2
<1>12. Head(sender) = i /\ Head(Tail(sender)) = s1
  BY <1>1, <1>3
<1> QED
  BY <1>6, <1>7, <1>8, <1>10, <1>11, <1>12
  DEF i, s1, c1, c2, c3, c4, c5, r1, r2, r3, t1, t2, t3, t4

(* Both scripts begin with the initialisation and the rate that only one   *)
(* kind of chip has.                                                       *)
LEMMA ScriptHeads ==
  ASSUME NEW s \in {sender, receiver}
  PROVE  Head(s) = <<"rf24_init_radio">> /\ Head(Tail(s)) = <<"test_data_rate", "250KBPS">>
BY Scripts

LEMMA SuiteStep == SuiteInv /\ [ProgNext]_progvars => SuiteInv'
<1> SUFFICES ASSUME SuiteInv, [ProgNext]_progvars PROVE SuiteInv'
  OBVIOUS
<1>0. IInv /\ IInv' /\ reg \in RegType /\ calls \in Nat
  BY ProgramStep, Step DEF SuiteInv, IInv, TypeOK
<1>1. CASE UNCHANGED progvars
  BY <1>0, <1>1 DEF progvars, SuiteInv, SuiteVerdict
<1>2. CASE Free
  BY <1>0, <1>2 DEF Free, SuiteInv, SuiteVerdict
<1>3. CASE Scripted
  <2>1. /\ program # "any" /\ program' = program /\ todo' = Tail(todo)
        /\ Test(Head(todo)) \/ (Setup(Head(todo)) /\ UNCHANGED failed)
    BY <1>3 DEF Scripted, SuiteInv
  <2>2. reg'.plus = reg.plus
    BY <1>0, <2>1, ChipStays
  <2>3. calls' = calls + 1
    BY <2>1 DEF Test, test_data_rate, test_power_level, SetRate, SetLevel, Setup,
       rf24_init_radio, rf24_resetcfg, rf24_setAddressWidth, rf24_setPayloadSize, OpenPipe,
       rf24_setAutoAckOnAll, rf24_setChannel, rf24_startListening, rf24_stopListening,
       setTXAddress, rf24_write, Calls
  <2>4. Test(Head(todo)) =>
          failed' = IF Head(todo) = <<"test_data_rate", "250KBPS">> /\ ~ reg.plus
                    THEN failed \cup {"250KBPS"} ELSE failed
    BY <1>0, <2>2, TestResult
  <2>5. CASE calls = 0
    <3>1. todo \in {sender, receiver} /\ failed = {}
      BY <2>1, <2>5 DEF SuiteInv, SuiteVerdict
    <3>2. ~ Test(Head(todo))
      BY <3>1, ScriptHeads DEF Test
    <3> QED
      BY <1>0, <2>1, <2>3, <2>5, <3>1, <3>2 DEF SuiteInv, SuiteVerdict
  <2>6. CASE calls = 1
    <3>1. todo \in {Tail(sender), Tail(receiver)} /\ failed = {}
      BY <2>1, <2>6 DEF SuiteInv, SuiteVerdict
    <3>2. Head(todo) = <<"test_data_rate", "250KBPS">>
      BY <3>1, ScriptHeads
    <3>3. ~ Setup(Head(todo))
      BY <3>2 DEF Setup
    <3> QED
      BY <1>0, <2>1, <2>2, <2>3, <2>4, <2>6, <3>1, <3>2, <3>3 DEF SuiteInv, SuiteVerdict
  <2>7. CASE calls > 1
    BY <1>0, <2>1, <2>2, <2>3, <2>4, <2>7 DEF SuiteInv, SuiteVerdict
  <2> QED
    BY <1>0, <2>5, <2>6, <2>7
<1> QED
  BY <1>1, <1>2, <1>3 DEF ProgNext

(* The suite names the chip's model rightly, whatever registers it starts  *)
(* from (receiver.c:34-64, sender.c:36-66).                                *)
THEOREM SuiteTellsTheModel == ProgSpec => []SuiteVerdict
<1>1. SuiteInv => SuiteVerdict
  BY DEF SuiteInv
<1> QED
  BY <1>1, SuiteInit, SuiteStep, PTL DEF ProgSpec
-----------------------------------------------------------------------------
(* Where in its script a program is, and what the chip and the driver hold *)
(* from each call on.                                                      *)
Script == IF program = "sender" THEN sender ELSE receiver

Left == calls \in 0 .. Len(Script) /\ todo = SubSeq(Script, calls + 1, Len(Script))

AfterReset ==
  calls >= 9 =>
    /\ asked.rate = "1MBPS" /\ asked.crc = "16"
    /\ reg.setup_aw = 3 /\ reg.dynpd = {} /\ drv.addr_width = 5

SenderSet ==
  /\ calls >= 12 => reg.rf_ch = 60
  /\ calls >= 14 => reg.en_aa = {}
  /\ calls >= 16 => reg.tx_addr = E1

ReceiverSet ==
  /\ drv.listening => calls >= 16
  /\ calls >= 11 => drv.payload_len = 5
  /\ calls >= 12 => drv.pipe0_address = E1 /\ 0 \in reg.en_rxaddr /\ reg.width[0] = 5
  /\ calls >= 13 => reg.width[1] = 5
  /\ calls >= 14 => reg.en_aa = {}
  /\ calls >= 15 => reg.rf_ch = 60
  /\ calls >= 16 => reg.rx_addr[0] = E1

ScriptInv ==
  /\ IInv
  /\ program \in {"any", "sender", "receiver"}
  /\ program = "any" => todo = <<>>
  /\ program # "any" => Left /\ AfterReset
  /\ program = "sender" => SenderSet
  /\ program = "receiver" => ReceiverSet

LEMMA ScriptInit == ProgInit => ScriptInv
<1> SUFFICES ASSUME ProgInit PROVE ScriptInv
  OBVIOUS
<1>1. IInv /\ calls = 0 /\ ~ drv.listening
  BY InitInv DEF ProgInit, Init
<1>2. CASE program = "any"
  BY <1>1, <1>2 DEF ProgInit, ScriptInv
<1>3. CASE program # "any"
  <2>1. /\ program \in {"sender", "receiver"} /\ todo = Script
        /\ Script \in {sender, receiver}
    BY <1>3 DEF ProgInit, Script
  <2>2. Script \in Seq(ScriptCalls)
    BY <2>1, Scripts
  <2>3. Len(Script) \in Nat /\ SubSeq(Script, 1, Len(Script)) = Script
    BY <2>2, SubSeqFull
  <2>4. Left
    BY <1>1, <2>1, <2>3 DEF Left
  <2>5. AfterReset /\ SenderSet /\ ReceiverSet
    BY <1>1 DEF AfterReset, SenderSet, ReceiverSet
  <2> QED
    BY <1>1, <1>3, <2>1, <2>4, <2>5 DEF ScriptInv
<1> QED
  BY <1>2, <1>3

(* A program makes the calls of its script in their order.                 *)
LEMMA NextCall ==
  ASSUME Left, Scripted, program \in {"sender", "receiver"}, calls' = calls + 1
  PROVE  calls + 1 \in 1 .. Len(Script) /\ Head(todo) = Script[calls + 1] /\ Left'
<1>0. todo # <<>> /\ todo' = Tail(todo) /\ program' = program
  BY DEF Scripted
<1>1. Script \in {sender, receiver} /\ Script' = Script
  BY <1>0 DEF Script
<1>2. Script \in Seq(ScriptCalls)
  BY <1>1, Scripts
<1>3. Len(Script) \in Nat /\ calls \in 0 .. Len(Script)
  BY <1>2 DEF Left
<1>4. calls # Len(Script)
  <2> SUFFICES ASSUME calls = Len(Script) PROVE FALSE
    OBVIOUS
  <2>1. SubSeq(Script, calls + 1, Len(Script)) = <<>>
    BY <1>3, SubSeqEmpty
  <2> QED
    BY <1>0, <2>1 DEF Left
<1>5. calls + 1 \in 1 .. Len(Script) /\ Len(Script) \in calls + 1 .. Len(Script)
  BY <1>3, <1>4
<1>6. /\ Head(todo) = Script[calls + 1]
      /\ Tail(todo) = SubSeq(Script, calls + 1 + 1, Len(Script))
  BY <1>2, <1>5, HeadTailOfSubSeq DEF Left
<1> QED
  BY <1>0, <1>1, <1>5, <1>6 DEF Left

(* What the calls of the scripts are.                                      *)
LEMMA Made ==
  ASSUME NEW call, Test(call) \/ Setup(call)
  PROVE  /\ call = <<"rf24_init_radio">> => rf24_init_radio
         /\ call \in Suite => (\E x \in Rates : SetRate(x)) \/ (\E x \in Levels : SetLevel(x))
         /\ call = <<"rf24_resetcfg">> => rf24_resetcfg
         /\ call = <<"rf24_setAddressWidth", 5>> => rf24_setAddressWidth(5)
         /\ call = <<"rf24_setPayloadSize", 5>> => rf24_setPayloadSize(5)
         /\ call = <<"rf24_setPayloadSize", 10>> => rf24_setPayloadSize(10)
         /\ call = <<"rf24_setRXAddressOnPipe", 0, E1>> => OpenPipe(0, E1)
         /\ call = <<"rf24_setRXAddressOnPipe", 1, C2>> => OpenPipe(1, C2)
         /\ call = <<"rf24_setAutoAckOnAll", FALSE>> => rf24_setAutoAckOnAll(FALSE)
         /\ call = <<"rf24_setChannel", 60>> => rf24_setChannel(60)
         /\ call = <<"rf24_startListening">> => rf24_startListening
         /\ call = <<"rf24_stopListening">> => rf24_stopListening
         /\ call = <<"setTXAddress", E1>> => setTXAddress(E1)
         /\ call = <<"rf24_write">> => rf24_write
<1>1. CASE Test(call)
  <2>1. (\E x \in Rates : SetRate(x)) \/ (\E x \in Levels : SetLevel(x))
    BY <1>1 DEF Test, test_data_rate, test_power_level
  <2>2. CASE \E x \in Rates : call = <<"test_data_rate", x>>
    BY <2>1, <2>2
  <2>3. CASE \E x \in Levels : call = <<"test_power_level", x>>
    BY <2>1, <2>3
  <2> QED
    BY <1>1, <2>2, <2>3 DEF Test
<1>2. CASE Setup(call)
  <2>1. call \notin Suite
    BY <1>2 DEF Setup, Suite
  <2>2. CASE call = <<"rf24_init_radio">> /\ rf24_init_radio
    BY <2>1, <2>2
  <2>9. CASE call = <<"rf24_resetcfg">> /\ rf24_resetcfg
    BY <2>1, <2>9
  <2>10. CASE call = <<"rf24_startListening">> /\ rf24_startListening
    BY <2>1, <2>10
  <2>11. CASE call = <<"rf24_stopListening">> /\ rf24_stopListening
    BY <2>1, <2>11
  <2>12. CASE call = <<"rf24_write">> /\ rf24_write
    BY <2>1, <2>12
  <2>3. CASE \E w \in 0 .. 6 : call = <<"rf24_setAddressWidth", w>> /\ rf24_setAddressWidth(w)
    BY <2>1, <2>3
  <2>4. CASE \E n \in Sizes : call = <<"rf24_setPayloadSize", n>> /\ rf24_setPayloadSize(n)
    BY <2>1, <2>4
  <2>5. CASE \E p \in Pipes, a \in Addresses :
               call = <<"rf24_setRXAddressOnPipe", p, a>> /\ OpenPipe(p, a)
    <3>1. PICK p \in Pipes, a \in Addresses :
            call = <<"rf24_setRXAddressOnPipe", p, a>> /\ OpenPipe(p, a)
      BY <2>5
    <3>2. call[1] = "rf24_setRXAddressOnPipe" /\ call[2] = p /\ call[3] = a
      BY <3>1
    <3>3. call = <<"rf24_setRXAddressOnPipe", 0, E1>> => OpenPipe(0, E1)
      BY <3>1, <3>2
    <3>4. call = <<"rf24_setRXAddressOnPipe", 1, C2>> => OpenPipe(1, C2)
      <4>1. <<"rf24_setRXAddressOnPipe", p, a>> = <<"rf24_setRXAddressOnPipe", 1, C2>>
              => p = 1 /\ a = C2
        OBVIOUS
      <4> QED
        BY <3>1, <4>1
    <3>5. /\ call # <<"rf24_init_radio">> /\ call # <<"rf24_resetcfg">>
          /\ call # <<"rf24_startListening">> /\ call # <<"rf24_stopListening">>
          /\ call # <<"rf24_write">>
      BY <3>2
    <3>6. /\ call # <<"rf24_setAddressWidth", 5>> /\ call # <<"rf24_setPayloadSize", 5>>
          /\ call # <<"rf24_setPayloadSize", 10>> /\ call # <<"rf24_setChannel", 60>>
          /\ call # <<"setTXAddress", E1>>
      BY <3>2
    <3>7. call # <<"rf24_setAutoAckOnAll", FALSE>>
      <4>1. <<"rf24_setAutoAckOnAll", FALSE>>[1] = "rf24_setAutoAckOnAll"
        OBVIOUS
      <4> QED
        BY <3>2, <4>1
    <3> QED
      BY <2>1, <3>3, <3>4, <3>5, <3>6, <3>7
  <2>6. CASE \E e \in BOOLEAN : call = <<"rf24_setAutoAckOnAll", e>> /\ rf24_setAutoAckOnAll(e)
    <3>1. PICK e \in BOOLEAN : call = <<"rf24_setAutoAckOnAll", e>> /\ rf24_setAutoAckOnAll(e)
      BY <2>6
    <3>2. call[1] = "rf24_setAutoAckOnAll" /\ call[2] = e
      BY <3>1
    <3>3. call = <<"rf24_setAutoAckOnAll", FALSE>> => rf24_setAutoAckOnAll(FALSE)
      BY <3>1, <3>2
    <3>4. /\ call # <<"rf24_init_radio">> /\ call # <<"rf24_resetcfg">>
          /\ call # <<"rf24_startListening">> /\ call # <<"rf24_stopListening">>
          /\ call # <<"rf24_write">>
      BY <3>2
    <3>5. /\ call # <<"rf24_setAddressWidth", 5>> /\ call # <<"rf24_setPayloadSize", 5>>
          /\ call # <<"rf24_setPayloadSize", 10>> /\ call # <<"rf24_setChannel", 60>>
          /\ call # <<"setTXAddress", E1>>
      BY <3>2
    <3>6. /\ call # <<"rf24_setRXAddressOnPipe", 0, E1>>
          /\ call # <<"rf24_setRXAddressOnPipe", 1, C2>>
      BY <3>2
    <3> QED
      BY <2>1, <3>3, <3>4, <3>5, <3>6, Zenon
  <2>7. CASE \E c \in Channels : call = <<"rf24_setChannel", c>> /\ rf24_setChannel(c)
    BY <2>1, <2>7
  <2>8. CASE \E a \in Addresses : call = <<"setTXAddress", a>> /\ setTXAddress(a)
    BY <2>1, <2>8
  <2> QED
    BY <1>2, <2>2, <2>3, <2>4, <2>5, <2>6, <2>7, <2>8,
       <2>9, <2>10, <2>11, <2>12 DEF Setup
<1> QED
  BY <1>1, <1>2

(* The reset undoes what the test suite has set, and no later call of a    *)
(* script touches the rate, the CRC or DYNPD again.                        *)
LEMMA ResetEffect ==
  ASSUME IInv, rf24_resetcfg
  PROVE  /\ asked'.rate = "1MBPS" /\ asked'.crc = "16"
         /\ reg'.setup_aw = 3 /\ reg'.dynpd = {}
         /\ ~ drv'.listening /\ drv'.addr_width = 5
<1> DEFINE r == [reg EXCEPT !.config = RST_CFG]
<1>1. reg \in RegType /\ drv \in DrvType /\ asked \in AskedType
  BY DEF IInv, TypeOK
<1>2. r \in RegType
  BY <1>1 DEF RegType
<1>3. /\ reg' = DefaultRegisters(r) /\ drv' = DefaultDriver(drv, r)
      /\ asked' = [asked EXCEPT !.level = "MAX", !.rate = "1MBPS", !.crc = "16"]
  BY DEF rf24_resetcfg, SetDefaults
<1> HIDE DEF r
<1>4. DefaultRegisters(r) = [r EXCEPT !.rf_setup = DefaultRegisters(r).rf_setup,
                                      !.config = DefaultRegisters(r).config,
                                      !.dynpd = {}, !.rf_ch = 76, !.setup_aw = 3]
  BY <1>2, DefaultsEffect
<1>5. reg'.setup_aw = 3 /\ reg'.dynpd = {}
  BY <1>2, <1>3, <1>4 DEF RegType
<1> QED
  BY <1>1, <1>3, <1>5 DEF DefaultDriver, DrvType, AskedType

(* Up to the reset, nothing makes the radio listen.                        *)
LEMMA EarlyStep ==
  ASSUME IInv, NEW s \in {sender, receiver}, calls < 8,
         Test(s[calls + 1]) \/ Setup(s[calls + 1])
  PROVE  drv'.listening => drv.listening
<1>1. drv \in DrvType /\ calls \in Nat
  BY DEF IInv, TypeOK
<1>2. CASE calls = 0
  <2>1. s[calls + 1] = <<"rf24_init_radio">>
    BY <1>2, Scripts
  <2>2. rf24_init_radio
    BY <2>1, Made
  <2> QED
    BY <1>1, <2>2 DEF rf24_init_radio, SetDefaults, DefaultDriver, DrvType
<1>3. CASE calls > 0
  <2>1. calls + 1 \in 2 .. 8
    BY <1>1, <1>3
  <2>2. s[calls + 1] \in Suite
    BY <2>1, Scripts
  <2>3. (\E x \in Rates : SetRate(x)) \/ (\E x \in Levels : SetLevel(x))
    BY <2>2, Made
  <2> QED
    BY <1>1, <2>3 DEF SetRate, SetLevel, DrvType
<1> QED
  BY <1>1, <1>2, <1>3

(* Five bytes are a whole address.                                         *)
LEMMA WholeAddress ==
  ASSUME NEW old, NEW a \in Addresses
  PROVE  Overwrite(old, a, 5) = a
<1>1. a \in [1 .. 5 -> 1 .. 255]
  BY ConfigAssumption
<1>2. Overwrite(old, a, 5) = [i \in 1 .. 5 |-> a[i]]
  BY DEF Overwrite
<1> QED
  BY <1>1, <1>2

(* What opening one of the programs' two pipes changes, and what it leaves.*)
LEMMA OpenAtFive ==
  ASSUME IInv, drv.addr_width = 5, NEW p \in {0, 1}, NEW a \in Addresses, OpenPipe(p, a)
  PROVE  /\ reg'.setup_aw = reg.setup_aw /\ reg'.dynpd = reg.dynpd
         /\ reg'.rf_ch = reg.rf_ch /\ reg'.en_aa = reg.en_aa
         /\ reg'.en_rxaddr = reg.en_rxaddr \cup {p}
         /\ reg'.width = [reg.width EXCEPT ![p] = drv.payload_len]
         /\ drv' = IF p = 0 THEN [drv EXCEPT !.pipe0_address = a] ELSE drv
         /\ asked'.rate = asked.rate /\ asked'.crc = asked.crc
<1>1. reg \in RegType /\ drv \in DrvType /\ asked \in AskedType /\ {0, 1} \subseteq Pipes
  BY ProgramsAssumption DEF IInv, TypeOK
<1>2. Overwrite(drv.pipe0_address, a, 5) = a
  BY WholeAddress
<1> DEFINE written == WritePipe(reg, p, a, 5)
<1>3. written = [reg EXCEPT !.rx_addr = written.rx_addr]
  <2>1. CASE p = 0
    BY <1>1, <2>1 DEF WritePipe, RegType
  <2>2. CASE p = 1
    <3> DEFINE addr == [reg.rx_addr EXCEPT ![1] = Overwrite(reg.rx_addr[1], a, 5)]
    <3>1. written = [reg EXCEPT !.rx_addr = addr]
      BY <1>1, <2>2 DEF WritePipe, RegType
    <3> HIDE DEF addr, written
    <3> QED
      BY <1>1, <3>1 DEF RegType
  <2> QED
    BY <2>1, <2>2
<1>4. /\ reg' = [written EXCEPT !.width[p] = drv.payload_len, !.en_rxaddr = @ \cup {p}]
      /\ drv' = IF p = 0 THEN [drv EXCEPT !.pipe0_address = a] ELSE drv
      /\ asked' = [asked EXCEPT !.open[p] = AtWidth(a)]
  BY <1>2 DEF OpenPipe, rf24_setRXAddressOnPipe
<1> HIDE DEF written
<1>5. asked'.rate = asked.rate /\ asked'.crc = asked.crc
  BY <1>1, <1>4 DEF AskedType
<1> QED
  BY <1>1, <1>3, <1>4, <1>5 DEF RegType

LEMMA ReceiverStep ==
  ASSUME IInv, AfterReset, ReceiverSet, calls' = calls + 1, calls + 1 \in 1 .. 16,
         Test(receiver[calls + 1]) \/ Setup(receiver[calls + 1])
  PROVE  AfterReset' /\ ReceiverSet'
<1>0. reg \in RegType /\ drv \in DrvType /\ asked \in AskedType /\ calls \in Nat
  BY DEF IInv, TypeOK
<1>1. {0, 1} \subseteq Pipes /\ E1 \in Addresses /\ C2 \in Addresses
  BY ProgramsAssumption
<1>2. CASE calls < 8
  <2>1. drv'.listening => drv.listening
    BY <1>2, EarlyStep
  <2> QED
    BY <1>0, <1>2, <2>1 DEF AfterReset, ReceiverSet
<1>3. CASE calls = 8
  <2>1. receiver[calls + 1] = <<"rf24_resetcfg">>
    BY <1>3, Scripts
  <2>2. rf24_resetcfg
    BY <2>1, Made
  <2> QED
    BY <1>0, <1>3, <2>2, ResetEffect DEF AfterReset, ReceiverSet
<1>4. CASE calls = 9
  <2>1. receiver[calls + 1] = <<"rf24_setAddressWidth", 5>>
    BY <1>4, Scripts
  <2>2. rf24_setAddressWidth(5)
    BY <2>1, Made
  <2> QED
    BY <1>0, <1>1, <1>4, <2>2
    DEF AfterReset, ReceiverSet, rf24_setAddressWidth, RegType, DrvType, AskedType
<1>5. CASE calls = 10
  <2>1. receiver[calls + 1] = <<"rf24_setPayloadSize", 5>>
    BY <1>5, Scripts
  <2>2. rf24_setPayloadSize(5)
    BY <2>1, Made
  <2> QED
    BY <1>0, <1>1, <1>5, <2>2
    DEF AfterReset, ReceiverSet, rf24_setPayloadSize, MAX_PAYLOAD_LEN, RegType, DrvType, AskedType
<1>6. CASE calls = 11
  <2>1. receiver[calls + 1] = <<"rf24_setRXAddressOnPipe", 0, E1>>
    BY <1>6, Scripts
  <2>2. OpenPipe(0, E1)
    BY <2>1, Made
  <2> QED
    BY <1>0, <1>1, <1>6, <2>2, OpenAtFive DEF AfterReset, ReceiverSet, RegType, DrvType
<1>7. CASE calls = 12
  <2>1. receiver[calls + 1] = <<"rf24_setRXAddressOnPipe", 1, C2>>
    BY <1>7, Scripts
  <2>2. OpenPipe(1, C2)
    BY <2>1, Made
  <2> QED
    BY <1>0, <1>1, <1>7, <2>2, OpenAtFive DEF AfterReset, ReceiverSet, RegType, DrvType
<1>8. CASE calls = 13
  <2>1. receiver[calls + 1] = <<"rf24_setAutoAckOnAll", FALSE>>
    <3>1. calls + 1 = 14
      BY <1>8
    <3> QED
      BY <3>1, Scripts, Zenon
  <2>2. rf24_setAutoAckOnAll(FALSE)
    BY <2>1, Made
  <2> QED
    BY <1>0, <1>1, <1>8, <2>2
    DEF AfterReset, ReceiverSet, rf24_setAutoAckOnAll, RegType, DrvType, AskedType
<1>9. CASE calls = 14
  <2>1. receiver[calls + 1] = <<"rf24_setChannel", 60>>
    BY <1>9, Scripts
  <2>2. rf24_setChannel(60)
    BY <2>1, Made
  <2> QED
    BY <1>0, <1>1, <1>9, <2>2
    DEF AfterReset, ReceiverSet, rf24_setChannel, MAX_CHANNEL, RegType, DrvType, AskedType
<1>10. CASE calls = 15
  <2>1. receiver[calls + 1] = <<"rf24_startListening">>
    BY <1>10, Scripts
  <2>2. rf24_startListening
    BY <2>1, Made
  <2> QED
    <3>1. Overwrite(reg.rx_addr[0], drv.pipe0_address, drv.addr_width) = E1
      BY <1>1, <1>10, WholeAddress DEF AfterReset, ReceiverSet
    <3>2. /\ reg' = [reg EXCEPT !.config = @ \cup {"PWR_UP", "PRIM_RX"}, !.rx_addr[0] = E1]
          /\ drv' = [drv EXCEPT !.listening = TRUE] /\ asked' = asked
      BY <2>2, <3>1 DEF rf24_startListening, Listen
    <3> QED
      BY <1>0, <1>1, <1>10, <3>2 DEF AfterReset, ReceiverSet, RegType, DrvType
<1> QED
  BY <1>0, <1>2, <1>3, <1>4, <1>5, <1>6, <1>7, <1>8, <1>9, <1>10

LEMMA SenderStep ==
  ASSUME IInv, AfterReset, SenderSet, calls' = calls + 1, calls + 1 \in 1 .. 17,
         Test(sender[calls + 1]) \/ Setup(sender[calls + 1])
  PROVE  AfterReset' /\ SenderSet'
<1>0. reg \in RegType /\ drv \in DrvType /\ asked \in AskedType /\ calls \in Nat
  BY DEF IInv, TypeOK
<1>1. {0, 1} \subseteq Pipes /\ E1 \in Addresses /\ C2 \in Addresses
  BY ProgramsAssumption
<1>2. CASE calls < 8
  BY <1>0, <1>2 DEF AfterReset, SenderSet
<1>3. CASE calls = 8
  <2>1. sender[calls + 1] = <<"rf24_resetcfg">>
    BY <1>3, Scripts
  <2>2. rf24_resetcfg
    BY <2>1, Made
  <2> QED
    BY <1>0, <1>3, <2>2, ResetEffect DEF AfterReset, SenderSet
<1>4. CASE calls = 9
  <2>1. sender[calls + 1] = <<"rf24_setAddressWidth", 5>>
    BY <1>4, Scripts
  <2>2. rf24_setAddressWidth(5)
    BY <2>1, Made
  <2> QED
    BY <1>0, <1>1, <1>4, <2>2
    DEF AfterReset, SenderSet, rf24_setAddressWidth, RegType, DrvType, AskedType
<1>5. CASE calls = 10
  <2>1. sender[calls + 1] = <<"rf24_setRXAddressOnPipe", 1, C2>>
    BY <1>5, Scripts
  <2>2. OpenPipe(1, C2)
    BY <2>1, Made
  <2> QED
    BY <1>0, <1>1, <1>5, <2>2, OpenAtFive DEF AfterReset, SenderSet
<1>6. CASE calls = 11
  <2>1. sender[calls + 1] = <<"rf24_setChannel", 60>>
    BY <1>6, Scripts
  <2>2. rf24_setChannel(60)
    BY <2>1, Made
  <2> QED
    BY <1>0, <1>1, <1>6, <2>2
    DEF AfterReset, SenderSet, rf24_setChannel, MAX_CHANNEL, RegType, DrvType, AskedType
<1>7. CASE calls = 12
  <2>1. sender[calls + 1] = <<"rf24_setPayloadSize", 10>>
    BY <1>7, Scripts
  <2>2. rf24_setPayloadSize(10)
    BY <2>1, Made
  <2> QED
    BY <1>0, <1>1, <1>7, <2>2
    DEF AfterReset, SenderSet, rf24_setPayloadSize, MAX_PAYLOAD_LEN, RegType, DrvType, AskedType
<1>8. CASE calls = 13
  <2>1. sender[calls + 1] = <<"rf24_setAutoAckOnAll", FALSE>>
    <3>1. calls + 1 = 14
      BY <1>8
    <3> QED
      BY <3>1, Scripts, Zenon
  <2>2. rf24_setAutoAckOnAll(FALSE)
    BY <2>1, Made
  <2> QED
    BY <1>0, <1>1, <1>8, <2>2
    DEF AfterReset, SenderSet, rf24_setAutoAckOnAll, RegType, DrvType, AskedType
<1>9. CASE calls = 14
  <2>1. sender[calls + 1] = <<"rf24_stopListening">>
    BY <1>9, Scripts
  <2>2. rf24_stopListening
    BY <2>1, Made
  <2> QED
    BY <1>0, <1>1, <1>9, <2>2
    DEF AfterReset, SenderSet, rf24_stopListening, RegType, DrvType, AskedType
<1>10. CASE calls = 15
  <2>1. sender[calls + 1] = <<"setTXAddress", E1>>
    BY <1>10, Scripts
  <2>2. setTXAddress(E1)
    BY <2>1, Made
  <2> QED
    <3>1. Overwrite(reg.tx_addr, E1, drv.addr_width) = E1
      BY <1>1, <1>10, WholeAddress DEF AfterReset
    <3>2. /\ reg' = [reg EXCEPT !.tx_addr = E1]
          /\ asked' = [asked EXCEPT !.to = AtWidth(E1)]
      BY <2>2, <3>1 DEF setTXAddress, Target
    <3>3. drv'.addr_width = drv.addr_width
      BY <1>0, <2>2 DEF setTXAddress, Copy, DrvType
    <3> QED
      BY <1>0, <1>1, <1>10, <3>2, <3>3 DEF AfterReset, SenderSet, RegType, AskedType
<1>11. CASE calls = 16
  <2>1. sender[calls + 1] = <<"rf24_write">>
    BY <1>11, Scripts
  <2>2. rf24_write
    BY <2>1, Made
  <2> QED
    <3>1. /\ reg' = [reg EXCEPT !.config = reg'.config, !.rx_addr = reg'.rx_addr]
          /\ UNCHANGED <<drv, asked>>
      <4> DEFINE t == transmit_payload(reg, drv)
      <4>1. t = [reg EXCEPT !.config = t.config, !.rx_addr = t.rx_addr]
        BY <1>0, TransmitEffect
      <4>2. reg' = t /\ UNCHANGED <<drv, asked>>
        BY <2>2 DEF rf24_write
      <4> HIDE DEF t
      <4> QED
        BY <4>1, <4>2
    <3>2. /\ reg'.rf_ch = reg.rf_ch /\ reg'.en_aa = reg.en_aa /\ reg'.tx_addr = reg.tx_addr
          /\ reg'.setup_aw = reg.setup_aw /\ reg'.dynpd = reg.dynpd
      BY <1>0, <3>1 DEF RegType
    <3> QED
      BY <1>0, <1>11, <3>1, <3>2 DEF AfterReset, SenderSet
<1> QED
  BY <1>0, <1>2, <1>3, <1>4, <1>5, <1>6, <1>7, <1>8, <1>9, <1>10, <1>11

LEMMA ScriptStep == ScriptInv /\ [ProgNext]_progvars => ScriptInv'
<1> SUFFICES ASSUME ScriptInv, [ProgNext]_progvars PROVE ScriptInv'
  OBVIOUS
<1>0. IInv /\ IInv' /\ calls \in Nat
  BY ProgramStep, Step DEF ScriptInv, IInv, TypeOK
<1>1. CASE UNCHANGED progvars
  BY <1>0, <1>1 DEF progvars, ScriptInv, Left, Script, AfterReset, SenderSet, ReceiverSet
<1>2. CASE Free
  BY <1>0, <1>2 DEF Free, ScriptInv
<1>3. CASE Scripted
  <2>1. /\ program \in {"sender", "receiver"} /\ program' = program /\ todo # <<>>
        /\ todo' = Tail(todo) /\ (Test(Head(todo)) \/ Setup(Head(todo)))
    BY <1>3 DEF Scripted, ScriptInv
  <2>2. calls' = calls + 1
    BY <2>1 DEF Test, test_data_rate, test_power_level, SetRate, SetLevel, Setup,
       rf24_init_radio, rf24_resetcfg, rf24_setAddressWidth, rf24_setPayloadSize, OpenPipe,
       rf24_setAutoAckOnAll, rf24_setChannel, rf24_startListening, rf24_stopListening,
       setTXAddress, rf24_write, Calls
  <2>3. Left /\ AfterReset
    BY <2>1 DEF ScriptInv
  <2>4. calls + 1 \in 1 .. Len(Script) /\ Head(todo) = Script[calls + 1] /\ Left'
    BY <1>3, <2>1, <2>2, <2>3, NextCall
  <2>5. CASE program = "sender"
    <3>1. Script = sender /\ calls + 1 \in 1 .. 17
      BY <2>4, <2>5, Scripts DEF Script
    <3>2. Test(sender[calls + 1]) \/ Setup(sender[calls + 1])
      BY <2>1, <2>4, <3>1
    <3>3. AfterReset' /\ SenderSet'
      BY <1>0, <2>2, <2>3, <2>5, <3>1, <3>2, SenderStep DEF ScriptInv
    <3> QED
      BY <1>0, <2>1, <2>4, <2>5, <3>3 DEF ScriptInv
  <2>6. CASE program = "receiver"
    <3>1. Script = receiver /\ calls + 1 \in 1 .. 16
      BY <2>4, <2>6, Scripts DEF Script
    <3>2. Test(receiver[calls + 1]) \/ Setup(receiver[calls + 1])
      BY <2>1, <2>4, <3>1
    <3>3. AfterReset' /\ ReceiverSet'
      BY <1>0, <2>2, <2>3, <2>6, <3>1, <3>2, ReceiverStep DEF ScriptInv
    <3> QED
      BY <1>0, <2>1, <2>4, <2>6, <3>3 DEF ScriptInv
  <2> QED
    BY <2>1, <2>5, <2>6
<1> QED
  BY <1>1, <1>2, <1>3 DEF ProgNext

LEMMA ScriptsRun == ProgSpec => []ScriptInv
BY ScriptInit, ScriptStep, PTL DEF ProgSpec

(* A program that has nothing left to call has made every call.            *)
LEMMA AllMade ==
  ASSUME ScriptInv, todo = <<>>, program # "any"
  PROVE  calls = Len(Script)
<1>1. Left /\ Script \in {sender, receiver}
  BY DEF ScriptInv, Script
<1>2. Script \in Seq(ScriptCalls)
  BY <1>1, Scripts
<1>3. Len(Script) \in Nat /\ calls \in 0 .. Len(Script)
  BY <1>1, <1>2 DEF Left
<1>4. ASSUME calls # Len(Script) PROVE FALSE
  <2>1. calls + 1 \in Int /\ Len(Script) \in Int /\ calls + 1 <= Len(Script)
    BY <1>3, <1>4
  <2>2. \A i \in calls + 1 .. Len(Script) : Script[i] \in ScriptCalls
    BY <1>2, <1>3
  <2>3. Len(SubSeq(Script, calls + 1, Len(Script))) = Len(Script) - (calls + 1) + 1
    BY <2>1, <2>2, SubSeqProperties
  <2>4. SubSeq(Script, calls + 1, Len(Script)) = <<>>
    BY <1>1 DEF Left
  <2>5. Len(SubSeq(Script, calls + 1, Len(Script))) = 0
    <3>1. Len(<<>>) = 0
      OBVIOUS
    <3> QED
      BY <2>4, <3>1, Zenon
  <2> QED
    BY <1>3, <1>4, <2>3, <2>5
<1> QED
  BY <1>4

(* Sender and receiver end with the same rate, CRC, address width and      *)
(* channel, without acknowledgements, and on one address, whatever earlier *)
(* runs have left in their chips (receiver.c:99-108, sender.c:101-123);    *)
(* their payload lengths differ, and nothing is claimed of them.           *)
THEOREM SettingsAgree == ProgSpec => []SameSettings
<1>1. ScriptInv => SameSettings
  <2> SUFFICES ASSUME ScriptInv, todo = <<>>, program # "any"
               PROVE  /\ AirSettings = [rate |-> "1MBPS", crc |-> "16", setup_aw |-> 3, rf_ch |-> 60,
                                  en_aa |-> {}, dynpd |-> {}]
                      /\ program = "sender" => reg.tx_addr = E1
                      /\ program = "receiver" => 0 \in reg.en_rxaddr /\ reg.rx_addr[0] = E1
    BY DEF SameSettings
  <2>1. calls = IF program = "sender" THEN 17 ELSE 16
    BY AllMade, Scripts DEF Script
  <2>2. asked.rate = "1MBPS" /\ asked.crc = "16" /\ reg.setup_aw = 3 /\ reg.dynpd = {}
    BY <2>1 DEF ScriptInv, AfterReset
  <2>3. rf24_getDataRate(reg) = "1MBPS" /\ rf24_getCRCLength(reg) = "16"
    BY <2>1, <2>2, SettingsFollow DEF ScriptInv, SettingsKept
  <2>4. CASE program = "sender"
    <3>1. reg.rf_ch = 60 /\ reg.en_aa = {} /\ reg.tx_addr = E1
      BY <2>1, <2>4 DEF ScriptInv, SenderSet
    <3> QED
      BY <2>2, <2>3, <2>4, <3>1 DEF AirSettings
  <2>5. CASE program = "receiver"
    <3>1. /\ reg.rf_ch = 60 /\ reg.en_aa = {}
          /\ 0 \in reg.en_rxaddr /\ reg.rx_addr[0] = E1
      BY <2>1, <2>5 DEF ScriptInv, ReceiverSet
    <3> QED
      BY <2>2, <2>3, <2>5, <3>1 DEF AirSettings
  <2> QED
    BY <2>4, <2>5 DEF ScriptInv
<1> QED
  BY <1>1, ScriptsRun, PTL

(* The receiver listens only when the widths of its pipes are the payload  *)
(* size: it sets the size before it opens them (receiver.c:103-108).       *)
THEOREM ReceiverWidths == ProgSpec => []WidthsCurrent
<1>1. ScriptInv => WidthsCurrent
  <2> SUFFICES ASSUME ScriptInv, program = "receiver", drv.listening
               PROVE  \A p \in {0, 1} : reg.width[p] = drv.payload_len
    BY DEF WidthsCurrent
  <2>1. calls \in Nat /\ calls >= 16
    BY DEF ScriptInv, ReceiverSet, IInv, TypeOK
  <2>2. drv.payload_len = 5 /\ reg.width[0] = 5 /\ reg.width[1] = 5
    BY <2>1 DEF ScriptInv, ReceiverSet
  <2> QED
    BY <2>2
<1> QED
  BY <1>1, ScriptsRun, PTL
=============================================================================
