---------------------------- MODULE RadioConfig ----------------------------
(***************************************************************************)
(* The configuration functions of rf24.c: registers of the nRF24L01 that   *)
(* several settings share, and the driver's own variables that must agree  *)
(* with them.                                                              *)
(*                                                                         *)
(* Only the application's thread calls these functions and nothing else    *)
(* writes these registers, so a function is one action, whatever number of *)
(* SPI transactions it makes.  A register is the set of its bits; a set of *)
(* pipes is a register with one bit for each pipe.  An address has five    *)
(* bytes, of which a call moves as many as the address width of the time;  *)
(* pipes 2 to 5 have a register of one byte, here the first.  An operator  *)
(* with the name of a function of rf24.c takes registers from before the   *)
(* call to after it.                                                       *)
(***************************************************************************)
EXTENDS Naturals, FiniteSets

CONSTANTS
  Pipes,      \* 0 .. 5
  Addresses,  \* what applications send to and listen on; no byte is zero
  Sizes,      \* what applications pass to rf24_setPayloadSize
  Channels,   \* what applications pass to rf24_setChannel
  MaxCalls    \* bound: how many calls the application makes

MAX_PAYLOAD_LEN == 32
MAX_CHANNEL == 127

ASSUME ConfigAssumption ==
  /\ Pipes \subseteq 0 .. 5 /\ 0 \in Pipes
  /\ Addresses \subseteq [1 .. 5 -> 1 .. 255]
  /\ Sizes \subseteq 0 .. 255 /\ Channels \subseteq 0 .. 255
  /\ MaxCalls \in Nat

VARIABLES
  reg,    \* the registers of the chip
  drv,    \* the driver's global variables
  asked,  \* what the application has asked for last
  calls   \* the calls it has made; 0 before rf24_init_radio

vars == <<reg, drv, asked, calls>>

Levels == {"MIN", "LOW", "HIGH", "MAX"}
Rates  == {"250KBPS", "1MBPS", "2MBPS"}
CRCs   == {"DISABLED", "8", "16"}

RF_PWR   == {"PWR_LOW", "PWR_HIGH"}
RF_DR    == {"DR_LOW", "DR_HIGH"}
CRC_BITS == {"EN_CRC", "CRCO"}
RST_CFG  == CRC_BITS \cup {"PWR_UP", "PRIM_RX"}
FeatureBits == {"EN_DPL", "EN_ACK_PAY"}

LevelBits == [MIN |-> {}, LOW |-> {"PWR_LOW"}, HIGH |-> {"PWR_HIGH"}, MAX |-> RF_PWR]
RateBits  == [x \in Rates |->
  CASE x = "250KBPS" -> {"DR_LOW"} [] x = "2MBPS" -> {"DR_HIGH"} [] x = "1MBPS" -> {}]
CRCBits   == [x \in CRCs |->
  CASE x = "DISABLED" -> {} [] x = "8" -> {"EN_CRC"} [] x = "16" -> CRC_BITS]

(* An address variable never written; the first n bytes of an address      *)
(* copied over another, and compared.                                      *)
NoAddress == [i \in 1 .. 5 |-> 0]
Overwrite(old, new, n) == [i \in 1 .. 5 |-> IF i <= n THEN new[i] ELSE old[i]]
Same(a, b, n) == \A i \in 1 .. n : a[i] = b[i]
-----------------------------------------------------------------------------
(* The chip.  One that is not an nRF24L01+ cannot set the low rate bit,    *)
(* and cannot write FEATURE until the ACTIVATE command has unlocked it;    *)
(* the command sent again locks it.                                        *)
WriteRfSetup(r, bits) == [r EXCEPT !.rf_setup = IF r.plus THEN bits ELSE bits \ {"DR_LOW"}]

WriteFeature(r, bits) == IF r.plus \/ r.unlocked THEN [r EXCEPT !.feature = bits] ELSE r

toggle_features(r) ==
  [r EXCEPT !.unlocked = ~ @, !.feature = IF ~ r.plus /\ r.unlocked THEN {} ELSE @]
-----------------------------------------------------------------------------
(* Functions that read a register and write it back.  Bugs the runs must   *)
(* notice stand before the definitions they would replace: a level that    *)
(* overwrites the rate, a rate added to the last one, features that are    *)
(* never unlocked, and a pipe that is opened by closing the others.        *)
LevelOnly(r, level) == WriteRfSetup(r, LevelBits[level])

rf24_setPALevel(r, level) == WriteRfSetup(r, (r.rf_setup \ RF_PWR) \cup LevelBits[level])

RateAdded(r, rate) == WriteRfSetup(r, r.rf_setup \cup RateBits[rate])

rf24_setDataRate(r, rate) == WriteRfSetup(r, (r.rf_setup \ RF_DR) \cup RateBits[rate])

rf24_setCRCLength(r, crc) == [r EXCEPT !.config = (@ \ CRC_BITS) \cup CRCBits[crc]]

rf24_getPALevel(r) == CHOOSE x \in Levels : LevelBits[x] = r.rf_setup \cap RF_PWR

rf24_getDataRate(r) ==
  IF r.rf_setup \cap RF_DR = RF_DR THEN "ERROR"
  ELSE CHOOSE x \in Rates : RateBits[x] = r.rf_setup \cap RF_DR

rf24_getCRCLength(r) ==
  IF r.config \cap CRC_BITS = {"CRCO"} THEN "DISABLED"
  ELSE CHOOSE x \in CRCs : CRCBits[x] = r.config \cap CRC_BITS

(* Turning one pipe's acknowledgements off keeps that pipe's bit and       *)
(* clears all others.                                                      *)
rf24_setAutoAckOnPipe(r, pipe, enable) ==
  [r EXCEPT !.en_aa = IF enable THEN @ \cup {pipe} ELSE @ \cap {pipe}]

FeaturesWhenUnlocked(r, bits) == WriteFeature(r, r.feature \cup bits)

(* Write the features; if none is set afterwards, unlock and try again.    *)
TryFeatures(r, bits) ==
  LET tried == WriteFeature(r, r.feature \cup bits)
  IN  IF tried.feature = {} THEN WriteFeature(toggle_features(tried), bits) ELSE tried

rf24_enableDynamicPayloads(r) ==
  LET on == IF "EN_DPL" \in r.feature THEN r ELSE TryFeatures(r, {"EN_DPL"})
  IN  [on EXCEPT !.dynpd = Pipes]

(* With either feature on already, neither is written.                     *)
rf24_enableAckPayload(r) ==
  LET on == IF r.feature = {} THEN TryFeatures(r, {"EN_ACK_PAY", "EN_DPL"}) ELSE r
  IN  [on EXCEPT !.dynpd = @ \cup {0}]

(* Pipe 0's address is kept in pipe0_address until rf24_startListening; of *)
(* an address for pipes 2 to 5 the last byte at this width is written.     *)
WritePipe(r, pipe, addr, w) ==
  CASE pipe = 0 -> r
    [] pipe = 1 -> [r EXCEPT !.rx_addr[1] = Overwrite(@, addr, w)]
    [] OTHER    -> [r EXCEPT !.rx_addr[pipe][1] = addr[w]]

OpenByClosing(r, pipe, addr, d) ==
  [WritePipe(r, pipe, addr, d.addr_width) EXCEPT !.width[pipe] = d.payload_len,
                                                 !.en_rxaddr = {pipe}]

rf24_setRXAddressOnPipe(r, pipe, addr, d) ==
  [WritePipe(r, pipe, addr, d.addr_width) EXCEPT !.width[pipe] = d.payload_len,
                                                 !.en_rxaddr = @ \cup {pipe}]

(* The test of l.537 is of two constants, so it always succeeds.           *)
Listen(r, d) ==
  [r EXCEPT !.config = @ \cup {"PWR_UP", "PRIM_RX"},
            !.rx_addr[0] = Overwrite(@, d.pipe0_address, d.addr_width)]

(* A radio that was listening listens again after a transmission.          *)
transmit_payload(r, d) ==
  LET sent == [r EXCEPT !.config = @ \ {"PRIM_RX"}]
  IN  IF d.listening THEN Listen(sent, d) ELSE sent

(* The 250 kbit/s that only the + accepts tell the variants apart.         *)
DefaultRegisters(r) ==
  LET slow == rf24_setDataRate(rf24_setPALevel(r, "MAX"), "250KBPS")
      fast == rf24_setDataRate(slow, "1MBPS")
  IN  [rf24_setCRCLength(fast, "16") EXCEPT !.dynpd = {}, !.rf_ch = 76, !.setup_aw = 3]

VariantTooLate(r) == rf24_getDataRate(rf24_setDataRate(r, "1MBPS")) = "250KBPS"

IsVariant(r) == rf24_getDataRate(rf24_setDataRate(r, "250KBPS")) = "250KBPS"

DefaultDriver(d, r) ==
  [d EXCEPT !.p_variant = @ \/ IsVariant(r), !.wide_band = FALSE, !.addr_width = 5,
            !.listening = FALSE]
-----------------------------------------------------------------------------
(* The application's calls.                                                *)
Calls(guard) == guard /\ calls < MaxCalls /\ calls' = calls + 1

SetDefaults(r) ==
  /\ reg' = DefaultRegisters(r)
  /\ drv' = DefaultDriver(drv, r)
  /\ asked' = [asked EXCEPT !.level = "MAX", !.rate = "1MBPS", !.crc = "16"]

rf24_init_radio == Calls(calls = 0) /\ SetDefaults(reg)

ResetConfigOnly ==
  Calls(calls > 0) /\ reg' = [reg EXCEPT !.config = RST_CFG] /\ UNCHANGED <<drv, asked>>

rf24_resetcfg == Calls(calls > 0) /\ SetDefaults([reg EXCEPT !.config = RST_CFG])

SetLevel(level) ==
  /\ Calls(calls > 0)
  /\ reg' = rf24_setPALevel(reg, level)
  /\ asked' = [asked EXCEPT !.level = level]
  /\ UNCHANGED drv

SetRate(rate) ==
  /\ Calls(calls > 0)
  /\ reg' = rf24_setDataRate(reg, rate)
  /\ drv' = [drv EXCEPT !.wide_band = (rate = "2MBPS")]
  /\ asked' = [asked EXCEPT !.rate = rate]

(* RF24_ERROR is a rate too: the register is not written.                  *)
RateError ==
  Calls(calls > 0) /\ drv' = [drv EXCEPT !.wide_band = FALSE] /\ UNCHANGED <<reg, asked>>

SetCRC(crc) ==
  /\ Calls(calls > 0)
  /\ reg' = rf24_setCRCLength(reg, crc)
  /\ asked' = [asked EXCEPT !.crc = crc]
  /\ UNCHANGED drv

AutoAck(pipe, enable) ==
  /\ Calls(calls > 0)
  /\ reg' = rf24_setAutoAckOnPipe(reg, pipe, enable)
  /\ UNCHANGED <<drv, asked>>

rf24_setAutoAckOnAll(enable) ==
  /\ Calls(calls > 0)
  /\ reg' = [reg EXCEPT !.en_aa = IF enable THEN Pipes ELSE {}]
  /\ UNCHANGED <<drv, asked>>

SizeUncapped(size) ==
  Calls(calls > 0) /\ drv' = [drv EXCEPT !.payload_len = size] /\ UNCHANGED <<reg, asked>>

rf24_setPayloadSize(size) ==
  /\ Calls(calls > 0)
  /\ drv' = [drv EXCEPT !.payload_len = IF size < MAX_PAYLOAD_LEN THEN size ELSE MAX_PAYLOAD_LEN]
  /\ UNCHANGED <<reg, asked>>

rf24_setChannel(channel) ==
  /\ Calls(calls > 0)
  /\ reg' = [reg EXCEPT !.rf_ch = IF channel < MAX_CHANNEL THEN channel ELSE MAX_CHANNEL]
  /\ UNCHANGED <<drv, asked>>

rf24_setAddressWidth(w) ==
  /\ Calls(calls > 0)
  /\ w \in 3 .. 5
  /\ reg' = [reg EXCEPT !.setup_aw = w - 2]
  /\ drv' = [drv EXCEPT !.addr_width = w]
  /\ UNCHANGED asked

DynamicPayloads ==
  /\ Calls(calls > 0)
  /\ reg' = rf24_enableDynamicPayloads(reg)
  /\ drv' = [drv EXCEPT !.dyn_payloads_set = TRUE, !.payload_len = MAX_PAYLOAD_LEN]
  /\ UNCHANGED asked

AckPayload ==
  /\ Calls(calls > 0)
  /\ reg' = rf24_enableAckPayload(reg)
  /\ UNCHANGED <<drv, asked>>

(* What is asked of an address is asked at the width of the time.          *)
AtWidth(addr) == [addr |-> addr, width |-> drv.addr_width]

OpenPipe(pipe, addr) ==
  /\ Calls(calls > 0)
  /\ reg' = rf24_setRXAddressOnPipe(reg, pipe, addr, drv)
  /\ drv' = IF pipe = 0
            THEN [drv EXCEPT !.pipe0_address = Overwrite(@, addr, drv.addr_width)] ELSE drv
  /\ asked' = [asked EXCEPT !.open[pipe] = AtWidth(addr)]

rf24_startListening ==
  /\ Calls(calls > 0)
  /\ reg' = Listen(reg, drv)
  /\ drv' = [drv EXCEPT !.listening = TRUE]
  /\ UNCHANGED asked

rf24_stopListening ==
  Calls(calls > 0) /\ drv' = [drv EXCEPT !.listening = FALSE] /\ UNCHANGED <<reg, asked>>

rf24_powerUp ==
  Calls(calls > 0) /\ reg' = [reg EXCEPT !.config = @ \cup {"PWR_UP"}] /\ UNCHANGED <<drv, asked>>

rf24_powerDown ==
  Calls(calls > 0) /\ reg' = [reg EXCEPT !.config = @ \ {"PWR_UP"}] /\ UNCHANGED <<drv, asked>>

rf24_autoACKPacket ==
  /\ Calls(calls > 0)
  /\ reg' = [reg EXCEPT !.rx_addr[0] = Overwrite(@, drv.transmit_address, drv.addr_width),
                        !.width[0] = drv.payload_len]
  /\ UNCHANGED <<drv, asked>>

(* The register and the driver's copy of it.                               *)
Target(r, addr, d) == [r EXCEPT !.tx_addr = Overwrite(@, addr, d.addr_width)]
Copy(addr, d) == [d EXCEPT !.transmit_address = Overwrite(@, addr, d.addr_width)]

setTXAddress(addr) ==
  /\ Calls(calls > 0)
  /\ reg' = Target(reg, addr, drv) /\ drv' = Copy(addr, drv)
  /\ asked' = [asked EXCEPT !.to = AtWidth(addr)]

(* A driver that compares too few bytes, and the code: the register is     *)
(* written only when the driver's copy differs.                            *)
SendIfFirstDiffers(addr) ==
  LET known == Same(addr, drv.transmit_address, 3)
  IN  /\ Calls(calls > 0)
      /\ reg' = transmit_payload(IF known THEN reg ELSE Target(reg, addr, drv), drv)
      /\ drv' = IF known THEN drv ELSE Copy(addr, drv)
      /\ asked' = [asked EXCEPT !.to = AtWidth(addr)]

rf24_send(addr) ==
  LET known == Same(addr, drv.transmit_address, drv.addr_width)
  IN  /\ Calls(calls > 0)
      /\ reg' = transmit_payload(IF known THEN reg ELSE Target(reg, addr, drv), drv)
      /\ drv' = IF known THEN drv ELSE Copy(addr, drv)
      /\ asked' = [asked EXCEPT !.to = AtWidth(addr)]

rf24_write == Calls(calls > 0) /\ reg' = transmit_payload(reg, drv) /\ UNCHANGED <<drv, asked>>

(* The chip has just been powered on or keeps what an earlier run of the   *)
(* program wrote; the driver's variables start at zero.  Pipes 0 and 1 are *)
(* open from power-on, and nothing ever closes a pipe.                     *)
NotAsked == [addr |-> NoAddress, width |-> 0]

Init ==
  /\ reg \in [rf_setup : {{}, RF_PWR \cup {"DR_HIGH"}}, config : {{"EN_CRC"}, RST_CFG},
              en_aa : {{}, Pipes}, en_rxaddr : {open \in SUBSET Pipes : {0, 1} \cap Pipes \subseteq open},
              width : {[p \in Pipes |-> n] : n \in {0, 5}}, rf_ch : {2, 60}, setup_aw : {1, 3},
              dynpd : {{}, Pipes}, feature : SUBSET FeatureBits, unlocked : BOOLEAN,
              plus : BOOLEAN,
              rx_addr : {[p \in Pipes |-> a] : a \in Addresses}, tx_addr : Addresses]
  /\ reg.feature # {} => reg.unlocked \/ reg.plus
  /\ drv = [addr_width |-> 0, payload_len |-> 0, dyn_payloads_set |-> FALSE,
            p_variant |-> FALSE, wide_band |-> FALSE, pipe0_address |-> NoAddress,
            transmit_address |-> NoAddress, listening |-> FALSE]
  /\ asked = [level |-> "MAX", rate |-> "1MBPS", crc |-> "16",
              open |-> [p \in Pipes |-> NotAsked], to |-> NotAsked]
  /\ calls = 0

Next ==
  \/ rf24_init_radio \/ rf24_resetcfg \/ DynamicPayloads \/ AckPayload
  \/ rf24_startListening \/ rf24_stopListening \/ rf24_autoACKPacket \/ rf24_write
  \/ rf24_powerUp \/ rf24_powerDown \/ RateError
  \/ \E x \in Levels : SetLevel(x)
  \/ \E x \in Rates : SetRate(x)
  \/ \E x \in CRCs : SetCRC(x)
  \/ \E p \in Pipes, e \in BOOLEAN : AutoAck(p, e)
  \/ \E e \in BOOLEAN : rf24_setAutoAckOnAll(e)
  \/ \E s \in Sizes : rf24_setPayloadSize(s)
  \/ \E c \in Channels : rf24_setChannel(c)
  \/ \E w \in 0 .. 6 : rf24_setAddressWidth(w)
  \/ \E p \in Pipes, a \in Addresses : OpenPipe(p, a)
  \/ \E a \in Addresses : setTXAddress(a) \/ rf24_send(a)

Spec == Init /\ [][Next]_vars
-----------------------------------------------------------------------------
Address == [1 .. 5 -> 0 .. 255]

RegType ==
  [rf_setup : SUBSET (RF_PWR \cup RF_DR), config : SUBSET RST_CFG, en_aa : SUBSET Pipes,
   en_rxaddr : SUBSET Pipes, width : [Pipes -> 0 .. MAX_PAYLOAD_LEN],
   rf_ch : 0 .. MAX_CHANNEL, setup_aw : 1 .. 3,
   dynpd : SUBSET Pipes, feature : SUBSET FeatureBits, unlocked : BOOLEAN, plus : BOOLEAN,
   rx_addr : [Pipes -> Address], tx_addr : Address]

Widths == {0} \cup 3 .. 5

DrvType ==
  [addr_width : Widths, payload_len : 0 .. MAX_PAYLOAD_LEN,
   dyn_payloads_set : BOOLEAN, p_variant : BOOLEAN, wide_band : BOOLEAN,
   pipe0_address : Address, listening : BOOLEAN, transmit_address : Address]

AskedAddress == [addr : Address, width : Widths]

AskedType ==
  [level : Levels, rate : Rates, crc : CRCs, open : [Pipes -> AskedAddress], to : AskedAddress]

TypeOK == reg \in RegType /\ drv \in DrvType /\ asked \in AskedType /\ calls \in 0 .. MaxCalls

(* The getters return what was asked for last, whatever was called in      *)
(* between: the setters share RF_SETUP, and CONFIG with the calls that     *)
(* send, listen and power the chip, and leave each other's bits alone      *)
(* (rf24.c:280, 358-431, 534, 552-559).  Only an nRF24L01+ can do          *)
(* 250 kbit/s.                                                             *)
SettingsKept ==
  calls > 0 =>
    /\ rf24_getPALevel(reg) = asked.level
    /\ rf24_getDataRate(reg) =
         IF asked.rate = "250KBPS" /\ ~ reg.plus THEN "1MBPS" ELSE asked.rate
    /\ rf24_getCRCLength(reg) = asked.crc

(* The driver knows which chip it has from the first call on, although it  *)
(* finds out by a rate that it takes back at once, and calls such as       *)
(* rf24_resetcfg find out again (rf24.c:477-482).                          *)
VariantKnown == calls > 0 => (drv.p_variant <=> reg.plus)

(* Driver and chip agree on the address width, and the chip holds every    *)
(* byte of the address a packet was last sent to, or that was set, that    *)
(* the width of the time had: although rf24_send writes the register only  *)
(* when its own copy differs in one of these bytes, applications write it  *)
(* themselves, and the width changes in between (rf24.c:312-316, 323-326,  *)
(* 600).  Bytes that a larger width takes in later are older ones.         *)
SentWhereAsked ==
  /\ calls > 0 => drv.addr_width = reg.setup_aw + 2
  /\ Same(reg.tx_addr, asked.to.addr, asked.to.width)

(* Once dynamic payloads are on, the chip's feature is on, in whichever    *)
(* order features are asked for, on both kinds of chip, and whether or not *)
(* an earlier run has unlocked them (rf24.c:661-691).                      *)
FeatureIsOn == drv.dyn_payloads_set => "EN_DPL" \in reg.feature

(* A pipe stays open with the bytes it was given last, as many as the      *)
(* width of the time had, whatever pipe is opened after it, whatever       *)
(* becomes of the width and whatever rf24_autoACKPacket does to the        *)
(* register of pipe 0, whose address is kept in pipe0_address for the next *)
(* rf24_startListening (rf24.c:328-352, 536-538).                          *)
OpenPipesKept ==
  \A p \in Pipes :
    LET given == asked.open[p]
    IN  given.width > 0 =>
          /\ p \in reg.en_rxaddr
          /\ p = 0 => Same(drv.pipe0_address, given.addr, given.width)
          /\ p = 1 => Same(reg.rx_addr[1], given.addr, given.width)
          /\ p > 1 => reg.rx_addr[p][1] = given.addr[given.width]
=============================================================================
