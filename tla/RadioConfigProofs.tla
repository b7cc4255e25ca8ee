------------------------- MODULE RadioConfigProofs -------------------------
(***************************************************************************)
(* Theorems about the configuration functions of rf24.c for any pipes,     *)
(* addresses, payload sizes and number of calls.  Lemmas say what each     *)
(* function does to the registers; the invariant says which bits, pipes    *)
(* and bytes of addresses the chip and the driver's variables then hold.   *)
(***************************************************************************)
EXTENDS RadioConfig, TLAPS

LEMMA BitsType ==
  /\ \A x \in Levels : LevelBits[x] \in SUBSET RF_PWR
  /\ \A x \in Rates : RateBits[x] \in SUBSET RF_DR
  /\ \A x \in CRCs : CRCBits[x] \in SUBSET CRC_BITS
  BY DEF Levels, Rates, CRCs, LevelBits, RateBits, CRCBits, RF_PWR, RF_DR, CRC_BITS

(* The getters decode what the setters encode.                             *)
LEMMA BitsDiffer ==
  /\ \A x, y \in Levels : LevelBits[x] = LevelBits[y] => x = y
  /\ \A x, y \in Rates : RateBits[x] = RateBits[y] => x = y
  /\ \A x, y \in CRCs : CRCBits[x] = CRCBits[y] => x = y
  /\ \A x \in Rates : RateBits[x] # RF_DR
  /\ \A x \in CRCs : CRCBits[x] # {"CRCO"}
  BY DEF Levels, Rates, CRCs, LevelBits, RateBits, CRCBits, RF_PWR, RF_DR, CRC_BITS

LEMMA GetLevel ==
  ASSUME NEW r, NEW x \in Levels, r.rf_setup \cap RF_PWR = LevelBits[x]
  PROVE  rf24_getPALevel(r) = x
  BY BitsDiffer DEF rf24_getPALevel

LEMMA GetRate ==
  ASSUME NEW r, NEW x \in Rates, r.rf_setup \cap RF_DR = RateBits[x]
  PROVE  rf24_getDataRate(r) = x
  BY BitsDiffer DEF rf24_getDataRate

LEMMA GetCRC ==
  ASSUME NEW r, NEW x \in CRCs, r.config \cap CRC_BITS = CRCBits[x]
  PROVE  rf24_getCRCLength(r) = x
  BY BitsDiffer DEF rf24_getCRCLength

(* The rate bits the chip holds after x was written to it.                 *)
Accepted(r, x) == IF x = "250KBPS" /\ ~ r.plus THEN "1MBPS" ELSE x

LEMMA AcceptedBits ==
  ASSUME NEW r \in RegType, NEW x \in Rates
  PROVE  /\ Accepted(r, x) \in Rates
         /\ RateBits[Accepted(r, x)] = IF r.plus THEN RateBits[x] ELSE RateBits[x] \ {"DR_LOW"}
  BY DEF Accepted, Rates, RateBits, RegType

LEMMA LevelEffect ==
  ASSUME NEW r \in RegType, NEW x \in Levels
  PROVE  LET s == rf24_setPALevel(r, x)
         IN  /\ s \in RegType
             /\ s = [r EXCEPT !.rf_setup = s.rf_setup]
             /\ s.rf_setup \cap RF_PWR = LevelBits[x]
             /\ s.rf_setup \cap RF_DR =
                  IF r.plus THEN r.rf_setup \cap RF_DR ELSE (r.rf_setup \cap RF_DR) \ {"DR_LOW"}
  BY BitsType DEF rf24_setPALevel, WriteRfSetup, RegType, RF_PWR, RF_DR

LEMMA RateEffect ==
  ASSUME NEW r \in RegType, NEW x \in Rates
  PROVE  LET s == rf24_setDataRate(r, x)
         IN  /\ s \in RegType
             /\ s = [r EXCEPT !.rf_setup = s.rf_setup]
             /\ s.rf_setup \cap RF_PWR = r.rf_setup \cap RF_PWR
             /\ s.rf_setup \cap RF_DR = RateBits[Accepted(r, x)]
<1> DEFINE bits == (r.rf_setup \ RF_DR) \cup RateBits[x]
           kept == IF r.plus THEN bits ELSE bits \ {"DR_LOW"}
           s    == rf24_setDataRate(r, x)
<1>1. s = [r EXCEPT !.rf_setup = kept]
  BY DEF rf24_setDataRate, WriteRfSetup
<1>2. s.rf_setup = kept
  BY <1>1 DEF RegType
<1>3. RateBits[x] \in SUBSET RF_DR /\ r.rf_setup \in SUBSET (RF_PWR \cup RF_DR)
  BY BitsType DEF RegType
<1>4. /\ kept \in SUBSET (RF_PWR \cup RF_DR)
      /\ kept \cap RF_PWR = r.rf_setup \cap RF_PWR
      /\ kept \cap RF_DR = IF r.plus THEN RateBits[x] ELSE RateBits[x] \ {"DR_LOW"}
  BY <1>3 DEF RF_PWR, RF_DR
<1> HIDE DEF kept
<1>5. s \in RegType
  BY <1>1, <1>4 DEF RegType
<1> HIDE DEF s
<1>6. s = [r EXCEPT !.rf_setup = s.rf_setup]
  BY <1>1, <1>2
<1> QED
  BY <1>2, <1>4, <1>5, <1>6, AcceptedBits DEF s

LEMMA CRCEffect ==
  ASSUME NEW r \in RegType, NEW x \in CRCs
  PROVE  LET s == rf24_setCRCLength(r, x)
         IN  /\ s \in RegType
             /\ s = [r EXCEPT !.config = s.config]
             /\ s.config \cap CRC_BITS = CRCBits[x]
<1> DEFINE bits == (r.config \ CRC_BITS) \cup CRCBits[x]
           s    == rf24_setCRCLength(r, x)
<1>1. s = [r EXCEPT !.config = bits] /\ s.config = bits
  BY DEF rf24_setCRCLength, RegType
<1>2. bits \in SUBSET RST_CFG /\ bits \cap CRC_BITS = CRCBits[x]
  BY BitsType DEF RegType, RST_CFG
<1> HIDE DEF bits
<1> QED
  BY <1>1, <1>2 DEF RegType

(* Trying the rate of the + tells the variants apart.                      *)
LEMMA VariantEffect ==
  ASSUME NEW r \in RegType
  PROVE  IsVariant(r) <=> r.plus
<1>1. "250KBPS" \in Rates
  BY DEF Rates
<1> DEFINE s == rf24_setDataRate(r, "250KBPS")
           x == Accepted(r, "250KBPS")
<1>2. s.rf_setup \cap RF_DR = RateBits[x]
  BY <1>1, RateEffect
<1>3. x \in Rates
  BY <1>1, AcceptedBits
<1> HIDE DEF s, x
<1>4. rf24_getDataRate(s) = x
  BY <1>2, <1>3, GetRate
<1> QED
  BY <1>4 DEF IsVariant, Accepted, RegType, s, x

LEMMA DefaultsEffect ==
  ASSUME NEW r \in RegType
  PROVE  LET s == DefaultRegisters(r)
         IN  /\ s \in RegType
             /\ s = [r EXCEPT !.rf_setup = s.rf_setup, !.config = s.config,
                              !.dynpd = {}, !.rf_ch = 76, !.setup_aw = 3]
             /\ s.config \cap CRC_BITS = CRCBits["16"]
             /\ s.rf_setup \cap RF_PWR = LevelBits["MAX"]
             /\ s.rf_setup \cap RF_DR = RateBits["1MBPS"]
<1> DEFINE loud == rf24_setPALevel(r, "MAX")
           slow == rf24_setDataRate(loud, "250KBPS")
           fast == rf24_setDataRate(slow, "1MBPS")
           safe == rf24_setCRCLength(fast, "16")
<1>0. "MAX" \in Levels /\ "250KBPS" \in Rates /\ "1MBPS" \in Rates /\ "16" \in CRCs
  BY DEF Levels, Rates, CRCs
<1>1. /\ loud \in RegType
      /\ loud = [r EXCEPT !.rf_setup = loud.rf_setup]
      /\ loud.rf_setup \cap RF_PWR = LevelBits["MAX"]
  BY <1>0, LevelEffect
<1>2. /\ slow \in RegType
      /\ slow = [loud EXCEPT !.rf_setup = slow.rf_setup]
      /\ slow.rf_setup \cap RF_PWR = LevelBits["MAX"]
  BY <1>0, <1>1, RateEffect
<1>3. /\ fast \in RegType
      /\ fast = [slow EXCEPT !.rf_setup = fast.rf_setup]
      /\ fast.rf_setup \cap RF_PWR = LevelBits["MAX"]
      /\ fast.rf_setup \cap RF_DR = RateBits["1MBPS"]
  BY <1>0, <1>2, RateEffect DEF Accepted
<1>4. /\ safe \in RegType
      /\ safe = [fast EXCEPT !.config = safe.config]
      /\ safe.config \cap CRC_BITS = CRCBits["16"]
  BY <1>0, <1>3, CRCEffect
<1> DEFINE s == DefaultRegisters(r)
<1>5. s = [safe EXCEPT !.dynpd = {}, !.rf_ch = 76, !.setup_aw = 3]
  BY DEF DefaultRegisters
<1> HIDE DEF loud, slow, fast, safe, s
<1>6. safe = [r EXCEPT !.rf_setup = fast.rf_setup, !.config = safe.config]
  <2>1. slow = [r EXCEPT !.rf_setup = slow.rf_setup]
    BY <1>1, <1>2 DEF RegType
  <2>2. fast = [r EXCEPT !.rf_setup = fast.rf_setup]
    BY <2>1, <1>3 DEF RegType
  <2> QED
    BY <2>2, <1>4 DEF RegType
<1>7. s = [r EXCEPT !.rf_setup = fast.rf_setup, !.config = safe.config,
                    !.dynpd = {}, !.rf_ch = 76, !.setup_aw = 3]
  BY <1>5, <1>6 DEF RegType
<1>8. s \in RegType
  <2> DEFINE t == [safe EXCEPT !.dynpd = {}, !.rf_ch = 76]
  <2>1. t \in RegType
    <3>1. 76 \in 0 .. MAX_CHANNEL
      BY DEF MAX_CHANNEL
    <3> QED
      BY <1>4, <3>1 DEF RegType
  <2>2. s = [t EXCEPT !.setup_aw = 3]
    BY <1>5
  <2> HIDE DEF t
  <2>3. 3 \in 1 .. 3
    OBVIOUS
  <2> QED
    BY <2>1, <2>2, <2>3 DEF RegType
<1>9. s.rf_setup = fast.rf_setup /\ s.config = safe.config
  BY <1>7 DEF RegType
<1>10. s = [r EXCEPT !.rf_setup = s.rf_setup, !.config = s.config,
                     !.dynpd = {}, !.rf_ch = 76, !.setup_aw = 3]
  BY <1>7, <1>9
<1> QED
  BY <1>3, <1>4, <1>8, <1>9, <1>10 DEF s

LEMMA TryEffect ==
  ASSUME NEW r \in RegType, r.feature # {} => r.unlocked \/ r.plus,
         NEW bits \in SUBSET FeatureBits, bits # {}
  PROVE  LET s == TryFeatures(r, bits)
         IN  /\ s \in RegType
             /\ s = [r EXCEPT !.feature = s.feature, !.unlocked = s.unlocked]
             /\ s.unlocked \/ s.plus
             /\ bits \subseteq s.feature /\ r.feature \subseteq s.feature
<1> DEFINE s == TryFeatures(r, bits)
<1>1. CASE r.unlocked \/ r.plus
  <2>1. s = [r EXCEPT !.feature = r.feature \cup bits]
    BY <1>1 DEF TryFeatures, WriteFeature, RegType
  <2> HIDE DEF s
  <2>2. s \in RegType /\ s.feature = r.feature \cup bits /\ s.unlocked = r.unlocked /\ s.plus = r.plus
    BY <2>1 DEF RegType
  <2>3. s = [r EXCEPT !.feature = s.feature, !.unlocked = s.unlocked]
    BY <2>1, <2>2 DEF RegType
  <2> QED
    BY <1>1, <2>2, <2>3 DEF s
<1>2. CASE ~ (r.unlocked \/ r.plus)
  <2>1. s = [r EXCEPT !.unlocked = TRUE, !.feature = bits]
    BY <1>2 DEF TryFeatures, WriteFeature, toggle_features, RegType
  <2> HIDE DEF s
  <2>2. s \in RegType /\ s.feature = bits /\ s.unlocked = TRUE
    BY <2>1 DEF RegType
  <2>3. s = [r EXCEPT !.feature = s.feature, !.unlocked = s.unlocked]
    BY <2>1, <2>2 DEF RegType
  <2> QED
    BY <1>2, <2>2, <2>3 DEF s
<1> QED
  BY <1>1, <1>2

LEMMA DynamicEffect ==
  ASSUME NEW r \in RegType, r.feature # {} => r.unlocked \/ r.plus
  PROVE  LET s == rf24_enableDynamicPayloads(r)
         IN  /\ s \in RegType
             /\ s = [r EXCEPT !.feature = s.feature, !.unlocked = s.unlocked, !.dynpd = Pipes]
             /\ s.unlocked \/ s.plus
             /\ "EN_DPL" \in s.feature
<1> DEFINE on == IF "EN_DPL" \in r.feature THEN r ELSE TryFeatures(r, {"EN_DPL"})
           s  == rf24_enableDynamicPayloads(r)
<1>1. {"EN_DPL"} \in SUBSET FeatureBits
  BY DEF FeatureBits
<1>2. /\ on \in RegType
      /\ on = [r EXCEPT !.feature = on.feature, !.unlocked = on.unlocked]
      /\ on.unlocked \/ on.plus
      /\ "EN_DPL" \in on.feature
  <2>1. CASE "EN_DPL" \in r.feature
    BY <2>1 DEF RegType
  <2>2. CASE "EN_DPL" \notin r.feature
    BY <1>1, <2>2, TryEffect
  <2> QED
    BY <2>1, <2>2
<1>3. s = [on EXCEPT !.dynpd = Pipes]
  BY DEF rf24_enableDynamicPayloads
<1> HIDE DEF on, s
<1>4. s \in RegType /\ s.feature = on.feature /\ s.unlocked = on.unlocked /\ s.plus = on.plus
  BY <1>2, <1>3 DEF RegType
<1>5. s = [r EXCEPT !.feature = s.feature, !.unlocked = s.unlocked, !.dynpd = Pipes]
  BY <1>2, <1>3, <1>4 DEF RegType
<1> QED
  BY <1>2, <1>4, <1>5 DEF s

LEMMA AckPayloadEffect ==
  ASSUME NEW r \in RegType, r.feature # {} => r.unlocked \/ r.plus
  PROVE  LET s == rf24_enableAckPayload(r)
         IN  /\ s \in RegType
             /\ s = [r EXCEPT !.feature = s.feature, !.unlocked = s.unlocked, !.dynpd = s.dynpd]
             /\ s.unlocked \/ s.plus
             /\ r.feature \subseteq s.feature
<1> DEFINE on == IF r.feature = {} THEN TryFeatures(r, {"EN_ACK_PAY", "EN_DPL"}) ELSE r
           s  == rf24_enableAckPayload(r)
<1>1. {"EN_ACK_PAY", "EN_DPL"} \in SUBSET FeatureBits /\ 0 \in Pipes
  BY ConfigAssumption DEF FeatureBits
<1>2. /\ on \in RegType
      /\ on = [r EXCEPT !.feature = on.feature, !.unlocked = on.unlocked]
      /\ on.unlocked \/ on.plus
      /\ r.feature \subseteq on.feature
  <2>1. CASE r.feature = {}
    BY <1>1, <2>1, TryEffect
  <2>2. CASE r.feature # {}
    BY <2>2 DEF RegType
  <2> QED
    BY <2>1, <2>2
<1>3. s = [on EXCEPT !.dynpd = @ \cup {0}]
  BY DEF rf24_enableAckPayload
<1> HIDE DEF on, s
<1>4. s \in RegType /\ s.feature = on.feature /\ s.unlocked = on.unlocked /\ s.plus = on.plus
  BY <1>1, <1>2, <1>3 DEF RegType
<1>5. s = [r EXCEPT !.feature = s.feature, !.unlocked = s.unlocked, !.dynpd = s.dynpd]
  BY <1>2, <1>3, <1>4 DEF RegType
<1> QED
  BY <1>2, <1>4, <1>5 DEF s

(* Bytes written over an address leave an address.                         *)
LEMMA OverwriteType ==
  ASSUME NEW old \in Address, NEW new \in Address, NEW n \in 0 .. 5
  PROVE  /\ Overwrite(old, new, n) \in Address
         /\ Same(Overwrite(old, new, n), new, n)
BY DEF Overwrite, Address, Same

LEMMA AddressType == NoAddress \in Address /\ Addresses \subseteq Address
BY ConfigAssumption DEF NoAddress, Address

(* To open a pipe writes its width, its bit and its address, of the width  *)
(* of the time.                                                            *)
Opened(s, r, p, a, w) ==
  /\ s \in RegType
  /\ s = [r EXCEPT !.width = s.width, !.en_rxaddr = @ \cup {p}, !.rx_addr = s.rx_addr]
  /\ p = 1 => Same(s.rx_addr[1], a, w)
  /\ p > 1 => s.rx_addr[p][1] = a[w]
  /\ \A q \in Pipes \ {p} : s.rx_addr[q] = r.rx_addr[q]

LEMMA OpenEffect ==
  ASSUME NEW r \in RegType, NEW p \in Pipes, NEW a \in Address,
         NEW d \in DrvType, d.addr_width \in 3 .. 5
  PROVE  Opened(rf24_setRXAddressOnPipe(r, p, a, d), r, p, a, d.addr_width)
<1> DEFINE written == WritePipe(r, p, a, d.addr_width)
           s       == rf24_setRXAddressOnPipe(r, p, a, d)
<1>0. p \in 0 .. 5 /\ d.addr_width \in 0 .. 5 /\ a[d.addr_width] \in 0 .. 255
  BY ConfigAssumption DEF Address
<1>1. /\ written \in RegType
      /\ written = [r EXCEPT !.rx_addr = written.rx_addr]
      /\ p = 1 => Same(written.rx_addr[1], a, d.addr_width)
      /\ p > 1 => written.rx_addr[p][1] = a[d.addr_width]
      /\ \A q \in Pipes \ {p} : written.rx_addr[q] = r.rx_addr[q]
  <2>1. CASE p = 0
    BY <2>1 DEF WritePipe, RegType
  <2>2. CASE p = 1
    <3> DEFINE byte == Overwrite(r.rx_addr[1], a, d.addr_width)
    <3>1. byte \in Address /\ Same(byte, a, d.addr_width)
      BY <1>0, <2>2, OverwriteType DEF RegType
    <3>2. written = [r EXCEPT !.rx_addr = [@ EXCEPT ![1] = byte]]
      BY <2>2 DEF WritePipe
    <3> HIDE DEF byte, written
    <3>3. written.rx_addr = [r.rx_addr EXCEPT ![1] = byte]
      BY <3>2 DEF RegType
    <3>4. written.rx_addr \in [Pipes -> Address]
      BY <3>1, <3>3 DEF RegType
    <3> QED
      BY <2>2, <3>1, <3>2, <3>3, <3>4 DEF RegType
  <2>3. CASE p > 1
    <3> DEFINE old   == r.rx_addr[p]
               byte  == a[d.addr_width]
               short == [old EXCEPT ![1] = byte]
    <3>0. old \in [1 .. 5 -> 0 .. 255] /\ byte \in 0 .. 255 /\ 1 \in 1 .. 5
      BY <1>0 DEF RegType, Address
    <3>1. short \in Address /\ short[1] = byte
      <4> HIDE DEF old, byte
      <4> QED
        BY <3>0 DEF Address
    <3>2. written = [r EXCEPT !.rx_addr = [@ EXCEPT ![p] = short]]
      BY <1>0, <2>3 DEF WritePipe
    <3> HIDE DEF short, written
    <3>3. written.rx_addr = [r.rx_addr EXCEPT ![p] = short]
      BY <3>2 DEF RegType
    <3>4. written.rx_addr \in [Pipes -> Address]
      BY <3>1, <3>3 DEF RegType
    <3> QED
      BY <2>3, <3>1, <3>2, <3>3, <3>4 DEF RegType
  <2> QED
    BY <1>0, <2>1, <2>2, <2>3
<1>2. s = [written EXCEPT !.width[p] = d.payload_len, !.en_rxaddr = @ \cup {p}]
  BY DEF rf24_setRXAddressOnPipe
<1> HIDE DEF written, s
<1>3. s.rx_addr = written.rx_addr /\ s \in RegType
  BY <1>1, <1>2 DEF RegType, DrvType
<1>4. s = [r EXCEPT !.width = s.width, !.en_rxaddr = @ \cup {p}, !.rx_addr = s.rx_addr]
  BY <1>1, <1>2, <1>3 DEF RegType
<1> QED
  BY <1>1, <1>3, <1>4 DEF s, Opened

(* To listen writes the mode bits and pipe 0's address only.               *)
LEMMA ListenEffect ==
  ASSUME NEW r \in RegType, NEW d \in DrvType
  PROVE  LET s == Listen(r, d)
         IN  /\ s \in RegType
             /\ s = [r EXCEPT !.config = s.config, !.rx_addr = s.rx_addr]
             /\ s.config \cap CRC_BITS = r.config \cap CRC_BITS
             /\ \A p \in Pipes \ {0} : s.rx_addr[p] = r.rx_addr[p]
<1> DEFINE zero == Overwrite(r.rx_addr[0], d.pipe0_address, d.addr_width)
           mode == r.config \cup {"PWR_UP", "PRIM_RX"}
           s    == Listen(r, d)
<1>1. zero \in Address
  BY ConfigAssumption, OverwriteType DEF RegType, DrvType, Widths
<1>2. mode \in SUBSET RST_CFG /\ mode \cap CRC_BITS = r.config \cap CRC_BITS
  BY DEF RegType, RST_CFG, CRC_BITS
<1>3. s = [r EXCEPT !.config = mode, !.rx_addr = [@ EXCEPT ![0] = zero]]
  BY DEF Listen
<1> HIDE DEF zero, mode, s
<1>4. s.config = mode /\ s.rx_addr = [r.rx_addr EXCEPT ![0] = zero]
  BY <1>3 DEF RegType
<1>5. s.rx_addr \in [Pipes -> Address]
  BY <1>1, <1>4 DEF RegType
<1>6. s \in RegType /\ s = [r EXCEPT !.config = s.config, !.rx_addr = s.rx_addr]
  BY <1>2, <1>3, <1>4, <1>5 DEF RegType
<1> QED
  BY <1>2, <1>4, <1>6 DEF s, RegType

(* So does a transmission, that may listen again.                          *)
LEMMA TransmitEffect ==
  ASSUME NEW r \in RegType, NEW d \in DrvType
  PROVE  LET s == transmit_payload(r, d)
         IN  /\ s \in RegType
             /\ s = [r EXCEPT !.config = s.config, !.rx_addr = s.rx_addr]
             /\ s.config \cap CRC_BITS = r.config \cap CRC_BITS
             /\ \A p \in Pipes \ {0} : s.rx_addr[p] = r.rx_addr[p]
<1> DEFINE sent == [r EXCEPT !.config = @ \ {"PRIM_RX"}]
           s    == transmit_payload(r, d)
<1>1. sent.config = r.config \ {"PRIM_RX"}
  BY DEF RegType
<1>2. /\ sent \in RegType
      /\ sent = [r EXCEPT !.config = sent.config]
      /\ sent.config \cap CRC_BITS = r.config \cap CRC_BITS
      /\ sent.rx_addr = r.rx_addr
  BY <1>1 DEF RegType, CRC_BITS
<1>3. s = IF d.listening THEN Listen(sent, d) ELSE sent
  BY DEF transmit_payload
<1> HIDE DEF sent, s
<1>4. CASE d.listening
  <2> DEFINE l == Listen(sent, d)
  <2>0. /\ l \in RegType
        /\ l = [sent EXCEPT !.config = l.config, !.rx_addr = l.rx_addr]
        /\ l.config \cap CRC_BITS = sent.config \cap CRC_BITS
        /\ \A p \in Pipes \ {0} : l.rx_addr[p] = sent.rx_addr[p]
    BY <1>2, ListenEffect
  <2>a. s = l
    BY <1>3, <1>4
  <2> HIDE DEF l
  <2>1. /\ s \in RegType
        /\ s = [sent EXCEPT !.config = s.config, !.rx_addr = s.rx_addr]
        /\ s.config \cap CRC_BITS = sent.config \cap CRC_BITS
        /\ \A p \in Pipes \ {0} : s.rx_addr[p] = sent.rx_addr[p]
    BY <2>0, <2>a
  <2>2. s = [r EXCEPT !.config = s.config, !.rx_addr = s.rx_addr]
    BY <1>2, <2>1 DEF RegType
  <2> QED
    BY <1>2, <2>1, <2>2 DEF s
<1>5. CASE ~ d.listening
  <2>1. s = [r EXCEPT !.config = s.config, !.rx_addr = s.rx_addr]
    BY <1>2, <1>3, <1>5 DEF RegType
  <2> QED
    BY <1>2, <1>3, <1>5, <2>1 DEF s
<1> QED
  BY <1>4, <1>5

-----------------------------------------------------------------------------
(* The bits of the shared registers are those of the last settings.        *)
FieldsInv ==
  calls > 0 =>
    /\ reg.rf_setup \cap RF_PWR = LevelBits[asked.level]
    /\ reg.rf_setup \cap RF_DR = RateBits[Accepted(reg, asked.rate)]
    /\ reg.config \cap CRC_BITS = CRCBits[asked.crc]

VariantInv == (drv.p_variant => reg.plus) /\ VariantKnown

(* From the initialisation on there is a width, and the chip has it too.   *)
WidthInv == calls > 0 => drv.addr_width \in 3 .. 5 /\ drv.addr_width = reg.setup_aw + 2

(* Each byte of the driver's copy of the transmit address has never been   *)
(* written or is the chip's: so an address that agrees with the copy,      *)
(* which has no zero byte, agrees with the register.                       *)
CopyInv ==
  /\ \A i \in 1 .. 5 : drv.transmit_address[i] \in {0, reg.tx_addr[i]}
  /\ Same(reg.tx_addr, asked.to.addr, asked.to.width)

(* Features are on only where FEATURE can be written.                      *)
FeatureInv == (reg.feature # {} => reg.unlocked \/ reg.plus) /\ FeatureIsOn

IInv ==
  TypeOK /\ FieldsInv /\ VariantInv /\ WidthInv /\ CopyInv /\ FeatureInv /\ OpenPipesKept

LEMMA InitInv == Init => IInv
<1> SUFFICES ASSUME Init PROVE IInv
  OBVIOUS
<1>1. reg \in RegType
  BY ConfigAssumption, AddressType
     DEF Init, RegType, RF_PWR, RF_DR, RST_CFG, CRC_BITS, MAX_PAYLOAD_LEN, MAX_CHANNEL
<1>2. drv \in DrvType
  BY AddressType DEF Init, DrvType, Widths, MAX_PAYLOAD_LEN
<1>3. asked \in AskedType
  BY AddressType DEF Init, NotAsked, AskedType, AskedAddress, Widths, Levels, Rates, CRCs
<1>4. calls \in 0 .. MaxCalls /\ calls = 0
  BY ConfigAssumption DEF Init
<1>5. ~ drv.p_variant /\ ~ drv.dyn_payloads_set
  BY DEF Init
<1>6. /\ \A i \in 1 .. 5 : drv.transmit_address[i] = 0
      /\ asked.to.width = 0 /\ \A p \in Pipes : asked.open[p].width = 0
  BY DEF Init, NotAsked, NoAddress
<1>7. reg.feature # {} => reg.unlocked \/ reg.plus
  BY DEF Init
<1> QED
  BY <1>1, <1>2, <1>3, <1>4, <1>5, <1>6, <1>7
     DEF IInv, TypeOK, FieldsInv, VariantInv, VariantKnown, WidthInv, CopyInv, Same,
         FeatureInv, FeatureIsOn, OpenPipesKept

LEMMA TypeStep == IInv /\ [Next]_vars => TypeOK'
<1> SUFFICES ASSUME IInv, [Next]_vars PROVE TypeOK'
  OBVIOUS
<1>0. /\ reg \in RegType /\ drv \in DrvType /\ asked \in AskedType /\ calls \in 0 .. MaxCalls
      /\ reg.feature # {} => reg.unlocked \/ reg.plus
      /\ 0 \in Pipes /\ MaxCalls \in Nat /\ Addresses \subseteq Address
      /\ drv.addr_width \in 0 .. 5
      /\ calls > 0 => drv.addr_width \in 3 .. 5
  BY ConfigAssumption, AddressType DEF IInv, TypeOK, FeatureInv, WidthInv, DrvType, Widths
<1>1. ASSUME NEW guard, Calls(guard) PROVE calls' \in 0 .. MaxCalls
  BY <1>0, <1>1 DEF Calls
<1>2. ASSUME NEW r \in RegType, SetDefaults(r)
      PROVE  reg' \in RegType /\ drv' \in DrvType /\ asked' \in AskedType
  <2>1. reg' \in RegType
    BY <1>2, DefaultsEffect DEF SetDefaults
  <2>2. drv' \in DrvType
    <3> DEFINE known == drv.p_variant \/ IsVariant(r)
    <3>1. known \in BOOLEAN /\ 5 \in Widths
      BY DEF Widths
    <3>2. drv' = [drv EXCEPT !.p_variant = known, !.wide_band = FALSE, !.addr_width = 5,
                             !.listening = FALSE]
      BY <1>2 DEF SetDefaults, DefaultDriver
    <3> HIDE DEF known
    <3> QED
      BY <1>0, <3>1, <3>2 DEF DrvType
  <2>3. asked' \in AskedType
    BY <1>0, <1>2 DEF SetDefaults, AskedType, Levels, Rates, CRCs
  <2> QED
    BY <2>1, <2>2, <2>3
<1>3. CASE rf24_init_radio
  BY <1>0, <1>1, <1>2, <1>3 DEF rf24_init_radio, TypeOK
<1>4. CASE rf24_resetcfg
  <2>1. [reg EXCEPT !.config = RST_CFG] \in RegType
    BY <1>0 DEF RegType
  <2> QED
    BY <1>1, <1>2, <1>4, <2>1 DEF rf24_resetcfg, TypeOK
<1>5. CASE DynamicPayloads
  <2>1. reg' \in RegType
    BY <1>0, <1>5, DynamicEffect DEF DynamicPayloads
  <2>2. drv' \in DrvType
    <3>1. MAX_PAYLOAD_LEN \in 0 .. MAX_PAYLOAD_LEN
      BY DEF MAX_PAYLOAD_LEN
    <3> QED
      BY <1>0, <1>5, <3>1 DEF DynamicPayloads, DrvType
  <2> QED
    BY <1>0, <1>1, <1>5, <2>1, <2>2 DEF DynamicPayloads, TypeOK
<1>6. CASE AckPayload
  BY <1>0, <1>1, <1>6, AckPayloadEffect DEF AckPayload, TypeOK
<1>7. CASE rf24_startListening
  <2>1. reg' \in RegType
    BY <1>0, <1>7, ListenEffect DEF rf24_startListening
  <2> QED
    BY <1>0, <1>1, <1>7, <2>1 DEF rf24_startListening, TypeOK, DrvType
<1>8. CASE rf24_stopListening
  BY <1>0, <1>1, <1>8 DEF rf24_stopListening, TypeOK, DrvType
<1>9. CASE rf24_autoACKPacket
  <2> DEFINE zero == Overwrite(reg.rx_addr[0], drv.transmit_address, drv.addr_width)
  <2>1. zero \in Address
    BY <1>0, OverwriteType DEF RegType, DrvType
  <2>2. reg' = [reg EXCEPT !.rx_addr[0] = zero, !.width[0] = drv.payload_len]
    BY <1>9 DEF rf24_autoACKPacket
  <2> HIDE DEF zero
  <2>3. reg' \in RegType
    BY <1>0, <2>1, <2>2 DEF RegType, DrvType
  <2> QED
    BY <1>0, <1>1, <1>9, <2>3 DEF rf24_autoACKPacket, TypeOK
<1>10. ASSUME NEW a \in Addresses
       PROVE  /\ Target(reg, a, drv) \in RegType /\ Copy(a, drv) \in DrvType
              /\ calls > 0 => AtWidth(a) \in AskedAddress
  <2> DEFINE to   == Overwrite(reg.tx_addr, a, drv.addr_width)
             copy == Overwrite(drv.transmit_address, a, drv.addr_width)
  <2>1. to \in Address /\ copy \in Address
    BY <1>0, OverwriteType DEF RegType, DrvType
  <2>2. Target(reg, a, drv) = [reg EXCEPT !.tx_addr = to]
    BY DEF Target
  <2>3. Copy(a, drv) = [drv EXCEPT !.transmit_address = copy]
    BY DEF Copy
  <2> HIDE DEF to, copy
  <2> QED
    BY <1>0, <2>1, <2>2, <2>3 DEF RegType, DrvType, AtWidth, AskedAddress, Widths
<1>11. CASE rf24_write
  BY <1>0, <1>1, <1>11, TransmitEffect DEF rf24_write, TypeOK
<1>24. CASE rf24_powerUp \/ rf24_powerDown
  <2>1. {"PWR_UP"} \subseteq RST_CFG
    BY DEF RST_CFG
  <2>2. reg' \in RegType
    BY <1>0, <1>24, <2>1 DEF rf24_powerUp, rf24_powerDown, RegType
  <2> QED
    BY <1>0, <1>1, <1>24, <2>2 DEF rf24_powerUp, rf24_powerDown, TypeOK
<1>25. CASE RateError
  BY <1>0, <1>1, <1>25 DEF RateError, TypeOK, DrvType
<1>12. ASSUME NEW x \in Levels, SetLevel(x) PROVE TypeOK'
  BY <1>0, <1>1, <1>12, LevelEffect DEF SetLevel, TypeOK, AskedType
<1>13. ASSUME NEW x \in Rates, SetRate(x) PROVE TypeOK'
  <2>1. drv' \in DrvType /\ asked' \in AskedType
    BY <1>0, <1>13 DEF SetRate, DrvType, AskedType
  <2> QED
    BY <1>0, <1>1, <1>13, <2>1, RateEffect DEF SetRate, TypeOK
<1>14. ASSUME NEW x \in CRCs, SetCRC(x) PROVE TypeOK'
  BY <1>0, <1>1, <1>14, CRCEffect DEF SetCRC, TypeOK, AskedType
<1>15. ASSUME NEW p \in Pipes, NEW e \in BOOLEAN, AutoAck(p, e) PROVE TypeOK'
  BY <1>0, <1>1, <1>15 DEF AutoAck, rf24_setAutoAckOnPipe, TypeOK, RegType
<1>16. ASSUME NEW e \in BOOLEAN, rf24_setAutoAckOnAll(e) PROVE TypeOK'
  BY <1>0, <1>1, <1>16 DEF rf24_setAutoAckOnAll, TypeOK, RegType
<1>17. ASSUME NEW n \in Sizes, rf24_setPayloadSize(n) PROVE TypeOK'
  <2>1. n \in 0 .. 255
    BY ConfigAssumption
  <2>2. (IF n < MAX_PAYLOAD_LEN THEN n ELSE MAX_PAYLOAD_LEN) \in 0 .. MAX_PAYLOAD_LEN
    BY <2>1 DEF MAX_PAYLOAD_LEN
  <2>3. drv' \in DrvType
    BY <1>0, <1>17, <2>2 DEF rf24_setPayloadSize, DrvType
  <2> QED
    BY <1>0, <1>1, <1>17, <2>3 DEF rf24_setPayloadSize, TypeOK
<1>18. ASSUME NEW w \in 0 .. 6, rf24_setAddressWidth(w) PROVE TypeOK'
  <2>1. w \in 3 .. 5 /\ w - 2 \in 1 .. 3
    BY <1>18 DEF rf24_setAddressWidth
  <2>2. reg' \in RegType
    BY <1>0, <1>18, <2>1 DEF rf24_setAddressWidth, RegType
  <2>3. drv' \in DrvType
    BY <1>0, <1>18, <2>1 DEF rf24_setAddressWidth, DrvType, Widths
  <2> QED
    BY <1>0, <1>1, <1>18, <2>2, <2>3 DEF rf24_setAddressWidth, TypeOK
<1>19. ASSUME NEW p \in Pipes, NEW a \in Addresses, OpenPipe(p, a) PROVE TypeOK'
  <2>1. calls > 0 /\ a \in Address
    BY <1>0, <1>19 DEF OpenPipe, Calls
  <2>2. reg' \in RegType
    BY <1>0, <1>19, <2>1, OpenEffect DEF OpenPipe, Opened
  <2>3. drv' \in DrvType
    <3> DEFINE copy == Overwrite(drv.pipe0_address, a, drv.addr_width)
    <3>1. copy \in Address
      BY <1>0, <2>1, OverwriteType DEF DrvType
    <3>2. drv' = IF p = 0 THEN [drv EXCEPT !.pipe0_address = copy] ELSE drv
      BY <1>19 DEF OpenPipe
    <3> HIDE DEF copy
    <3> QED
      BY <1>0, <3>1, <3>2 DEF DrvType
  <2>4. asked' \in AskedType
    <3>1. AtWidth(a) \in AskedAddress
      BY <1>10, <2>1
    <3>2. asked' = [asked EXCEPT !.open[p] = AtWidth(a)]
      BY <1>19 DEF OpenPipe
    <3> QED
      BY <1>0, <3>1, <3>2 DEF AskedType
  <2> QED
    BY <1>1, <1>19, <2>2, <2>3, <2>4 DEF OpenPipe, TypeOK
<1>20. ASSUME NEW a \in Addresses, setTXAddress(a) PROVE TypeOK'
  <2>1. reg' \in RegType /\ drv' \in DrvType
    BY <1>10, <1>20 DEF setTXAddress
  <2>2. AtWidth(a) \in AskedAddress /\ asked' = [asked EXCEPT !.to = AtWidth(a)]
    BY <1>10, <1>20 DEF setTXAddress, Calls
  <2>3. asked' \in AskedType
    BY <1>0, <2>2 DEF AskedType
  <2> QED
    BY <1>1, <1>20, <2>1, <2>3 DEF setTXAddress, TypeOK
<1>21. ASSUME NEW a \in Addresses, rf24_send(a) PROVE TypeOK'
  <2> DEFINE known == Same(a, drv.transmit_address, drv.addr_width)
             r     == IF known THEN reg ELSE Target(reg, a, drv)
  <2>1. r \in RegType /\ drv' \in DrvType
    BY <1>0, <1>10, <1>21 DEF rf24_send
  <2>2. reg' = transmit_payload(r, drv)
    BY <1>21 DEF rf24_send
  <2> HIDE DEF r
  <2>3. reg' \in RegType
    BY <1>0, <2>1, <2>2, TransmitEffect
  <2>4. AtWidth(a) \in AskedAddress /\ asked' = [asked EXCEPT !.to = AtWidth(a)]
    BY <1>10, <1>21 DEF rf24_send, Calls
  <2>5. asked' \in AskedType
    BY <1>0, <2>4 DEF AskedType
  <2> QED
    BY <1>1, <1>21, <2>1, <2>3, <2>5 DEF rf24_send, TypeOK
<1>22. CASE UNCHANGED vars
  BY <1>0, <1>22 DEF vars, TypeOK
<1>23. ASSUME NEW c \in Channels, rf24_setChannel(c) PROVE TypeOK'
  <2>1. (IF c < MAX_CHANNEL THEN c ELSE MAX_CHANNEL) \in 0 .. MAX_CHANNEL
    BY ConfigAssumption DEF MAX_CHANNEL
  <2> QED
    BY <1>0, <1>1, <1>23, <2>1 DEF rf24_setChannel, TypeOK, RegType
<1> QED
  BY <1>3, <1>4, <1>5, <1>6, <1>7, <1>8, <1>9, <1>11, <1>12, <1>13, <1>14, <1>15, <1>16,
     <1>17, <1>18, <1>19, <1>20, <1>21, <1>22, <1>23, <1>24, <1>25 DEF Next

(* What a call must leave alone for each part of the invariant to stay.    *)
SameFields ==
  /\ reg'.rf_setup = reg.rf_setup /\ reg'.plus = reg.plus
  /\ reg'.config \cap CRC_BITS = reg.config \cap CRC_BITS
  /\ asked'.level = asked.level /\ asked'.rate = asked.rate /\ asked'.crc = asked.crc
SameVariant == reg'.plus = reg.plus /\ drv'.p_variant = drv.p_variant
SameWidth == drv'.addr_width = drv.addr_width /\ reg'.setup_aw = reg.setup_aw
SameTo ==
  /\ drv'.transmit_address = drv.transmit_address
  /\ asked'.to = asked.to /\ reg'.tx_addr = reg.tx_addr
SameFeature ==
  /\ reg'.feature = reg.feature /\ reg'.unlocked = reg.unlocked /\ reg'.plus = reg.plus
  /\ drv'.dyn_payloads_set = drv.dyn_payloads_set
SameOpen ==
  /\ asked'.open = asked.open /\ reg'.en_rxaddr = reg.en_rxaddr
  /\ drv'.pipe0_address = drv.pipe0_address
  /\ \A p \in Pipes \ {0} : reg'.rx_addr[p] = reg.rx_addr[p]

LEMMA Kept ==
  ASSUME IInv, calls' > 0 => calls > 0
  PROVE  /\ SameFields => FieldsInv'
         /\ SameVariant => VariantInv'
         /\ SameWidth => WidthInv'
         /\ SameTo => CopyInv'
         /\ SameFeature => FeatureInv'
         /\ SameOpen => OpenPipesKept'
<1>1. ASSUME SameFields PROVE FieldsInv'
  BY <1>1 DEF SameFields, IInv, FieldsInv, Accepted
<1>2. ASSUME SameVariant PROVE VariantInv'
  BY <1>2 DEF SameVariant, IInv, VariantInv, VariantKnown
<1>3. ASSUME SameTo PROVE CopyInv'
  BY <1>3 DEF SameTo, IInv, CopyInv, Same
<1>6. ASSUME SameWidth PROVE WidthInv'
  BY <1>6 DEF SameWidth, IInv, WidthInv
<1>4. ASSUME SameFeature PROVE FeatureInv'
  BY <1>4 DEF SameFeature, IInv, FeatureInv, FeatureIsOn
<1>5. ASSUME SameOpen PROVE OpenPipesKept'
  BY <1>5 DEF SameOpen, IInv, OpenPipesKept, Same
<1> QED
  BY <1>1, <1>2, <1>3, <1>4, <1>5, <1>6

LEMMA DefaultsStep ==
  ASSUME IInv, NEW r \in RegType, SetDefaults(r), r = [reg EXCEPT !.config = r.config]
  PROVE  FieldsInv' /\ VariantInv' /\ WidthInv' /\ SameTo /\ SameFeature /\ SameOpen
<1>1. reg \in RegType /\ drv \in DrvType /\ asked \in AskedType
  BY DEF IInv, TypeOK
<1>2. /\ reg' = DefaultRegisters(r)
      /\ drv' = DefaultDriver(drv, r)
      /\ asked' = [asked EXCEPT !.level = "MAX", !.rate = "1MBPS", !.crc = "16"]
  BY DEF SetDefaults
<1>3. /\ reg'.rf_setup \cap RF_PWR = LevelBits["MAX"]
      /\ reg'.rf_setup \cap RF_DR = RateBits["1MBPS"]
      /\ reg'.config \cap CRC_BITS = CRCBits["16"]
      /\ reg' = [r EXCEPT !.rf_setup = reg'.rf_setup, !.config = reg'.config,
                          !.dynpd = {}, !.rf_ch = 76, !.setup_aw = 3]
  BY <1>2, DefaultsEffect
<1>4. /\ reg'.setup_aw = 3 /\ reg'.plus = r.plus /\ reg'.tx_addr = r.tx_addr
      /\ reg'.feature = r.feature /\ reg'.unlocked = r.unlocked
      /\ reg'.en_rxaddr = r.en_rxaddr /\ reg'.rx_addr = r.rx_addr
  BY <1>3 DEF RegType
<1>5. /\ r.plus = reg.plus /\ r.tx_addr = reg.tx_addr
      /\ r.feature = reg.feature /\ r.unlocked = reg.unlocked
      /\ r.en_rxaddr = reg.en_rxaddr /\ r.rx_addr = reg.rx_addr
  BY <1>1 DEF RegType
<1>6. /\ asked'.level = "MAX" /\ asked'.rate = "1MBPS" /\ asked'.crc = "16"
      /\ asked'.to = asked.to /\ asked'.open = asked.open
  BY <1>1, <1>2 DEF AskedType
<1>7. /\ drv'.p_variant <=> (drv.p_variant \/ IsVariant(r))
      /\ drv'.transmit_address = drv.transmit_address
      /\ drv'.dyn_payloads_set = drv.dyn_payloads_set
      /\ drv'.pipe0_address = drv.pipe0_address
      /\ drv'.addr_width = 5
  BY <1>1, <1>2 DEF DefaultDriver, DrvType
<1>8. FieldsInv'
  BY <1>3, <1>4, <1>6 DEF FieldsInv, Accepted
<1>9. VariantInv'
  <2>1. IsVariant(r) <=> reg.plus
    BY <1>5, VariantEffect
  <2> QED
    BY <1>4, <1>5, <1>7, <2>1 DEF IInv, VariantInv, VariantKnown
<1>10. WidthInv'
  BY <1>4, <1>7 DEF WidthInv
<1> QED
  BY <1>4, <1>5, <1>6, <1>7, <1>8, <1>9, <1>10 DEF SameTo, SameFeature, SameOpen

LEMMA Step == IInv /\ [Next]_vars => IInv'
<1> SUFFICES ASSUME IInv, [Next]_vars PROVE IInv'
  OBVIOUS
<1>0. /\ reg \in RegType /\ drv \in DrvType /\ asked \in AskedType /\ calls \in 0 .. MaxCalls
      /\ reg.feature # {} => reg.unlocked \/ reg.plus
      /\ 0 \in Pipes /\ MaxCalls \in Nat /\ Addresses \subseteq Address
      /\ drv.addr_width \in 0 .. 5
      /\ calls > 0 => drv.addr_width \in 3 .. 5
  BY ConfigAssumption, AddressType DEF IInv, TypeOK, FeatureInv, WidthInv, DrvType, Widths
<1>a. TypeOK'
  BY TypeStep
<1>b. ASSUME Calls(calls > 0) PROVE calls' > 0 => calls > 0
  BY <1>b DEF Calls
<1>c. ASSUME FieldsInv', VariantInv', WidthInv', CopyInv', FeatureInv', OpenPipesKept' PROVE IInv'
  BY <1>a, <1>c DEF IInv
<1>1. CASE rf24_init_radio
  <2>1. reg = [reg EXCEPT !.config = reg.config]
    BY <1>0 DEF RegType
  <2>2. FieldsInv' /\ VariantInv' /\ WidthInv' /\ SameTo /\ SameFeature /\ SameOpen
    BY <1>0, <1>1, <2>1, DefaultsStep DEF rf24_init_radio
  <2>3. CopyInv' /\ FeatureInv' /\ OpenPipesKept'
    BY <2>2 DEF IInv, SameTo, SameFeature, SameOpen, CopyInv, Same,
                FeatureInv, FeatureIsOn, OpenPipesKept
  <2> QED
    BY <1>c, <2>2, <2>3
<1>2. CASE rf24_resetcfg
  <2> DEFINE r == [reg EXCEPT !.config = RST_CFG]
  <2>1. r \in RegType /\ r = [reg EXCEPT !.config = r.config]
    BY <1>0 DEF RegType
  <2>2. Calls(calls > 0) /\ SetDefaults(r)
    BY <1>2 DEF rf24_resetcfg
  <2> HIDE DEF r
  <2>3. FieldsInv' /\ VariantInv' /\ WidthInv' /\ SameTo /\ SameFeature /\ SameOpen
    BY <2>1, <2>2, DefaultsStep
  <2> QED
    BY <1>b, <1>c, <2>2, <2>3, Kept
<1>3. CASE DynamicPayloads
  <2>1. /\ reg' = [reg EXCEPT !.feature = reg'.feature, !.unlocked = reg'.unlocked, !.dynpd = Pipes]
        /\ reg'.unlocked \/ reg'.plus
        /\ "EN_DPL" \in reg'.feature
    BY <1>0, <1>3, DynamicEffect DEF DynamicPayloads
  <2>2. FeatureInv'
    BY <2>1 DEF FeatureInv, FeatureIsOn
  <2>3. SameFields /\ SameVariant /\ SameWidth /\ SameTo /\ SameOpen
    BY <1>0, <1>3, <2>1
       DEF DynamicPayloads, RegType, DrvType, SameFields, SameVariant, SameWidth, SameTo, SameOpen
  <2> QED
    BY <1>b, <1>c, <1>3, <2>2, <2>3, Kept DEF DynamicPayloads
<1>4. CASE AckPayload
  <2>1. /\ reg' = [reg EXCEPT !.feature = reg'.feature, !.unlocked = reg'.unlocked,
                              !.dynpd = reg'.dynpd]
        /\ reg'.unlocked \/ reg'.plus
        /\ reg.feature \subseteq reg'.feature
        /\ UNCHANGED <<drv, asked>>
    BY <1>0, <1>4, AckPayloadEffect DEF AckPayload
  <2>2. FeatureInv'
    BY <2>1 DEF IInv, FeatureInv, FeatureIsOn
  <2>3. SameFields /\ SameVariant /\ SameWidth /\ SameTo /\ SameOpen
    BY <1>0, <2>1 DEF RegType, SameFields, SameVariant, SameWidth, SameTo, SameOpen
  <2> QED
    BY <1>b, <1>c, <1>4, <2>2, <2>3, Kept DEF AckPayload
<1>5. CASE rf24_startListening
  <2>0. /\ reg' = [reg EXCEPT !.config = reg'.config, !.rx_addr = reg'.rx_addr]
        /\ reg'.config \cap CRC_BITS = reg.config \cap CRC_BITS
        /\ \A p \in Pipes \ {0} : reg'.rx_addr[p] = reg.rx_addr[p]
    BY <1>0, <1>5, ListenEffect DEF rf24_startListening
  <2>1. SameFields /\ SameVariant /\ SameWidth /\ SameTo /\ SameFeature /\ SameOpen
    BY <1>0, <1>5, <2>0 DEF rf24_startListening, RegType, DrvType, AskedType,
       SameFields, SameVariant, SameWidth, SameTo, SameFeature, SameOpen
  <2> QED
    BY <1>b, <1>c, <1>5, <2>1, Kept DEF rf24_startListening
<1>6. CASE rf24_stopListening
  <2>1. SameFields /\ SameVariant /\ SameWidth /\ SameTo /\ SameFeature /\ SameOpen
    BY <1>0, <1>6 DEF rf24_stopListening, RegType, DrvType, AskedType,
       SameFields, SameVariant, SameWidth, SameTo, SameFeature, SameOpen
  <2> QED
    BY <1>b, <1>c, <1>6, <2>1, Kept DEF rf24_stopListening
<1>7. CASE rf24_autoACKPacket
  <2>1. SameFields /\ SameVariant /\ SameWidth /\ SameTo /\ SameFeature /\ SameOpen
    BY <1>0, <1>7 DEF rf24_autoACKPacket, RegType, DrvType, AskedType,
       SameFields, SameVariant, SameWidth, SameTo, SameFeature, SameOpen
  <2> QED
    BY <1>b, <1>c, <1>7, <2>1, Kept DEF rf24_autoACKPacket
<1>8. CASE rf24_write
  <2>0. /\ reg' = [reg EXCEPT !.config = reg'.config, !.rx_addr = reg'.rx_addr]
        /\ reg'.config \cap CRC_BITS = reg.config \cap CRC_BITS
        /\ \A p \in Pipes \ {0} : reg'.rx_addr[p] = reg.rx_addr[p]
        /\ UNCHANGED <<drv, asked>>
    BY <1>0, <1>8, TransmitEffect DEF rf24_write
  <2>1. SameFields /\ SameVariant /\ SameWidth /\ SameTo /\ SameFeature /\ SameOpen
    BY <1>0, <2>0 DEF RegType,
       SameFields, SameVariant, SameWidth, SameTo, SameFeature, SameOpen
  <2> QED
    BY <1>b, <1>c, <1>8, <2>1, Kept DEF rf24_write
<1>21. CASE rf24_powerUp \/ rf24_powerDown
  <2>0. /\ reg' = [reg EXCEPT !.config = reg'.config]
        /\ reg'.config \cap CRC_BITS = reg.config \cap CRC_BITS
        /\ UNCHANGED <<drv, asked>>
    BY <1>0, <1>21 DEF rf24_powerUp, rf24_powerDown, RegType, CRC_BITS
  <2>1. SameFields /\ SameVariant /\ SameWidth /\ SameTo /\ SameFeature /\ SameOpen
    BY <1>0, <2>0 DEF RegType, SameFields, SameVariant, SameWidth, SameTo, SameFeature, SameOpen
  <2> QED
    BY <1>b, <1>c, <1>21, <2>1, Kept DEF rf24_powerUp, rf24_powerDown
<1>22. CASE RateError
  <2>1. SameFields /\ SameVariant /\ SameWidth /\ SameTo /\ SameFeature /\ SameOpen
    BY <1>0, <1>22 DEF RateError, DrvType,
       SameFields, SameVariant, SameWidth, SameTo, SameFeature, SameOpen
  <2> QED
    BY <1>b, <1>c, <1>22, <2>1, Kept DEF RateError
<1>9. ASSUME NEW p \in Pipes, NEW e \in BOOLEAN, AutoAck(p, e) PROVE IInv'
  <2>1. SameFields /\ SameVariant /\ SameWidth /\ SameTo /\ SameFeature /\ SameOpen
    BY <1>0, <1>9 DEF AutoAck, rf24_setAutoAckOnPipe, RegType, DrvType, AskedType,
       SameFields, SameVariant, SameWidth, SameTo, SameFeature, SameOpen
  <2> QED
    BY <1>b, <1>c, <1>9, <2>1, Kept DEF AutoAck
<1>10. ASSUME NEW e \in BOOLEAN, rf24_setAutoAckOnAll(e) PROVE IInv'
  <2>1. SameFields /\ SameVariant /\ SameWidth /\ SameTo /\ SameFeature /\ SameOpen
    BY <1>0, <1>10 DEF rf24_setAutoAckOnAll, RegType, DrvType, AskedType,
       SameFields, SameVariant, SameWidth, SameTo, SameFeature, SameOpen
  <2> QED
    BY <1>b, <1>c, <1>10, <2>1, Kept DEF rf24_setAutoAckOnAll
<1>11. ASSUME NEW n \in Sizes, rf24_setPayloadSize(n) PROVE IInv'
  <2>1. SameFields /\ SameVariant /\ SameWidth /\ SameTo /\ SameFeature /\ SameOpen
    BY <1>0, <1>11 DEF rf24_setPayloadSize, RegType, DrvType, AskedType,
       SameFields, SameVariant, SameWidth, SameTo, SameFeature, SameOpen
  <2> QED
    BY <1>b, <1>c, <1>11, <2>1, Kept DEF rf24_setPayloadSize
<1>12. ASSUME NEW w \in 0 .. 6, rf24_setAddressWidth(w) PROVE IInv'
  <2>1. /\ w \in 3 .. 5 /\ asked' = asked
        /\ reg' = [reg EXCEPT !.setup_aw = w - 2] /\ drv' = [drv EXCEPT !.addr_width = w]
    BY <1>12 DEF rf24_setAddressWidth
  <2>2. WidthInv'
    BY <1>0, <2>1 DEF RegType, DrvType, WidthInv
  <2>3. SameFields /\ SameVariant /\ SameTo /\ SameFeature /\ SameOpen
    BY <1>0, <2>1 DEF RegType, DrvType, SameFields, SameVariant, SameTo, SameFeature, SameOpen
  <2> QED
    BY <1>b, <1>c, <1>12, <2>2, <2>3, Kept DEF rf24_setAddressWidth
<1>13. ASSUME NEW x \in Levels, SetLevel(x) PROVE IInv'
  <2>1. /\ reg' = [reg EXCEPT !.rf_setup = reg'.rf_setup]
        /\ reg'.rf_setup \cap RF_PWR = LevelBits[x]
        /\ reg'.rf_setup \cap RF_DR =
             IF reg.plus THEN reg.rf_setup \cap RF_DR ELSE (reg.rf_setup \cap RF_DR) \ {"DR_LOW"}
        /\ asked' = [asked EXCEPT !.level = x] /\ drv' = drv /\ calls > 0
    BY <1>0, <1>13, LevelEffect DEF SetLevel, Calls
  <2>2. /\ reg.rf_setup \cap RF_DR = RateBits[Accepted(reg, asked.rate)]
        /\ reg.config \cap CRC_BITS = CRCBits[asked.crc]
    BY <2>1 DEF IInv, FieldsInv
  <2>3. ~ reg.plus => "DR_LOW" \notin RateBits[Accepted(reg, asked.rate)]
    BY <1>0 DEF AskedType, Accepted, RateBits, Rates
  <2>4. /\ reg'.plus = reg.plus /\ reg'.config = reg.config
        /\ asked'.level = x /\ asked'.rate = asked.rate /\ asked'.crc = asked.crc
    BY <1>0, <2>1 DEF RegType, AskedType
  <2>5. reg'.rf_setup \cap RF_DR = RateBits[Accepted(reg, asked.rate)]
    BY <2>1, <2>2, <2>3
  <2>6. FieldsInv'
    BY <2>1, <2>2, <2>4, <2>5 DEF FieldsInv, Accepted
  <2>7. SameVariant /\ SameWidth /\ SameTo /\ SameFeature /\ SameOpen
    BY <1>0, <2>1 DEF RegType, AskedType, SameVariant, SameWidth, SameTo, SameFeature, SameOpen
  <2> QED
    BY <1>b, <1>c, <1>13, <2>6, <2>7, Kept DEF SetLevel
<1>14. ASSUME NEW x \in Rates, SetRate(x) PROVE IInv'
  <2>1. /\ reg' = [reg EXCEPT !.rf_setup = reg'.rf_setup]
        /\ reg'.rf_setup \cap RF_PWR = reg.rf_setup \cap RF_PWR
        /\ reg'.rf_setup \cap RF_DR = RateBits[Accepted(reg, x)]
        /\ asked' = [asked EXCEPT !.rate = x] /\ drv' = [drv EXCEPT !.wide_band = (x = "2MBPS")]
        /\ calls > 0
    BY <1>0, <1>14, RateEffect DEF SetRate, Calls
  <2>2. /\ reg'.plus = reg.plus /\ reg'.config = reg.config
        /\ asked'.level = asked.level /\ asked'.rate = x /\ asked'.crc = asked.crc
    BY <1>0, <2>1 DEF RegType, AskedType
  <2>3. FieldsInv'
    BY <2>1, <2>2 DEF IInv, FieldsInv, Accepted
  <2>4. SameVariant /\ SameWidth /\ SameTo /\ SameFeature /\ SameOpen
    BY <1>0, <2>1 DEF RegType, DrvType, AskedType, SameVariant, SameWidth, SameTo, SameFeature, SameOpen
  <2> QED
    BY <1>b, <1>c, <1>14, <2>3, <2>4, Kept DEF SetRate
<1>15. ASSUME NEW x \in CRCs, SetCRC(x) PROVE IInv'
  <2>1. /\ reg' = [reg EXCEPT !.config = reg'.config]
        /\ reg'.config \cap CRC_BITS = CRCBits[x]
        /\ asked' = [asked EXCEPT !.crc = x] /\ drv' = drv /\ calls > 0
    BY <1>0, <1>15, CRCEffect DEF SetCRC, Calls
  <2>2. /\ reg'.plus = reg.plus /\ reg'.rf_setup = reg.rf_setup
        /\ asked'.level = asked.level /\ asked'.rate = asked.rate /\ asked'.crc = x
    BY <1>0, <2>1 DEF RegType, AskedType
  <2>3. FieldsInv'
    BY <2>1, <2>2 DEF IInv, FieldsInv, Accepted
  <2>4. SameVariant /\ SameWidth /\ SameTo /\ SameFeature /\ SameOpen
    BY <1>0, <2>1 DEF RegType, AskedType, SameVariant, SameWidth, SameTo, SameFeature, SameOpen
  <2> QED
    BY <1>b, <1>c, <1>15, <2>3, <2>4, Kept DEF SetCRC
<1>16. ASSUME NEW p \in Pipes, NEW a \in Addresses, OpenPipe(p, a) PROVE IInv'
  <2> DEFINE w == drv.addr_width
             copy == Overwrite(drv.pipe0_address, a, w)
  <2>0. p \in 0 .. 5 /\ a \in Address /\ w \in 3 .. 5 /\ calls > 0
    BY <1>0, <1>16, ConfigAssumption DEF OpenPipe, Calls
  <2>1. /\ reg' = [reg EXCEPT !.width = reg'.width, !.en_rxaddr = @ \cup {p},
                              !.rx_addr = reg'.rx_addr]
        /\ p = 1 => Same(reg'.rx_addr[1], a, w)
        /\ p > 1 => reg'.rx_addr[p][1] = a[w]
        /\ \A q \in Pipes \ {p} : reg'.rx_addr[q] = reg.rx_addr[q]
    <3>1. Opened(rf24_setRXAddressOnPipe(reg, p, a, drv), reg, p, a, w)
      BY <1>0, <2>0, OpenEffect
    <3>2. Opened(reg', reg, p, a, w)
      BY <1>16, <3>1 DEF OpenPipe
    <3> QED
      BY <3>2 DEF Opened
  <2>2. /\ drv' = IF p = 0 THEN [drv EXCEPT !.pipe0_address = copy] ELSE drv
        /\ asked' = [asked EXCEPT !.open[p] = AtWidth(a)]
    BY <1>16 DEF OpenPipe
  <2>3. reg'.en_rxaddr = reg.en_rxaddr \cup {p}
    BY <1>0, <2>1 DEF RegType
  <2>4. asked'.open = [asked.open EXCEPT ![p] = [addr |-> a, width |-> w]]
    BY <1>0, <2>2 DEF AskedType, AtWidth
  <2>5. Same(copy, a, w)
    BY <2>0, OverwriteType, <1>0 DEF DrvType
  <2> HIDE DEF copy
  <2>6. p = 0 => drv'.pipe0_address = copy
    BY <1>0, <2>2 DEF DrvType
  <2>7. OpenPipesKept'
    <3> SUFFICES ASSUME NEW q \in Pipes, asked'.open[q].width > 0
                 PROVE  /\ q \in reg'.en_rxaddr
                        /\ q = 0 => Same(drv'.pipe0_address, asked'.open[q].addr,
                                         asked'.open[q].width)
                        /\ q = 1 => Same(reg'.rx_addr[1], asked'.open[q].addr,
                                         asked'.open[q].width)
                        /\ q > 1 => reg'.rx_addr[q][1] =
                                      asked'.open[q].addr[asked'.open[q].width]
      BY DEF OpenPipesKept, Same
    <3>1. CASE q = p
      <4>1. asked'.open[q].addr = a /\ asked'.open[q].width = w
        BY <1>0, <2>4, <3>1 DEF AskedType
      <4> QED
        BY <2>1, <2>3, <2>5, <2>6, <3>1, <4>1
    <3>2. CASE q # p
      <4>1. asked'.open[q] = asked.open[q] /\ reg'.rx_addr[q] = reg.rx_addr[q]
        BY <1>0, <2>1, <2>4, <3>2 DEF AskedType
      <4>2. q = 0 => drv' = drv
        BY <2>2, <3>2
      <4> QED
        BY <2>3, <4>1, <4>2 DEF IInv, OpenPipesKept
    <3> QED
      BY <3>1, <3>2
  <2>8. SameFields /\ SameVariant /\ SameWidth /\ SameTo /\ SameFeature
    BY <1>0, <2>1, <2>2
       DEF RegType, DrvType, AskedType, SameFields, SameVariant, SameWidth, SameTo, SameFeature
  <2> QED
    BY <1>b, <1>c, <1>16, <2>7, <2>8, Kept DEF OpenPipe
<1>d. ASSUME NEW a \in Addresses
      PROVE  LET to   == Overwrite(reg.tx_addr, a, drv.addr_width)
                 copy == Overwrite(drv.transmit_address, a, drv.addr_width)
             IN  /\ to \in Address /\ copy \in Address
                 /\ Same(to, a, drv.addr_width)
                 /\ \A i \in 1 .. 5 : copy[i] \in {0, to[i]}
  <2>1. \A i \in 1 .. 5 : drv.transmit_address[i] \in {0, reg.tx_addr[i]}
    BY DEF IInv, CopyInv
  <2>2. a \in Address /\ reg.tx_addr \in Address /\ drv.transmit_address \in Address
    BY <1>0 DEF RegType, DrvType
  <2> QED
    BY <1>0, <2>1, <2>2, OverwriteType DEF Overwrite
<1>17. ASSUME NEW a \in Addresses, setTXAddress(a) PROVE IInv'
  <2> DEFINE to   == Overwrite(reg.tx_addr, a, drv.addr_width)
             copy == Overwrite(drv.transmit_address, a, drv.addr_width)
  <2>1. /\ reg' = [reg EXCEPT !.tx_addr = to] /\ drv' = [drv EXCEPT !.transmit_address = copy]
        /\ asked' = [asked EXCEPT !.to = [addr |-> a, width |-> drv.addr_width]]
    BY <1>17 DEF setTXAddress, Target, Copy, AtWidth
  <2>2. Same(to, a, drv.addr_width) /\ \A i \in 1 .. 5 : copy[i] \in {0, to[i]}
    BY <1>d
  <2> HIDE DEF to, copy
  <2>3. CopyInv'
    BY <1>0, <2>1, <2>2 DEF RegType, DrvType, AskedType, CopyInv, Same
  <2>4. SameFields /\ SameVariant /\ SameWidth /\ SameFeature /\ SameOpen
    BY <1>0, <2>1 DEF RegType, DrvType, AskedType,
       SameFields, SameVariant, SameWidth, SameFeature, SameOpen
  <2> QED
    BY <1>b, <1>c, <1>17, <2>3, <2>4, Kept DEF setTXAddress
<1>18. ASSUME NEW a \in Addresses, rf24_send(a) PROVE IInv'
  <2> DEFINE known == Same(a, drv.transmit_address, drv.addr_width)
             r     == IF known THEN reg ELSE Target(reg, a, drv)
  <2>1. /\ reg' = transmit_payload(r, drv)
        /\ drv' = IF known THEN drv ELSE Copy(a, drv)
        /\ asked' = [asked EXCEPT !.to = [addr |-> a, width |-> drv.addr_width]]
    BY <1>18 DEF rf24_send, AtWidth
  <2>2. /\ r \in RegType /\ r = [reg EXCEPT !.tx_addr = r.tx_addr]
        /\ drv' = [drv EXCEPT !.transmit_address = drv'.transmit_address]
        /\ Same(r.tx_addr, a, drv.addr_width)
        /\ \A i \in 1 .. 5 : drv'.transmit_address[i] \in {0, r.tx_addr[i]}
    <3>1. CASE known
      <4>1. \A i \in 1 .. 5 : drv.transmit_address[i] \in {0, reg.tx_addr[i]}
        BY DEF IInv, CopyInv
      <4>2. \A i \in 1 .. 5 : a[i] # 0
        BY ConfigAssumption
      <4>3. \A i \in 1 .. drv.addr_width : i \in 1 .. 5
        BY <1>0
      <4>4. Same(reg.tx_addr, a, drv.addr_width)
        BY <3>1, <4>1, <4>2, <4>3 DEF Same
      <4> QED
        BY <1>0, <2>1, <3>1, <4>1, <4>4 DEF RegType, DrvType
    <3>2. CASE ~ known
      <4> DEFINE to   == Overwrite(reg.tx_addr, a, drv.addr_width)
                 copy == Overwrite(drv.transmit_address, a, drv.addr_width)
      <4>1. r = [reg EXCEPT !.tx_addr = to] /\ drv' = [drv EXCEPT !.transmit_address = copy]
        BY <2>1, <3>2 DEF Target, Copy
      <4>2. /\ to \in Address /\ Same(to, a, drv.addr_width)
            /\ \A i \in 1 .. 5 : copy[i] \in {0, to[i]}
        BY <1>d
      <4> HIDE DEF to, copy, r
      <4>3. r.tx_addr = to /\ drv'.transmit_address = copy
        BY <1>0, <4>1 DEF RegType, DrvType
      <4> QED
        BY <1>0, <4>1, <4>2, <4>3 DEF RegType
    <3> QED
      BY <3>1, <3>2
  <2> HIDE DEF r, known
  <2>3. /\ reg' = [r EXCEPT !.config = reg'.config, !.rx_addr = reg'.rx_addr]
        /\ reg'.config \cap CRC_BITS = r.config \cap CRC_BITS
        /\ \A p \in Pipes \ {0} : reg'.rx_addr[p] = r.rx_addr[p]
    <3> DEFINE t == transmit_payload(r, drv)
    <3>1. /\ t = [r EXCEPT !.config = t.config, !.rx_addr = t.rx_addr]
          /\ t.config \cap CRC_BITS = r.config \cap CRC_BITS
          /\ \A p \in Pipes \ {0} : t.rx_addr[p] = r.rx_addr[p]
      BY <1>0, <2>2, TransmitEffect
    <3>2. reg' = t
      BY <2>1
    <3> HIDE DEF t
    <3> QED
      BY <3>1, <3>2
  <2>4. /\ r.config = reg.config /\ r.rx_addr = reg.rx_addr
        /\ reg' = [reg EXCEPT !.tx_addr = r.tx_addr, !.config = reg'.config,
                              !.rx_addr = reg'.rx_addr]
    <3>1. r.config = reg.config /\ r.rx_addr = reg.rx_addr
      BY <1>0, <2>2 DEF RegType
    <3>2. reg' = [[reg EXCEPT !.tx_addr = r.tx_addr]
                     EXCEPT !.config = reg'.config, !.rx_addr = reg'.rx_addr]
      BY <2>2, <2>3
    <3> QED
      BY <1>0, <3>1, <3>2 DEF RegType
  <2>5. CopyInv'
    <3>1. reg'.tx_addr = r.tx_addr
      BY <1>0, <2>4 DEF RegType
    <3>2. asked'.to.addr = a /\ asked'.to.width = drv.addr_width
      BY <1>0, <2>1 DEF AskedType
    <3> QED
      BY <2>2, <3>1, <3>2 DEF CopyInv
  <2>6. SameFields /\ SameVariant /\ SameWidth /\ SameFeature /\ SameOpen
    <3>1. /\ reg'.rf_setup = reg.rf_setup /\ reg'.plus = reg.plus
          /\ reg'.setup_aw = reg.setup_aw /\ reg'.en_rxaddr = reg.en_rxaddr
          /\ reg'.feature = reg.feature /\ reg'.unlocked = reg.unlocked
      BY <1>0, <2>4 DEF RegType
    <3>2. /\ drv'.p_variant = drv.p_variant /\ drv'.addr_width = drv.addr_width
          /\ drv'.dyn_payloads_set = drv.dyn_payloads_set
          /\ drv'.pipe0_address = drv.pipe0_address
      BY <1>0, <2>2 DEF DrvType
    <3>3. /\ asked'.level = asked.level /\ asked'.rate = asked.rate /\ asked'.crc = asked.crc
          /\ asked'.open = asked.open
      BY <1>0, <2>1 DEF AskedType
    <3> QED
      BY <2>3, <2>4, <3>1, <3>2, <3>3
      DEF SameFields, SameVariant, SameWidth, SameFeature, SameOpen
  <2> QED
    BY <1>b, <1>c, <1>18, <2>5, <2>6, Kept DEF rf24_send
<1>19. CASE UNCHANGED vars
  <2>1. SameFields /\ SameVariant /\ SameWidth /\ SameTo /\ SameFeature /\ SameOpen /\ calls' = calls
    BY <1>19 DEF vars, SameFields, SameVariant, SameWidth, SameTo, SameFeature, SameOpen
  <2> QED
    BY <1>c, <2>1, Kept
<1>20. ASSUME NEW c \in Channels, rf24_setChannel(c) PROVE IInv'
  <2>1. SameFields /\ SameVariant /\ SameWidth /\ SameTo /\ SameFeature /\ SameOpen
    BY <1>0, <1>20 DEF rf24_setChannel, RegType,
       SameFields, SameVariant, SameWidth, SameTo, SameFeature, SameOpen
  <2> QED
    BY <1>b, <1>c, <1>20, <2>1, Kept DEF rf24_setChannel
<1> QED
  BY <1>1, <1>2, <1>3, <1>4, <1>5, <1>6, <1>7, <1>8, <1>9, <1>10, <1>11, <1>12, <1>13, <1>14,
     <1>15, <1>16, <1>17, <1>18, <1>19, <1>20, <1>21, <1>22 DEF Next

LEMMA Invariant == Spec => []IInv
  BY InitInv, Step, PTL DEF Spec
-----------------------------------------------------------------------------
(* The chip's registers and the driver's variables keep their types, so a  *)
(* pipe's width and payload_len never exceed 32 (rf24.c:306-505, 594-721). *)
THEOREM TypeCorrect == Spec => []TypeOK
<1>1. IInv => TypeOK
  BY DEF IInv
<1> QED
  BY <1>1, Invariant, PTL

LEMMA SettingsFollow == IInv => SettingsKept
<1> SUFFICES ASSUME IInv, calls > 0
             PROVE  /\ rf24_getPALevel(reg) = asked.level
                    /\ rf24_getDataRate(reg) = Accepted(reg, asked.rate)
                    /\ rf24_getCRCLength(reg) = asked.crc
  BY DEF SettingsKept, Accepted
<1>1. /\ reg.rf_setup \cap RF_PWR = LevelBits[asked.level]
      /\ reg.rf_setup \cap RF_DR = RateBits[Accepted(reg, asked.rate)]
      /\ reg.config \cap CRC_BITS = CRCBits[asked.crc]
  BY DEF IInv, FieldsInv
<1>2. reg \in RegType /\ asked.level \in Levels /\ asked.rate \in Rates /\ asked.crc \in CRCs
  BY DEF IInv, TypeOK, AskedType
<1> QED
  BY <1>1, <1>2, AcceptedBits, GetLevel, GetRate, GetCRC

(* Settings that share a register never disturb each other (rf24.c:358-431,*)
(* 475-485).                                                               *)
THEOREM SettingsStay == Spec => []SettingsKept
BY SettingsFollow, Invariant, PTL

(* The driver knows which kind of chip it has (rf24.c:477-482).            *)
THEOREM VariantIsKnown == Spec => []VariantKnown
<1>1. IInv => VariantKnown
  BY DEF IInv, VariantInv
<1> QED
  BY <1>1, Invariant, PTL

(* The chip holds every byte of the address asked for last that the width  *)
(* of the time had, although the register is not written when the driver's *)
(* copy agrees, and whatever the width was before and is after; and chip   *)
(* and driver agree on the width (rf24.c:311-316, 323-326, 600).           *)
THEOREM PacketsGoWhereAsked == Spec => []SentWhereAsked
<1>1. IInv => SentWhereAsked
  BY DEF IInv, CopyInv, WidthInv, SentWhereAsked
<1> QED
  BY <1>1, Invariant, PTL

(* The driver never believes in dynamic payloads that the chip's FEATURE   *)
(* does not have on (rf24.c:661-691).                                      *)
THEOREM FeatureStaysOn == Spec => []FeatureIsOn
<1>1. IInv => FeatureIsOn
  BY DEF IInv, FeatureInv
<1> QED
  BY <1>1, Invariant, PTL

(* An open pipe keeps the bytes it was given while others are opened and   *)
(* the width changes (rf24.c:328-352).                                     *)
THEOREM PipesStayOpen == Spec => []OpenPipesKept
<1>1. IInv => OpenPipesKept
  BY DEF IInv
<1> QED
  BY <1>1, Invariant, PTL
=============================================================================
