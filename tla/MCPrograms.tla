----------------------------- MODULE MCPrograms -----------------------------
(* Small instances of Programs for TLC.                                    *)
EXTENDS Programs

ThreePipes == {0, 1, 2}

(* The addresses of sender.c and receiver.c, and one that differs from the *)
(* first in its last byte only.                                            *)
F0E1 == <<240, 240, 240, 240, 225>>
A1C2 == <<161, 161, 161, 161, 194>>
F0D2 == <<240, 240, 240, 240, 210>>

SomeAddresses == {F0E1, A1C2, F0D2}

(* Of what Init allows, a chip just powered on, and one that an earlier    *)
(* run has used, with any features: registers that an earlier run writes   *)
(* have been written together.                                             *)
MCInit ==
  /\ ProgInit
  /\ LET fresh == reg.width[0] = 0
         used(own, other) == IF fresh THEN own ELSE other
     IN  /\ fresh => reg.feature = {} /\ ~ reg.unlocked
         /\ reg.rf_setup = used(RF_PWR \cup {"DR_HIGH"}, {})
         /\ reg.config = used({"EN_CRC"}, RST_CFG)
         /\ reg.en_aa = used(Pipes, {}) /\ reg.dynpd = used({}, Pipes)
         /\ reg.en_rxaddr = used({0, 1}, Pipes)
         /\ reg.rf_ch = used(2, 60) /\ reg.setup_aw = used(3, 1)
         /\ reg.tx_addr = used(A1C2, F0E1) /\ reg.rx_addr[0] = reg.tx_addr

MCSpec == MCInit /\ [][ProgNext]_progvars
=============================================================================
