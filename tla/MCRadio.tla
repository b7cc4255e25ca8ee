------------------------------ MODULE MCRadio ------------------------------
(* Instances of Radio for TLC: what each kind of application calls.        *)
EXTENDS Radio

ReceiverOps == {"startListening", "stopListening", "resetcfg", "recv", "recv_block",
                "direct_test", "powerUp", "powerDown"}
DuplexOps == {"startListening", "send", "write", "recv", "powerUp"}
ListenOps == {"startListening"}
StopOps == {"startListening", "stopListening"}
WriteOps == {"powerUp", "write"}

NoneCorrupt == {}
SecondCorrupt == {2}
=============================================================================
