---------------------------- MODULE MCAudioRing ----------------------------
(* Small instances of AudioRing for TLC: periods of two samples in a ring  *)
(* of four periods.                                                        *)
EXTENDS AudioRing

(* A whole period, half a period, and two errors: one that keeps the index *)
(* aligned, as -EPIPE = -32 does, and one that does not.                   *)
AnyOutcome == {PERIOD, 1, -1, -PERIOD}
FullReads  == {PERIOD}
=============================================================================
