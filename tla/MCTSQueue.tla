----------------------------- MODULE MCTSQueue -----------------------------
(* Small instances of TSQueue for TLC; the cfg files choose the threads,   *)
(* the blocking modes and the size.                                        *)
EXTENDS TSQueue, TLC

CONSTANTS e1, e2, r1, r2

OnlyNonBlocking == {FALSE}
OnlyBlocking    == {TRUE}
AnyMode         == {TRUE, FALSE}

(* Elements and removers are interchangeable in the safety runs.           *)
Symmetry == Permutations(Element) \cup Permutations(Removers)
=============================================================================
