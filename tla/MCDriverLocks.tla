--------------------------- MODULE MCDriverLocks ---------------------------
(* A small instance of DriverLocks for TLC.                                *)
EXTENDS DriverLocks

OneOrTwo == {1, 2}
SentBytes == {3}
ShortAndLong == {4, 9}   \* shorter than an address, and longer
=============================================================================
