----------------------------- MODULE PacketStats -----------------------------
(***************************************************************************)
(* What callers of rf24Stats.c may rely on: bytes are counted, sampled and *)
(* reported at single instants.                                            *)
(***************************************************************************)
EXTENDS Naturals

CONSTANTS
  Callers,     \* the threads that count and ask
  MaxBytes,    \* the largest count: uint8_t in the program
  Interval     \* seconds between two samples

IO == {"TX", "RX"}

VARIABLES
  stats,     \* bytes since the last sample, rates, and totals
  counted,   \* what callers have counted, the measure of both
  answer     \* what each caller was told last

pvars == <<stats, counted, answer>>

NoStats == [bytes |-> [io \in IO |-> 0], rate |-> [io \in IO |-> 0],
            total |-> [io \in IO |-> 0]]

Init == stats = NoStats /\ counted = [io \in IO |-> 0]
        /\ answer = [t \in Callers |-> NoStats]

Count(io, n) ==
  /\ stats' = [stats EXCEPT !.bytes[io] = @ + n]
  /\ counted' = [counted EXCEPT ![io] = @ + n]
  /\ UNCHANGED answer

Sample ==
  /\ stats' = [bytes |-> [io \in IO |-> 0],
               rate  |-> [io \in IO |-> stats.bytes[io] \div Interval],
               total |-> [io \in IO |-> stats.total[io] + stats.bytes[io]]]
  /\ UNCHANGED <<counted, answer>>

Ask(t) ==
  /\ answer' = [answer EXCEPT ![t] = [stats EXCEPT !.bytes = NoStats.bytes]]
  /\ UNCHANGED <<stats, counted>>

Next ==
  \/ \E io \in IO, n \in 0 .. MaxBytes : Count(io, n)
  \/ Sample
  \/ \E t \in Callers : Ask(t)

Spec == Init /\ [][Next]_pvars

(* No byte is lost between a rate and a total, or found in both.           *)
Conserved == \A io \in IO : stats.total[io] + stats.bytes[io] = counted[io]
=============================================================================
