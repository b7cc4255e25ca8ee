----------------------------- MODULE AudioRing -----------------------------
(***************************************************************************)
(* button_test.c: the microphone thread fills the ring from_microphone,    *)
(* the speaker thread takes samples out of it, collects them in to_speaker *)
(* and hands full buffers to ALSA.  No lock protects the two counters.     *)
(*                                                                         *)
(* The program is built without optimisation (Makefile:64), so each access *)
(* to a shared counter is one load or store and `ctr_in += frames' is a    *)
(* load and a later store.  The two arrays are neighbours in one struct:   *)
(* mem is that piece of memory, and what runs past the end of an array     *)
(* lands in its neighbour.                                                 *)
(*                                                                         *)
(* A sample is the number of its capture, 0 is silence, and Junk is        *)
(* memory that nobody has written.                                         *)
(***************************************************************************)
EXTENDS Integers, Sequences

CONSTANTS
  PERIOD,        \* PERIOD_SIZE, and the literal 32 of the speaker thread
  BUF_SIZE,      \* samples in from_microphone
  CHUNKS,        \* periods in to_speaker, 16
  UINT,          \* 2^32, the values of a uint32_t
  ReadOutcomes,  \* what snd_pcm_readi may return: frames read, or an error
  MaxReads,      \* bound: how often the microphone is read
  Junk

ASSUME AudioAssumption ==
  /\ PERIOD \in Nat \ {0}
  /\ CHUNKS \in Nat \ {0}
  /\ BUF_SIZE \in Nat /\ BUF_SIZE >= PERIOD /\ BUF_SIZE % PERIOD = 0
  /\ MaxReads \in Nat
  /\ UINT \in Nat /\ UINT % BUF_SIZE = 0
  /\ UINT > BUF_SIZE /\ UINT > PERIOD * MaxReads
  /\ ReadOutcomes \subseteq -(UINT - 1) .. PERIOD
  /\ Junk \notin Nat

SPKR_BUF_SIZE == PERIOD * CHUNKS

Samples == 0 .. PERIOD * MaxReads

FromMicrophone == 0 .. BUF_SIZE - 1
ToSpeaker      == BUF_SIZE .. BUF_SIZE + SPKR_BUF_SIZE - 1

VARIABLES
  mem,       \* from_microphone followed by to_speaker
  ctr_in,    \* fm_ctr_in: samples put into the ring
  ctr_out,   \* fm_ctr_out: samples taken out
  mic,       \* where the microphone thread is
  index,     \* its local index, where the next period goes
  frames,    \* what its last read returned, later the sum it will store
  spk,       \* where the speaker thread is
  steady,    \* its copy of ctr_in, steady_ctr_in
  transfer,  \* the size of the buffer it allocated, transfer_frames
  buffer,    \* what it has copied into that buffer
  chunks,    \* speaker_buffer_counter
  played,    \* the last buffer handed to snd_pcm_writei
  reads,     \* reads of the microphone so far
  captured   \* samples captured so far

micVars == <<mic, index, frames, reads, captured>>
spkVars == <<spk, steady, transfer, buffer, chunks, played>>
vars    == <<mem, ctr_in, ctr_out, micVars, spkVars>>

(* main sets the counters before it starts the threads.                    *)
Init ==
  /\ mem = [a \in FromMicrophone \cup ToSpeaker |-> Junk]
  /\ ctr_in = 0 /\ ctr_out = 0
  /\ mic = "init" /\ index = 0 /\ frames = 0
  /\ spk = "init" /\ steady = 0 /\ transfer = 0 /\ buffer = <<>>
  /\ chunks = 0 /\ played = <<>>
  /\ reads = 0 /\ captured = 0

Silence(region) == [a \in DOMAIN mem |-> IF a \in region THEN 0 ELSE mem[a]]
-----------------------------------------------------------------------------
(* The microphone thread.                                                  *)

MicInit ==
  /\ mic = "init"
  /\ mem' = Silence(FromMicrophone)
  /\ mic' = "read"
  /\ UNCHANGED <<ctr_in, ctr_out, index, frames, reads, captured, spkVars>>

(* snd_pcm_readi delivers a whole period, a part of one, or an error.      *)
MicRead ==
  /\ mic = "read"
  /\ reads < MaxReads
  /\ \E n \in ReadOutcomes :
       /\ mem' = [a \in DOMAIN mem |->
            IF a \in index .. index + n - 1 THEN captured + 1 + a - index ELSE mem[a]]
       /\ captured' = IF n > 0 THEN captured + n ELSE captured
       /\ frames' = n
  /\ reads' = reads + 1
  /\ mic' = "load"
  /\ UNCHANGED <<ctr_in, ctr_out, index, spkVars>>

LoadWithoutWidth ==
  /\ mic = "load"
  /\ frames' = ctr_in + frames
  /\ mic' = "store"
  /\ UNCHANGED <<mem, ctr_in, ctr_out, index, reads, captured, spkVars>>

(* fm_ctr_in += frames: load and add ...                                   *)
MicLoad ==
  /\ mic = "load"
  /\ frames' = (ctr_in + frames) % UINT
  /\ mic' = "store"
  /\ UNCHANGED <<mem, ctr_in, ctr_out, index, reads, captured, spkVars>>

(* ... and store.                                                          *)
MicStore ==
  /\ mic = "store"
  /\ ctr_in' = frames
  /\ mic' = "index"
  /\ UNCHANGED <<mem, ctr_out, index, frames, reads, captured, spkVars>>

IndexOffByOne ==
  /\ mic = "index"
  /\ index' = ctr_in % (BUF_SIZE + 1)
  /\ mic' = "read"
  /\ UNCHANGED <<mem, ctr_in, ctr_out, frames, reads, captured, spkVars>>

(* The counter is read again, and the index kept while the next read waits.*)
MicIndex ==
  /\ mic = "index"
  /\ index' = ctr_in % BUF_SIZE
  /\ mic' = "read"
  /\ UNCHANGED <<mem, ctr_in, ctr_out, frames, reads, captured, spkVars>>
-----------------------------------------------------------------------------
(* The speaker thread.                                                     *)

(* The loop that clears to_speaker runs to BUF_SIZE, past the end of the   *)
(* array and over the two counters behind it.  (What it clears beyond them *)
(* belongs to the caller of the thread's parent and is not modelled.)      *)
SpkInit ==
  /\ spk = "init"
  /\ mem' = Silence(ToSpeaker)
  /\ ctr_out' = 0
  /\ spk' = "init_in"
  /\ UNCHANGED <<ctr_in, micVars, steady, transfer, buffer, chunks, played>>

SpkInitIn ==
  /\ spk = "init_in"
  /\ ctr_in' = 0
  /\ spk' = "snap"
  /\ UNCHANGED <<mem, ctr_out, micVars, steady, transfer, buffer, chunks, played>>

Backlog == (ctr_in - ctr_out) % UINT

(* What the loop body does with n samples to copy: a backlog of more than  *)
(* a period is cut to its last n.                                          *)
Take(n) ==
  /\ spk = "snap"
  /\ steady' = ctr_in
  /\ ctr_out' = IF Backlog <= PERIOD THEN ctr_out ELSE (ctr_in - n) % UINT
  /\ transfer' = IF Backlog <= PERIOD THEN Backlog ELSE n
  /\ buffer' = <<>>
  /\ spk' = "copy"
  /\ UNCHANGED <<mem, ctr_in, micVars, chunks, played>>

CatchUpTooFar == Backlog # 0 /\ Take(PERIOD - 1)

WaitForTwoPeriods == Backlog > PERIOD /\ Take(PERIOD)

(* The top of the loop: one read of ctr_in decides everything up to the    *)
(* malloc; ctr_out is only ever written by this thread.  With nothing to   *)
(* process the thread just looks again.                                    *)
SpkSnap == Backlog # 0 /\ Take(PERIOD)

Copy(limit) ==
  /\ spk = "copy"
  /\ ctr_out < limit
  /\ buffer' = Append(buffer, mem[ctr_out % BUF_SIZE])
  /\ ctr_out' = ctr_out + 1
  /\ UNCHANGED <<mem, ctr_in, micVars, spk, steady, transfer, chunks, played>>

CopyUpToLiveCounter == Copy(ctr_in)

SpkCopy == Copy(steady)

(* PERIOD samples are moved whatever the number copied: the rest of the    *)
(* malloc'ed buffer is junk.                                               *)
SpkStore ==
  /\ spk = "copy" /\ ctr_out >= steady
  /\ chunks < CHUNKS
  /\ LET base == BUF_SIZE + PERIOD * chunks
     IN  mem' = [a \in DOMAIN mem |->
           IF a \notin base .. base + PERIOD - 1 THEN mem[a]
           ELSE IF a - base < Len(buffer) THEN buffer[a - base + 1]
           ELSE Junk]
  /\ chunks' = chunks + 1
  /\ spk' = "check"
  /\ UNCHANGED <<ctr_in, ctr_out, micVars, steady, transfer, buffer, played>>

(* A full to_speaker is played; the period just copied goes nowhere.       *)
SpkWrite ==
  /\ spk = "copy" /\ ctr_out >= steady
  /\ chunks = CHUNKS
  /\ played' = [i \in 1 .. SPKR_BUF_SIZE |-> mem[BUF_SIZE + i - 1]]
  /\ chunks' = 0
  /\ spk' = "check"
  /\ UNCHANGED <<mem, ctr_in, ctr_out, micVars, steady, transfer, buffer>>

SpkBehind ==
  /\ spk = "check"
  /\ ctr_out # ctr_in
  /\ spk' = "snap"
  /\ UNCHANGED <<mem, ctr_in, ctr_out, micVars, steady, transfer, buffer, chunks, played>>

ResetOnlyIn ==
  /\ spk = "check"
  /\ ctr_out = ctr_in
  /\ spk' = "reset_in"
  /\ UNCHANGED <<mem, ctr_in, ctr_out, micVars, steady, transfer, buffer, chunks, played>>

(* Caught up: both counters go back to zero, one store each.               *)
SpkCaughtUp ==
  /\ spk = "check"
  /\ ctr_out = ctr_in
  /\ ctr_out' = 0
  /\ spk' = "reset_in"
  /\ UNCHANGED <<mem, ctr_in, micVars, steady, transfer, buffer, chunks, played>>

SpkResetIn ==
  /\ spk = "reset_in"
  /\ ctr_in' = 0
  /\ spk' = "snap"
  /\ UNCHANGED <<mem, ctr_out, micVars, steady, transfer, buffer, chunks, played>>
-----------------------------------------------------------------------------
MicWork == MicInit \/ MicLoad \/ MicStore \/ MicIndex
Speaker == \/ SpkInit \/ SpkInitIn \/ SpkSnap \/ SpkCopy \/ SpkStore \/ SpkWrite
           \/ SpkBehind \/ SpkCaughtUp \/ SpkResetIn

Next == MicWork \/ MicRead \/ Speaker

Spec == Init /\ [][Next]_vars

(* Both threads keep running; nothing says that the microphone delivers.   *)
FairSpec == Spec /\ WF_vars(MicWork) /\ WF_vars(Speaker)
-----------------------------------------------------------------------------
Uint == 0 .. UINT - 1

TypeOK ==
  /\ mem \in [FromMicrophone \cup ToSpeaker -> Samples \cup {Junk}]
  /\ ctr_in \in Uint /\ ctr_out \in Uint /\ steady \in Uint
  /\ mic \in {"init", "read", "load", "store", "index"}
  /\ index \in FromMicrophone
  /\ frames \in -(UINT - 1) .. UINT - 1
  /\ mic = "store" => frames \in Uint
  /\ spk \in {"init", "init_in", "snap", "copy", "check", "reset_in"}
  /\ transfer \in 0 .. PERIOD
  /\ buffer \in Seq(Samples \cup {Junk})
  /\ chunks \in 0 .. CHUNKS
  /\ played = <<>> \/ played \in [1 .. SPKR_BUF_SIZE -> Samples \cup {Junk}]
  /\ reads \in 0 .. MaxReads
  /\ captured \in 0 .. PERIOD * reads

(* The speaker thread never writes past the buffer it allocated, whatever  *)
(* the microphone thread does to ctr_in meanwhile and whatever the reads   *)
(* return: what the copy steady_ctr_in is for (button_test.c:111,133-151). *)
CopyInBounds == Len(buffer) <= transfer

(* As long as every read delivered a whole period.                         *)
Clean == captured = PERIOD * reads

(* The consumer's counter never passes the producer's, although the reset  *)
(* of the one races the increment of the other (button_test.c:79,180-184). *)
NeverAhead == Clean => ctr_out <= ctr_in

(* The microphone is never read into memory behind the ring, although the  *)
(* index is masked before the read and a period long (button_test.c:75,80).*)
MicInRing == Clean /\ mic = "read" => index + PERIOD <= BUF_SIZE

(* No uninitialised memory is played: the 32 samples that are moved to     *)
(* to_speaker have all been copied before (button_test.c:133,160-163).     *)
NoJunkPlayed == Clean => \A i \in DOMAIN played : played[i] # Junk

(* When the microphone pauses the speaker thread takes out what is in the  *)
(* ring and comes to rest; the race on the counters cannot leave it        *)
(* spinning on a backlog that is not there (button_test.c:119,136).        *)
BacklogDrained == (Clean /\ ctr_in # ctr_out) ~> (Clean => ctr_in = ctr_out)

(* A producer and a consumer (readme.md:44) with a ring between them: what *)
(* is played is in the order of its capture, and no sample is played twice.*)
PlayedInOrder ==
  \A i, j \in DOMAIN played :
    i < j /\ played[i] \in Nat \ {0} /\ played[j] # Junk => played[i] < played[j]
=============================================================================
