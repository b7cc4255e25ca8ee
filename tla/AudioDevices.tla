---------------------------- MODULE AudioDevices ----------------------------
(***************************************************************************)
(* microphone.c and speaker.c: opening, reading and writing the two ALSA   *)
(* devices of button_test.c.  Both headers declare `snd_pcm_t* handle',    *)
(* without extern and without an initialiser, and button_test.c includes   *)
(* both: a compiler that has them share one common symbol, as gcc did by   *)
(* default before version 10, builds a program with one handle; later ones *)
(* refuse to link it (Makefile:63-65).  AudioRing models what the threads  *)
(* do with what a read returns.                                            *)
(***************************************************************************)
EXTENDS Naturals

CONSTANTS
  Microphone, Speaker,  \* the devices
  NoDevice              \* a handle never set

Devices == {Microphone, Speaker}

VARIABLES
  handle,  \* the device snd_pcm_open has stored last
  pcm,     \* the state of each device
  main,    \* where main is: it stays in "poll" while the threads run
  rc,      \* what the last ALSA call of each thread returned
  read     \* the device the microphone thread has read from last

vars == <<handle, pcm, main, rc, read>>

Init ==
  /\ handle = NoDevice /\ read = NoDevice
  /\ pcm = [d \in Devices |-> "CLOSED"]
  /\ main = "microphone"
  /\ rc = [d \in Devices |-> "frames"]

(* Failures are printed; main goes on without a microphone.                *)
initialize_microphone ==
  /\ main = "microphone" /\ main' = "speaker"
  /\ \/ UNCHANGED <<handle, pcm>>
     \/ \E state \in {"OPEN", "PREPARED"} :
          handle' = Microphone /\ pcm' = [pcm EXCEPT ![Microphone] = state]
  /\ UNCHANGED <<rc, read>>

(* Failures end the program.  The device is started with nothing to play.  *)
initialize_speaker ==
  /\ main = "speaker"
  /\ \/ main' = "exited" /\ UNCHANGED <<handle, pcm>>
     \/ \E state \in {"PREPARED", "RUNNING", "XRUN"} :
          /\ main' = "poll" /\ handle' = Speaker
          /\ pcm' = [pcm EXCEPT ![Speaker] = state]
  /\ UNCHANGED <<rc, read>>

Prepared(d) == pcm[d] \in {"PREPARED", "RUNNING"}

(* A device that plays cannot be read.  An error, an overrun too, is       *)
(* printed and returned, and nothing is done about it.                     *)
read_microphone ==
  /\ main = "poll"
  /\ read' = handle
  /\ \E got \in IF handle = Microphone /\ Prepared(handle) THEN {"frames", "EPIPE"} ELSE {"error"} :
       rc' = [rc EXCEPT ![Microphone] = got]
  /\ UNCHANGED <<handle, pcm, main>>

(* After an underrun the device is prepared again; the data are not        *)
(* written again.                                                          *)
write_speaker ==
  /\ main = "poll"
  /\ \E done \in IF Prepared(handle) THEN {"frames", "short", "EPIPE"} ELSE {"EPIPE"} :
       /\ rc' = [rc EXCEPT ![Speaker] = done]
       /\ pcm' = [pcm EXCEPT ![handle] = IF done = "EPIPE" THEN "PREPARED" ELSE "RUNNING"]
  /\ UNCHANGED <<handle, main, read>>

Next ==
  initialize_microphone \/ initialize_speaker \/ read_microphone \/ write_speaker

Spec == Init /\ [][Next]_vars
-----------------------------------------------------------------------------
(* microphone.c:90 says of read_microphone "Read bytes from the microphone *)
(* (interleaved samples)": with a microphone that opened without an error, *)
(* that is where it reads.                                                 *)
CaptureIsRead == read # NoDevice /\ Prepared(Microphone) => read = Microphone
=============================================================================
