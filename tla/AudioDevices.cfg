\* main's set-up, either step of which may fail, and the two threads' calls;
\* a failure of the speaker's ends the program.
CONSTANTS
  Microphone = Microphone
  Speaker = Speaker
  NoDevice = NoDevice

SPECIFICATION Spec

CHECK_DEADLOCK FALSE

INVARIANT
  CaptureIsRead
