# Verification of RPi24-walkie-talkie

TLA+ models of the walkie-talkie's queue, nRF24L01 driver, example programs and
audio ring, checked
with TLC and, where it matters most, proved with TLAPS. Source references are
`file:line` in the repository's `src/`.

## The system

| part | state | operations | talks to |
|---|---|---|---|
| bounded ring (`queue.c`) | array, `in`, `out`, `count`, `size` | create, add, remove, count, size, destroy | used under the mutex of `tsqueue.c` |
| thread-safe queue (`tsqueue.c`) | the ring, one mutex, one condition variable | add and remove (blocking or not), count | interrupt thread adds, application removes |
| interrupt thread (`rf24.c:798-867`) | a file descriptor, the flags it peeked, the packet it read | sleeps in `poll()`; peeks STATUS; empties the RX FIFO into the queue; clears RX_DR and TX_DS | chip over SPI, CE pin, queue, statistics |
| application calls (`rf24.c:277-659`) | `listening`, `packets`, addresses | init, reset, start/stop listening, send, write, recv, power up/down | the same chip, the same CE pin, the queue |
| configuration (`rf24.c:306-505`, `661-730`) | registers, `payload_len`, `dyn_payloads_set`, `pipe0_status` | setters and getters of address, channel, power, rate, CRC, retries, auto ack | chip over SPI |
| SPI, GPIO, clock (`spi.c`, `gpio.c`, `compatibility.c`) | a mutex, sysfs files, a shared start time | one transaction, one pin write, edge set-up, delays | chip and kernel |
| statistics (`rf24Stats.c`) | byte counts, rates and totals behind a mutex | increment, retrieve, monitor thread | send path, interrupt thread |
| microphone and speaker threads (`button_test.c:54-190`, `microphone.c`) | `fm_ctr_in`, `fm_ctr_out`, two arrays in one struct, locals | blocking read of a period; copy, collect and play | each other, without a lock; ALSA |
| push-to-talk button (`button_test.c:33-51`) | none | interrupt routine with a busy-wait debounce | wiringPi |
| example programs (`sender.c`, `receiver.c`) | what is left of their script, counts of passed and failed tests | initialise, test suite, reset, set-up; then write once, or read and receive in a loop | the functions above |
| ALSA devices (`microphone.c`, `speaker.c`) | one global `handle` | open, configure, read, write | both audio threads; ALSA |

What is hard in it: two threads and a chip that changes state by itself share the
chip and the CE pin, and only single SPI transactions are atomic; the interrupt
line is edge-triggered for the program and level-driven by three flags; adders and
removers share one condition variable; and the audio counters are shared without
any lock, with a reset that races an increment. Nothing is persisted, but the chip
keeps its state when the program restarts.

What makes each part correct:

- queue: every call is one atomic call on a bounded FIFO; nobody sleeps beside a
  queued packet; threads do not all fall asleep;
- receive path: no packet twice, and those that come through the queue, or from the
  application's own reads, in the order they arrived; each packet that never arrived has
  a call that emptied the FIFO; after each burst the next packet will raise an edge; no
  packet is left behind; the thread returns to `poll()`;
- transmit path: `listening` tells the truth; `rf24_write` returns, and returns
  whether the payload was delivered; stopping stops;
- configuration: each setter changes its own field and getters return it; chip and driver
  agree on the address width and on the bytes of addresses that were asked for;
- SPI and statistics: a transaction's bytes are not mixed with another thread's; no
  byte is counted twice or lost between rate and total; calls return;
- example programs: the test suite tells the chip's model whatever it finds in the
  registers; sender and receiver end with the same settings (not the same payload
  length: see the end of this file);
- audio ring: no access outside the buffers, the consumer never overtakes the
  producer, what is played is what was captured, in order, once.

## Modules

| module | models | how |
|---|---|---|
| `PacketFifo` | what callers of `tsqueue.c` may rely on | abstract: calls on a bounded FIFO that take effect at one instant |
| `Queue` | `queue.c` | each function is an operator from the record before to the record after |
| `TSQueue` | `tsqueue.c` | each thread is at lock, check, wait or unlock; one action per mutex or condition-variable operation; spurious wakeups included; implements `PacketFifo` |
| `Radio` | both driver threads and the chip | see below |
| `PacketStats` | what callers of `rf24Stats.c` may rely on | abstract: bytes are counted, sampled and reported at single instants |
| `DriverLocks` | `spi.c`, `rf24Stats.c` and the start of the threads in `rf24_init_radio` | one action per access under either mutex; implements `PacketStats` |
| `AudioRing` | microphone and speaker threads | one action per load or store of a shared counter; both arrays lie in one address space `mem`, so that running past one lands in the other |
| `AudioDevices` | the two ALSA devices and their handle | one action per function of `microphone.c` and `speaker.c` that is called |
| `RadioConfig` | configuration functions of `rf24.c` | see below |
| `Programs` | `sender.c` and `receiver.c` on top of `RadioConfig` | each program is the sequence of its calls; a third program calls anything |
| `QueueProofs`, `TSQueueProofs`, `AudioProofs`, `RadioConfigProofs`, `DriverLocksProofs`, `ProgramsProofs`, `RadioProofs` | | lemmas and theorems |
| `MCTSQueue`, `MCRadio`, `MCAudioRing`, `MCPrograms`, `MCDriverLocks` | | instances for TLC |

**Radio.** The record `chip` is the nRF24L01: CE, two bits of CONFIG, interrupt
flags, FIFOs, and whether a falling edge of IRQ is unreported. `app` is the
application's thread: a function of `rf24.h` is the sequence of its steps, one per
SPI transaction or write of CE (`rf24_startListening` is "config_rx, clear_flags,
ce_high, listening"), and `todo` is what is left of the current call. `isr` is the
interrupt thread, one action per transaction of `process_radio_interrupt`,
`retrieve_packets` and `read_payload`. The chip may receive, start, finish or fail
a transmission between any two steps. It is external: its rules (IRQ low while any
flag is set, nothing sent while MAX_RT is set, a transmission outlives the CE
pulse that started it) are those the driver is written for. The queue between the
threads is an atomic FIFO, which is what `TSQueue` is proved to implement. The
application's functions are atomic to each other, since one thread calls them, and
that thread alone writes CONFIG. The chip starts in any state an earlier run of
the program may have left. A send is modelled from `transmit_payload`; addresses
and the contents of payloads do not change what the properties see. `Junk` is what
the chip returns when its FIFO is empty. `direct_test` is the loop of `receiver.c`
(`receiver.c:113-118`), which tests and reads the chip's FIFO itself, with
`read_payload`, while the interrupt thread may be doing the same; what it reads it
prints at once. So packets reach the application on two ways, and `delivered` keeps
them apart: `delivered.queue` is what `rf24_recv` returned, `delivered.fifo` what the
application read itself. Two counters are the model's own: `isr.phantoms`, the
interrupt thread's reads of an empty FIFO, and `app.emptying`, the calls that empty the
FIFO (`stopListening`, `resetcfg`, `direct_test`).

**DriverLocks.** That a transaction is one step of `Radio` is what this module
shows: `spi_enable`, one `spi_transfer` per byte and `spi_disable` by either thread,
with `frame` recording whose bytes the chip has seen. Beside it, three threads use
the counters of `rf24Stats.c`: the application counts what it sends and may ask, the
interrupt thread counts what it receives, the monitor samples. An increment is a load
and a store, a sample three groups of assignments. The mutexes start as `Garbage` and
the threads as "unborn", because `rf24_init_radio` creates them one after the other.
`calls` bounds the calls. A packet shorter than an address is counted as its length
less five in a `uint8_t`, about 250 (`rf24.c:821`).

**Programs.** `sender` and `receiver` are the calls of the two programs' `setup` and
`main`, in their order, with arguments; `run_test_suite` is the test suite both
begin with, where `Verdict` compares the getter's answer as their `assert` does. A
step performs the next call, with `RadioConfig`'s action for it. "any" is the program
that calls any function of `rf24.h` at any time: `RadioConfig` itself.

**RadioConfig.** One action per function: only the application's thread calls them
and the interrupt thread touches none of these registers, so nothing can come
between their transactions. `reg` holds the registers as sets of bits, `drv` the
driver's global variables (`payload_len`, `dyn_payloads_set`, `p_variant`,
`transmit_address`, `pipe0_address`, ...), and `asked` what the application asked
for last, which the code does not keep and the properties compare with. Operators
with the functions' names are the read-modify-writes. The chip is of either kind:
an nRF24L01 accepts no 250 kbit/s and no FEATURE until unlocked. It starts with what
an earlier run of the program left in it, with pipes 0 and 1 open as they are from
power-on. An address is five bytes. `memcpy`, `memcmp` and the transactions move as
many of them as the driver's width of the time (`rf24.c:323-349`, `538`, `600`), and of
the addresses of pipes 2 to 5 the last one only; `Copy` and `Same` do that, and what was
asked for is kept with its width, so that the properties claim the bytes that were asked
for and no more. No byte of an address is zero: the driver's copy starts as zeros, a
zero byte agrees with a byte never written, and `rf24_send` (`rf24.c:600`) would take
it as sent. CONFIG is one register, with the CRC bits, PWR_UP and PRIM_RX, so that the
mode and the CRC length could disturb each other. `RF24_ERROR` makes
`rf24_setDataRate` return before it writes (`rf24.c:373`); `RF24_PA_ERROR` sets the
same bits as `RF24_PA_MAX`. Flags, FIFOs and CE are `Radio`'s part of the same
functions.

**AudioRing.** A sample is the number of its capture. The program is compiled
without optimisation (`Makefile:64`), so each access to a counter in the source is
one access in the program. `readi` may return a whole period, a part of one or an
error, as `microphone.c:91-103` passes them on. The speaker thread's initialisation loop
(`button_test.c:97-100`) runs past its array: of what it overwrites the model has the
two counters, and leaves out what lies behind the struct. No property speaks of a thread
that starts before that loop is over.

**AudioDevices.** What a compiler makes of two headers that both define `handle`
decides what the program is. The model is of the one that common symbols give (gcc
before version 10, the default of the systems of the repository's date): one variable.
`AudioRing` asks what the threads do with what reads return, and so supposes that the
microphone can be read; `AudioDevices` is about whether it is.

## Runs

| run | question | result |
|---|---|---|
| `queue_driver` | one non-blocking adder and two receivers, as in the driver: is every call one atomic FIFO call, can a receiver sleep on beside a packet? | holds: `ImplementsFifo`, `NoLostWakeup`, `NoRemoverStuck` |
| `queue_blocking` | blocking calls on both ends: can the shared condition variable put everybody to sleep? | holds for up to `2 * QSize` threads: `NotAllAsleep` |
| `audio_ring` | what does the unlocked ring still guarantee? | holds: the copy stays in its buffer with every outcome of the reads (`CopyInBounds`); with whole reads no overtaking, no access behind the ring, no junk played, and the backlog drains |
| `audio_replay` | is audio played in order and once? | violated: a period is played twice |
| `radio_receive` | an application that receives: is the interrupt armed whenever its thread sleeps, do packets reach the application once, and in order on each of the two ways, what explains a packet that never arrived? | holds: `IrqArmed`, `InOrder`, `PhantomsExplained`, `IsrReturns` |
| `radio_duplex` | sending while listening, writing, malloc failures: does the radio go back to listening, is the queue there before it is used, does write return? | holds: `ListeningIsReal`, `QueueReady`, `WriteReturns` |
| `radio_stranded` | is RX_DR cleared only when no payload is left (`rf24.c:823`)? | violated: a packet is stranded |
| `radio_stop` | does stopListening stop (`rf24.h:83`)? | violated: the radio goes on receiving |
| `radio_write` | does write return whether the payload was delivered (`rf24.h:105`)? | violated: FALSE for a delivered payload |
| `radio_config` | `sender.c`, `receiver.c`, and any configuration calls in any order: do settings leave each other alone, do the driver's copies agree with the chip at every width, is the test suite right, do sender and receiver end with the same settings? | holds: `SettingsKept`, `VariantKnown`, `SentWhereAsked`, `FeatureIsOn`, `OpenPipesKept`, `SuiteVerdict`, `SameSettings`, `WidthsCurrent` |
| `driver_locks` | application, interrupt thread and monitor under two mutexes: are transactions whole, are counters atomic, does every call return? | holds: `TransactionWhole`, `CreatedBeforeUse`, `Conserved`, `HolderRuns`, `ImplementsStats`, `CallsReturn`, `EveryByteReported` |
| `audio_devices` | are the microphone's reads made on the microphone (`microphone.c:90`)? | violated: on the speaker, which was opened last |

### Bounds

- Queue: size 2, two element values, three or four threads. Two slots make full,
  empty and neither distinct and let the indexes wrap; `2 * QSize` threads is where
  the condition variable is tightest. The proofs remove these bounds.
- Audio: periods of 2 samples, 16-period buffer cut to 2, a ring of 2 or 4 periods,
  4 reads. That wraps the ring, resets the counters, laps the speaker thread and
  fills the playback buffer. `UINT` (2^32 in the program) is a multiple of the ring
  larger than all counts, so that wrapping of unsigned sums is modelled.
- Radio: up to 3 packets, `MaxOps` calls after initialisation (4 in `radio_receive`,
  3 in `radio_duplex`), a queue of 1. Three packets overflow the queue and strand,
  drop or flush packets in every place; four calls start, stop, and start again with
  one to spare. FIFOs of 2 and 3 (the chip's depth) fill up.

- Configuration: pipes 0, 1 and 2 (2 stands for those with an address of one byte), the
  addresses of the two programs and one that differs from the sender's in its last byte,
  widths 3 to 5, payload sizes 5, 10 and 40 (over the limit of 32), channels 60 and 200
  (over the limit of 127). The scripts of both programs run to their ends; the free
  program makes `FreeCalls` = 5 calls, initialisation and four more: a width, an address
  set or opened at it, another width, and a call that sends or listens. `MaxCalls` = 30 is
  more than a script has. The run starts from some of the registers that `Init` allows
  (`MCInit`): a chip just powered on, or one that an earlier run has used, with any
  features. The theorems are of all of `Init` and remove the bounds.
- Locks: three calls between application and interrupt thread, transactions of one and
  two bytes, packets of 4 and 9 bytes and one length to send, while the monitor runs
  for ever. Two calls meet at each mutex with a third to come after; the theorems
  remove the bounds.

All runs bound the calls or the reads, so the program may stop; runs with such a
bound do not check for deadlock. The queue runs do.

### Fairness

Weak fairness for each thread's own work: the kernel runs it. Strong fairness for
`Lock`, since the mutex is released again and again and a thread that competes for
it gets it in the end; no caller has to call. For the locks, the same: strong
fairness for taking either mutex, weak for the steps in between, for the end of the
monitor's sleep and for `rf24_init_radio`, which nothing can stop. For the radio no fairness is assumed
of the chip or of the air: packets and acknowledgements may never come, which is
what the timeout of `rf24_write` is for. That timeout may fire at any time in the
model: its 500 ms are not related to the duration of other steps. For the audio
threads the microphone need not deliver.

## Proofs

`TSQueueProofs` proves, for all threads, elements and queue sizes:

- `TypeCorrect`, `RingCorrect`, `MutexCorrect` from the inductive invariant
  `IInv == TypeOK /\ RingInv /\ MutexOK`. `RingInv` (the write index is `count`
  slots after the read index, and the slots between hold added elements) is not
  inductive without the other two: a step of `q_add` keeps it only because the
  element of the call is a real one, which is `MutexOK`'s part, and the types bound
  the modular arithmetic.
- `QueueIsFifo`: every step maps to a step of `PacketFifo` or a stutter, under
  `fifo <- Contents(q)`. The argument is in `QueueProofs`: `AddOK` and `RemoveOK`
  say that `q_add` appends to and `q_remove` takes the head of the contents, from
  lemmas on slots modulo the size (`SlotNext`, `SlotShift`, `SlotsDiffer`).
- `NoWakeupLost`: if adders never block (`AddModes \subseteq {FALSE}`), then while
  a remover sleeps, at least as many removers are awake and on their way as
  elements are queued. The invariant is inductive with `IInv`: each successful add
  signals one sleeper, and each remove takes one element and one awake remover.
- `SomebodyAwake`: blocking adders and removers never all sleep on the condition
  variable they share, for any number of slots. Its assumption `FewThreads` says that
  there are adders and removers, that nobody is both, and that there are at most
  `2 * QSize` threads; with five threads and two slots TLC finds all asleep, so the
  bound is where it has to be. (The driver has 15 slots.) That not all sleep is far
  from inductive. `AsleepInv` counts sleepers on each side against what they could
  take: `Served` says of one side that while all of it sleeps, the sleepers of the other
  side and the stock are together fewer than the slots, and that while some of it is awake, `QSize` or more sleepers
  of the other side leave room in the count. It holds of removers with
  the elements as stock and of adders with the free slots; each signal, whoever it
  wakes, keeps both.
- `NoDeadlock`: under the same assumption some thread is always awake and not blocked
  at the mutex, since the mutex's owner is never asleep (`MutexOK`).
- `DriverNeverDeadlocks`: the same for any number of threads if adders never block and
  one of them only adds, as the interrupt thread does.

`AudioProofs` proves, for every ring, period and number of reads:

- `TypeCorrect`;
- `CopyStaysInBounds`, whatever the reads return: by `CopyInv`, which says that
  during the copy what is in the buffer and what is left to copy make up the size
  that was allocated; the microphone thread touches none of the three;
- `CountersInOrder`, by `CounterInv`, which follows the two counters, the copy
  `steady` and the sum the microphone thread is about to store through the reset;
- `MicStaysInRing`, by `WholeInv`: with whole reads both counters, the index and the sum
  about to be stored are multiples of the period, and what has been copied and what is
  left to copy make up one period; the ring is a multiple of it, so that a masked index
  leaves room for a period;
- `OnlySamplesPlayed`, by `FilledInv`: which of the two arrays each thread has written
  at each place, and that nothing is taken from the ring before something was captured,
  so that neither the copy nor what it is played from holds uninitialised memory.

`RadioConfigProofs` proves every property of the run `radio_config` for any pipes,
addresses, sizes and number of calls: `TypeCorrect`, `SettingsStay`,
`VariantIsKnown`, `PacketsGoWhereAsked`, `FeatureStaysOn`, `PipesStayOpen`. Lemmas
say what each function does to the registers (`LevelEffect`, `RateEffect`,
`TryEffect`, ...); the invariant `IInv` adds to the properties what they need to be
inductive: which bits stand in the shared registers (`FieldsInv`; the getters only
decode them), that the chip's address width is the driver's and a legal one
(`WidthInv`), that each byte of the driver's copy of the transmit address was never
written or is the chip's (`CopyInv`: so an address without zero bytes that agrees with
the copy, at any width, agrees with the register), that the variant is never claimed wrongly (`VariantInv`), and that
features are set only in a chip where FEATURE can be written (`FeatureInv`, without
which a second unlocking could turn them off).

`DriverLocksProofs` proves every safety property of the run `driver_locks`, and the
refinement, for any transaction sizes, packet lengths and number of calls:
`TransactionsAreWhole`, `NothingUsedBeforeItExists`, `BytesConserved`,
`LocksNeverDeadlock`, `CountersAreAtomic`. The invariant says, for each place a thread can be in, which mutex
it holds (`LockInv`), what it has sent (`FrameInv`) and what it has done to the counters
since it took theirs (`SectionInv`); nobody is at a mutex that does not exist
(`CreatedInv`); and bytes in and out of the totals are those counted, as they stood when
the mutex was last taken (`CountedInv`). That a thread which waits for a mutex waits for
a free one or for a thread that runs (`HolderRuns`) follows from `LockInv` and
`CreatedInv`: the holder is between lock and unlock, where nothing waits. The abstract counters are `begun` while the
mutex is held and the real ones otherwise, so that an unlock is the one visible step.

`ProgramsProofs` proves that whatever the programs do is a behaviour of `RadioConfig`
(`ProgramsAreCalls`), so that its theorems hold of them (`ProgramsKeepSettings`,
`ProgramsSendWhereAsked`), and that the test suite's verdict is right for every state
the chip may be found in (`SuiteTellsTheModel`): a test fails only if it asks a chip for
a rate it does not have, since the setters leave each other's bits alone, and both
scripts ask for that rate in their first test.

Two more theorems hold of the scripts and of no other sequence of calls. `SettingsAgree`:
whatever their chips started with, `sender.c` and `receiver.c` end with the same rate,
CRC, address width, channel and address, and with no acknowledgements and no dynamic
payloads; that they can talk does not follow, since their payload lengths differ.
`ReceiverWidths`: the pipes of a listening receiver have the payload
size it set. Their invariant `ScriptInv` says that what is left of a script is its tail
from the number of calls made (`Left`), and which registers and variables hold what from
each call on (`AfterReset`, `SenderSet`, `ReceiverSet`), so that a call has to be shown to
establish its setting and every later one to leave it alone. The lemma `Scripts` lists
both scripts call by call; `NextCall` makes the step from one tail to the next.

`RadioProofs` proves every safety property that the runs `radio_receive` and
`radio_duplex` check, for any number of calls and packets, any FIFO depth and queue
size. Four hold whatever the application calls:

- `TypeCorrect`, where the types of payload numbers rest on `WriteInv`: a call writes at
  most one payload, so that fewer have been written than calls begun while one is left;
- `QueueIsReady`, from `BootInv`: `rf24_init_radio` creates the interrupt thread before
  the queue, and what saves it is that CE is low and no flag is up from the call's first
  steps on, so that a thread that wakes finds nothing to retrieve; the invariant says what
  holds at each step that is left of the call;
- `PacketsInOrder`, from `OrderInv`: what came through the queue, the queue, the packet in
  the interrupt thread's hand and the RX FIFO are, one after the other, an increasing
  sequence, and so are what the application read itself and the RX FIFO; each step moves
  a head to the next tail or drops it, and no packet is on both ways. Between the two
  ways there is no order to prove;
- `PhantomsAreExplained`: the interrupt thread reads an empty FIFO at most as often as
  calls have emptied it. `PhantomInv` adds one for a thread that has tested and not yet
  read (`Window`, when the FIFO is empty) and one for a call that has begun and not yet
  emptied (`Pending`), so that no call pays for two. That listening again and the thread's
  own flush open no window is part of it.

The others need a condition on the calls, which each theorem states and which the
instance of its run fulfils:

- `SleepsArmed`, for an application that sends nothing and memory that does not run out
  (`ReceiveOnly`), since MAX_RT and TX_DS would be cleared by nobody else: `ArmedInv`
  says that the TX FIFO is empty and RX_DR the only flag, and that when the thread is in
  `poll()` or at its last step before it there is no flag, or an edge that it will see;
- `ReallyListens`, if it does not stop listening or power down (`StaysOn`): `ListenInv`
  says that whatever turned CE, PRIM_RX or power off has its counterpart still to come, in
  `todo` or at the interrupt thread's `enable_radio`. `rf24_stopListening` is excluded
  because the run `radio_stop` shows what it does.

The assumptions are the named `ASSUME`s of the modules (sizes positive, the ring a
multiple of the period, model values distinct from data), which TLC evaluates in
every run.

Every invariant and action property of the passing runs, and both refinements, are thus
proved. Only model-checked: liveness (`NoRemoverStuck`, `BacklogDrained`, `IsrReturns`,
`WriteReturns`, `CallsReturn`, `EveryByteReported`), since the proof system does not
reason about fairness and ENABLED. `NoDeadlock` and `HolderRuns` are its safety part: in
no state of the queue or of the two mutexes are all who could go on waiting. No proved
module uses RECURSIVE operators, and no theorem needs induction over data.

## What is not modelled

- The button's interrupt routine (`button_test.c:33-51`): it waits, reads the pin and
  prints; it changes no state of the program.
- `rf24_setRetries`: its register is read by nothing, and its expression
  (`rf24.c:438`) shifts by the masks of `nRF24L01.h:110,119` instead of bit positions.
  `rf24_printDetails`, `rf24_writeAckPayload`, `rf24_available`, `test_crc_length`,
  which only read, or have no caller.
- `tsq_destroy`, `q_destroy`, `stats_destroy`, `spi_close`, `close_speaker`,
  `gpio_close`: nothing calls them. Failure of `malloc` and `calloc` when queue,
  counters and SPI state are created.
- `pingtest.c` does not link: it calls `reverse_address`, which `rf24.c:294-304` compiles
  out. `qtest.c` and `tsqtest.c` demonstrate the queue from one thread.
- Contents of payloads and ack payloads; the read of up to 32 bytes through a buffer of
  10 (`rf24.c:130`), which is undefined behaviour of one call.
- Errors of `poll()` and `read()` that end the interrupt thread; failure to open
  sysfs files.
- Transactions of `setDefaults` before the other threads exist are not in
  `DriverLocks`: nobody competes with them. `spi_init` unlocks a mutex that it has not
  initialised yet (`spi.c:45-46`), which is undefined; the model has it without effect.
- The nanoseconds that the monitor passes to `nanosleep` are never set
  (`rf24Stats.c:50,59`), so that its sleep may end at once: its length is not modelled.
  Counters are unbounded in the model: a `uint32_t` does not overflow in one second at
  the rates of the chip.
- The chunks of 32 samples in which `to_speaker` is filled: the model moves periods.
- ALSA and SPI hardware parameters, printing, formatting: pure I/O. `spidev_test.c` is a
  vendored tool.

Seen while modelling, in the models as in the code, and stated by no run:

- `rf24.c:487` says "to match dyn_payloads_set setting", but nothing ever sets that
  variable to FALSE: after `rf24_enableDynamicPayloads` and `rf24_resetcfg` the chip has
  dynamic payloads off and the driver believes them on.
- `rf24_enableAckPayload` after `rf24_enableDynamicPayloads` leaves ack payloads off
  (`rf24.c:680`).
- `rf24_setAutoAckOnPipe(p, FALSE)` keeps pipe `p`'s bit and clears the others
  (`rf24.c:718`).
- `sender.c` opens its pipe before it sets the payload size, so that the pipe's width is
  0 or the last run's; it sends 10 bytes (`sender.c:127-132`) to a receiver whose pipes are
  5 wide (`receiver.c:103`), and a chip with fixed lengths does not take such a packet.
- What `receiver.c:113-118` reads itself it may print before an older packet that the
  interrupt thread holds or has queued.
- A width that grows after `rf24_setTXAddress` or after a pipe was opened takes in bytes of
  an older address: initialisation, width 3, `rf24_setTXAddress`, width 5 leaves two stale
  bytes in the chip (`rf24.c:324-325`).
- `rf24_startListening`, also at the end of each send while listening, clears RX_DR with
  packets in the FIFO (`rf24.c:535`): a second way to the state that `radio_stranded` shows.
- When `malloc` fails `retrieve_packets` returns with RX_DR set (`rf24.c:817`), and no edge
  follows; `IrqArmed` is claimed for memory that does not run out.
- MAX_RT is cleared by the application alone (`rf24.c:831`), so that after one failed
  transmission nothing is sent; `rf24_write` returns all the same, by its timeout.
- The speaker thread may reset counters between the two accesses of the microphone's
  increment (`button_test.c:178`), and a period may be forgotten that way.

## What is left

- `Radio`: a receive run with malloc failures and one with fixed lengths.
- For the radio, the safety part of `IsrReturns` and `WriteReturns`, as `NoDeadlock` is for
  the queue.
- Ack payloads and lengths of payloads, composed with the width of pipes.
