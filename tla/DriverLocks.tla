----------------------------- MODULE DriverLocks -----------------------------
(***************************************************************************)
(* The two mutexes of the driver: spi.c's, which makes an SPI transaction  *)
(* whole, and rf24Stats.c's, which keeps the byte counters.  Three threads *)
(* take them: the application's, which starts the others, the interrupt    *)
(* thread and the monitor that samples the counters.  A step is one access *)
(* to what they share; which call a thread makes next is its own choice.   *)
(***************************************************************************)
EXTENDS Naturals, Integers, Sequences

CONSTANTS
  App, Isr, Monitor,  \* the threads
  Unlocked, Garbage,  \* a mutex nobody holds, and one never initialised
  Transactions,       \* numbers of bytes of SPI transactions
  Sent,               \* numbers of bytes that rf24_send counts
  Lengths,            \* lengths of the packets that retrieve_packets counts
  Interval,           \* the argument of stats_create
  MaxCalls            \* bound: how many calls App and Isr make together

ADDR_WIDTH == 5
UINT8 == 256
Threads == {App, Isr, Monitor}
IO == {"TX", "RX"}

ASSUME LocksAssumption ==
  /\ App # Isr /\ App # Monitor /\ Isr # Monitor
  /\ {Unlocked, Garbage} \cap Threads = {} /\ Unlocked # Garbage
  /\ Transactions \subseteq Nat \ {0} /\ Sent \subseteq 0 .. UINT8 - 1
  /\ Lengths \subseteq 0 .. 32
  /\ Interval \in Nat \ {0} /\ MaxCalls \in Nat

VARIABLES
  spiLock, frame,    \* spi->lock; whose bytes the chip has seen since the last end
  statsLock, stats,  \* stats->lock and the fields it protects
  pc, arg,           \* where each thread is, and the call it is in
  local, told,       \* its loop index or loaded counter; what it was told
  calls,             \* how many calls were made
  begun, counted, answer  \* not in the code: stats when statsLock was last
                          \* taken; bytes counted; what completed calls were told

vars == <<spiLock, frame, statsLock, stats, pc, arg, local, told, calls,
          begun, counted, answer>>
spiVars == <<spiLock, frame>>
statsVars == <<statsLock, stats, begun, counted, answer>>

NoStats == [bytes |-> [io \in IO |-> 0], rate |-> [io \in IO |-> 0],
            total |-> [io \in IO |-> 0]]

Goto(t, from, to) == pc[t] = from /\ pc' = [pc EXCEPT ![t] = to]
-----------------------------------------------------------------------------
(* rf24_init_radio creates what threads share before the threads.  What    *)
(* malloc returned may look like a locked mutex, which spi_init unlocks    *)
(* before it initialises it.  A monitor started too early is what the run  *)
(* must notice.                                                            *)
MonitorTooEarly ==
  /\ pc[App] = "spi_init"
  /\ pc' = [pc EXCEPT ![App] = "stats_create", ![Monitor] = "m_lock"]
  /\ spiLock' = Unlocked
  /\ UNCHANGED <<frame, statsVars, arg, local, told, calls>>

spi_init ==
  /\ Goto(App, "spi_init", "stats_create")
  /\ spiLock' = Unlocked
  /\ UNCHANGED <<frame, statsVars, arg, local, told, calls>>

stats_create ==
  /\ Goto(App, "stats_create", "start_monitor")
  /\ statsLock' = Unlocked /\ stats' = NoStats
  /\ UNCHANGED <<spiVars, begun, counted, answer, arg, local, told, calls>>

stats_start_monitor ==
  /\ pc[App] = "start_monitor"
  /\ pc' = [pc EXCEPT ![App] = "start_isr", ![Monitor] = "m_lock"]
  /\ UNCHANGED <<spiVars, statsVars, arg, local, told, calls>>

start_isr ==
  /\ pc[App] = "start_isr"
  /\ pc' = [pc EXCEPT ![App] = "idle", ![Isr] = "idle"]
  /\ UNCHANGED <<spiVars, statsVars, arg, local, told, calls>>
-----------------------------------------------------------------------------
(* The calls.  The interrupt thread passes a packet's length without its   *)
(* address as a uint8_t.  Bugs the run must notice stand before the        *)
(* definitions they would replace.                                         *)
LengthUnwrapped(len) == len - ADDR_WIDTH

ReceivedBytes(len) == (len - ADDR_WIDTH) % UINT8

Begin(t, to, io, n) ==
  /\ calls < MaxCalls /\ calls' = calls + 1
  /\ Goto(t, "idle", to)
  /\ arg' = [arg EXCEPT ![t] = [io |-> io, n |-> n]]
  /\ local' = [local EXCEPT ![t] = 0]
  /\ UNCHANGED <<spiVars, statsVars, told>>

Call ==
  \/ \E t \in {App, Isr}, n \in Transactions : Begin(t, "spi_enable", "TX", n)
  \/ \E n \in Sent : Begin(App, "c_lock", "TX", n)
  \/ \E len \in Lengths : Begin(Isr, "c_lock", "RX", ReceivedBytes(len))
  \/ Begin(App, "a_lock", "TX", 0)

(* A transaction: the mutex, the bytes, the mutex.                         *)
EnableWithoutLock(t) ==
  /\ Goto(t, "spi_enable", "spi_transfer")
  /\ spiLock' = t
  /\ UNCHANGED <<frame, statsVars, arg, local, told, calls>>

spi_enable(t) ==
  /\ Goto(t, "spi_enable", "spi_transfer")
  /\ spiLock = Unlocked /\ spiLock' = t
  /\ UNCHANGED <<frame, statsVars, arg, local, told, calls>>

spi_transfer(t) ==
  /\ Goto(t, "spi_transfer", IF local[t] + 1 = arg[t].n THEN "spi_disable" ELSE "spi_transfer")
  /\ frame' = Append(frame, t)
  /\ local' = [local EXCEPT ![t] = @ + 1]
  /\ UNCHANGED <<spiLock, statsVars, arg, told, calls>>

spi_disable(t) ==
  /\ Goto(t, "spi_disable", "idle")
  /\ spiLock' = Unlocked /\ frame' = <<>>
  /\ UNCHANGED <<statsVars, arg, local, told, calls>>
-----------------------------------------------------------------------------
TakeStats(t) ==
  /\ statsLock' = t /\ begun' = stats
  /\ UNCHANGED <<spiVars, stats, counted, answer, arg, local, told, calls>>

LockAskNot(t) ==
  \/ statsLock = Unlocked /\ Goto(t, "c_lock", "load") /\ TakeStats(t)
  \/ statsLock = Unlocked /\ Goto(t, "m_lock", "m_rate") /\ TakeStats(t)
  \/ Goto(t, "a_lock", "take_rate") /\ TakeStats(t)

LockStats(t) ==
  /\ statsLock = Unlocked
  /\ Goto(t, "c_lock", "load") \/ Goto(t, "m_lock", "m_rate") \/ Goto(t, "a_lock", "take_rate")
  /\ TakeStats(t)

SetStats(new) ==
  stats' = new /\ UNCHANGED <<spiVars, statsLock, begun, counted, answer, arg, told, calls>>

(* stats_increment: a counter is loaded, added to and stored.              *)
CountLoad(t) ==
  /\ Goto(t, "load", "store")
  /\ local' = [local EXCEPT ![t] = stats.bytes[arg[t].io]]
  /\ UNCHANGED <<spiVars, statsVars, arg, told, calls>>

CountStore(t) ==
  /\ Goto(t, "store", "c_unlock")
  /\ SetStats([stats EXCEPT !.bytes[arg[t].io] = local[t] + arg[t].n])
  /\ UNCHANGED local

CountUnlock(t) ==
  /\ Goto(t, "c_unlock", "idle")
  /\ statsLock' = Unlocked
  /\ counted' = [counted EXCEPT ![arg[t].io] = @ + arg[t].n]
  /\ UNCHANGED <<spiVars, stats, begun, answer, arg, local, told, calls>>

(* stats_retrieve copies what it was asked for to the caller's variables.  *)
AskRate(t) ==
  /\ Goto(t, "take_rate", "take_total")
  /\ told' = [told EXCEPT ![t].rate = stats.rate]
  /\ UNCHANGED <<spiVars, statsVars, arg, local, calls>>

AskTotal(t) ==
  /\ Goto(t, "take_total", "a_unlock")
  /\ told' = [told EXCEPT ![t].total = stats.total]
  /\ UNCHANGED <<spiVars, statsVars, arg, local, calls>>

AskKeepsLock(t) ==
  /\ Goto(t, "a_unlock", "idle")
  /\ answer' = [answer EXCEPT ![t] = told[t]]
  /\ UNCHANGED <<spiVars, statsLock, stats, begun, counted, arg, local, told, calls>>

AskUnlock(t) ==
  /\ Goto(t, "a_unlock", "idle")
  /\ statsLock' = Unlocked
  /\ answer' = [answer EXCEPT ![t] = told[t]]
  /\ UNCHANGED <<spiVars, stats, begun, counted, arg, local, told, calls>>
-----------------------------------------------------------------------------
(* monitor_thread.                                                         *)
MonitorRate ==
  /\ Goto(Monitor, "m_rate", "m_total")
  /\ SetStats([stats EXCEPT !.rate = [io \in IO |-> stats.bytes[io] \div Interval]])
  /\ UNCHANGED local

TotalOverwritten ==
  /\ Goto(Monitor, "m_total", "m_clear")
  /\ SetStats([stats EXCEPT !.total = stats.bytes])
  /\ UNCHANGED local

MonitorTotal ==
  /\ Goto(Monitor, "m_total", "m_clear")
  /\ SetStats([stats EXCEPT !.total = [io \in IO |-> stats.total[io] + stats.bytes[io]]])
  /\ UNCHANGED local

MonitorClear ==
  /\ Goto(Monitor, "m_clear", "m_unlock")
  /\ SetStats([stats EXCEPT !.bytes = NoStats.bytes])
  /\ UNCHANGED local

MonitorKeepsLock ==
  /\ Goto(Monitor, "m_unlock", "m_rate")
  /\ begun' = stats
  /\ UNCHANGED <<spiVars, statsLock, stats, counted, answer, arg, local, told, calls>>

MonitorUnlock ==
  /\ Goto(Monitor, "m_unlock", "sleep")
  /\ statsLock' = Unlocked
  /\ UNCHANGED <<spiVars, stats, begun, counted, answer, arg, local, told, calls>>

(* The nanoseconds passed to nanosleep are never set: it may return early  *)
(* or at once.                                                             *)
SleepAgain ==
  /\ Goto(Monitor, "sleep", "sleep")
  /\ UNCHANGED <<spiVars, statsVars, arg, local, told, calls>>

MonitorWake ==
  /\ Goto(Monitor, "sleep", "m_lock")
  /\ UNCHANGED <<spiVars, statsVars, arg, local, told, calls>>
-----------------------------------------------------------------------------
Init ==
  /\ spiLock = Garbage /\ frame = <<>>
  /\ statsLock = Garbage /\ stats = NoStats
  /\ pc = [t \in Threads |-> IF t = App THEN "spi_init" ELSE "unborn"]
  /\ arg = [t \in Threads |-> [io |-> "TX", n |-> 0]]
  /\ local = [t \in Threads |-> 0]
  /\ told = [t \in Threads |-> NoStats]
  /\ calls = 0
  /\ begun = NoStats /\ counted = [io \in IO |-> 0]
  /\ answer = [t \in Threads |-> NoStats]

InitRadio == spi_init \/ stats_create \/ stats_start_monitor \/ start_isr

MonitorStep ==
  MonitorRate \/ MonitorTotal \/ MonitorClear \/ MonitorUnlock \/ MonitorWake

(* What a thread does once it is in a call, apart from waiting for a mutex.*)
Step(t) ==
  \/ spi_transfer(t) \/ spi_disable(t)
  \/ CountLoad(t) \/ CountStore(t) \/ CountUnlock(t)
  \/ AskRate(t) \/ AskTotal(t) \/ AskUnlock(t)

Next ==
  \/ InitRadio \/ Call \/ MonitorStep
  \/ \E t \in Threads : spi_enable(t) \/ LockStats(t) \/ Step(t)

Spec == Init /\ [][Next]_vars

(* The kernel runs the threads, the monitor's sleep ends, and a thread     *)
(* that competes for a mutex that is released again and again gets it in   *)
(* the end.  Nobody has to make a call.                                    *)
FairSpec ==
  /\ Spec /\ WF_vars(InitRadio) /\ WF_vars(MonitorStep)
  /\ \A t \in Threads :
       WF_vars(Step(t)) /\ SF_vars(spi_enable(t)) /\ SF_vars(LockStats(t))
-----------------------------------------------------------------------------
Labels == {"spi_init", "stats_create", "start_monitor", "start_isr", "unborn", "idle",
           "spi_enable", "spi_transfer", "spi_disable", "c_lock", "load", "store",
           "c_unlock", "a_lock", "take_rate", "take_total", "a_unlock", "m_lock",
           "m_rate", "m_total", "m_clear", "m_unlock", "sleep"}

StatsType == [bytes : [IO -> Nat], rate : [IO -> Nat], total : [IO -> Nat]]

TypeOK ==
  /\ spiLock \in Threads \cup {Unlocked, Garbage} /\ frame \in Seq(Threads)
  /\ statsLock \in Threads \cup {Unlocked, Garbage} /\ stats \in StatsType
  /\ pc \in [Threads -> Labels] /\ arg \in [Threads -> [io : IO, n : Nat]]
  /\ local \in [Threads -> Nat] /\ told \in [Threads -> StatsType]
  /\ calls \in 0 .. MaxCalls
  /\ begun \in StatsType /\ counted \in [IO -> Nat] /\ answer \in [Threads -> StatsType]

(* When a thread ends a transaction, the chip has seen exactly its bytes:  *)
(* all of them, and none of another thread's (spi.c:50-78).  This is why a *)
(* transaction is one step elsewhere.                                      *)
TransactionWhole ==
  \A t \in Threads : pc[t] = "spi_disable" => frame = [i \in 1 .. arg[t].n |-> t]

(* No thread gets to a mutex before rf24_init_radio has initialised it,    *)
(* nor to counters that are not there yet (rf24.c:518-523).                *)
CreatedBeforeUse ==
  \A t \in Threads :
    /\ pc[t] = "spi_enable" => spiLock # Garbage
    /\ pc[t] \in {"c_lock", "a_lock", "m_lock"} => statsLock # Garbage

(* The counters behave as if counting, sampling and asking each happened   *)
(* at one instant, that of the unlock: nobody is told a rate of one sample *)
(* and a total of another (rf24Stats.c:28-64).                             *)
Counters == INSTANCE PacketStats
  WITH Callers <- Threads, MaxBytes <- UINT8 - 1,
       stats <- IF statsLock \in Threads THEN begun ELSE stats

ImplementsStats == Counters!Spec

(* Whenever nobody is inside the counters, every byte counted so far is in *)
(* a total or waits for the next sample, and not both (rf24Stats.c:48-64). *)
Conserved ==
  statsLock \notin Threads => \A io \in IO : stats.total[io] + stats.bytes[io] = counted[io]

(* Nobody waits for a mutex that is never given back: what a thread waits  *)
(* for is free, or its holder is inside the section that it protects and   *)
(* waits for nothing itself (spi.c:50-78, rf24Stats.c:28-64).              *)
Waits(t) == pc[t] \in {"spi_enable", "c_lock", "a_lock", "m_lock"}

WaitsFor(t) == IF pc[t] = "spi_enable" THEN spiLock ELSE statsLock

Inside(t) == pc[t] \notin {"unborn", "idle", "sleep"} /\ ~ Waits(t)

HolderRuns ==
  \A t \in Threads : Waits(t) =>
    WaitsFor(t) = Unlocked \/ (WaitsFor(t) \in Threads /\ Inside(WaitsFor(t)))

(* Calls return, and initialisation ends: threads never hold one mutex     *)
(* while they wait for the other, and every path gives its mutex back.     *)
CallsReturn == \A t \in {App, Isr} : pc[t] # "idle" ~> pc[t] = "idle"

(* Bytes do not stay out of the totals for ever (rf24Stats.c:48-64).       *)
EveryByteReported == \A io \in IO : stats.bytes[io] > 0 ~> stats.bytes[io] = 0
=============================================================================
