-------------------------- MODULE DriverLocksProofs --------------------------
(***************************************************************************)
(* What DriverLocks.cfg checks for three calls, for any number of them and *)
(* any sizes: an inductive invariant that says, for each place a thread    *)
(* can be in, which mutex it holds and what it has done to the counters    *)
(* since it took it; and, from it, the refinement of PacketStats.          *)
(***************************************************************************)
EXTENDS DriverLocks, TLAPS

InSpi == {"spi_transfer", "spi_disable"}
InStats == {"load", "store", "c_unlock", "take_rate", "take_total", "a_unlock",
            "m_rate", "m_total", "m_clear", "m_unlock"}

(* A thread is between lock and unlock exactly when it holds the mutex.    *)
LockInv ==
  \A t \in Threads :
    /\ pc[t] \in InSpi <=> spiLock = t
    /\ pc[t] \in InStats <=> statsLock = t

(* Nobody is at a mutex that does not exist.                               *)
CreatedInv ==
  /\ pc[App] = "spi_init" \/ spiLock # Garbage
  /\ pc[App] \in {"spi_init", "stats_create"} \/ statsLock # Garbage
  /\ pc[App] \in {"spi_init", "stats_create", "start_monitor"} =>
       pc[Monitor] = "unborn" /\ pc[Isr] = "unborn" /\ stats = NoStats
  /\ pc[App] = "start_isr" => pc[Isr] = "unborn"

(* The chip has seen what the holder has sent, and nothing else.           *)
FrameInv ==
  /\ spiLock \notin Threads => frame = <<>>
  /\ \A t \in Threads :
       /\ pc[t] = "spi_enable" => local[t] = 0
       /\ pc[t] \in {"spi_enable", "spi_transfer"} => local[t] < arg[t].n
       /\ pc[t] = "spi_transfer" => frame = [i \in 1 .. local[t] |-> t]
       /\ pc[t] = "spi_disable" => frame = [i \in 1 .. arg[t].n |-> t]

RateOf(s) == [io \in IO |-> s.bytes[io] \div Interval]
TotalOf(s) == [io \in IO |-> s.total[io] + s.bytes[io]]

(* What the holder of the second mutex has done since it took it.          *)
Section(t) ==
  /\ pc[t] \in {"load", "store", "m_rate", "take_rate", "take_total", "a_unlock"} =>
       stats = begun
  /\ pc[t] = "store" => local[t] = begun.bytes[arg[t].io]
  /\ pc[t] = "c_unlock" => stats = [begun EXCEPT !.bytes[arg[t].io] = @ + arg[t].n]
  /\ pc[t] = "m_total" => stats = [begun EXCEPT !.rate = RateOf(begun)]
  /\ pc[t] = "m_clear" =>
       stats = [begun EXCEPT !.rate = RateOf(begun), !.total = TotalOf(begun)]
  /\ pc[t] = "m_unlock" =>
       stats = [bytes |-> NoStats.bytes, rate |-> RateOf(begun), total |-> TotalOf(begun)]
  /\ pc[t] \in {"take_total", "a_unlock"} => told[t].rate = begun.rate
  /\ pc[t] = "a_unlock" => told[t].total = begun.total

(* What stays so in and out of the mutex.                                  *)
ArgInv ==
  \A t \in Threads :
    /\ pc[t] \in {"c_lock", "load", "store", "c_unlock"} => arg[t].n \in 0 .. UINT8 - 1
    /\ told[t].bytes = NoStats.bytes

SectionInv == \A t \in Threads : Section(t)

(* The counters as the mutex's next owner will find them, or would have.   *)
Settled == IF statsLock \in Threads THEN begun ELSE stats

CountedInv == \A io \in IO : Settled.total[io] + Settled.bytes[io] = counted[io]

IInv ==
  TypeOK /\ LockInv /\ CreatedInv /\ FrameInv /\ ArgInv /\ SectionInv /\ CountedInv
-----------------------------------------------------------------------------
LEMMA ThreadFacts ==
  /\ App \in Threads /\ Isr \in Threads /\ Monitor \in Threads
  /\ App # Isr /\ App # Monitor /\ Isr # Monitor
  /\ Unlocked \notin Threads /\ Garbage \notin Threads /\ Unlocked # Garbage
BY LocksAssumption DEF Threads

LEMMA StatsFacts ==
  /\ NoStats \in StatsType
  /\ \A s \in StatsType : RateOf(s) \in [IO -> Nat] /\ TotalOf(s) \in [IO -> Nat]
<1>1. Interval \in Nat \ {0}
  BY LocksAssumption
<1>2. \A n \in Nat : n \div Interval \in Nat
  BY <1>1
<1> QED
  BY <1>2 DEF NoStats, StatsType, RateOf, TotalOf

(* A call begins with a size that fits it.                                 *)
LEMMA CallCases ==
  ASSUME Call
  PROVE  \E t \in {App, Isr}, to \in {"spi_enable", "c_lock", "a_lock"}, io \in IO, n \in Nat :
           /\ Begin(t, to, io, n)
           /\ to = "spi_enable" => n # 0
           /\ to # "spi_enable" => n \in 0 .. UINT8 - 1
<1>1. Transactions \subseteq Nat \ {0} /\ Sent \subseteq 0 .. UINT8 - 1 /\ Lengths \subseteq 0 .. 32
  BY LocksAssumption
<1>2. \A len \in Lengths : ReceivedBytes(len) \in 0 .. UINT8 - 1
  BY <1>1 DEF ReceivedBytes, ADDR_WIDTH, UINT8
<1>3. "TX" \in IO /\ "RX" \in IO
  BY DEF IO
<1>4. 0 .. UINT8 - 1 \subseteq Nat /\ 0 \in 0 .. UINT8 - 1
  BY DEF UINT8
<1>5. CASE \E t \in {App, Isr}, n \in Transactions : Begin(t, "spi_enable", "TX", n)
  BY <1>1, <1>3, <1>5
<1>6. CASE \E n \in Sent : Begin(App, "c_lock", "TX", n)
  BY <1>1, <1>3, <1>4, <1>6
<1>7. CASE \E len \in Lengths : Begin(Isr, "c_lock", "RX", ReceivedBytes(len))
  BY <1>2, <1>3, <1>4, <1>7
<1>8. CASE Begin(App, "a_lock", "TX", 0)
  BY <1>3, <1>4, <1>8
<1> QED
  BY <1>5, <1>6, <1>7, <1>8 DEF Call

LEMMA TypeStep == ASSUME TypeOK, [Next]_vars PROVE TypeOK'
<1>1. CASE UNCHANGED vars
  BY <1>1 DEF vars, TypeOK
<1>2. CASE InitRadio
  BY <1>2, ThreadFacts, StatsFacts DEF InitRadio, spi_init, stats_create, stats_start_monitor, start_isr, Goto,
              spiVars, statsVars, TypeOK, Labels
<1>3. CASE Call
  <2>1. PICK t \in {App, Isr}, to \in {"spi_enable", "c_lock", "a_lock"}, io \in IO, n \in Nat :
          Begin(t, to, io, n)
    BY <1>3, CallCases
  <2>2. calls' \in 0 .. MaxCalls
    BY <2>1, LocksAssumption DEF Begin, TypeOK
  <2> QED
    BY <2>1, <2>2, ThreadFacts DEF Begin, Goto, spiVars, statsVars, TypeOK, Labels
<1>4. ASSUME NEW t \in Threads, spi_enable(t) \/ spi_transfer(t) \/ spi_disable(t)
      PROVE  TypeOK'
  <2>0. frame \in Seq(Threads) /\ local \in [Threads -> Nat]
    BY DEF TypeOK
  <2>1. frame' \in Seq(Threads) /\ local' \in [Threads -> Nat]
    <3>1. CASE spi_enable(t)
      BY <2>0, <3>1 DEF spi_enable
    <3>2. CASE spi_transfer(t)
      BY <1>4, <2>0, <3>2 DEF spi_transfer
    <3>3. CASE spi_disable(t)
      BY <2>0, <3>3 DEF spi_disable
    <3> QED
      BY <1>4, <3>1, <3>2, <3>3
  <2> QED
    BY <1>4, <2>1 DEF spi_enable, spi_transfer, spi_disable, Goto, statsVars, TypeOK, Labels
<1>5. ASSUME NEW t \in Threads, LockStats(t)
      PROVE  TypeOK'
  BY <1>5 DEF LockStats, TakeStats, Goto, spiVars, TypeOK, Labels
<1>6. ASSUME NEW t \in Threads, CountLoad(t)
      PROVE  TypeOK'
  <2>1. stats.bytes[arg[t].io] \in Nat
    BY <1>6 DEF TypeOK, StatsType
  <2> QED
    BY <1>6, <2>1 DEF CountLoad, Goto, spiVars, statsVars, TypeOK, Labels
<1>7. ASSUME NEW t \in Threads, CountStore(t)
      PROVE  TypeOK'
  <2>1. arg[t].io \in IO /\ local[t] + arg[t].n \in Nat
    BY <1>7 DEF TypeOK
  <2>2. stats' \in StatsType
    BY <1>7, <2>1 DEF CountStore, SetStats, TypeOK, StatsType
  <2> QED
    BY <1>7, <2>2 DEF CountStore, SetStats, Goto, spiVars, TypeOK, Labels
<1>8. ASSUME NEW t \in Threads, CountUnlock(t)
      PROVE  TypeOK'
  BY <1>8 DEF CountUnlock, Goto, spiVars, TypeOK, Labels
<1>9. ASSUME NEW t \in Threads, AskRate(t) \/ AskTotal(t)
      PROVE  TypeOK'
  <2>0. told \in [Threads -> StatsType] /\ stats \in StatsType
    BY DEF TypeOK
  <2>1. told' \in [Threads -> StatsType]
    <3>1. CASE AskRate(t)
      BY <2>0, <3>1 DEF AskRate, StatsType
    <3>2. CASE AskTotal(t)
      BY <2>0, <3>2 DEF AskTotal, StatsType
    <3> QED
      BY <1>9, <3>1, <3>2
  <2> QED
    BY <1>9, <2>1 DEF AskRate, AskTotal, Goto, spiVars, statsVars, TypeOK, Labels
<1>10. ASSUME NEW t \in Threads, AskUnlock(t)
       PROVE  TypeOK'
  BY <1>10 DEF AskUnlock, Goto, spiVars, TypeOK, Labels
<1>11. CASE MonitorStep
  <2>1. stats' \in StatsType
    <3>1. CASE MonitorRate
      BY <3>1, StatsFacts DEF MonitorRate, SetStats, TypeOK, StatsType, RateOf
    <3>2. CASE MonitorTotal
      BY <3>2, StatsFacts DEF MonitorTotal, SetStats, TypeOK, StatsType, TotalOf
    <3>3. CASE MonitorClear
      BY <3>3 DEF MonitorClear, SetStats, TypeOK, StatsType, NoStats
    <3>4. CASE MonitorUnlock \/ MonitorWake
      BY <3>4 DEF MonitorUnlock, MonitorWake, statsVars, TypeOK
    <3> QED
      BY <1>11, <3>1, <3>2, <3>3, <3>4 DEF MonitorStep
  <2> QED
    BY <1>11, <2>1, ThreadFacts DEF MonitorStep, MonitorRate, MonitorTotal, MonitorClear, MonitorUnlock,
                       MonitorWake, SetStats, Goto, spiVars, statsVars, TypeOK, Labels
<1> QED
  BY <1>1, <1>2, <1>3, <1>4, <1>5, <1>6, <1>7, <1>8, <1>9, <1>10, <1>11 DEF Next, Step
-----------------------------------------------------------------------------
LEMMA LockStep == ASSUME TypeOK, LockInv, CreatedInv, [Next]_vars PROVE LockInv'
<1>0. pc \in [Threads -> Labels]
  BY DEF TypeOK
<1>1. CASE UNCHANGED vars
  BY <1>1 DEF vars, LockInv
<1>2. CASE InitRadio
  BY <1>0, <1>2, ThreadFacts DEF InitRadio, spi_init, stats_create, stats_start_monitor,
     start_isr, Goto, spiVars, statsVars, LockInv, CreatedInv, InSpi, InStats, Threads
<1>3. CASE Call
  <2>1. PICK t \in {App, Isr}, to \in {"spi_enable", "c_lock", "a_lock"}, io \in IO, n \in Nat :
          Begin(t, to, io, n)
    BY <1>3, CallCases
  <2> QED
    BY <1>0, <2>1, ThreadFacts DEF Begin, Goto, spiVars, statsVars, LockInv, InSpi, InStats
<1>4. ASSUME NEW t \in Threads, spi_enable(t) \/ spi_transfer(t) \/ spi_disable(t)
      PROVE  LockInv'
  BY <1>0, <1>4, ThreadFacts DEF spi_enable, spi_transfer, spi_disable, Goto, statsVars,
     LockInv, InSpi, InStats
<1>5. ASSUME NEW t \in Threads, LockStats(t)
      PROVE  LockInv'
  BY <1>0, <1>5, ThreadFacts DEF LockStats, TakeStats, Goto, spiVars, LockInv, InSpi, InStats
<1>6. ASSUME NEW t \in Threads, CountLoad(t) \/ CountStore(t) \/ AskRate(t) \/ AskTotal(t)
      PROVE  LockInv'
  BY <1>0, <1>6 DEF CountLoad, CountStore, AskRate, AskTotal, SetStats, Goto, spiVars,
     statsVars, LockInv, InSpi, InStats
<1>7. ASSUME NEW t \in Threads, CountUnlock(t) \/ AskUnlock(t)
      PROVE  LockInv'
  BY <1>0, <1>7, ThreadFacts DEF CountUnlock, AskUnlock, Goto, spiVars, LockInv, InSpi, InStats
<1>8. CASE MonitorStep
  BY <1>0, <1>8, ThreadFacts DEF MonitorStep, MonitorRate, MonitorTotal, MonitorClear,
     MonitorUnlock, MonitorWake, SetStats, Goto, spiVars, statsVars, LockInv, InSpi, InStats
<1> QED
  BY <1>1, <1>2, <1>3, <1>4, <1>5, <1>6, <1>7, <1>8 DEF Next, Step

LEMMA CreatedStep == ASSUME TypeOK, LockInv, CreatedInv, [Next]_vars PROVE CreatedInv'
<1>0. pc \in [Threads -> Labels]
  BY DEF TypeOK
<1>1. CASE UNCHANGED vars
  BY <1>1 DEF vars, CreatedInv
<1>2. CASE InitRadio
  BY <1>0, <1>2, ThreadFacts DEF InitRadio, spi_init, stats_create, stats_start_monitor,
     start_isr, Goto, spiVars, statsVars, CreatedInv
<1>3. CASE Call
  <2>1. PICK t \in {App, Isr}, to \in {"spi_enable", "c_lock", "a_lock"}, io \in IO, n \in Nat :
          Begin(t, to, io, n)
    BY <1>3, CallCases
  <2> QED
    BY <1>0, <2>1, ThreadFacts DEF Begin, Goto, spiVars, statsVars, CreatedInv
<1>4. ASSUME NEW t \in Threads, spi_enable(t) \/ spi_transfer(t) \/ spi_disable(t)
      PROVE  CreatedInv'
  BY <1>0, <1>4, ThreadFacts DEF spi_enable, spi_transfer, spi_disable, Goto, statsVars, CreatedInv
<1>5. ASSUME NEW t \in Threads, LockStats(t)
      PROVE  CreatedInv'
  BY <1>0, <1>5, ThreadFacts DEF LockStats, TakeStats, Goto, spiVars, CreatedInv
<1>6. ASSUME NEW t \in Threads, CountLoad(t) \/ AskRate(t) \/ AskTotal(t)
      PROVE  CreatedInv'
  BY <1>0, <1>6, ThreadFacts DEF CountLoad, AskRate, AskTotal, SetStats, Goto, spiVars,
     statsVars, CreatedInv
<1>7. ASSUME NEW t \in Threads, CountStore(t) \/ CountUnlock(t) \/ AskUnlock(t)
      PROVE  CreatedInv'
  <2>1. t = App \/ t = Isr \/ t = Monitor
    BY <1>7 DEF Threads
  <2> QED
    BY <1>0, <1>7, <2>1, ThreadFacts DEF CountStore, CountUnlock, AskUnlock, SetStats, Goto,
       spiVars, CreatedInv
<1>8. CASE MonitorStep
  BY <1>0, <1>8, ThreadFacts DEF MonitorStep, MonitorRate, MonitorTotal, MonitorClear,
     MonitorUnlock, MonitorWake, SetStats, Goto, spiVars, statsVars, CreatedInv
<1> QED
  BY <1>1, <1>2, <1>3, <1>4, <1>5, <1>6, <1>7, <1>8 DEF Next, Step
-----------------------------------------------------------------------------
LEMMA FrameStep == ASSUME TypeOK, LockInv, CreatedInv, FrameInv, [Next]_vars PROVE FrameInv'
<1>0. /\ pc \in [Threads -> Labels] /\ local \in [Threads -> Nat] /\ frame \in Seq(Threads)
      /\ arg \in [Threads -> [io : IO, n : Nat]]
  BY DEF TypeOK
<1>1. CASE UNCHANGED vars
  BY <1>1 DEF vars, FrameInv
<1>2. CASE InitRadio
  <2>1. /\ UNCHANGED <<frame, arg, local>> /\ spiLock' \in {spiLock, Unlocked}
        /\ \A t \in Threads : pc'[t] # pc[t] =>
             pc'[t] \notin {"spi_enable", "spi_transfer", "spi_disable"}
    BY <1>0, <1>2, ThreadFacts DEF InitRadio, spi_init, stats_create, stats_start_monitor,
       start_isr, Goto, spiVars, statsVars
  <2>2. spiLock \notin Threads \/ spiLock' = spiLock
    BY <1>0, <1>2, ThreadFacts DEF InitRadio, spi_init, stats_create, stats_start_monitor,
       start_isr, Goto, spiVars, LockInv, CreatedInv, InSpi, Threads
  <2> QED
    BY <2>1, <2>2 DEF FrameInv
<1>3. CASE Call
  <2>1. PICK t \in {App, Isr}, to \in {"spi_enable", "c_lock", "a_lock"}, io \in IO, n \in Nat :
          Begin(t, to, io, n) /\ (to = "spi_enable" => n # 0)
    BY <1>3, CallCases
  <2> QED
    BY <1>0, <2>1, ThreadFacts DEF Begin, Goto, spiVars, statsVars, FrameInv
<1>4. ASSUME NEW t \in Threads, spi_enable(t)
      PROVE  FrameInv'
  BY <1>0, <1>4, ThreadFacts DEF spi_enable, Goto, statsVars, FrameInv, LockInv, InSpi
<1>5. ASSUME NEW t \in Threads, spi_transfer(t)
      PROVE  FrameInv'
  <2>1. /\ spiLock = t /\ spiLock' = t /\ frame = [i \in 1 .. local[t] |-> t]
        /\ local[t] < arg[t].n /\ local[t] \in Nat /\ arg[t].n \in Nat
    BY <1>0, <1>5 DEF spi_transfer, Goto, FrameInv, LockInv, InSpi
  <2>2. frame' = [i \in 1 .. local[t] + 1 |-> t]
    <3>1. frame' = Append(frame, t) /\ Len(frame) = local[t]
      BY <1>0, <1>5, <2>1 DEF spi_transfer
    <3> QED
      BY <1>0, <2>1, <3>1
  <2>3. /\ local' = [local EXCEPT ![t] = @ + 1] /\ arg' = arg
        /\ pc' = [pc EXCEPT ![t] = IF local[t] + 1 = arg[t].n THEN "spi_disable" ELSE "spi_transfer"]
    BY <1>5 DEF spi_transfer, Goto
  <2>4. ASSUME NEW u \in Threads, u # t
        PROVE  pc[u] \notin InSpi /\ pc'[u] = pc[u] /\ local'[u] = local[u]
    BY <1>0, <2>1, <2>3, <2>4 DEF LockInv
  <2> QED
    BY <1>0, <1>5, <2>1, <2>2, <2>3, <2>4 DEF FrameInv, InSpi
<1>6. ASSUME NEW t \in Threads, spi_disable(t)
      PROVE  FrameInv'
  BY <1>0, <1>6, ThreadFacts DEF spi_disable, Goto, statsVars, FrameInv, LockInv, InSpi
<1>7. ASSUME NEW t \in Threads, LockStats(t)
      PROVE  FrameInv'
  BY <1>0, <1>7 DEF LockStats, TakeStats, Goto, spiVars, FrameInv
<1>8. ASSUME NEW t \in Threads, CountLoad(t) \/ CountStore(t) \/ AskRate(t) \/ AskTotal(t)
      PROVE  FrameInv'
  BY <1>0, <1>8 DEF CountLoad, CountStore, AskRate, AskTotal, SetStats, Goto, spiVars,
     statsVars, FrameInv
<1>9. ASSUME NEW t \in Threads, CountUnlock(t) \/ AskUnlock(t)
      PROVE  FrameInv'
  BY <1>0, <1>9 DEF CountUnlock, AskUnlock, Goto, spiVars, FrameInv
<1>10. CASE MonitorStep
  BY <1>0, <1>10, ThreadFacts DEF MonitorStep, MonitorRate, MonitorTotal, MonitorClear,
     MonitorUnlock, MonitorWake, SetStats, Goto, spiVars, statsVars, FrameInv
<1> QED
  BY <1>1, <1>2, <1>3, <1>4, <1>5, <1>6, <1>7, <1>8, <1>9, <1>10 DEF Next, Step

LEMMA ArgStep == ASSUME TypeOK, ArgInv, [Next]_vars PROVE ArgInv'
<1>0. /\ pc \in [Threads -> Labels] /\ told \in [Threads -> StatsType]
      /\ arg \in [Threads -> [io : IO, n : Nat]]
  BY DEF TypeOK
<1>1. CASE UNCHANGED vars
  BY <1>1 DEF vars, ArgInv
<1>2. CASE InitRadio
  BY <1>0, <1>2, ThreadFacts DEF InitRadio, spi_init, stats_create, stats_start_monitor,
     start_isr, Goto, ArgInv
<1>3. CASE Call
  <2>1. PICK t \in {App, Isr}, to \in {"spi_enable", "c_lock", "a_lock"}, io \in IO, n \in Nat :
          Begin(t, to, io, n) /\ (to # "spi_enable" => n \in 0 .. UINT8 - 1)
    BY <1>3, CallCases
  <2> QED
    BY <1>0, <2>1, ThreadFacts DEF Begin, Goto, ArgInv
<1>4. ASSUME NEW t \in Threads, spi_enable(t) \/ spi_transfer(t) \/ spi_disable(t)
      PROVE  ArgInv'
  BY <1>0, <1>4 DEF spi_enable, spi_transfer, spi_disable, Goto, ArgInv
<1>5. ASSUME NEW t \in Threads, LockStats(t)
      PROVE  ArgInv'
  BY <1>0, <1>5 DEF LockStats, TakeStats, Goto, ArgInv
<1>6. ASSUME NEW t \in Threads, CountLoad(t) \/ CountStore(t) \/ CountUnlock(t) \/ AskUnlock(t)
      PROVE  ArgInv'
  BY <1>0, <1>6 DEF CountLoad, CountStore, CountUnlock, AskUnlock, SetStats, Goto, ArgInv
<1>7. ASSUME NEW t \in Threads, AskRate(t) \/ AskTotal(t)
      PROVE  ArgInv'
  <2>1. told[t] \in StatsType
    BY <1>0, <1>7
  <2>2. told'[t].bytes = told[t].bytes /\ \A u \in Threads \ {t} : told'[u] = told[u]
    BY <1>0, <1>7, <2>1 DEF AskRate, AskTotal, StatsType
  <2> QED
    BY <1>0, <1>7, <2>2 DEF AskRate, AskTotal, Goto, ArgInv
<1>8. CASE MonitorStep
  BY <1>0, <1>8, ThreadFacts DEF MonitorStep, MonitorRate, MonitorTotal, MonitorClear,
     MonitorUnlock, MonitorWake, SetStats, Goto, ArgInv
<1> QED
  BY <1>1, <1>2, <1>3, <1>4, <1>5, <1>6, <1>7, <1>8 DEF Next, Step
-----------------------------------------------------------------------------
(* Only a step of the mutex's holder, or one that takes or creates it,     *)
(* changes what Section speaks about; those of everybody else leave the    *)
(* counters alone, and the holder is the only one whose Section is not     *)
(* vacuous.                                                                *)
LEMMA Elsewhere ==
  ASSUME NEW t \in Threads, LockInv, LockInv', statsLock \in {t, Unlocked, Garbage}
         \/ statsLock' \in {t, Unlocked, Garbage},
         statsLock' = statsLock \/ statsLock' \in {t, Unlocked, Garbage},
         NEW u \in Threads, u # t
  PROVE  Section(u)'
<1>1. statsLock' # u
  BY ThreadFacts
<1>2. pc'[u] \notin InStats
  BY <1>1 DEF LockInv
<1> QED
  BY <1>2 DEF Section, InStats

LEMMA SectionStep ==
  ASSUME TypeOK, TypeOK', LockInv, LockInv', CreatedInv, ArgInv, SectionInv, [Next]_vars
  PROVE  SectionInv'
<1>0. /\ pc \in [Threads -> Labels] /\ told \in [Threads -> StatsType]
      /\ local \in [Threads -> Nat] /\ arg \in [Threads -> [io : IO, n : Nat]]
      /\ stats \in StatsType /\ begun \in StatsType
  BY DEF TypeOK
<1>1. ASSUME UNCHANGED <<stats, begun, told, statsLock>>,
             \A t \in Threads : pc'[t] \in InStats =>
               pc'[t] = pc[t] /\ arg'[t] = arg[t] /\ local'[t] = local[t]
      PROVE  SectionInv'
  BY <1>1 DEF SectionInv, Section, InStats
<1>2. CASE UNCHANGED vars
  BY <1>1, <1>2 DEF vars
<1>3. CASE InitRadio
  <2>1. CASE stats_create
    <3>1. \A t \in Threads : pc'[t] \in {"start_monitor", "unborn"}
      BY <1>0, <2>1, ThreadFacts DEF stats_create, Goto, CreatedInv, Threads
    <3> QED
      BY <3>1 DEF SectionInv, Section
  <2>2. CASE spi_init \/ stats_start_monitor \/ start_isr
    BY <1>0, <1>1, <2>2, ThreadFacts DEF spi_init, stats_start_monitor, start_isr, Goto,
       spiVars, statsVars, InStats
  <2> QED
    BY <1>3, <2>1, <2>2 DEF InitRadio
<1>4. CASE Call
  <2>1. PICK t \in {App, Isr}, to \in {"spi_enable", "c_lock", "a_lock"}, io \in IO, n \in Nat :
          Begin(t, to, io, n)
    BY <1>4, CallCases
  <2> QED
    BY <1>0, <1>1, <2>1, ThreadFacts DEF Begin, Goto, spiVars, statsVars, InStats
<1>5. ASSUME NEW t \in Threads, spi_enable(t) \/ spi_transfer(t) \/ spi_disable(t)
      PROVE  SectionInv'
  BY <1>0, <1>1, <1>5 DEF spi_enable, spi_transfer, spi_disable, Goto, statsVars, InStats
<1>6. ASSUME NEW t \in Threads, LockStats(t)
      PROVE  SectionInv'
  <2>1. Section(t)'
    BY <1>0, <1>6 DEF LockStats, TakeStats, Goto, spiVars, Section
  <2>2. statsLock' = t
    BY <1>6 DEF LockStats, TakeStats
  <2> QED
    BY <2>1, <2>2, Elsewhere DEF SectionInv
<1>7. ASSUME NEW t \in Threads, CountLoad(t)
      PROVE  SectionInv'
  <2>1. Section(t)'
    BY <1>0, <1>7 DEF CountLoad, Goto, spiVars, statsVars, SectionInv, Section
  <2>2. statsLock = t /\ statsLock' = t
    BY <1>7 DEF CountLoad, Goto, statsVars, LockInv, InStats
  <2> QED
    BY <2>1, <2>2, Elsewhere DEF SectionInv
<1>8. ASSUME NEW t \in Threads, CountStore(t)
      PROVE  SectionInv'
  <2>1. Section(t)'
    BY <1>0, <1>8 DEF CountStore, SetStats, Goto, spiVars, SectionInv, Section, StatsType
  <2>2. statsLock = t /\ statsLock' = t
    BY <1>8 DEF CountStore, SetStats, Goto, LockInv, InStats
  <2> QED
    BY <2>1, <2>2, Elsewhere DEF SectionInv
<1>9. ASSUME NEW t \in Threads, AskRate(t) \/ AskTotal(t)
      PROVE  SectionInv'
  <2>1. Section(t)'
    BY <1>0, <1>9 DEF AskRate, AskTotal, Goto, spiVars, statsVars, SectionInv, Section, StatsType
  <2>2. statsLock = t /\ statsLock' = t
    BY <1>9 DEF AskRate, AskTotal, Goto, statsVars, LockInv, InStats
  <2> QED
    BY <2>1, <2>2, Elsewhere DEF SectionInv
<1>10. ASSUME NEW t \in Threads, CountUnlock(t) \/ AskUnlock(t)
       PROVE  SectionInv'
  <2>1. Section(t)'
    BY <1>0, <1>10 DEF CountUnlock, AskUnlock, Goto, Section
  <2>2. statsLock' = Unlocked
    BY <1>10 DEF CountUnlock, AskUnlock
  <2> QED
    BY <2>1, <2>2, Elsewhere DEF SectionInv
<1>11. CASE MonitorWake
  BY <1>0, <1>1, <1>11, ThreadFacts DEF MonitorWake, Goto, spiVars, statsVars, InStats
<1>12. CASE MonitorUnlock
  <2>1. Section(Monitor)'
    BY <1>0, <1>12, ThreadFacts DEF MonitorUnlock, Goto, Section
  <2>2. statsLock' = Unlocked
    BY <1>12 DEF MonitorUnlock
  <2> QED
    BY <2>1, <2>2, ThreadFacts, Elsewhere DEF SectionInv
<1>13. ASSUME MonitorRate \/ MonitorTotal \/ MonitorClear
       PROVE  SectionInv'
  <2>1. statsLock = Monitor /\ statsLock' = Monitor
    BY <1>13, ThreadFacts DEF MonitorRate, MonitorTotal, MonitorClear, SetStats, Goto, LockInv, InStats
  <2>2. CASE MonitorRate
    <3>1. /\ stats = begun /\ begun' = begun /\ pc'[Monitor] = "m_total"
          /\ stats' = [stats EXCEPT !.rate = RateOf(stats)]
      BY <1>0, <2>2, ThreadFacts DEF MonitorRate, SetStats, Goto, SectionInv, Section, RateOf
    <3> QED
      BY <2>1, <3>1, ThreadFacts, Elsewhere DEF SectionInv, Section
  <2>3. CASE MonitorTotal
    <3>1. /\ stats = [begun EXCEPT !.rate = RateOf(begun)] /\ begun' = begun /\ pc'[Monitor] = "m_clear"
          /\ stats' = [stats EXCEPT !.total = TotalOf(stats)]
      BY <1>0, <2>3, ThreadFacts DEF MonitorTotal, SetStats, Goto, SectionInv, Section, TotalOf
    <3>2. TotalOf(stats) = TotalOf(begun)
      BY <1>0, <3>1 DEF TotalOf, StatsType
    <3>3. stats' = [begun EXCEPT !.rate = RateOf(begun), !.total = TotalOf(begun)]
      BY <1>0, <3>1, <3>2 DEF StatsType
    <3> QED
      BY <2>1, <3>1, <3>3, ThreadFacts, Elsewhere DEF SectionInv, Section
  <2>4. CASE MonitorClear
    <3>1. /\ stats = [begun EXCEPT !.rate = RateOf(begun), !.total = TotalOf(begun)]
          /\ begun' = begun /\ pc'[Monitor] = "m_unlock"
          /\ stats' = [stats EXCEPT !.bytes = NoStats.bytes]
      BY <1>0, <2>4, ThreadFacts DEF MonitorClear, SetStats, Goto, SectionInv, Section
    <3>2. stats' = [bytes |-> NoStats.bytes, rate |-> RateOf(begun), total |-> TotalOf(begun)]
      BY <1>0, <3>1 DEF StatsType
    <3> QED
      BY <2>1, <3>1, <3>2, ThreadFacts, Elsewhere DEF SectionInv, Section
  <2> QED
    BY <1>13, <2>2, <2>3, <2>4
<1> QED
  BY <1>2, <1>3, <1>4, <1>5, <1>6, <1>7, <1>8, <1>9, <1>10, <1>11, <1>12, <1>13
     DEF Next, Step, MonitorStep
-----------------------------------------------------------------------------
(* Settled changes at an unlock, by all of what the thread did under the   *)
(* mutex, and nowhere else.                                                *)
LEMMA CountedStep ==
  ASSUME TypeOK, TypeOK', LockInv, LockInv', CreatedInv, SectionInv, CountedInv, [Next]_vars
  PROVE  CountedInv'
<1>0. /\ pc \in [Threads -> Labels] /\ arg \in [Threads -> [io : IO, n : Nat]]
      /\ stats \in StatsType /\ begun \in StatsType /\ counted \in [IO -> Nat]
  BY DEF TypeOK
<1>1. ASSUME counted' = counted, Settled' = Settled
      PROVE  CountedInv'
  BY <1>1 DEF CountedInv
<1>2. CASE UNCHANGED vars
  BY <1>1, <1>2 DEF vars, Settled
<1>3. CASE InitRadio
  BY <1>0, <1>1, <1>3, ThreadFacts DEF InitRadio, spi_init, stats_create, stats_start_monitor,
     start_isr, Goto, spiVars, statsVars, Settled, CreatedInv, LockInv, InStats, Threads
<1>4. CASE Call
  BY <1>1, <1>4, CallCases DEF Begin, statsVars, Settled
<1>5. ASSUME NEW t \in Threads, spi_enable(t) \/ spi_transfer(t) \/ spi_disable(t)
      PROVE  CountedInv'
  BY <1>1, <1>5 DEF spi_enable, spi_transfer, spi_disable, statsVars, Settled
<1>6. ASSUME NEW t \in Threads, LockStats(t)
      PROVE  CountedInv'
  BY <1>1, <1>6, ThreadFacts DEF LockStats, TakeStats, Settled
<1>7. ASSUME NEW t \in Threads, CountLoad(t) \/ CountStore(t) \/ AskRate(t) \/ AskTotal(t)
      PROVE  CountedInv'
  <2>1. statsLock = t /\ UNCHANGED <<statsLock, begun, counted>>
    BY <1>7 DEF CountLoad, CountStore, AskRate, AskTotal, SetStats, Goto, statsVars, LockInv, InStats
  <2> QED
    BY <1>1, <1>7, <2>1 DEF Settled
<1>8. ASSUME NEW t \in Threads, CountUnlock(t)
      PROVE  CountedInv'
  <2> DEFINE io == arg[t].io
             n  == arg[t].n
  <2>1. /\ Settled = begun /\ Settled' = stats /\ counted' = [counted EXCEPT ![io] = @ + n]
        /\ stats = [begun EXCEPT !.bytes[io] = @ + n] /\ io \in IO /\ n \in Nat
    BY <1>0, <1>8, ThreadFacts DEF CountUnlock, Goto, LockInv, InStats, Settled, SectionInv, Section
  <2>2. \A i \in IO : stats.total[i] + stats.bytes[i] = counted'[i]
    <3> TAKE i \in IO
    <3>1. begun.total[i] + begun.bytes[i] = counted[i]
      BY <2>1 DEF CountedInv
    <3>2. begun.total[i] \in Nat /\ begun.bytes[i] \in Nat /\ counted[i] \in Nat
      BY <1>0 DEF StatsType
    <3>3. stats.total = begun.total /\ stats.bytes = [begun.bytes EXCEPT ![io] = @ + n]
      BY <1>0, <2>1 DEF StatsType
    <3> HIDE DEF io, n
    <3> QED
      BY <1>0, <2>1, <3>1, <3>2, <3>3 DEF StatsType
  <2> QED
    BY <2>1, <2>2 DEF CountedInv
<1>9. ASSUME NEW t \in Threads, AskUnlock(t)
      PROVE  CountedInv'
  BY <1>1, <1>9, ThreadFacts DEF AskUnlock, Goto, LockInv, InStats, Settled, SectionInv, Section
<1>10. CASE MonitorWake
  BY <1>1, <1>10 DEF MonitorWake, statsVars, Settled
<1>11. CASE MonitorRate \/ MonitorTotal \/ MonitorClear
  <2>1. statsLock = Monitor /\ UNCHANGED <<statsLock, begun, counted>>
    BY <1>11, ThreadFacts DEF MonitorRate, MonitorTotal, MonitorClear, SetStats, Goto, LockInv, InStats
  <2> QED
    BY <1>1, <2>1, ThreadFacts DEF Settled
<1>12. CASE MonitorUnlock
  <2>1. /\ Settled = begun /\ Settled' = stats /\ counted' = counted
        /\ stats = [bytes |-> NoStats.bytes, rate |-> RateOf(begun), total |-> TotalOf(begun)]
    BY <1>12, ThreadFacts DEF MonitorUnlock, Goto, LockInv, InStats, Settled, SectionInv, Section
  <2>2. \A io \in IO : stats.total[io] + stats.bytes[io] = begun.total[io] + begun.bytes[io]
    BY <1>0, <2>1 DEF TotalOf, NoStats, StatsType
  <2> QED
    BY <2>1, <2>2 DEF CountedInv
<1> QED
  BY <1>2, <1>3, <1>4, <1>5, <1>6, <1>7, <1>8, <1>9, <1>10, <1>11, <1>12
     DEF Next, Step, MonitorStep
-----------------------------------------------------------------------------
LEMMA InitIInv == Init => IInv
<1> SUFFICES ASSUME Init PROVE IInv
  OBVIOUS
<1>1. TypeOK
  BY LocksAssumption, ThreadFacts, StatsFacts DEF Init, TypeOK, Labels, IO
<1>2. pc[App] = "spi_init" /\ \A t \in Threads : pc[t] \in {"spi_init", "unborn"}
  BY ThreadFacts DEF Init
<1>3. LockInv /\ CreatedInv /\ FrameInv
  BY <1>2, ThreadFacts DEF Init, LockInv, CreatedInv, FrameInv, InSpi, InStats
<1>4. ArgInv /\ SectionInv
  BY <1>2 DEF Init, ArgInv, SectionInv, Section
<1>5. CountedInv
  BY ThreadFacts DEF Init, CountedInv, Settled, NoStats
<1> QED
  BY <1>1, <1>3, <1>4, <1>5 DEF IInv

LEMMA StepIInv == IInv /\ [Next]_vars => IInv'
<1> SUFFICES ASSUME IInv, [Next]_vars PROVE IInv'
  OBVIOUS
<1>1. TypeOK' /\ LockInv'
  BY TypeStep, LockStep DEF IInv
<1>2. CreatedInv' /\ FrameInv' /\ ArgInv'
  BY CreatedStep, FrameStep, ArgStep DEF IInv
<1>3. SectionInv' /\ CountedInv'
  BY <1>1, SectionStep, CountedStep DEF IInv
<1> QED
  BY <1>1, <1>2, <1>3 DEF IInv

LEMMA Invariant == Spec => []IInv
BY InitIInv, StepIInv, PTL DEF Spec
-----------------------------------------------------------------------------
(* Mutexes, counters, sizes and every thread's place keep their types,     *)
(* whatever the sizes and the number of calls (spi.c, rf24Stats.c).        *)
THEOREM TypeCorrect == Spec => []TypeOK
<1>1. IInv => TypeOK
  BY DEF IInv
<1> QED
  BY <1>1, Invariant, PTL

(* No SPI transaction, of any length, is interrupted by another thread's   *)
(* bytes (spi.c:50-78).                                                    *)
THEOREM TransactionsAreWhole == Spec => []TransactionWhole
<1>1. IInv => TransactionWhole
  BY DEF IInv, FrameInv, TransactionWhole
<1> QED
  BY <1>1, Invariant, PTL

(* Threads find the mutexes and counters they use initialised              *)
(* (rf24.c:518-523).                                                       *)
THEOREM NothingUsedBeforeItExists == Spec => []CreatedBeforeUse
<1>1. IInv => CreatedBeforeUse
  <2> SUFFICES ASSUME IInv, NEW t \in Threads
               PROVE  /\ pc[t] = "spi_enable" => spiLock # Garbage
                      /\ pc[t] \in {"c_lock", "a_lock", "m_lock"} => statsLock # Garbage
    BY DEF CreatedBeforeUse
  <2>1. t = App \/ t = Isr \/ t = Monitor
    BY DEF Threads
  <2> QED
    BY <2>1, ThreadFacts DEF IInv, CreatedInv
<1> QED
  BY <1>1, Invariant, PTL

(* The two mutexes never deadlock, whatever the three threads call, and    *)
(* none is left locked by a thread that is gone, has returned or sleeps    *)
(* (spi.c:50-78, rf24Stats.c:28-64).                                       *)
THEOREM LocksNeverDeadlock == Spec => []HolderRuns
<1>1. IInv /\ CreatedBeforeUse => HolderRuns
  <2> SUFFICES ASSUME IInv, CreatedBeforeUse, NEW t \in Threads, Waits(t)
               PROVE  WaitsFor(t) = Unlocked \/ (WaitsFor(t) \in Threads /\ Inside(WaitsFor(t)))
    BY DEF HolderRuns
  <2>1. CASE pc[t] = "spi_enable"
    <3>1. spiLock \in Threads \cup {Unlocked}
      BY <2>1 DEF IInv, TypeOK, CreatedBeforeUse
    <3>2. spiLock \in Threads => Inside(spiLock)
      BY DEF IInv, LockInv, InSpi, Waits, Inside
    <3> QED
      BY <2>1, <3>1, <3>2 DEF WaitsFor
  <2>2. CASE pc[t] # "spi_enable"
    <3>1. statsLock \in Threads \cup {Unlocked}
      BY <2>2 DEF IInv, TypeOK, CreatedBeforeUse, Waits
    <3>2. statsLock \in Threads => Inside(statsLock)
      BY DEF IInv, LockInv, InStats, Waits, Inside
    <3> QED
      BY <2>2, <3>1, <3>2 DEF WaitsFor
  <2> QED
    BY <2>1, <2>2
<1> QED
  BY <1>1, Invariant, NothingUsedBeforeItExists, PTL

(* Every byte counted is in a total or waits for one sample, however many  *)
(* calls and samples there are (rf24Stats.c:28-64).                        *)
THEOREM BytesConserved == Spec => []Conserved
<1>1. IInv => Conserved
  BY DEF IInv, CountedInv, Settled, Conserved
<1> QED
  BY <1>1, Invariant, PTL
-----------------------------------------------------------------------------
LEMMA RefinesInit == Init => Counters!Init
BY ThreadFacts DEF Init, Counters!Init, Counters!NoStats, NoStats, Counters!IO, IO

(* Only unlocks are visible: CountUnlock is Count, MonitorUnlock Sample and *)
(* AskUnlock Ask.                                                          *)
LEMMA RefinesNext == IInv /\ IInv' /\ [Next]_vars => [Counters!Next]_(Counters!pvars)
<1> SUFFICES ASSUME IInv, IInv', [Next]_vars PROVE [Counters!Next]_(Counters!pvars)
  OBVIOUS
<1> USE DEF Counters!pvars
<1>0. /\ pc \in [Threads -> Labels] /\ arg \in [Threads -> [io : IO, n : Nat]]
      /\ stats \in StatsType /\ begun \in StatsType /\ told \in [Threads -> StatsType]
  BY DEF IInv, TypeOK
<1>1. ASSUME UNCHANGED <<Settled, counted, answer>>
      PROVE  UNCHANGED Counters!pvars
  BY <1>1 DEF Settled
<1>2. CASE UNCHANGED vars
  BY <1>1, <1>2 DEF vars, Settled
<1>3. CASE InitRadio
  BY <1>0, <1>1, <1>3, ThreadFacts DEF InitRadio, spi_init, stats_create, stats_start_monitor,
     start_isr, Goto, spiVars, statsVars, Settled, IInv, CreatedInv, LockInv, InStats, Threads
<1>4. CASE Call
  BY <1>1, <1>4, CallCases DEF Begin, statsVars, Settled
<1>5. ASSUME NEW t \in Threads, spi_enable(t) \/ spi_transfer(t) \/ spi_disable(t)
      PROVE  UNCHANGED Counters!pvars
  BY <1>1, <1>5 DEF spi_enable, spi_transfer, spi_disable, statsVars, Settled
<1>6. ASSUME NEW t \in Threads, LockStats(t)
      PROVE  UNCHANGED Counters!pvars
  BY <1>1, <1>6, ThreadFacts DEF LockStats, TakeStats, Settled
<1>7. ASSUME NEW t \in Threads, CountLoad(t) \/ CountStore(t) \/ AskRate(t) \/ AskTotal(t)
      PROVE  UNCHANGED Counters!pvars
  <2>1. statsLock = t /\ UNCHANGED <<statsLock, begun, counted, answer>>
    BY <1>7 DEF CountLoad, CountStore, AskRate, AskTotal, SetStats, Goto, statsVars, IInv, LockInv, InStats
  <2> QED
    BY <1>1, <1>7, <2>1 DEF Settled
<1>8. ASSUME NEW t \in Threads, CountUnlock(t)
      PROVE  \E io \in IO, n \in 0 .. UINT8 - 1 : Counters!Count(io, n)
  <2>1. /\ Settled = begun /\ Settled' = stats
        /\ stats = [begun EXCEPT !.bytes[arg[t].io] = @ + arg[t].n]
        /\ arg[t].io \in IO /\ arg[t].n \in 0 .. UINT8 - 1
        /\ counted' = [counted EXCEPT ![arg[t].io] = @ + arg[t].n] /\ answer' = answer
    BY <1>0, <1>8, ThreadFacts DEF CountUnlock, Goto, IInv, LockInv, InStats, Settled,
       SectionInv, Section, ArgInv
  <2>2. Counters!Count(arg[t].io, arg[t].n)
    BY <2>1 DEF Counters!Count, Settled
  <2> QED
    BY <2>1, <2>2
<1>9. ASSUME NEW t \in Threads, AskUnlock(t)
      PROVE  Counters!Ask(t)
  <2>1. /\ Settled = begun /\ Settled' = begun /\ counted' = counted
        /\ answer' = [answer EXCEPT ![t] = told[t]]
        /\ told[t].rate = begun.rate /\ told[t].total = begun.total
        /\ told[t].bytes = NoStats.bytes /\ told[t] \in StatsType
    BY <1>0, <1>9, ThreadFacts DEF AskUnlock, Goto, IInv, LockInv, InStats, Settled,
       SectionInv, Section, ArgInv
  <2>2. told[t] = [begun EXCEPT !.bytes = NoStats.bytes]
    BY <1>0, <2>1 DEF StatsType
  <2>3. Counters!NoStats = NoStats
    BY DEF Counters!NoStats, NoStats, Counters!IO, IO
  <2> QED
    BY <2>1, <2>2, <2>3 DEF Counters!Ask, Settled
<1>10. CASE MonitorWake
  BY <1>1, <1>10 DEF MonitorWake, statsVars, Settled
<1>11. CASE MonitorRate \/ MonitorTotal \/ MonitorClear
  <2>1. statsLock = Monitor /\ UNCHANGED <<statsLock, begun, counted, answer>>
    BY <1>11, ThreadFacts DEF MonitorRate, MonitorTotal, MonitorClear, SetStats, Goto,
       IInv, LockInv, InStats
  <2> QED
    BY <1>1, <2>1, ThreadFacts DEF Settled
<1>12. ASSUME MonitorUnlock
       PROVE  Counters!Sample
  <2>1. /\ Settled = begun /\ Settled' = stats /\ UNCHANGED <<counted, answer>>
        /\ stats = [bytes |-> NoStats.bytes, rate |-> RateOf(begun), total |-> TotalOf(begun)]
    BY <1>12, ThreadFacts DEF MonitorUnlock, Goto, IInv, LockInv, InStats, Settled, SectionInv, Section
  <2> QED
    BY <2>1 DEF Counters!Sample, Settled, RateOf, TotalOf, NoStats, Counters!IO, IO
<1>13. Counters!IO = IO
  BY DEF Counters!IO, IO
<1> QED
  BY <1>2, <1>3, <1>4, <1>5, <1>6, <1>7, <1>8, <1>9, <1>10, <1>11, <1>12, <1>13
     DEF Next, Step, MonitorStep, Counters!Next

(* Callers cannot tell the locked counters from atomic ones: the two-step  *)
(* increment, the three-step sample and the two copies of stats_retrieve   *)
(* each act as one (rf24Stats.c:28-64).                                    *)
THEOREM CountersAreAtomic == Spec => ImplementsStats
<1>1. Init /\ [][Next]_vars /\ []IInv => ImplementsStats
  BY RefinesInit, RefinesNext, PTL DEF ImplementsStats, Counters!Spec
<1> QED
  BY <1>1, Invariant, PTL DEF Spec
=============================================================================
