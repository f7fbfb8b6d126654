------------------------- MODULE ProcessHandleProofs -------------------------
(***************************************************************************)
(* For any goroutines, successors, sources of the boot time and steps of   *)
(* the wall clock: what IsRunning answers was so during the call as long   *)
(* as one boot time is used, and one is once the cache has settled; a      *)
(* handle keeps the process it was made for; and Percent of a handle used  *)
(* by one call at a time is bounded by the time the samples span.          *)
(***************************************************************************)
EXTENDS ProcessHandle, TLAPS

USE ConstantsAssumption DEF vars, kernelVars, bootVars, handleVars, percentVars, callVars, Goto

-----------------------------------------------------------------------------
(* The inductive invariant *)

\* The pid is handed out to later and later processes, and only those have used CPU time.
Succession ==
    /\ clock # 0
    /\ alive # 0 => born[alive] # 0
    /\ \A i \in Incarnations : born[i] = 0 => used[i] = 0
    /\ \A i, j \in Incarnations : i < j /\ born[j] # 0 => 0 < born[i] /\ born[i] < born[j]

\* What a call holds at each of its steps.
Held ==
    \A c \in Callers :
        /\ pc[c] # "done" => answer[c] = "none"
        /\ pc[c] = "idle" => ct[c][2].who = 0
        /\ pc[c] \in {"exists", "fresh", "reread", "compare"} => ct[c][1].time # 0
        /\ pc[c] = "compare" => ct[c][2].time # 0

\* Which samples a call of Percent holds.
Sampled ==
    \A c \in Callers :
        /\ pc[c] \in {"idle", "times0", "times", "now0"} => sample[c][1] = Nil
        /\ pc[c] \in {"now", "keepTimes", "keepTime", "sleep", "times2"} => sample[c][1] # Nil
        /\ pc[c] \in {"now0", "now2", "delta", "calc", "storeTimes", "storeTime"} => sample[c][2] # Nil
        /\ pc[c] \in {"keepTime", "sleep", "times2", "now2", "delta", "calc"} => lastTimes # Nil

\* The goroutines get a handle that is ready; one with a creation time is not written.
Given ==
    /\ \A c \in Callers : (ready # "yes" => pc[c] = "idle") /\ (pinned => pc[c] \notin {"own", "store"})
    /\ pinned => ready = "yes" /\ createTime # 0

\* Who is between reading the stat file and having the creation time has read it from a
\* process that started, and that had the pid during the call.
Reading ==
    \A g \in Goroutines : fetch[g].stage # "none" =>
        /\ Fetching(g)
        /\ fetch[g].who # 0 /\ born[fetch[g].who] # 0 /\ fetch[g].start = born[fetch[g].who]
        /\ g \in Callers => fetch[g].who \in during[g]

\* A creation time e is the start of a process plus one of the boot times.
Proper(e, starts, bs) ==
    /\ e.time = 0 <=> e.who = 0
    /\ e.who # 0 => starts[e.who] # 0 /\ \E b \in bs : e.time = starts[e.who] + b

AllProper ==
    /\ Proper([time |-> createTime, who |-> owner], born, boots)
    /\ \A c \in Callers : \A k \in 1..2 : Proper(ct[c][k], born, boots)

\* A call sees who has the pid, and reads p2's creation time from one of those.
Seen ==
    \A c \in Callers : /\ pc[c] # "idle" => alive \in during[c]
                       /\ ct[c][2].who # 0 => ct[c][2].who \in during[c]

\* Since the CPU time of the sample s was read, the process that has the pid now has not
\* used more than went by.
BoundBy(s, who, cpu, t) ==
    s # Nil => s.read <= s.at /\ s.at <= t /\ (who # 0 => cpu[who] - s.cpu <= t - s.read)

SamplesBound ==
    /\ BoundBy(lastTimes, alive, used, clock)
    /\ \A c \in Callers : \A k \in 1..2 : BoundBy(sample[c][k], alive, used, clock)

\* Calls of Percent that do not overlap ...
Alone == \A c, d \in Callers : InPercent(c) /\ InPercent(d) => c = d

\* ... find the two fields of the handle of one sample, except between the writes of them ...
Whole ==
    \/ lastTimes = Nil \/ lastTime = lastTimes.at
    \/ \E c \in Callers : pc[c] \in {"keepTime", "storeTime"}

\* ... which is their own first one if they have an interval, and older than their last ...
Kept(c) ==
    /\ pc[c] = "storeTime" => lastTimes = sample[c][2]
    /\ pc[c] \in {"keepTime", "sleep", "times2", "now2", "delta", "calc"} /\ sample[c][1] # Nil =>
          lastTimes = sample[c][1]
    /\ pc[c] \in {"now0", "now2", "delta", "calc"} /\ lastTimes # Nil =>
          /\ lastTimes.at <= sample[c][2].at
          /\ sample[c][2].cpu - lastTimes.cpu <= sample[c][2].at - lastTimes.read
    /\ pc[c] = "calc" => basis[c].time = lastTimes.at

\* ... so that what they compute is bounded, and of that interval.
Bounded(c) ==
    LET first == basis[c].times  last == sample[c][2]
    IN  /\ percent[c] >= 0
        /\ percent[c] > 100 => first # Nil /\ first.read < first.at
        /\ first # Nil => percent[c] * (last.at - basis[c].time) <= 100 * (last.at - first.read)
        /\ sample[c][1] # Nil => first = sample[c][1] /\ basis[c].time = first.at

Computed(c) ==
    /\ pc[c] \notin {"storeTimes", "storeTime", "done"} => percent[c] = 0 /\ basis[c].times = Nil
    /\ pc[c] \in {"storeTimes", "storeTime"} \/ answer[c] = "percent" => Bounded(c)

Measured == ~raced => Alone /\ Whole /\ \A c \in Callers : Kept(c) /\ Computed(c)

Inv == /\ TypeOK /\ Succession /\ Held /\ Given /\ Reading /\ AllProper /\ Seen /\ IsRunningCorrect
       /\ Sampled /\ SamplesBound /\ Measured

-----------------------------------------------------------------------------
(* The steps *)

Labels == {"idle", "cached", "own", "store", "exists", "fresh", "reread", "compare", "done", "times0",
           "times", "now0", "now", "now2", "keepTimes", "keepTime", "sleep", "times2", "delta", "calc",
           "storeTimes", "storeTime"}
Answers == {"none", "true", "false", "error", "percent"}
InIsRunning == {"cached", "own", "store", "exists", "fresh", "reread", "compare"}
PercentLabels == {"times0", "times", "now0", "now", "now2", "keepTimes", "keepTime", "sleep", "times2",
                  "delta", "calc", "storeTimes", "storeTime"}

IsRunningStep(c) ==
    \/ CreateTimeCached(c) \/ CreateTimeRead(c) \/ CreateTimeStore(c) \/ FreshExists(c)
    \/ FreshCreateTime(c) \/ FreshReread(c) \/ Compare(c)

PercentStep(c) ==
    \/ PercentTimes(c) \/ PercentNow(c) \/ WriteTimes(c) \/ WriteTime(c) \/ PercentSleep(c)
    \/ PercentDelta(c) \/ PercentCalc(c)

\* Steps that leave the handle and the calls alone.
Aside == StepWallClock \/ StrayLoad \/ StrayStore \/ (\E g \in Goroutines : Fetch(g)) \/ UNCHANGED vars

LEMMA NextCases ==
    ASSUME [Next]_vars
    PROVE  \/ \E b \in BOOLEAN : Tick(b)
           \/ Exit \/ \E i \in Incarnations : Spawn(i)
           \/ Aside \/ NewProcessExists \/ NewProcessCreateTime
           \/ \E c \in Callers : \/ StartIsRunning(c)
                                 \/ \E interval \in BOOLEAN : StartPercent(c, interval)
                                 \/ IsRunningStep(c) \/ PercentStep(c) \/ Finish(c)
  BY DEF Next, Machine, Step, Aside, IsRunningStep, PercentStep

\* What the steps aside leave alone.
LEMMA AsideFrame ==
    ASSUME Aside
    PROVE  /\ UNCHANGED <<group, clock, alive, born, used, source, cacheBoot, boots>>
           /\ UNCHANGED <<handleVars, percentVars, callVars>>
  BY DEF Aside, StepWallClock, StrayLoad, StrayStore, Fetch, ReadStat, LoadBoot, ReadSource, Reach

\* What a step of another goroutine leaves to the operation of d.
Same(d) ==
    /\ pc'[d] = pc[d] /\ ct'[d] = ct[d] /\ sample'[d] = sample[d] /\ percent'[d] = percent[d]
    /\ basis'[d] = basis[d] /\ answer'[d] = answer[d] /\ during'[d] = during[d]

LEMMA OthersSame ==
    ASSUME TypeOK, NEW c \in Callers,
           \/ IsRunningStep(c) \/ PercentStep(c) \/ Finish(c) \/ StartIsRunning(c)
           \/ \E interval \in BOOLEAN : StartPercent(c, interval)
    PROVE  \A d \in Callers \ {c} : Same(d)
  <1> SUFFICES ASSUME NEW d \in Callers, d # c PROVE Same(d)
    OBVIOUS
  <1>0. /\ DOMAIN pc = Callers /\ DOMAIN ct = Callers /\ DOMAIN sample = Callers
        /\ DOMAIN percent = Callers /\ DOMAIN basis = Callers /\ DOMAIN answer = Callers
        /\ DOMAIN during = Callers
    BY DEF TypeOK
  <1> USE <1>0 DEF Same
  <1>1. ASSUME StartIsRunning(c) PROVE Same(d)
    BY <1>1 DEF StartIsRunning, Start
  <1>2. ASSUME CreateTimeCached(c) PROVE Same(d)
    BY <1>2 DEF CreateTimeCached, Local
  <1>3. ASSUME CreateTimeStore(c) PROVE Same(d)
    BY <1>3 DEF CreateTimeStore, Answer
  <1>4. ASSUME FreshExists(c) PROVE Same(d)
    BY <1>4 DEF FreshExists, Answer
  <1>5. ASSUME FreshCreateTime(c) PROVE Same(d)
    BY <1>5 DEF FreshCreateTime, Local
  <1>6. ASSUME FreshReread(c) PROVE Same(d)
    BY <1>6 DEF FreshReread, Local, Answer
  <1>7. ASSUME Compare(c) PROVE Same(d)
    BY <1>7 DEF Compare, Answer
  <1>8. ASSUME NEW interval \in BOOLEAN, StartPercent(c, interval) PROVE Same(d)
    BY <1>8 DEF StartPercent, Start
  <1>9. ASSUME PercentTimes(c) PROVE Same(d)
    BY <1>9 DEF PercentTimes, TakeSample, Answer
  <1>10. ASSUME WriteTimes(c) PROVE Same(d)
    BY <1>10 DEF WriteTimes
  <1>11. ASSUME WriteTime(c) PROVE Same(d)
    BY <1>11 DEF WriteTime, Answer
  <1>12. ASSUME PercentSleep(c) PROVE Same(d)
    BY <1>12 DEF PercentSleep, Answer
  <1>13. ASSUME PercentDelta(c) PROVE Same(d)
    BY <1>13 DEF PercentDelta
  <1>14. ASSUME PercentCalc(c) PROVE Same(d)
    BY <1>14 DEF PercentCalc
  <1>15. ASSUME Finish(c) PROVE Same(d)
    BY <1>15 DEF Finish
  <1>16. ASSUME CreateTimeRead(c) PROVE Same(d)
    BY <1>16 DEF CreateTimeRead, Local
  <1>17. ASSUME PercentNow(c) PROVE Same(d)
    BY <1>17 DEF PercentNow
  <1>18. QED
    BY <1>1, <1>2, <1>3, <1>4, <1>5, <1>6, <1>7, <1>8, <1>9, <1>10, <1>11, <1>12, <1>13, <1>14, <1>15,
       <1>16, <1>17 DEF IsRunningStep, PercentStep

\* What a step of IsRunning leaves alone.
LEMMA IsRunningFrame ==
    ASSUME TypeOK, NEW c \in Callers, IsRunningStep(c)
    PROVE  /\ UNCHANGED <<kernelVars, cacheBoot, stray, pinned, ready, percentVars>>
           /\ UNCHANGED <<sample, percent, basis, during>>
           /\ pc[c] \in InIsRunning /\ pc'[c] \in InIsRunning \cup {"done"}
           /\ pc'[c] = "done" => answer'[c] \in {"true", "false", "error"}
           /\ pc'[c] # "done" => answer'[c] = answer[c]
  <1>0. DOMAIN pc = Callers /\ DOMAIN answer = Callers
    BY DEF TypeOK
  <1> USE <1>0 DEF InIsRunning, Answer
  <1>1. CASE CreateTimeCached(c)
    BY <1>1 DEF CreateTimeCached
  <1>2. CASE CreateTimeRead(c)
    BY <1>2 DEF CreateTimeRead, Fetched
  <1>3. CASE CreateTimeStore(c)
    BY <1>3 DEF CreateTimeStore
  <1>4. CASE FreshExists(c)
    BY <1>4 DEF FreshExists
  <1>5. CASE FreshCreateTime(c)
    BY <1>5 DEF FreshCreateTime, Fetched
  <1>6. CASE FreshReread(c)
    BY <1>6 DEF FreshReread, Fetched
  <1>7. CASE Compare(c)
    BY <1>7 DEF Compare
  <1>8. QED
    BY <1>1, <1>2, <1>3, <1>4, <1>5, <1>6, <1>7 DEF IsRunningStep

\* What a step of Percent leaves alone.
LEMMA PercentFrame ==
    ASSUME TypeOK, NEW c \in Callers, PercentStep(c)
    PROVE  /\ UNCHANGED <<kernelVars, bootVars, handleVars, raced, ct, during>>
           /\ pc[c] \in PercentLabels /\ pc'[c] \in PercentLabels \cup {"done"}
           /\ pc'[c] = "done" => answer'[c] \in {"error", "percent"}
           /\ pc'[c] # "done" => answer'[c] = answer[c]
  <1>0. DOMAIN pc = Callers /\ DOMAIN answer = Callers
    BY DEF TypeOK
  <1> USE <1>0 DEF PercentLabels, Answer
  <1>1. CASE PercentTimes(c)
    BY <1>1 DEF PercentTimes, TakeSample
  <1>2. CASE PercentNow(c)
    BY <1>2 DEF PercentNow
  <1>3. CASE WriteTimes(c)
    BY <1>3 DEF WriteTimes
  <1>4. CASE WriteTime(c)
    BY <1>4 DEF WriteTime
  <1>5. CASE PercentSleep(c)
    BY <1>5 DEF PercentSleep
  <1>6. CASE PercentDelta(c)
    BY <1>6 DEF PercentDelta
  <1>7. CASE PercentCalc(c)
    BY <1>7 DEF PercentCalc
  <1>8. QED
    BY <1>1, <1>2, <1>3, <1>4, <1>5, <1>6, <1>7 DEF PercentStep

-----------------------------------------------------------------------------
(* Types *)

Taken == [who : Incarnations, cpu : Nat, read : Nat, at : Nat]

\* What a read of the creation time returns.
LEMMA ReadTypes ==
    ASSUME TypeOK, NEW g \in Goroutines, NEW r \in CreateTimes(g)
    PROVE  r.read \in Read /\ r.cache \in Nat /\ r.boots \subseteq Nat
  <1>1. NoRead \in Read
    BY DEF NoRead, Read
  <1>2. fetch[g] \in Fetches /\ cachedBoot \in Nat
    BY DEF TypeOK
  <1>3. \A b, k \in Nat : /\ Created(g, b, k).read \in Read /\ Created(g, b, k).cache \in Nat
                          /\ Created(g, b, k).boots \subseteq Nat
    BY <1>2 DEF Created, Read, Fetches
  <1>4. \/ r = [read |-> NoRead, cache |-> cachedBoot, boots |-> {}]
        \/ \E b, k \in Nat : r = Created(g, b, k)
    BY <1>2 DEF CreateTimes, Fetches
  <1>5. QED
    BY <1>1, <1>2, <1>3, <1>4

\* The cache and the boot times after a read.
LEMMA FetchedTypes ==
    ASSUME TypeOK, NEW g \in Goroutines, NEW r \in CreateTimes(g), Fetched(g, r)
    PROVE  /\ fetch' \in [Goroutines -> Fetches] /\ cachedBoot' \in Nat /\ boots' \subseteq Nat
           /\ UNCHANGED <<cacheBoot, stray>>
  <1>1. NoFetch \in Fetches
    BY DEF NoFetch, Fetches
  <1>2. r.cache \in Nat /\ r.boots \subseteq Nat
    BY ReadTypes
  <1>3. QED
    BY <1>1, <1>2 DEF Fetched, TypeOK

\* calculatePercent gives an integer.
LEMMA PercentType ==
    ASSUME NEW x \in Nat, NEW y \in Nat, NEW d \in Int
    PROVE  calculatePercent(x, y, d) \in Int
  <1>1. d > 0 => ((y - x) * 100) \div d \in Int
    OBVIOUS
  <1>2. d < 0 => ((y - x) * 100) \div (-d) \in Int
    OBVIOUS
  <1>3. QED
    BY <1>1, <1>2 DEF calculatePercent

LEMMA InitInv == Init => Inv
  <1> SUFFICES ASSUME Init PROVE Inv
    OBVIOUS
  <1> USE DEF Init
  <1>1. TypeOK
    <2>1. born \in [Incarnations -> Nat] /\ used \in [Incarnations -> Nat]
      OBVIOUS
    <2>2. ct \in [Callers -> [1..2 -> Read]] /\ sample \in [Callers -> [1..2 -> TimesStat]]
      BY DEF NoRead, Read, TimesStat
    <2>3. basis \in [Callers -> [times : TimesStat, time : Nat]]
      BY DEF NoBasis, TimesStat
    <2>4. alive \in 0..MaxIncarnation /\ clock \in Nat
      OBVIOUS
    <2>5. lastTimes \in TimesStat /\ lastTime \in Nat /\ createTime \in Nat /\ owner \in 0..MaxIncarnation
      BY DEF TimesStat
    <2>6. pc \in [Callers -> Labels] /\ answer \in [Callers -> Answers] /\ percent \in [Callers -> Int]
      BY DEF Labels, Answers
    <2>7. during \in [Callers -> SUBSET (0..MaxIncarnation)]
      OBVIOUS
    <2>8. fetch \in [Goroutines -> Fetches] /\ boots \subseteq Nat /\ cachedBoot \in Nat /\ stray \in Nat
      BY DEF NoFetch, Fetches
    <2>9. /\ bootTime \in BootTimes /\ ready \in {"no", "exists", "yes", "failed"} /\ pinned \in BOOLEAN
          /\ cacheBoot \in BOOLEAN /\ stepped \in BOOLEAN /\ raced \in BOOLEAN
          /\ source \in {"btime", "uptime", "sysinfo"}
      OBVIOUS
    <2> HIDE DEF Init
    <2>10. QED
      BY <2>1, <2>2, <2>3, <2>4, <2>5, <2>6, <2>7, <2>8, <2>9 DEF TypeOK, Labels, Answers
  <1>2. Succession
    BY DEF Succession, Incarnations
  <1>3. Held /\ Sampled /\ Given /\ Seen
    BY DEF Held, Sampled, Given, Seen, NoRead
  <1>4. AllProper /\ Reading
    BY DEF AllProper, Proper, NoRead, Reading, NoFetch
  <1>5. IsRunningCorrect
    BY DEF IsRunningCorrect, Linearizable
  <1>6. SamplesBound /\ Measured
    BY DEF SamplesBound, BoundBy, Measured, Alone, Whole, Kept, Computed, InPercent, NoBasis
  <1>7. QED
    BY <1>1, <1>2, <1>3, <1>4, <1>5, <1>6 DEF Inv

\* Every step keeps the types.
LEMMA TypeStep == Inv /\ [Next]_vars => TypeOK'
  <1> SUFFICES ASSUME Inv, [Next]_vars PROVE TypeOK'
    OBVIOUS
  <1>a. TypeOK /\ Sampled
    BY DEF Inv
  <1>b. /\ clock \in Nat /\ alive \in 0..MaxIncarnation
        /\ born \in [Incarnations -> Nat] /\ used \in [Incarnations -> Nat]
        /\ during \in [Callers -> SUBSET (0..MaxIncarnation)]
        /\ fetch \in [Goroutines -> Fetches]
    BY <1>a DEF TypeOK
  <1>c. /\ ct \in [Callers -> [1..2 -> Read]] /\ sample \in [Callers -> [1..2 -> TimesStat]]
        /\ basis \in [Callers -> [times : TimesStat, time : Nat]]
        /\ lastTimes \in TimesStat /\ lastTime \in Nat
    BY <1>a DEF TypeOK
  <1>d. pc \in [Callers -> Labels] /\ answer \in [Callers -> Answers]
    BY <1>a DEF TypeOK, Labels, Answers
  <1>1. ASSUME NEW b \in BOOLEAN, Tick(b) PROVE TypeOK'
    <2>1. clock' \in Nat
      BY <1>1, <1>b DEF Tick
    <2>2. used' \in [Incarnations -> Nat]
      <3>1. CASE b
        <4>1. used' = [used EXCEPT ![alive] = used[alive] + 1] /\ alive \in Incarnations
          BY <1>1, <1>b, <3>1 DEF Tick, Incarnations
        <4>2. QED
          BY <1>b, <4>1
      <3>2. CASE ~b
        BY <1>1, <1>b, <3>2 DEF Tick
      <3>3. QED
        BY <3>1, <3>2
    <2>3. QED
      BY <1>1, <1>a, <2>1, <2>2 DEF Tick, TypeOK
  <1>2. ASSUME Exit PROVE TypeOK'
    <2>1. during' \in [Callers -> SUBSET (0..MaxIncarnation)] /\ alive' \in 0..MaxIncarnation
      BY <1>2, <1>b DEF Exit, Witness
    <2>2. QED
      BY <1>2, <1>a, <2>1 DEF Exit, TypeOK
  <1>3. ASSUME NEW i \in Incarnations, Spawn(i) PROVE TypeOK'
    <2>0. i \in 0..MaxIncarnation
      BY DEF Incarnations
    <2>1. during' \in [Callers -> SUBSET (0..MaxIncarnation)]
      BY <1>3, <1>b, <2>0 DEF Spawn, Witness
    <2>2. born' \in [Incarnations -> Nat] /\ alive' \in 0..MaxIncarnation
      BY <1>3, <1>b, <2>0 DEF Spawn
    <2>3. QED
      BY <1>3, <1>a, <2>1, <2>2 DEF Spawn, TypeOK
  <1>4. ASSUME Aside PROVE TypeOK'
    <2>1. /\ UNCHANGED <<group, clock, alive, born, used, source, cacheBoot, boots>>
          /\ UNCHANGED <<handleVars, percentVars, callVars>>
      BY <1>4, AsideFrame
    <2>2. \A b \in BootReads : b \in Nat
      BY <1>a DEF BootReads, TypeOK
    <2>3. bootTime' \in BootTimes /\ stepped' \in BOOLEAN /\ cachedBoot' \in Nat /\ stray' \in Nat
      <3>1. CASE StepWallClock
        BY <1>a, <3>1 DEF StepWallClock, TypeOK
      <3>2. CASE StrayLoad
        BY <1>a, <2>2, <3>2 DEF StrayLoad, TypeOK
      <3>3. CASE StrayStore
        BY <1>a, <3>3 DEF StrayStore, TypeOK
      <3>4. CASE UNCHANGED <<bootTime, stepped, cachedBoot, stray>>
        BY <1>a, <3>4 DEF TypeOK
      <3>5. QED
        BY <1>4, <3>1, <3>2, <3>3, <3>4 DEF Aside, Fetch, ReadStat, LoadBoot, ReadSource, Reach
    <2>4. fetch' \in [Goroutines -> Fetches]
      <3>1. ASSUME NEW g \in Goroutines, NEW l \in {"source", "keep", "have"}, NEW b \in Nat, Reach(g, l, b)
            PROVE  fetch' \in [Goroutines -> Fetches]
        <4>1. fetch' = [fetch EXCEPT ![g] = [fetch[g] EXCEPT !.stage = l, !.boot = b]]
          BY <3>1, <1>b DEF Reach
        <4>2. [fetch[g] EXCEPT !.stage = l, !.boot = b] \in Fetches
          BY <1>b DEF Fetches
        <4>3. QED
          BY <1>b, <4>1, <4>2
      <3>2. ASSUME NEW g \in Goroutines, ReadStat(g) PROVE fetch' \in [Goroutines -> Fetches]
        <4>1. born[alive] \in Nat
          BY <3>2, <1>b DEF ReadStat, Incarnations
        <4>2. [stage |-> "load", who |-> alive, start |-> born[alive], boot |-> 0] \in Fetches
          BY <1>b, <4>1 DEF Fetches
        <4>3. QED
          BY <3>2, <1>b, <4>2 DEF ReadStat
      <3>3. ASSUME NEW g \in Goroutines, LoadBoot(g) PROVE fetch' \in [Goroutines -> Fetches]
        BY <3>1, <3>3 DEF LoadBoot
      <3>4. ASSUME NEW g \in Goroutines, ReadSource(g) PROVE fetch' \in [Goroutines -> Fetches]
        BY <2>2, <3>1, <3>4 DEF ReadSource
      <3>5. fetch' = fetch \/ \E g \in Goroutines : Fetch(g)
        BY <1>4 DEF Aside, StepWallClock, StrayLoad, StrayStore
      <3>6. QED
        BY <1>b, <3>2, <3>3, <3>4, <3>5 DEF Fetch
    <2>5. QED
      BY <1>a, <2>1, <2>3, <2>4 DEF TypeOK
  <1>5. ASSUME NewProcessExists PROVE TypeOK'
    BY <1>5, <1>a DEF NewProcessExists, TypeOK
  <1>6. ASSUME NewProcessCreateTime PROVE TypeOK'
    <2>0. Maker \in Goroutines
      BY DEF Goroutines
    <2>1. PICK r \in CreateTimes(Maker) :
             Fetched(Maker, r) /\ createTime' = r.read.time /\ owner' = r.read.who
      BY <1>6 DEF NewProcessCreateTime
    <2>2. /\ fetch' \in [Goroutines -> Fetches] /\ cachedBoot' \in Nat /\ boots' \subseteq Nat
          /\ UNCHANGED <<cacheBoot, stray>>
      BY <1>a, <2>0, <2>1, FetchedTypes
    <2>3. createTime' \in Nat /\ owner' \in 0..MaxIncarnation
      BY <1>a, <2>0, <2>1, ReadTypes DEF Read
    <2>4. pinned' \in BOOLEAN /\ ready' = "yes" /\ UNCHANGED <<kernelVars, percentVars, callVars>>
      BY <1>6 DEF NewProcessCreateTime
    <2>5. QED
      BY <1>a, <2>2, <2>3, <2>4 DEF TypeOK
  <1>7. ASSUME NEW c \in Callers, StartIsRunning(c) PROVE TypeOK'
    <2>1. during' \in [Callers -> SUBSET (0..MaxIncarnation)]
      BY <1>7, <1>b DEF StartIsRunning, Start
    <2>2. QED
      BY <1>7, <1>a, <2>1 DEF StartIsRunning, Start, TypeOK
  <1>8. ASSUME NEW c \in Callers, NEW interval \in BOOLEAN, StartPercent(c, interval) PROVE TypeOK'
    <2>1. during' \in [Callers -> SUBSET (0..MaxIncarnation)]
      BY <1>8, <1>b DEF StartPercent, Start
    <2>2. raced' \in BOOLEAN
      BY <1>8 DEF StartPercent
    <2>3. QED
      BY <1>8, <1>a, <2>1, <2>2 DEF StartPercent, Start, TypeOK
  <1>9. ASSUME NEW c \in Callers, IsRunningStep(c) PROVE TypeOK'
    <2>0. c \in Goroutines
      BY DEF Goroutines
    <2>1. /\ UNCHANGED <<kernelVars, cacheBoot, stray, pinned, ready, percentVars>>
          /\ UNCHANGED <<sample, percent, basis, during>>
      BY <1>9, <1>a, IsRunningFrame
    <2>2. pc' \in [Callers -> Labels] /\ answer' \in [Callers -> Answers]
      <3>1. \E l \in Labels : pc' = [pc EXCEPT ![c] = l]
        BY <1>9 DEF IsRunningStep, CreateTimeCached, CreateTimeRead, CreateTimeStore, FreshExists,
           FreshCreateTime, FreshReread, Compare, Answer, Labels
      <3>2. answer' = answer \/ \E a \in Answers : answer' = [answer EXCEPT ![c] = a]
        BY <1>9 DEF IsRunningStep, CreateTimeCached, CreateTimeRead, CreateTimeStore, FreshExists,
           FreshCreateTime, FreshReread, Compare, Answer, Answers
      <3>3. QED
        BY <1>d, <3>1, <3>2
    <2>3. ASSUME NEW r \in CreateTimes(c), NEW k \in 1..2, Fetched(c, r), Local(c, k, r.read)
          PROVE  /\ fetch' \in [Goroutines -> Fetches] /\ cachedBoot' \in Nat /\ boots' \subseteq Nat
                 /\ ct' \in [Callers -> [1..2 -> Read]]
      <3>1. r.read \in Read
        BY <1>a, <2>0, ReadTypes
      <3>2. ct' \in [Callers -> [1..2 -> Read]]
        BY <1>c, <2>3, <3>1 DEF Local
      <3>3. QED
        BY <1>a, <2>0, <2>3, <3>2, FetchedTypes
    <2>4. /\ fetch' \in [Goroutines -> Fetches] /\ cachedBoot' \in Nat /\ boots' \subseteq Nat
          /\ ct' \in [Callers -> [1..2 -> Read]]
      <3>1. CASE \E r \in CreateTimes(c), k \in 1..2 : Fetched(c, r) /\ Local(c, k, r.read)
        BY <2>3, <3>1
      <3>2. CASE UNCHANGED bootVars /\ (ct' = ct \/ Local(c, 1, [time |-> createTime, who |-> owner]))
        <4>1. [time |-> createTime, who |-> owner] \in Read
          BY <1>a DEF Read, TypeOK
        <4>2. ct' \in [Callers -> [1..2 -> Read]]
          BY <1>c, <3>2, <4>1 DEF Local
        <4>3. QED
          BY <1>a, <3>2, <4>2 DEF TypeOK
      <3>3. QED
        BY <1>9, <3>1, <3>2 DEF IsRunningStep, CreateTimeCached, CreateTimeRead, CreateTimeStore,
           FreshExists, FreshCreateTime, FreshReread, Compare
    <2>5. createTime' \in Nat /\ owner' \in 0..MaxIncarnation
      <3>1. CASE CreateTimeStore(c)
        <4>1. ct[c][1] \in Read
          BY <1>c
        <4>2. QED
          BY <3>1, <4>1 DEF CreateTimeStore, Read
      <3>2. CASE UNCHANGED handleVars
        BY <1>a, <3>2 DEF TypeOK
      <3>3. QED
        BY <1>9, <3>1, <3>2 DEF IsRunningStep, CreateTimeCached, CreateTimeRead, FreshExists,
           FreshCreateTime, FreshReread, Compare
    <2>6. QED
      BY <1>a, <2>1, <2>2, <2>4, <2>5 DEF TypeOK, Labels, Answers
  <1>10. ASSUME NEW c \in Callers, PercentStep(c) PROVE TypeOK'
    <2>1. UNCHANGED <<kernelVars, bootVars, handleVars, raced, ct, during>>
      BY <1>10, <1>a, PercentFrame
    <2>2. pc' \in [Callers -> Labels] /\ answer' \in [Callers -> Answers]
      <3>1. \E l \in Labels : pc' = [pc EXCEPT ![c] = l]
        BY <1>10 DEF PercentStep, PercentTimes, TakeSample, PercentNow, WriteTimes, WriteTime,
           PercentSleep, PercentDelta, PercentCalc, Answer, Labels
      <3>2. answer' = answer \/ \E a \in Answers : answer' = [answer EXCEPT ![c] = a]
        BY <1>10 DEF PercentStep, PercentTimes, TakeSample, PercentNow, WriteTimes, WriteTime,
           PercentSleep, PercentDelta, PercentCalc, Answer, Answers
      <3>3. QED
        BY <1>d, <3>1, <3>2
    <2>3. sample' \in [Callers -> [1..2 -> TimesStat]]
      <3>1. CASE sample' = sample
        BY <1>c, <3>1
      <3>2. CASE PercentTimes(c) /\ sample' # sample
        <4>1. PICK k \in 1..2 : /\ alive # 0
                 /\ sample' = [sample EXCEPT ![c][k] =
                       [who |-> alive, cpu |-> used[alive], read |-> clock, at |-> clock]]
          BY <3>2 DEF PercentTimes, TakeSample
        <4>2. alive \in Incarnations /\ used[alive] \in Nat
          BY <1>b, <4>1 DEF Incarnations
        <4>3. [who |-> alive, cpu |-> used[alive], read |-> clock, at |-> clock] \in TimesStat
          BY <1>b, <4>2 DEF TimesStat
        <4>4. QED
          BY <1>c, <4>1, <4>3
      <3>3. CASE PercentNow(c)
        <4>1. PICK k \in 1..2 : sample[c][k] # Nil /\ sample' = [sample EXCEPT ![c][k].at = clock]
          BY <3>3, <1>a DEF PercentNow, Sampled
        <4>2. [sample[c][k] EXCEPT !.at = clock] \in TimesStat
          <5>1. sample[c][k] \in Taken
            BY <1>c, <4>1 DEF TimesStat, Taken
          <5>2. [sample[c][k] EXCEPT !.at = clock] \in Taken
            BY <1>b, <5>1 DEF Taken
          <5>3. QED
            BY <5>2 DEF TimesStat, Taken
        <4>3. sample' = [sample EXCEPT ![c][k] = [sample[c][k] EXCEPT !.at = clock]]
          BY <4>1
        <4>4. QED
          BY <1>c, <4>2, <4>3
      <3>4. QED
        BY <1>10, <3>1, <3>2, <3>3 DEF PercentStep, WriteTimes, WriteTime, PercentSleep,
           PercentDelta, PercentCalc
    <2>4. lastTimes' \in TimesStat
      BY <1>10, <1>c DEF PercentStep, PercentTimes, PercentNow, WriteTimes, WriteTime, PercentSleep,
         PercentDelta, PercentCalc
    <2>5. lastTime' \in Nat
      <3>1. CASE WriteTime(c)
        <4>1. PICK k \in 1..2 : lastTime' = sample[c][k].at /\ sample[c][k] # Nil
          BY <3>1, <1>a DEF WriteTime, Sampled
        <4>2. sample[c][k] \in Taken
          BY <1>c, <4>1 DEF TimesStat, Taken
        <4>3. QED
          BY <4>1, <4>2 DEF Taken
      <3>2. CASE lastTime' = lastTime
        BY <1>c, <3>2
      <3>3. QED
        BY <1>10, <3>1, <3>2 DEF PercentStep, PercentTimes, PercentNow, WriteTimes, PercentSleep,
           PercentDelta, PercentCalc
    <2>6. basis' \in [Callers -> [times : TimesStat, time : Nat]]
      <3>1. CASE PercentDelta(c)
        BY <1>c, <3>1 DEF PercentDelta
      <3>2. CASE PercentCalc(c)
        BY <1>c, <3>2 DEF PercentCalc
      <3>3. CASE basis' = basis
        BY <1>c, <3>3
      <3>4. QED
        BY <1>10, <3>1, <3>2, <3>3 DEF PercentStep, PercentTimes, PercentNow, WriteTimes, WriteTime,
           PercentSleep
    <2>7. percent' \in [Callers -> Int]
      <3>1. CASE PercentCalc(c)
        <4>1. lastTimes \in Taken /\ sample[c][2] \in Taken
          BY <3>1, <1>a, <1>c DEF PercentCalc, Sampled, TimesStat, Taken
        <4>2. calculatePercent(lastTimes.cpu, sample[c][2].cpu, sample[c][2].at - basis[c].time) \in Int
          <5>1. lastTimes.cpu \in Nat /\ sample[c][2].cpu \in Nat
            BY <4>1 DEF Taken
          <5>2. sample[c][2].at - basis[c].time \in Int
            BY <1>c, <4>1 DEF Taken
          <5>3. QED
            BY <5>1, <5>2, PercentType
        <4>3. QED
          BY <3>1, <1>a, <4>2 DEF PercentCalc, TypeOK
      <3>2. CASE percent' = percent
        BY <1>a, <3>2 DEF TypeOK
      <3>3. QED
        BY <1>10, <3>1, <3>2 DEF PercentStep, PercentTimes, PercentNow, WriteTimes, WriteTime,
           PercentSleep, PercentDelta
    <2>8. QED
      BY <1>a, <2>1, <2>2, <2>3, <2>4, <2>5, <2>6, <2>7 DEF TypeOK, Labels, Answers
  <1>11. ASSUME NEW c \in Callers, Finish(c) PROVE TypeOK'
    <2>1. ct' \in [Callers -> [1..2 -> Read]] /\ sample' \in [Callers -> [1..2 -> TimesStat]]
      BY <1>11, <1>c DEF Finish, NoRead, Read, TimesStat
    <2>2. basis' \in [Callers -> [times : TimesStat, time : Nat]]
      BY <1>11, <1>c DEF Finish, NoBasis, TimesStat
    <2>3. during' \in [Callers -> SUBSET (0..MaxIncarnation)] /\ percent' \in [Callers -> Int]
      BY <1>11, <1>a DEF Finish, TypeOK
    <2>4. QED
      BY <1>11, <1>a, <2>1, <2>2, <2>3 DEF Finish, TypeOK
  <1>12. QED
    BY <1>1, <1>2, <1>3, <1>4, <1>5, <1>6, <1>7, <1>8, <1>9, <1>10, <1>11, NextCases

-----------------------------------------------------------------------------
(* The machine *)

\* Who has the pid, and the start and CPU time of its processes, change by Tick, Exit, Spawn.
LEMMA SuccessionStep == Inv /\ [Next]_vars => Succession'
  <1> SUFFICES ASSUME Inv, [Next]_vars PROVE Succession'
    OBVIOUS
  <1>a. TypeOK /\ Succession
    BY DEF Inv
  <1>b. /\ clock \in Nat /\ alive \in 0..MaxIncarnation
        /\ born \in [Incarnations -> Nat] /\ used \in [Incarnations -> Nat]
    BY <1>a DEF TypeOK
  <1>c. alive # 0 => alive \in Incarnations
    BY <1>b DEF Incarnations
  <1> USE DEF Succession
  <1>1. ASSUME NEW b \in BOOLEAN, Tick(b) PROVE Succession'
    <2>1. clock' # 0 /\ alive' = alive /\ born' = born
      BY <1>1, <1>b DEF Tick
    <2>2. \A i \in Incarnations : born[i] = 0 => used'[i] = 0
      <3>1. CASE b
        <4>1. used' = [used EXCEPT ![alive] = used[alive] + 1] /\ alive # 0
          BY <1>1, <3>1 DEF Tick
        <4>2. QED
          BY <1>a, <1>b, <1>c, <4>1
      <3>2. CASE ~b
        BY <1>1, <1>a, <3>2 DEF Tick
      <3>3. QED
        BY <3>1, <3>2
    <2>3. QED
      BY <1>a, <2>1, <2>2
  <1>2. ASSUME Exit PROVE Succession'
    BY <1>2, <1>a DEF Exit
  <1>3. ASSUME NEW i \in Incarnations, Spawn(i) PROVE Succession'
    <2>1. /\ clock' = clock /\ used' = used /\ alive' = i /\ born[i] = 0 /\ born'[i] = clock
          /\ \A j \in Incarnations \ {i} : born'[j] = born[j]
          /\ \A j \in Incarnations : j < i => 0 < born[j] /\ born[j] < clock
      BY <1>3, <1>b DEF Spawn
    <2>2. \A j \in Incarnations : j > i => born[j] = 0
      <3> SUFFICES ASSUME NEW j \in Incarnations, j > i, born[j] # 0 PROVE FALSE
        OBVIOUS
      <3>1. i < j
        BY DEF Incarnations
      <3>2. 0 < born[i]
        BY <1>a, <3>1
      <3>3. QED
        BY <2>1, <3>2
    <2>3. \A j, k \in Incarnations : j < k /\ born'[k] # 0 => 0 < born'[j] /\ born'[j] < born'[k]
      <3> SUFFICES ASSUME NEW j \in Incarnations, NEW k \in Incarnations, j < k, born'[k] # 0
                   PROVE  0 < born'[j] /\ born'[j] < born'[k]
        OBVIOUS
      <3>1. CASE k = i
        <4>1. j # i
          BY <3>1 DEF Incarnations
        <4>2. QED
          BY <2>1, <3>1, <4>1
      <3>2. CASE k # i /\ j = i
        <4>1. k > i
          BY <3>2 DEF Incarnations
        <4>2. QED
          BY <2>1, <2>2, <3>2, <4>1
      <3>3. CASE k # i /\ j # i
        BY <1>a, <2>1, <3>3
      <3>4. QED
        BY <3>1, <3>2, <3>3
    <2>4. \A j \in Incarnations : born'[j] = 0 => used'[j] = 0
      BY <1>a, <2>1
    <2>5. QED
      BY <1>a, <2>1, <2>3, <2>4
  <1>4. CASE UNCHANGED <<clock, alive, born, used>>
    BY <1>4, <1>a
  <1>5. \/ \E b \in BOOLEAN : Tick(b)
        \/ Exit \/ \E i \in Incarnations : Spawn(i)
        \/ UNCHANGED <<clock, alive, born, used>>
    <2>1. Aside => UNCHANGED <<clock, alive, born, used>>
      BY AsideFrame
    <2>2. \A c \in Callers : IsRunningStep(c) \/ PercentStep(c) => UNCHANGED <<clock, alive, born, used>>
      BY <1>a, IsRunningFrame, PercentFrame
    <2>3. QED
      BY <2>1, <2>2, NextCases DEF NewProcessExists, NewProcessCreateTime, StartIsRunning, StartPercent,
         Start, Finish
  <1>6. QED
    BY <1>1, <1>2, <1>3, <1>4, <1>5

\* Two processes do not start at the same time.
LEMMA StartsDiffer ==
    ASSUME TypeOK, Succession, NEW i \in Incarnations, NEW j \in Incarnations,
           born[i] # 0, born[i] = born[j]
    PROVE  i = j
  <1>1. born[i] \in Nat /\ born[j] \in Nat /\ i \in Int /\ j \in Int
    BY DEF TypeOK, Incarnations
  <1>2. ~(i < j) /\ ~(j < i)
    BY <1>1 DEF Succession
  <1>3. QED
    BY <1>1, <1>2

\* The start of a process does not change, and boot times are only added.
LEMMA StartsStay ==
    ASSUME TypeOK, [Next]_vars
    PROVE  (\A i \in Incarnations : born[i] # 0 => born'[i] = born[i]) /\ boots \subseteq boots'
  <1>1. ASSUME NEW i \in Incarnations, Spawn(i)
        PROVE  \A j \in Incarnations : born[j] # 0 => born'[j] = born[j]
    BY <1>1 DEF Spawn, TypeOK
  <1>2. Aside => UNCHANGED <<born, boots>>
    BY AsideFrame
  <1>3. \A c \in Callers : IsRunningStep(c) => UNCHANGED born /\ boots \subseteq boots'
    <2>1. \A c \in Callers : IsRunningStep(c) => UNCHANGED born
      BY IsRunningFrame
    <2>2. \A c \in Callers : IsRunningStep(c) => boots \subseteq boots'
      BY DEF IsRunningStep, CreateTimeCached, CreateTimeRead, CreateTimeStore, FreshExists,
         FreshCreateTime, FreshReread, Compare, Fetched
    <2>3. QED
      BY <2>1, <2>2
  <1>4. \A c \in Callers : PercentStep(c) => UNCHANGED <<born, boots>>
    BY PercentFrame
  <1>5. \/ \E i \in Incarnations : Spawn(i)
        \/ UNCHANGED born
    BY <1>2, <1>3, <1>4, NextCases DEF Tick, Exit, NewProcessExists, NewProcessCreateTime,
       StartIsRunning, StartPercent, Start, Finish
  <1>6. boots \subseteq boots'
    BY <1>2, <1>3, <1>4, NextCases DEF Tick, Exit, Spawn, NewProcessExists, NewProcessCreateTime, Fetched,
       StartIsRunning, StartPercent, Start, Finish
  <1>7. QED
    BY <1>1, <1>5, <1>6

-----------------------------------------------------------------------------
(* Creation times *)

\* What a read of the creation time gives is proper, and of a process that had the pid.
LEMMA ReadProper ==
    ASSUME TypeOK, Reading, NEW g \in Goroutines, NEW r \in CreateTimes(g), Fetched(g, r),
           UNCHANGED kernelVars
    PROVE  /\ Proper(r.read, born', boots')
           /\ r.read.who # 0 /\ g \in Callers => r.read.who \in during[g]
  <1>1. CASE r = [read |-> NoRead, cache |-> cachedBoot, boots |-> {}]
    BY <1>1 DEF NoRead, Proper
  <1>2. ASSUME fetch[g].stage # "none", NEW b \in Nat, NEW k \in Nat, r = Created(g, b, k)
        PROVE  /\ Proper(r.read, born', boots')
               /\ r.read.who # 0 /\ g \in Callers => r.read.who \in during[g]
    <2>1. r.read.time = fetch[g].start + b /\ r.read.who = fetch[g].who /\ r.boots = {b}
      BY <1>2 DEF Created
    <2>2. /\ fetch[g].who # 0 /\ born[fetch[g].who] # 0 /\ fetch[g].start = born[fetch[g].who]
          /\ g \in Callers => fetch[g].who \in during[g]
      BY <1>2 DEF Reading
    <2>3. fetch[g] \in Fetches
      BY DEF TypeOK
    <2>4. fetch[g].start \in Nat
      BY <2>3 DEF Fetches
    <2>5. r.read.time # 0
      BY <2>1, <2>2, <2>4
    <2>6. b \in boots' /\ born' = born
      BY <2>1 DEF Fetched
    <2>7. QED
      BY <2>1, <2>2, <2>5, <2>6 DEF Proper
  <1>3. \/ r = [read |-> NoRead, cache |-> cachedBoot, boots |-> {}]
        \/ fetch[g].stage # "none" /\ \E b, k \in Nat : r = Created(g, b, k)
    <2>1. fetch[g] \in Fetches /\ cachedBoot \in Nat
      BY DEF TypeOK
    <2>2. QED
      BY <2>1 DEF CreateTimes, Fetches
  <1>4. QED
    BY <1>1, <1>2, <1>3

\* A creation time that is proper stays so.
LEMMA StaysProper ==
    ASSUME TypeOK, [Next]_vars, NEW e \in Read, Proper(e, born, boots)
    PROVE  Proper(e, born', boots')
  <1>1. e.who # 0 => e.who \in Incarnations
    BY DEF Read, Incarnations
  <1>2. QED
    BY <1>1, StartsStay DEF Proper

LEMMA ProperStep == Inv /\ [Next]_vars => AllProper'
  <1> SUFFICES ASSUME Inv, [Next]_vars PROVE AllProper'
    OBVIOUS
  <1>a. TypeOK /\ Reading /\ AllProper
    BY DEF Inv
  <1> DEFINE Good(e) == Proper(e, born', boots')
             handle == [time |-> createTime, who |-> owner]
  <1>b. /\ handle \in Read /\ Good(handle)
        /\ \A c \in Callers : \A k \in 1..2 : ct[c][k] \in Read /\ Good(ct[c][k])
    <2>1. handle \in Read /\ \A c \in Callers : \A k \in 1..2 : ct[c][k] \in Read
      BY <1>a DEF TypeOK, Read
    <2>2. QED
      BY <1>a, <2>1, StaysProper DEF AllProper
  <1>c. Good(NoRead)
    BY DEF NoRead, Proper
  <1>d. ASSUME NEW g \in Goroutines, NEW r \in CreateTimes(g), Fetched(g, r), UNCHANGED kernelVars
        PROVE  Good(r.read)
    BY <1>a, <1>d, ReadProper
  <1> HIDE DEF Good
  <1>1. ASSUME UNCHANGED <<createTime, owner, ct>> PROVE AllProper'
    BY <1>1, <1>b DEF AllProper, Good
  <1>2. ASSUME NewProcessCreateTime PROVE AllProper'
    <2>0. Maker \in Goroutines
      BY DEF Goroutines
    <2>1. PICK r \in CreateTimes(Maker) :
             Fetched(Maker, r) /\ createTime' = r.read.time /\ owner' = r.read.who
      BY <1>2 DEF NewProcessCreateTime
    <2>2. Good(r.read) /\ r.read \in Read
      BY <1>2, <1>a, <1>d, <2>0, <2>1, ReadTypes DEF NewProcessCreateTime
    <2>3. [time |-> createTime', who |-> owner'] = r.read
      BY <2>1, <2>2 DEF Read
    <2>4. ct' = ct
      BY <1>2 DEF NewProcessCreateTime
    <2>5. QED
      BY <1>b, <2>2, <2>3, <2>4 DEF AllProper, Good
  <1>3. ASSUME NEW c \in Callers, CreateTimeStore(c) PROVE AllProper'
    <2>1. createTime' = ct[c][1].time /\ owner' = ct[c][1].who /\ ct' = ct
      BY <1>3 DEF CreateTimeStore
    <2>2. Good(ct[c][1]) /\ ct[c][1] \in Read
      BY <1>b
    <2>3. [time |-> createTime', who |-> owner'] = ct[c][1]
      BY <2>1, <2>2 DEF Read
    <2>4. QED
      BY <1>b, <2>1, <2>2, <2>3 DEF AllProper, Good
  <1>4. ASSUME NEW c \in Callers, NEW l \in 1..2, NEW e, Good(e), Local(c, l, e), UNCHANGED <<createTime,
               owner>>
        PROVE  AllProper'
    <2>1. ct' = [ct EXCEPT ![c][l] = e] /\ ct \in [Callers -> [1..2 -> Read]]
      BY <1>4, <1>a DEF Local, TypeOK
    <2>2. \A d \in Callers : \A k \in 1..2 : Good(ct'[d][k])
      BY <1>4, <1>b, <2>1
    <2>3. QED
      BY <1>4, <1>b, <2>2 DEF AllProper, Good
  <1>5. ASSUME NEW c \in Callers, IsRunningStep(c), ~CreateTimeStore(c) PROVE AllProper'
    <2>0. c \in Goroutines
      BY DEF Goroutines
    <2>1. UNCHANGED <<kernelVars, createTime, owner>>
      BY <1>5 DEF IsRunningStep, CreateTimeCached, CreateTimeRead, FreshExists, FreshCreateTime,
         FreshReread, Compare
    <2>2. \/ ct' = ct \/ Local(c, 1, handle)
          \/ \E l \in 1..2, r \in CreateTimes(c) : Fetched(c, r) /\ Local(c, l, r.read)
      BY <1>5 DEF IsRunningStep, CreateTimeCached, CreateTimeRead, FreshExists, FreshCreateTime,
         FreshReread, Compare
    <2>3. QED
      BY <1>1, <1>4, <1>b, <1>d, <2>0, <2>1, <2>2
  <1>6. ASSUME NEW c \in Callers, Finish(c) PROVE AllProper'
    <2>1. ct' = [ct EXCEPT ![c] = [k \in 1..2 |-> NoRead]] /\ UNCHANGED <<createTime, owner>>
      BY <1>6 DEF Finish
    <2>2. \A d \in Callers : \A k \in 1..2 : Good(ct'[d][k])
      BY <1>a, <1>b, <1>c, <2>1 DEF TypeOK
    <2>3. QED
      BY <1>b, <2>1, <2>2 DEF AllProper, Good
  <1>7. \/ UNCHANGED <<createTime, owner, ct>> \/ NewProcessCreateTime
        \/ \E c \in Callers : IsRunningStep(c) \/ Finish(c)
    <2>1. Aside => UNCHANGED <<createTime, owner, ct>>
      BY AsideFrame
    <2>2. \A c \in Callers : PercentStep(c) => UNCHANGED <<createTime, owner, ct>>
      BY <1>a, PercentFrame
    <2>3. QED
      BY <2>1, <2>2, NextCases DEF Tick, Exit, Spawn, NewProcessExists, StartIsRunning, StartPercent, Start
  <1>8. QED
    BY <1>1, <1>2, <1>3, <1>5, <1>6, <1>7

\* Who is reading a creation time goes on, or is done.
LEMMA ReadingStep == Inv /\ [Next]_vars => Reading'
  <1> SUFFICES ASSUME Inv, [Next]_vars PROVE Reading'
    OBVIOUS
  <1>a. TypeOK /\ Reading /\ Seen /\ Succession
    BY DEF Inv
  <1>b. fetch \in [Goroutines -> Fetches] /\ DOMAIN pc = Callers /\ DOMAIN during = Callers
    BY <1>a DEF TypeOK
  <1>c. \A g \in Goroutines : fetch[g].who # 0 => fetch[g].who \in Incarnations
    <2>1. \A g \in Goroutines : fetch[g] \in Fetches
      BY <1>b
    <2>2. QED
      BY <2>1 DEF Fetches, Incarnations
  \* It is enough to look at who is reading afterwards and was before.
  <1>1. ASSUME NEW g \in Goroutines,
               fetch[g].stage # "none", fetch'[g].who = fetch[g].who, fetch'[g].start = fetch[g].start,
               Fetching(g)', g \in Callers => during[g] \subseteq during'[g]
        PROVE  /\ Fetching(g)'
               /\ fetch'[g].who # 0 /\ born'[fetch'[g].who] # 0 /\ fetch'[g].start = born'[fetch'[g].who]
               /\ g \in Callers => fetch'[g].who \in during'[g]
    BY <1>a, <1>c, <1>1, StartsStay DEF Reading
  <1>2. ASSUME fetch' = fetch,
               \A g \in Goroutines : Fetching(g) =>
                   Fetching(g)' /\ (g \in Callers => during[g] \subseteq during'[g])
        PROVE  Reading'
    BY <1>a, <1>1, <1>2 DEF Reading
  <1>3. ASSUME NEW g \in Goroutines, fetch'[g].stage = "none",
               \A h \in Goroutines \ {g} : fetch'[h] = fetch[h],
               \A h \in Goroutines \ {g} : Fetching(h) =>
                   Fetching(h)' /\ (h \in Callers => during[h] \subseteq during'[h])
        PROVE  Reading'
    BY <1>a, <1>1, <1>3 DEF Reading
  <1>4. ASSUME NEW b \in BOOLEAN, Tick(b) PROVE Reading'
    BY <1>2, <1>4 DEF Tick, Fetching
  <1>5. ASSUME Exit \/ \E i \in Incarnations : Spawn(i) PROVE Reading'
    <2>1. /\ UNCHANGED <<fetch, pc, ready>>
          /\ \E w : \A c \in Callers : during'[c] = IF pc[c] = "idle" THEN {} ELSE during[c] \cup {w}
      BY <1>5 DEF Exit, Spawn, Witness
    <2>2. \A g \in Goroutines : Fetching(g) => Fetching(g)' /\ (g \in Callers => during[g] \subseteq during'[g])
      BY <2>1 DEF Fetching
    <2>3. QED
      BY <1>2, <2>1, <2>2
  <1>6. ASSUME Aside PROVE Reading'
    <2>1. UNCHANGED <<alive, born, pc, ready, during>>
      BY <1>6, AsideFrame
    <2>2. CASE fetch' = fetch
      BY <1>2, <2>1, <2>2 DEF Fetching
    <2>3. ASSUME NEW g \in Goroutines, ReadStat(g) PROVE Reading'
      <3>1. /\ Fetching(g) /\ alive # 0
            /\ fetch'[g] = [stage |-> "load", who |-> alive, start |-> born[alive], boot |-> 0]
            /\ \A h \in Goroutines \ {g} : fetch'[h] = fetch[h]
        BY <2>3, <1>b DEF ReadStat
      <3>2. fetch'[g].who = alive /\ fetch'[g].start = born[alive]
        BY <3>1
      <3>3. g \in Callers => alive \in during[g]
        BY <1>a, <3>1 DEF Seen, Fetching
      <3>4. \A h \in Goroutines : Fetching(h)' <=> Fetching(h)
        BY <2>1 DEF Fetching
      <3>5. QED
        BY <1>1, <1>a, <2>1, <3>1, <3>2, <3>3, <3>4 DEF Reading, Succession
    <2>4. ASSUME NEW g \in Goroutines, LoadBoot(g) \/ ReadSource(g) PROVE Reading'
      <3>1. /\ fetch[g].stage # "none" /\ fetch'[g].who = fetch[g].who /\ fetch'[g].start = fetch[g].start
            /\ \A h \in Goroutines \ {g} : fetch'[h] = fetch[h]
        <4>1. fetch[g].stage # "none"
          BY <2>4 DEF LoadBoot, ReadSource
        <4>2. PICK l, b : fetch' = [fetch EXCEPT ![g].stage = l, ![g].boot = b]
          BY <2>4 DEF LoadBoot, ReadSource, Reach
        <4>3. fetch' = [fetch EXCEPT ![g] = [fetch[g] EXCEPT !.stage = l, !.boot = b]] /\ fetch[g] \in Fetches
          BY <1>b, <4>2
        <4>4. fetch'[g] = [fetch[g] EXCEPT !.stage = l, !.boot = b]
          BY <1>b, <4>3
        <4>5. fetch'[g].who = fetch[g].who /\ fetch'[g].start = fetch[g].start
          BY <4>3, <4>4 DEF Fetches
        <4>6. \A h \in Goroutines \ {g} : fetch'[h] = fetch[h]
          BY <1>b, <4>3
        <4>7. QED
          BY <4>1, <4>5, <4>6
      <3>2. \A h \in Goroutines : Fetching(h)' <=> Fetching(h)
        BY <2>1 DEF Fetching
      <3>3. Fetching(g)
        BY <1>a, <3>1 DEF Reading
      <3>4. QED
        BY <1>1, <1>a, <2>1, <3>1, <3>2, <3>3 DEF Reading
    <2>5. fetch' = fetch \/ \E g \in Goroutines : ReadStat(g) \/ LoadBoot(g) \/ ReadSource(g)
      BY <1>6 DEF Aside, StepWallClock, StrayLoad, StrayStore, Fetch
    <2>6. QED
      BY <2>2, <2>3, <2>4, <2>5
  <1>7. ASSUME NewProcessExists PROVE Reading'
    BY <1>2, <1>7 DEF NewProcessExists, Fetching
  <1>8. ASSUME NEW g \in Goroutines, NEW r, Fetched(g, r)
        PROVE  fetch'[g].stage = "none" /\ \A h \in Goroutines \ {g} : fetch'[h] = fetch[h]
    BY <1>b, <1>8 DEF Fetched, NoFetch
  <1>9. ASSUME NewProcessCreateTime PROVE Reading'
    <2>1. Maker \in Goroutines /\ \E r : Fetched(Maker, r)
      BY <1>9 DEF NewProcessCreateTime, Goroutines
    <2>2. UNCHANGED <<pc, during>>
      BY <1>9 DEF NewProcessCreateTime
    <2>3. \A h \in Goroutines \ {Maker} : Fetching(h) => Fetching(h)' /\ (h \in Callers => during[h] \subseteq during'[h])
      BY <2>2 DEF Fetching
    <2>4. QED
      BY <1>3, <1>8, <2>1, <2>3
  <1>10. ASSUME NEW c \in Callers, ready' = ready, \A d \in Callers \ {c} : Same(d)
         PROVE  \A h \in Goroutines \ {c} : Fetching(h) => Fetching(h)' /\ (h \in Callers => during[h] \subseteq during'[h])
    BY <1>10 DEF Fetching, Same, Goroutines
  \* A step of c while it is not reading.
  <1>11. ASSUME NEW c \in Callers, ready' = ready, \A d \in Callers \ {c} : Same(d), fetch' = fetch, ~Fetching(c)
         PROVE  Reading'
    <2>1. c \in Goroutines
      BY DEF Goroutines
    <2>2. fetch[c].stage = "none"
      BY <1>a, <1>11, <2>1 DEF Reading
    <2>3. QED
      BY <1>3, <1>10, <1>11, <2>1, <2>2
  <1>12. ASSUME NEW c \in Callers, StartIsRunning(c) \/ \E interval \in BOOLEAN : StartPercent(c, interval)
         PROVE  Reading'
    <2>1. \A d \in Callers \ {c} : Same(d)
      BY <1>12, <1>a, OthersSame
    <2>2. ready' = ready /\ fetch' = fetch /\ ~Fetching(c)
      BY <1>12 DEF StartIsRunning, StartPercent, Start, Fetching
    <2>3. QED
      BY <1>11, <2>1, <2>2
  <1>13. ASSUME NEW c \in Callers, PercentStep(c) \/ Finish(c) PROVE Reading'
    <2>1. \A d \in Callers \ {c} : Same(d)
      BY <1>13, <1>a, OthersSame
    <2>2. ready' = ready /\ fetch' = fetch /\ ~Fetching(c)
      BY <1>13, <1>a, PercentFrame DEF Finish, Fetching, PercentLabels
    <2>3. QED
      BY <1>11, <2>1, <2>2
  <1>14. ASSUME NEW c \in Callers, IsRunningStep(c) PROVE Reading'
    <2>0. c \in Goroutines
      BY DEF Goroutines
    <2>1. ready' = ready /\ \A d \in Callers \ {c} : Same(d)
      BY <1>14, <1>a, OthersSame, IsRunningFrame
    <2>2. CASE CreateTimeCached(c) \/ CreateTimeStore(c) \/ FreshExists(c) \/ Compare(c)
      <3>1. fetch' = fetch /\ ~Fetching(c)
        BY <2>2 DEF CreateTimeCached, CreateTimeStore, FreshExists, Compare, Fetching
      <3>2. QED
        BY <1>11, <2>1, <3>1
    <2>3. CASE CreateTimeRead(c) \/ FreshCreateTime(c) \/ FreshReread(c)
      <3>1. \E r : Fetched(c, r)
        BY <2>3 DEF CreateTimeRead, FreshCreateTime, FreshReread
      <3>2. QED
        BY <1>3, <1>8, <1>10, <2>0, <2>1, <3>1
    <2>4. QED
      BY <1>14, <2>2, <2>3 DEF IsRunningStep
  <1>15. QED
    BY <1>4, <1>5, <1>6, <1>7, <1>9, <1>12, <1>13, <1>14, NextCases

-----------------------------------------------------------------------------
(* The calls *)

LEMMA HeldStep == Inv /\ [Next]_vars => Held' /\ Given'
  <1> SUFFICES ASSUME Inv, [Next]_vars PROVE Held' /\ Given'
    OBVIOUS
  <1>a. TypeOK /\ Held /\ Given
    BY DEF Inv
  <1>b. /\ DOMAIN pc = Callers /\ DOMAIN answer = Callers /\ ct \in [Callers -> [1..2 -> Read]]
    BY <1>a DEF TypeOK
  <1>1. ASSUME UNCHANGED <<pc, ct, answer, ready, pinned, createTime>> PROVE Held' /\ Given'
    BY <1>1, <1>a DEF Held, Given
  <1>2. ASSUME NewProcessExists PROVE Held' /\ Given'
    <2>1. UNCHANGED <<pc, ct, answer, pinned, createTime>> /\ ready # "yes" /\ ~pinned
      BY <1>2, <1>a DEF NewProcessExists, Given
    <2>2. QED
      BY <1>a, <2>1 DEF Held, Given
  <1>3. ASSUME NewProcessCreateTime PROVE Held' /\ Given'
    <2>1. /\ UNCHANGED <<pc, ct, answer>> /\ ready' = "yes" /\ (pinned' => createTime' # 0)
          /\ \A c \in Callers : pc[c] = "idle"
      BY <1>3, <1>a DEF NewProcessCreateTime, Given
    <2>2. QED
      BY <1>a, <2>1 DEF Held, Given
  <1>4. ASSUME NEW c \in Callers, StartIsRunning(c) \/ \E interval \in BOOLEAN : StartPercent(c, interval)
        PROVE  Held' /\ Given'
    <2>1. \A d \in Callers \ {c} : Same(d)
      BY <1>4, <1>a, OthersSame
    <2>2. /\ ready = "yes" /\ pc[c] = "idle" /\ pc'[c] \in {"cached", "times0", "times"}
          /\ UNCHANGED <<ct, answer, ready, pinned, createTime>>
      BY <1>4, <1>b DEF StartIsRunning, StartPercent, Start
    <2>3. QED
      BY <1>a, <2>1, <2>2 DEF Same, Held, Given
  <1>5. ASSUME NEW c \in Callers, PercentStep(c) PROVE Held' /\ Given'
    <2>1. \A d \in Callers \ {c} : Same(d)
      BY <1>5, <1>a, OthersSame
    <2>2. /\ UNCHANGED <<ct, ready, pinned, createTime>>
          /\ pc[c] \in PercentLabels /\ pc'[c] \in PercentLabels \cup {"done"}
          /\ pc'[c] # "done" => answer'[c] = answer[c]
      BY <1>5, <1>a, PercentFrame
    <2>3. QED
      BY <1>a, <2>1, <2>2 DEF Same, Held, Given, PercentLabels
  <1>6. ASSUME NEW c \in Callers, Finish(c) PROVE Held' /\ Given'
    <2>1. \A d \in Callers \ {c} : Same(d)
      BY <1>6, <1>a, OthersSame
    <2>2. /\ pc[c] = "done" /\ pc'[c] = "idle" /\ answer'[c] = "none" /\ ct'[c][2].who = 0
          /\ UNCHANGED <<ready, pinned, createTime>>
      BY <1>6, <1>b DEF Finish, NoRead
    <2>3. QED
      BY <1>a, <2>1, <2>2 DEF Same, Held, Given
  <1>7. ASSUME NEW c \in Callers, IsRunningStep(c) PROVE Held' /\ Given'
    <2>1. \A d \in Callers \ {c} : Same(d)
      BY <1>7, <1>a, OthersSame
    <2>2. /\ UNCHANGED <<ready, pinned>> /\ pc[c] \in InIsRunning /\ pc'[c] \in InIsRunning \cup {"done"}
          /\ pc'[c] # "done" => answer'[c] = answer[c]
      BY <1>7, <1>a, IsRunningFrame
    <2>3. pinned => createTime' = createTime /\ pc'[c] \notin {"own", "store"}
      <3>1. pinned => createTime # 0 /\ pc[c] \notin {"own", "store"}
        BY <1>a DEF Given
      <3>2. CASE CreateTimeCached(c)
        BY <1>b, <3>1, <3>2 DEF CreateTimeCached
      <3>3. CASE CreateTimeRead(c) \/ CreateTimeStore(c)
        BY <3>1, <3>3 DEF CreateTimeRead, CreateTimeStore
      <3>4. CASE FreshExists(c) \/ FreshCreateTime(c) \/ FreshReread(c) \/ Compare(c)
        BY <1>b, <3>4 DEF FreshExists, FreshCreateTime, FreshReread, Compare, Answer
      <3>5. QED
        BY <1>7, <3>2, <3>3, <3>4 DEF IsRunningStep
    <2>4. /\ pc'[c] \in {"exists", "fresh", "reread", "compare"} => ct'[c][1].time # 0
          /\ pc'[c] = "compare" => ct'[c][2].time # 0
      <3>0. pc[c] \in {"exists", "fresh", "reread", "compare"} => ct[c][1].time # 0
        BY <1>a DEF Held
      <3>1. CASE CreateTimeCached(c)
        BY <1>b, <3>1 DEF CreateTimeCached, Local
      <3>2. CASE CreateTimeRead(c)
        BY <1>b, <3>2 DEF CreateTimeRead
      <3>3. CASE CreateTimeStore(c)
        BY <1>b, <3>3 DEF CreateTimeStore, Answer
      <3>4. CASE FreshExists(c)
        BY <1>b, <3>0, <3>4 DEF FreshExists, Answer
      <3>5. CASE FreshCreateTime(c)
        BY <1>b, <3>0, <3>5 DEF FreshCreateTime, Local
      <3>6. CASE FreshReread(c)
        BY <1>b, <3>0, <3>6 DEF FreshReread, Local, Answer
      <3>7. CASE Compare(c)
        BY <1>b, <3>7 DEF Compare, Answer
      <3>8. QED
        BY <1>7, <3>1, <3>2, <3>3, <3>4, <3>5, <3>6, <3>7 DEF IsRunningStep
    <2>5. Held'
      BY <1>a, <2>1, <2>2, <2>4 DEF Same, Held, InIsRunning
    <2>6. Given'
      BY <1>a, <2>1, <2>2, <2>3 DEF Same, Given, InIsRunning
    <2>7. QED
      BY <2>5, <2>6
  <1>8. Aside => UNCHANGED <<pc, ct, answer, ready, pinned, createTime>>
    BY AsideFrame
  <1>9. QED
    BY <1>1, <1>2, <1>3, <1>4, <1>5, <1>6, <1>7, <1>8, NextCases DEF Tick, Exit, Spawn

\* A call sees all who have the pid while it lasts.
LEMMA SeenStep == Inv /\ [Next]_vars => Seen'
  <1> SUFFICES ASSUME Inv, [Next]_vars PROVE Seen'
    OBVIOUS
  <1>a. TypeOK /\ Held /\ Seen /\ Reading
    BY DEF Inv
  <1>b. /\ DOMAIN pc = Callers /\ DOMAIN during = Callers /\ ct \in [Callers -> [1..2 -> Read]]
    BY <1>a DEF TypeOK
  <1>1. ASSUME UNCHANGED <<pc, ct, during, alive>> PROVE Seen'
    BY <1>1, <1>a DEF Seen
  <1>2. ASSUME Exit \/ \E i \in Incarnations : Spawn(i) PROVE Seen'
    <2>1. /\ UNCHANGED <<pc, ct>>
          /\ \A c \in Callers : during'[c] = IF pc[c] = "idle" THEN {} ELSE during[c] \cup {alive'}
      BY <1>2 DEF Exit, Spawn, Witness
    <2>2. QED
      BY <1>a, <2>1 DEF Seen, Held
  <1>3. ASSUME NEW c \in Callers, StartIsRunning(c) \/ \E interval \in BOOLEAN : StartPercent(c, interval)
        PROVE  Seen'
    <2>1. \A d \in Callers \ {c} : Same(d)
      BY <1>3, <1>a, OthersSame
    <2>2. pc[c] = "idle" /\ during'[c] = {alive} /\ UNCHANGED <<ct, alive>>
      BY <1>3, <1>b DEF StartIsRunning, StartPercent, Start
    <2>3. QED
      BY <1>a, <2>1, <2>2 DEF Same, Held, Seen
  <1>4. ASSUME NEW c \in Callers, PercentStep(c) PROVE Seen'
    <2>1. \A d \in Callers \ {c} : Same(d)
      BY <1>4, <1>a, OthersSame
    <2>2. UNCHANGED <<ct, alive, during>> /\ pc[c] \in PercentLabels
      BY <1>4, <1>a, PercentFrame
    <2>3. QED
      BY <1>a, <2>1, <2>2 DEF Same, Seen, PercentLabels
  <1>5. ASSUME NEW c \in Callers, Finish(c) PROVE Seen'
    <2>1. \A d \in Callers \ {c} : Same(d)
      BY <1>5, <1>a, OthersSame
    <2>2. pc'[c] = "idle" /\ ct'[c][2].who = 0 /\ alive' = alive
      BY <1>5, <1>b DEF Finish, NoRead
    <2>3. QED
      BY <1>a, <2>1, <2>2 DEF Same, Seen
  <1>6. ASSUME NEW c \in Callers, IsRunningStep(c) PROVE Seen'
    <2>0. c \in Goroutines
      BY DEF Goroutines
    <2>1. \A d \in Callers \ {c} : Same(d)
      BY <1>6, <1>a, OthersSame
    <2>2. UNCHANGED <<kernelVars, during>> /\ pc[c] \in InIsRunning
      BY <1>6, <1>a, IsRunningFrame
    <2>3. ct'[c][2] = ct[c][2] \/ (ct'[c][2].who # 0 => ct'[c][2].who \in during[c])
      <3>1. CASE CreateTimeCached(c) \/ CreateTimeRead(c) \/ CreateTimeStore(c) \/ FreshExists(c) \/ Compare(c)
        BY <1>b, <3>1 DEF CreateTimeCached, CreateTimeRead, CreateTimeStore, FreshExists, Compare, Local
      <3>2. CASE FreshCreateTime(c) \/ FreshReread(c)
        <4>1. PICK r \in CreateTimes(c) : Fetched(c, r) /\ Local(c, 2, r.read)
          BY <3>2 DEF FreshCreateTime, FreshReread
        <4>2. r.read.who # 0 => r.read.who \in during[c]
          BY <1>a, <2>0, <2>2, <4>1, ReadProper
        <4>3. ct'[c][2] = r.read
          BY <1>b, <4>1 DEF Local
        <4>4. QED
          BY <4>2, <4>3
      <3>3. QED
        BY <1>6, <3>1, <3>2 DEF IsRunningStep
    <2>4. QED
      BY <1>a, <2>1, <2>2, <2>3 DEF Same, Seen, InIsRunning
  <1>7. Aside => UNCHANGED <<pc, ct, during, alive>>
    BY AsideFrame
  <1>8. QED
    BY <1>1, <1>2, <1>3, <1>4, <1>5, <1>6, <1>7, NextCases DEF Tick, NewProcessExists, NewProcessCreateTime

\* With one boot time, two creation times are equal if they are of one process.
LEMMA TimesTell ==
    ASSUME TypeOK, Succession, AllProper, OneBootTime, NEW c \in Callers,
           ct[c][1].time # 0, ct[c][2].time # 0
    PROVE  ct[c][1].time = ct[c][2].time <=> ct[c][1].who = ct[c][2].who
  <1>1. \A k \in 1..2 : ct[c][k].who # 0 /\ born[ct[c][k].who] # 0
    BY DEF AllProper, Proper
  <1>2. \A k \in 1..2 : ct[c][k].who \in Incarnations
    <2>1. \A k \in 1..2 : ct[c][k] \in Read
      BY DEF TypeOK
    <2>2. QED
      BY <1>1, <2>1 DEF Read, Incarnations
  <1>3. PICK b \in boots : ct[c][1].time = born[ct[c][1].who] + b
    BY <1>1 DEF AllProper, Proper
  <1>4. ct[c][2].time = born[ct[c][2].who] + b
    BY <1>1, <1>3 DEF AllProper, Proper, OneBootTime
  <1>5. b \in Nat /\ born[ct[c][1].who] \in Nat /\ born[ct[c][2].who] \in Nat
    BY <1>2 DEF TypeOK
  <1>6. ct[c][1].time = ct[c][2].time => born[ct[c][1].who] = born[ct[c][2].who]
    BY <1>3, <1>4, <1>5
  <1>7. ct[c][1].time = ct[c][2].time => ct[c][1].who = ct[c][2].who
    BY <1>1, <1>2, <1>6, StartsDiffer
  <1>8. QED
    BY <1>3, <1>4, <1>7

LEMMA AnswerStep == Inv /\ [Next]_vars => IsRunningCorrect'
  <1> SUFFICES ASSUME Inv, [Next]_vars, OneBootTime', NEW d \in Callers PROVE Linearizable(d)'
    BY DEF IsRunningCorrect
  <1>a. TypeOK /\ Held /\ Seen /\ AllProper /\ Succession
    BY DEF Inv
  <1>b. /\ DOMAIN pc = Callers /\ DOMAIN answer = Callers /\ ct \in [Callers -> [1..2 -> Read]]
    BY <1>a DEF TypeOK
  <1>c. OneBootTime
    BY <1>a, StartsStay DEF OneBootTime
  <1>d. Linearizable(d)
    BY <1>c DEF Inv, IsRunningCorrect
  <1>1. ASSUME UNCHANGED <<pc, ct, answer, during>> PROVE Linearizable(d)'
    BY <1>1, <1>d DEF Linearizable
  <1>2. ASSUME answer'[d] \notin {"true", "false"} PROVE Linearizable(d)'
    BY <1>2 DEF Linearizable
  <1>3. ASSUME Exit \/ \E i \in Incarnations : Spawn(i) PROVE Linearizable(d)'
    <2>1. /\ UNCHANGED <<pc, ct, answer>>
          /\ \A c \in Callers : during'[c] = IF pc[c] = "idle" THEN {} ELSE during[c] \cup {alive'}
      BY <1>3 DEF Exit, Spawn, Witness
    <2>2. QED
      BY <1>a, <1>d, <2>1 DEF Linearizable, Held
  <1>4. ASSUME NEW c \in Callers, Same(d) PROVE Linearizable(d)'
    BY <1>4, <1>d DEF Linearizable, Same
  <1>5. ASSUME \/ StartIsRunning(d) \/ (\E interval \in BOOLEAN : StartPercent(d, interval))
               \/ PercentStep(d) \/ Finish(d)
        PROVE  Linearizable(d)'
    <2>1. answer'[d] \notin {"true", "false"}
      <3>1. PercentStep(d) => answer'[d] \notin {"true", "false"}
        BY <1>a, PercentFrame DEF Held, PercentLabels
      <3>2. QED
        BY <1>5, <1>a, <1>b, <3>1 DEF StartIsRunning, StartPercent, Start, Finish, Held
    <2>2. QED
      BY <1>2, <2>1
  <1>6. ASSUME IsRunningStep(d) PROVE Linearizable(d)'
    <2>1. /\ UNCHANGED <<kernelVars, during>> /\ pc[d] \in InIsRunning
          /\ pc'[d] # "done" => answer'[d] = answer[d]
      BY <1>6, <1>a, IsRunningFrame
    <2>2. CASE FreshExists(d) /\ pc'[d] = "done"
      <3>1. alive = 0 /\ ct' = ct /\ answer'[d] = "false"
        BY <1>b, <2>2 DEF FreshExists, Answer
      <3>2. 0 \in during'[d] /\ ct'[d][1].who # 0
        BY <1>a, <2>1, <2>2, <3>1 DEF Seen, Held, AllProper, Proper, FreshExists, InIsRunning
      <3>3. QED
        BY <3>1, <3>2 DEF Linearizable
    <2>3. CASE Compare(d)
      <3>1. /\ pc[d] = "compare" /\ ct' = ct
            /\ answer'[d] = (IF ct[d][1].time = ct[d][2].time THEN "true" ELSE "false")
        BY <1>b, <2>3 DEF Compare, Answer
      <3>2. ct[d][1].time # 0 /\ ct[d][2].time # 0
        BY <1>a, <3>1 DEF Held
      <3>3. ct[d][1].time = ct[d][2].time <=> ct[d][1].who = ct[d][2].who
        BY <1>a, <1>c, <3>2, TimesTell
      <3>4. ct[d][2].who \in during[d]
        BY <1>a, <3>2 DEF AllProper, Proper, Seen
      <3>5. QED
        BY <2>1, <3>1, <3>3, <3>4 DEF Linearizable
    <2>4. CASE answer'[d] \notin {"true", "false"}
      BY <1>2, <2>4
    <2>5. QED
      <3>1. pc[d] # "done" /\ answer[d] = "none"
        BY <1>a, <2>1 DEF Held, InIsRunning
      <3>2. CASE pc'[d] # "done"
        BY <2>1, <2>4, <3>1, <3>2
      <3>3. CASE pc'[d] = "done"
        BY <1>6, <1>b, <2>2, <2>3, <2>4, <3>3 DEF IsRunningStep, CreateTimeCached, CreateTimeRead,
           CreateTimeStore, FreshCreateTime, FreshReread, Answer
      <3>4. QED
        BY <3>2, <3>3
  <1>7. Aside => UNCHANGED <<pc, ct, answer, during>>
    BY AsideFrame
  <1>8. ASSUME NEW c \in Callers,
               \/ IsRunningStep(c) \/ PercentStep(c) \/ Finish(c) \/ StartIsRunning(c)
               \/ \E interval \in BOOLEAN : StartPercent(c, interval)
        PROVE  Linearizable(d)'
    <2>1. CASE c = d
      BY <1>5, <1>6, <1>8, <2>1
    <2>2. CASE c # d
      <3>1. Same(d)
        BY <1>8, <1>a, <2>2, OthersSame
      <3>2. QED
        BY <1>4, <3>1
    <2>3. QED
      BY <2>1, <2>2
  <1>9. QED
    BY <1>1, <1>3, <1>7, <1>8, NextCases DEF Tick, NewProcessExists, NewProcessCreateTime

-----------------------------------------------------------------------------
(* Percent *)

\* What PercentTimes does to the call c.
TimesRead(c) ==
    /\ UNCHANGED <<lastTimes, lastTime, raced>> /\ percent'[c] = percent[c] /\ basis'[c] = basis[c]
    /\ \/ pc'[c] = "done" /\ sample'[c] = sample[c] /\ answer'[c] = "error"
       \/ \E k \in 1..2 :
             /\ \/ k = 1 /\ pc[c] = "times" /\ pc'[c] = "now"
                \/ k = 2 /\ pc[c] = "times0" /\ pc'[c] = "now0"
                \/ k = 2 /\ pc[c] = "times2" /\ pc'[c] = "now2"
             /\ alive # 0 /\ answer'[c] = answer[c]
             /\ sample'[c][k] = [who |-> alive, cpu |-> used[alive], read |-> clock, at |-> clock]
             /\ sample'[c][k] # Nil /\ sample'[c][3 - k] = sample[c][3 - k]

LEMMA TimesReadStep ==
    ASSUME TypeOK, NEW c \in Callers, PercentTimes(c)
    PROVE  TimesRead(c)
  <1>0. /\ DOMAIN pc = Callers /\ sample \in [Callers -> [1..2 -> TimesStat]]
        /\ DOMAIN answer = Callers
    BY DEF TypeOK
  <1>1. UNCHANGED <<lastTimes, lastTime, raced, percent, basis>>
    BY DEF PercentTimes
  <1>2. CASE Answer(c, "error") /\ UNCHANGED sample
    BY <1>0, <1>1, <1>2 DEF Answer, TimesRead
  <1>3. ASSUME NEW k \in 1..2, NEW l, alive # 0, pc' = [pc EXCEPT ![c] = l], answer' = answer,
               sample' = [sample EXCEPT ![c][k] =
                  [who |-> alive, cpu |-> used[alive], read |-> clock, at |-> clock]],
               \/ k = 1 /\ pc[c] = "times" /\ l = "now"
               \/ k = 2 /\ pc[c] = "times0" /\ l = "now0"
               \/ k = 2 /\ pc[c] = "times2" /\ l = "now2"
        PROVE  TimesRead(c)
    <2>1. [who |-> alive, cpu |-> used[alive], read |-> clock, at |-> clock] \in Taken
      BY <1>3 DEF TypeOK, Incarnations, Taken
    <2>2. /\ pc'[c] = l /\ 3 - k \in 1..2 /\ 3 - k # k
          /\ sample'[c][k] = [who |-> alive, cpu |-> used[alive], read |-> clock, at |-> clock]
          /\ sample'[c][3 - k] = sample[c][3 - k]
      BY <1>0, <1>3
    <2>3. QED
      BY <1>1, <1>3, <2>1, <2>2, NilAssumption DEF TimesRead, Taken, Incarnations
  <1>4. QED
    BY <1>2, <1>3 DEF PercentTimes, TakeSample

\* A call of Percent holds the samples its next step uses.
LEMMA SampledStep == Inv /\ [Next]_vars => Sampled'
  <1> SUFFICES ASSUME Inv, [Next]_vars PROVE Sampled'
    OBVIOUS
  <1>a. TypeOK /\ Sampled
    BY DEF Inv
  <1>b. /\ DOMAIN pc = Callers /\ sample \in [Callers -> [1..2 -> TimesStat]]
    BY <1>a DEF TypeOK
  <1>1. ASSUME UNCHANGED <<pc, sample, lastTimes>> PROVE Sampled'
    BY <1>1, <1>a DEF Sampled
  <1>2. ASSUME NEW c \in Callers, StartIsRunning(c) \/ \E interval \in BOOLEAN : StartPercent(c, interval)
        PROVE  Sampled'
    <2>1. \A d \in Callers \ {c} : Same(d)
      BY <1>2, <1>a, OthersSame
    <2>2. pc[c] = "idle" /\ pc'[c] \in {"cached", "times0", "times"} /\ UNCHANGED <<sample, lastTimes>>
      BY <1>2, <1>b DEF StartIsRunning, StartPercent, Start
    <2>3. QED
      BY <1>a, <2>1, <2>2 DEF Same, Sampled
  <1>3. ASSUME NEW c \in Callers, IsRunningStep(c) PROVE Sampled'
    <2>1. \A d \in Callers \ {c} : Same(d)
      BY <1>3, <1>a, OthersSame
    <2>2. pc'[c] \in InIsRunning \cup {"done"} /\ UNCHANGED <<sample, lastTimes>>
      BY <1>3, <1>a, IsRunningFrame
    <2>3. QED
      BY <1>a, <2>1, <2>2 DEF Same, Sampled, InIsRunning
  <1>4. ASSUME NEW c \in Callers, PercentTimes(c) PROVE Sampled'
    <2>1. \A d \in Callers \ {c} : Same(d)
      BY <1>4, <1>a, OthersSame DEF PercentStep
    <2>2. TimesRead(c)
      BY <1>4, <1>a, TimesReadStep
    <2>3. QED
      BY <1>a, <2>1, <2>2 DEF Same, Sampled, TimesRead
  <1>5. ASSUME NEW c \in Callers, PercentNow(c) PROVE Sampled'
    <2>1. \A d \in Callers \ {c} : Same(d)
      BY <1>5, <1>a, OthersSame DEF PercentStep
    <2>2. /\ lastTimes' = lastTimes
          /\ \/ pc[c] = "now0" /\ pc'[c] = "storeTimes" /\ sample'[c][2] # Nil
             \/ pc[c] = "now0" /\ lastTimes # Nil /\ pc'[c] = "delta" /\ sample'[c][2] # Nil
             \/ pc[c] = "now" /\ pc'[c] = "keepTimes" /\ sample'[c][1] # Nil
             \/ pc[c] = "now2" /\ pc'[c] = "delta" /\ sample'[c][2] # Nil
      <3>1. ASSUME NEW k \in 1..2, sample[c][k] # Nil, sample' = [sample EXCEPT ![c][k].at = clock]
            PROVE  sample'[c][k] # Nil
        <4>1. sample[c][k] \in Taken /\ clock \in Nat
          BY <1>a, <1>b, <3>1 DEF TimesStat, Taken, TypeOK
        <4>2. [sample[c][k] EXCEPT !.at = clock] \in Taken
          BY <4>1 DEF Taken
        <4>3. sample'[c][k] = [sample[c][k] EXCEPT !.at = clock]
          BY <1>b, <3>1
        <4>4. QED
          BY <4>2, <4>3, NilAssumption DEF Taken, Incarnations
      <3>2. pc[c] \in {"now0", "now2"} => sample[c][2] # Nil
        BY <1>a DEF Sampled
      <3>3. pc[c] = "now" => sample[c][1] # Nil
        BY <1>a DEF Sampled
      <3>4. QED
        BY <1>5, <1>b, <3>1, <3>2, <3>3 DEF PercentNow
    <2>3. QED
      BY <1>a, <2>1, <2>2 DEF Same, Sampled
  <1>6. ASSUME NEW c \in Callers, WriteTimes(c) PROVE Sampled'
    <2>1. \A d \in Callers \ {c} : Same(d)
      BY <1>6, <1>a, OthersSame DEF PercentStep
    <2>2. /\ sample' = sample /\ lastTimes' # Nil
          /\ (pc[c] = "keepTimes" /\ pc'[c] = "keepTime") \/ (pc[c] = "storeTimes" /\ pc'[c] = "storeTime")
      BY <1>6, <1>a, <1>b DEF WriteTimes, Sampled
    <2>3. QED
      BY <1>a, <2>1, <2>2 DEF Same, Sampled
  <1>7. ASSUME NEW c \in Callers, WriteTime(c) \/ PercentSleep(c) \/ PercentDelta(c) \/ PercentCalc(c)
        PROVE  Sampled'
    <2>1. \A d \in Callers \ {c} : Same(d)
      BY <1>7, <1>a, OthersSame DEF PercentStep
    <2>2. /\ UNCHANGED <<sample, lastTimes>>
          /\ \/ pc'[c] = "done"
             \/ pc[c] = "keepTime" /\ pc'[c] = "sleep"
             \/ pc[c] = "sleep" /\ pc'[c] = "times2"
             \/ pc[c] = "delta" /\ pc'[c] = "calc"
             \/ pc[c] = "calc" /\ pc'[c] = "storeTimes"
      BY <1>7, <1>b DEF WriteTime, PercentSleep, PercentDelta, PercentCalc, Answer
    <2>3. QED
      BY <1>a, <2>1, <2>2 DEF Same, Sampled
  <1>8. ASSUME NEW c \in Callers, Finish(c) PROVE Sampled'
    <2>1. \A d \in Callers \ {c} : Same(d)
      BY <1>8, <1>a, OthersSame
    <2>2. lastTimes' = lastTimes /\ pc'[c] = "idle" /\ sample'[c][1] = Nil
      BY <1>8, <1>b DEF Finish
    <2>3. QED
      BY <1>a, <2>1, <2>2 DEF Same, Sampled
  <1>9. Aside => UNCHANGED <<pc, sample, lastTimes>>
    BY AsideFrame
  <1>10. QED
    BY <1>1, <1>2, <1>3, <1>4, <1>5, <1>6, <1>7, <1>8, <1>9, NextCases
       DEF Tick, Exit, Spawn, NewProcessExists, NewProcessCreateTime, PercentStep

\* What holds of a sample goes on to hold while ticks, exits and starts follow.
LEMMA StaysBound ==
    ASSUME TypeOK, Succession, [Next]_vars, NEW s \in TimesStat, BoundBy(s, alive, used, clock)
    PROVE  BoundBy(s, alive', used', clock')
  <1> SUFFICES ASSUME s # Nil PROVE BoundBy(s, alive', used', clock')
    BY DEF BoundBy
  <1>a. /\ clock \in Nat /\ used \in [Incarnations -> Nat] /\ alive \in 0..MaxIncarnation
        /\ s.cpu \in Nat /\ s.at \in Nat /\ s.read \in Nat /\ s.read <= s.at /\ s.at <= clock
    BY DEF TypeOK, TimesStat, BoundBy
  <1>b. alive # 0 => alive \in Incarnations /\ used[alive] \in Nat /\ used[alive] - s.cpu <= clock - s.read
    BY <1>a DEF Incarnations, BoundBy
  <1>1. ASSUME NEW b \in BOOLEAN, Tick(b) PROVE BoundBy(s, alive', used', clock')
    <2>1. clock' = clock + 1 /\ alive' = alive
      BY <1>1 DEF Tick
    <2>2. alive # 0 => used'[alive] \in {used[alive], used[alive] + 1}
      BY <1>1, <1>a, <1>b DEF Tick
    <2>3. alive # 0 => used'[alive] - s.cpu <= (clock + 1) - s.read
      BY <1>a, <1>b, <2>2
    <2>4. s.at <= clock + 1
      BY <1>a
    <2>5. QED
      BY <1>a, <2>1, <2>3, <2>4 DEF BoundBy
  <1>2. ASSUME Exit PROVE BoundBy(s, alive', used', clock')
    BY <1>2, <1>a DEF Exit, BoundBy
  <1>3. ASSUME NEW i \in Incarnations, Spawn(i) PROVE BoundBy(s, alive', used', clock')
    <2>1. alive' = i /\ used' = used /\ clock' = clock /\ used[i] = 0
      BY <1>3 DEF Spawn, Succession
    <2>2. 0 - s.cpu <= clock - s.read
      BY <1>a
    <2>3. QED
      BY <1>a, <2>1, <2>2 DEF BoundBy
  <1>4. CASE UNCHANGED <<clock, alive, used>>
    BY <1>4
  <1>5. Aside => UNCHANGED <<clock, alive, used>>
    BY AsideFrame
  <1>6. \A c \in Callers : IsRunningStep(c) \/ PercentStep(c) => UNCHANGED <<clock, alive, used>>
    BY IsRunningFrame, PercentFrame
  <1>7. QED
    BY <1>1, <1>2, <1>3, <1>4, <1>5, <1>6, NextCases DEF NewProcessExists, NewProcessCreateTime,
       StartIsRunning, StartPercent, Start, Finish

LEMMA BoundStep == Inv /\ [Next]_vars => SamplesBound'
  <1> SUFFICES ASSUME Inv, [Next]_vars PROVE SamplesBound'
    OBVIOUS
  <1>a. TypeOK /\ Succession /\ SamplesBound /\ Sampled
    BY DEF Inv
  <1> DEFINE Good(s) == BoundBy(s, alive', used', clock')
  <1>b. Good(lastTimes) /\ \A c \in Callers : \A k \in 1..2 : Good(sample[c][k])
    <2>1. lastTimes \in TimesStat /\ \A c \in Callers : \A k \in 1..2 : sample[c][k] \in TimesStat
      BY <1>a DEF TypeOK
    <2>2. QED
      BY <1>a, <2>1, StaysBound DEF SamplesBound
  <1>c. Good(Nil)
    BY DEF BoundBy
  <1>1. ASSUME \/ lastTimes' = lastTimes
               \/ \E c \in Callers : \E k \in 1..2 : lastTimes' = sample[c][k],
               \A c \in Callers : \A k \in 1..2 : \/ sample'[c][k] \in {sample[c][k], Nil}
                                                  \/ Good(sample'[c][k])
        PROVE  SamplesBound'
    <2> HIDE DEF Good
    <2>1. Good(lastTimes') /\ \A c \in Callers : \A k \in 1..2 : Good(sample'[c][k])
      BY <1>1, <1>b, <1>c
    <2>2. QED
      BY <2>1 DEF Good, SamplesBound
  <1>2. ASSUME NEW c \in Callers, PercentTimes(c) PROVE SamplesBound'
    <2>1. TimesRead(c) /\ \A d \in Callers \ {c} : Same(d)
      BY <1>2, <1>a, TimesReadStep, OthersSame DEF PercentStep
    <2>2. UNCHANGED <<alive, used, clock>>
      BY <1>2 DEF PercentTimes
    <2>3. alive # 0 => Good([who |-> alive, cpu |-> used[alive], read |-> clock, at |-> clock])
      <3>1. alive # 0 => used[alive] \in Nat /\ clock \in Nat
        BY <1>a DEF TypeOK, Incarnations
      <3>2. QED
        BY <2>2, <3>1 DEF BoundBy
    <2>4. lastTimes' = lastTimes
      BY <2>1 DEF TimesRead
    <2> HIDE DEF Good
    <2>5. \A k \in 1..2 : sample'[c][k] = sample[c][k] \/ Good(sample'[c][k])
      BY <2>1, <2>3 DEF TimesRead
    <2>6. \A d \in Callers \ {c} : \A k \in 1..2 : sample'[d][k] = sample[d][k]
      BY <2>1 DEF Same
    <2>7. QED
      BY <1>1, <2>4, <2>5, <2>6
  <1>3. ASSUME NEW c \in Callers, PercentNow(c) PROVE SamplesBound'
    <2>1. lastTimes' = lastTimes /\ UNCHANGED <<alive, used, clock>>
      BY <1>3 DEF PercentNow
    <2>2. PICK k \in 1..2 : sample[c][k] # Nil /\ sample' = [sample EXCEPT ![c][k].at = clock]
      BY <1>3, <1>a DEF PercentNow, Sampled
    <2>3. sample[c][k] \in Taken /\ clock \in Nat
      BY <1>a, <2>2 DEF TimesStat, Taken, TypeOK
    <2>4. /\ sample'[c][k] = [sample[c][k] EXCEPT !.at = clock]
          /\ \A j \in 1..2 \ {k} : sample'[c][j] = sample[c][j]
          /\ \A d \in Callers \ {c} : sample'[d] = sample[d]
      BY <1>a, <2>2 DEF TypeOK
    <2>5. /\ sample'[c][k].cpu = sample[c][k].cpu /\ sample'[c][k].read = sample[c][k].read
          /\ sample'[c][k].at = clock
      BY <2>3, <2>4 DEF Taken
    <2>6. sample[c][k].read <= sample[c][k].at /\ sample[c][k].at <= clock
      BY <1>a, <2>2 DEF SamplesBound, BoundBy
    <2>7. sample[c][k].read <= clock
      BY <2>3, <2>6 DEF Taken
    <2>8. Good(sample'[c][k])
      <3>1. alive # 0 => used[alive] - sample[c][k].cpu <= clock - sample[c][k].read
        BY <1>a, <2>2 DEF SamplesBound, BoundBy
      <3>2. QED
        BY <2>1, <2>3, <2>5, <2>7, <3>1 DEF BoundBy
    <2> HIDE DEF Good
    <2>9. QED
      BY <1>1, <2>1, <2>4, <2>8
  <1>4. ASSUME NEW c \in Callers, WriteTimes(c) PROVE SamplesBound'
    <2>1. sample' = sample /\ \E k \in 1..2 : lastTimes' = sample[c][k]
      BY <1>4 DEF WriteTimes
    <2>2. QED
      BY <1>1, <2>1
  <1>5. ASSUME NEW c \in Callers, Finish(c) PROVE SamplesBound'
    <2>1. lastTimes' = lastTimes /\ \A d \in Callers : \A k \in 1..2 : sample'[d][k] \in {sample[d][k], Nil}
      BY <1>5, <1>a DEF Finish, TypeOK
    <2>2. QED
      BY <1>1, <2>1
  <1>6. CASE UNCHANGED <<lastTimes, sample>>
    BY <1>1, <1>6
  <1>7. \/ UNCHANGED <<lastTimes, sample>>
        \/ \E c \in Callers : PercentTimes(c) \/ PercentNow(c) \/ WriteTimes(c) \/ Finish(c)
    <2>1. Aside => UNCHANGED <<lastTimes, sample>>
      BY AsideFrame
    <2>2. \A c \in Callers : IsRunningStep(c) => UNCHANGED <<lastTimes, sample>>
      BY <1>a, IsRunningFrame
    <2>3. QED
      BY <2>1, <2>2, NextCases DEF Tick, Exit, Spawn, NewProcessExists, NewProcessCreateTime,
         StartIsRunning, StartPercent, Start, PercentStep, WriteTime, PercentSleep, PercentDelta, PercentCalc
  <1>8. QED
    BY <1>2, <1>3, <1>4, <1>5, <1>6, <1>7

\* The percentage of a share, and that of a part.
LEMMA ShareBounded ==
    ASSUME NEW x \in Nat, NEW d \in Nat \ {0}
    PROVE  /\ (x * 100) \div d \in Nat /\ ((x * 100) \div d) * d <= 100 * x
           /\ x <= d => (x * 100) \div d <= 100
  <1> DEFINE q == (x * 100) \div d
  <1>1. q \in Int /\ d * q <= x * 100 /\ x * 100 < d * q + d
    OBVIOUS
  <1> HIDE DEF q
  <1>2. ASSUME x <= d PROVE q <= 100
    <2> SUFFICES ASSUME q >= 101 PROVE FALSE
      BY <1>1
    <2>1. d * (q - 101) >= 0
      BY <1>1
    <2>2. d * q = d * (q - 101) + 101 * d
      BY <1>1
    <2>3. QED
      BY <1>1, <1>2, <2>1, <2>2
  <1>3. q >= 0
    <2> SUFFICES ASSUME q <= -1 PROVE FALSE
      BY <1>1
    <2>1. d * (-1 - q) >= 0
      BY <1>1
    <2>2. d * q = -d - d * (-1 - q)
      BY <1>1
    <2>3. QED
      BY <1>1, <2>1, <2>2
  <1>4. q * d <= 100 * x
    BY <1>1
  <1>5. QED
    BY <1>1, <1>2, <1>3, <1>4 DEF q

\* calculatePercent of a process that used no more CPU time than the w that went by.
LEMMA PercentBounded ==
    ASSUME NEW x \in Nat, NEW y \in Nat, NEW d \in Nat, NEW w \in Nat, y - x <= w
    PROVE  /\ calculatePercent(x, y, d) \in Nat
           /\ calculatePercent(x, y, d) * d <= 100 * w
           /\ y - x <= d => calculatePercent(x, y, d) <= 100
  <1>1. CASE d = 0 \/ y - x <= 0
    BY <1>1 DEF calculatePercent
  <1>2. CASE d # 0 /\ y - x > 0
    <2> DEFINE p == ((y - x) * 100) \div d
    <2>1. calculatePercent(x, y, d) = p
      BY <1>2 DEF calculatePercent
    <2>2. p \in Nat /\ p * d <= 100 * (y - x) /\ (y - x <= d => p <= 100)
      BY <1>2, ShareBounded
    <2> HIDE DEF p
    <2>3. p * d \in Int
      BY <2>2
    <2>4. p * d <= 100 * w
      BY <2>2, <2>3
    <2>5. QED
      BY <2>1, <2>2, <2>4
  <1>3. QED
    BY <1>1, <1>2

\* A step that does not concern Percent.
QuietStep ==
    /\ UNCHANGED <<lastTimes, lastTime, raced, sample, percent, basis>>
    /\ \A d \in Callers : \/ pc'[d] = pc[d] /\ answer'[d] = answer[d]
                          \/ /\ ~(InPercent(d) \/ InPercent(d)')
                             /\ pc[d] # "done" /\ answer'[d] # "percent"

\* A handle that is used by one call of Percent at a time is measured rightly.
LEMMA MeasuredStep == Inv /\ [Next]_vars => Measured'
  <1> SUFFICES ASSUME Inv, [Next]_vars PROVE Measured'
    OBVIOUS
  <1>b. TypeOK /\ Held /\ Sampled /\ SamplesBound
    BY DEF Inv
  <1>m. Measured
    BY DEF Inv
  <1>q. ASSUME QuietStep PROVE Measured'
    <2> SUFFICES ASSUME ~raced' PROVE Alone' /\ Whole' /\ \A d \in Callers : Kept(d)' /\ Computed(d)'
      BY DEF Measured
    <2> USE <1>q DEF QuietStep, InPercent
    <2>1. Alone /\ Whole /\ \A d \in Callers : Kept(d) /\ Computed(d)
      BY <1>m DEF Measured
    <2>2. Alone' /\ Whole'
      BY <2>1 DEF Alone, Whole
    <2>3. \A d \in Callers : Kept(d)'
      BY <2>1 DEF Kept
    <2>4. \A d \in Callers : Computed(d)'
      <3> SUFFICES ASSUME NEW d \in Callers PROVE Computed(d)'
        OBVIOUS
      <3>1. Bounded(d)' <=> Bounded(d)
        BY DEF Bounded
      <3>2. CASE pc'[d] = pc[d] /\ answer'[d] = answer[d]
        BY <2>1, <3>1, <3>2 DEF Computed
      <3>3. CASE ~(InPercent(d) \/ InPercent(d)') /\ pc[d] # "done" /\ answer'[d] # "percent"
        BY <2>1, <3>3 DEF Computed
      <3>4. QED
        BY <3>2, <3>3
    <2>5. QED
      BY <2>2, <2>3, <2>4
  <1>p. ASSUME NEW c \in Callers, InPercent(c), raced' = raced, \A d \in Callers \ {c} : Same(d),
               ~raced' => Whole' /\ Kept(c)' /\ Computed(c)'
        PROVE  Measured'
    <2> SUFFICES ASSUME ~raced' PROVE Alone' /\ \A d \in Callers \ {c} : Kept(d)' /\ Computed(d)'
      BY <1>p DEF Measured
    <2>1. Alone /\ \A d \in Callers : Kept(d) /\ Computed(d)
      BY <1>m, <1>p DEF Measured
    <2>2. \A d \in Callers \ {c} : ~InPercent(d) /\ pc'[d] = pc[d]
      BY <1>p, <2>1 DEF Alone, Same
    <2>3. Alone'
      BY <2>2 DEF Alone, InPercent
    <2>4. \A d \in Callers \ {c} : Kept(d)'
      BY <2>2 DEF Kept, InPercent
    <2>5. \A d \in Callers \ {c} : Computed(d)'
      BY <1>p, <2>1, <2>2 DEF Computed, Bounded, Same
    <2>6. QED
      BY <2>3, <2>4, <2>5
  <1>1. ASSUME UNCHANGED <<lastTimes, lastTime, raced, sample, percent, basis, pc, answer>> PROVE Measured'
    BY <1>q, <1>1 DEF QuietStep
  <1>2. ASSUME NEW c \in Callers, StartIsRunning(c) \/ IsRunningStep(c) PROVE Measured'
    <2>1. \A d \in Callers \ {c} : Same(d)
      BY <1>2, <1>b, OthersSame
    <2>2. /\ UNCHANGED <<percentVars, sample, percent, basis>> /\ ~InPercent(c) /\ ~InPercent(c)'
          /\ pc[c] # "done" /\ answer'[c] # "percent"
      <3>1. CASE StartIsRunning(c)
        BY <3>1, <1>b DEF InPercent, Held, TypeOK, StartIsRunning, Start
      <3>2. CASE IsRunningStep(c)
        BY <3>2, <1>b, IsRunningFrame DEF InPercent, Held, InIsRunning
      <3>3. QED
        BY <1>2, <3>1, <3>2
    <2>3. QuietStep
      BY <2>1, <2>2 DEF QuietStep, Same
    <2>4. QED
      BY <1>q, <2>3
  <1>3. ASSUME NEW c \in Callers, NEW interval \in BOOLEAN, StartPercent(c, interval) PROVE Measured'
    <2>1. \A d \in Callers \ {c} : Same(d)
      BY <1>3, <1>b, OthersSame
    <2>2. /\ UNCHANGED <<lastTimes, lastTime, sample, percent, basis, answer>>
          /\ pc[c] = "idle" /\ pc'[c] \in {"times0", "times"}
          /\ ~raced' => ~raced /\ \A d \in Callers \ {c} : ~InPercent(d)
      BY <1>3, <1>b DEF StartPercent, Start, TypeOK
    <2>3. ASSUME ~raced' PROVE Alone' /\ Whole' /\ \A d \in Callers : Kept(d)' /\ Computed(d)'
      <3>1. ~raced /\ \A d \in Callers \ {c} : ~InPercent(d) /\ pc'[d] = pc[d]
        BY <2>1, <2>2, <2>3 DEF Same
      <3>2. Alone'
        BY <3>1 DEF Alone, InPercent
      <3>3. Whole'
        BY <1>m, <2>2, <3>1 DEF Measured, Whole
      <3>4. \A d \in Callers : Kept(d)'
        BY <1>m, <2>1, <2>2, <3>1 DEF Measured, Kept, Same
      <3>5. \A d \in Callers : Bounded(d)' <=> Bounded(d)
        BY <2>2 DEF Bounded
      <3>6. answer[c] # "percent"
        BY <1>b, <2>2 DEF Held
      <3>7. \A d \in Callers : Computed(d)'
        BY <1>m, <2>1, <2>2, <3>1, <3>5, <3>6 DEF Measured, Computed
      <3>8. QED
        BY <3>2, <3>3, <3>4, <3>7
    <2>4. QED
      BY <2>3 DEF Measured
  <1>4. ASSUME NEW c \in Callers, PercentTimes(c) PROVE Measured'
    <2>1. \A d \in Callers \ {c} : Same(d)
      BY <1>4, <1>b, OthersSame DEF PercentStep
    <2>2. TimesRead(c) /\ pc[c] \in {"times", "times2", "times0"}
          /\ UNCHANGED <<lastTimes, lastTime, raced>>
      BY <1>4, <1>b, TimesReadStep DEF PercentTimes
    <2>3. ASSUME ~raced' PROVE Whole' /\ Kept(c)' /\ Computed(c)'
      <3>1. Alone /\ Whole /\ Kept(c) /\ Computed(c)
        BY <1>m, <2>2, <2>3 DEF Measured
      <3>2. pc'[c] \in {"now0", "now2"} /\ lastTimes # Nil =>
               /\ lastTimes.at <= sample'[c][2].at
               /\ sample'[c][2].cpu - lastTimes.cpu <= sample'[c][2].at - lastTimes.read
        <4> SUFFICES ASSUME pc'[c] \in {"now0", "now2"}, lastTimes # Nil
                     PROVE  /\ lastTimes.at <= sample'[c][2].at
                            /\ sample'[c][2].cpu - lastTimes.cpu <= sample'[c][2].at - lastTimes.read
          OBVIOUS
        <4>1. /\ alive # 0
              /\ sample'[c][2] = [who |-> alive, cpu |-> used[alive], read |-> clock, at |-> clock]
          BY <2>2 DEF TimesRead
        <4>2. sample'[c][2].cpu = used[alive] /\ sample'[c][2].at = clock
          BY <4>1
        <4>3. lastTimes.at <= clock /\ used[alive] - lastTimes.cpu <= clock - lastTimes.read
          BY <1>b, <4>1 DEF SamplesBound, BoundBy
        <4>4. QED
          BY <4>2, <4>3
      <3>3. Whole'
        BY <2>1, <2>2, <3>1 DEF Whole, Same, TimesRead
      <3>4. Kept(c)'
        BY <1>b, <2>2, <3>1, <3>2 DEF Kept, TimesRead, Sampled
      <3>5. pc'[c] \notin {"storeTimes", "storeTime"} /\ answer'[c] # "percent"
        BY <1>b, <2>2 DEF TimesRead, Held
      <3>6. percent'[c] = 0 /\ basis'[c].times = Nil
        BY <2>2, <3>1 DEF Computed, TimesRead
      <3>7. Computed(c)'
        BY <3>5, <3>6 DEF Computed
      <3>8. QED
        BY <3>3, <3>4, <3>7
    <2>4. InPercent(c) /\ raced' = raced
      BY <2>2 DEF InPercent
    <2>5. QED
      BY <1>p, <2>1, <2>3, <2>4
  <1>5. ASSUME NEW c \in Callers, PercentNow(c) PROVE Measured'
    <2>1. \A d \in Callers \ {c} : Same(d)
      BY <1>5, <1>b, OthersSame DEF PercentStep
    <2>2. UNCHANGED <<lastTimes, lastTime, raced, percent, basis, answer, clock>>
      BY <1>5 DEF PercentNow
    <2>3. PICK k \in 1..2 :
             /\ \/ k = 2 /\ pc[c] = "now0" /\ pc'[c] = (IF lastTimes = Nil THEN "storeTimes" ELSE "delta")
                \/ k = 1 /\ pc[c] = "now" /\ pc'[c] = "keepTimes"
                \/ k = 2 /\ pc[c] = "now2" /\ pc'[c] = "delta"
             /\ sample' = [sample EXCEPT ![c][k].at = clock]
      BY <1>5, <1>b DEF PercentNow, TypeOK
    <2>4. sample[c][k] \in Taken /\ clock \in Nat /\ sample[c][k].at <= clock
      <3>1. sample[c][k] # Nil
        BY <1>b, <2>3 DEF Sampled
      <3>2. QED
        BY <1>b, <3>1 DEF TypeOK, TimesStat, Taken, SamplesBound, BoundBy
    <2>5. /\ sample'[c][k] = [sample[c][k] EXCEPT !.at = clock]
          /\ \A j \in 1..2 \ {k} : sample'[c][j] = sample[c][j]
      BY <1>b, <2>3 DEF TypeOK
    <2>6. sample'[c][k].cpu = sample[c][k].cpu /\ sample'[c][k].at = clock
      BY <2>4, <2>5 DEF Taken
    <2>7. ASSUME ~raced' PROVE Whole' /\ Kept(c)' /\ Computed(c)'
      <3>1. Alone /\ Whole /\ Kept(c) /\ Computed(c)
        BY <1>m, <2>2, <2>7 DEF Measured
      <3>2. Whole'
        BY <2>1, <2>2, <2>3, <3>1 DEF Whole, Same
      <3>3. Kept(c)'
        <4>1. pc[c] \in {"now0", "now2"} /\ lastTimes # Nil =>
                 /\ lastTimes.at <= sample'[c][2].at
                 /\ sample'[c][2].cpu - lastTimes.cpu <= sample'[c][2].at - lastTimes.read
          <5> SUFFICES ASSUME pc[c] \in {"now0", "now2"}, lastTimes # Nil
                       PROVE  /\ lastTimes.at <= sample'[c][2].at
                              /\ sample'[c][2].cpu - lastTimes.cpu <= sample'[c][2].at - lastTimes.read
            OBVIOUS
          <5>1. k = 2 /\ lastTimes \in Taken
            BY <1>b, <2>3 DEF TypeOK, TimesStat, Taken
          <5>2. /\ lastTimes.at <= sample[c][2].at
                /\ sample[c][2].cpu - lastTimes.cpu <= sample[c][2].at - lastTimes.read
            BY <3>1 DEF Kept
          <5>3. QED
            BY <2>4, <2>6, <5>1, <5>2 DEF Taken
        <4>2. pc[c] = "now2" => sample'[c][1] = sample[c][1]
          BY <2>3, <2>5
        <4>3. pc[c] = "now0" => sample'[c][1] = Nil
          BY <1>b, <2>3, <2>5 DEF Sampled
        <4>4. pc'[c] \notin {"storeTime", "keepTime", "calc", "now0"} /\ lastTimes' = lastTimes
          BY <2>2, <2>3
        <4>5. CASE pc[c] = "now0"
          BY <2>2, <2>3, <4>1, <4>3, <4>4, <4>5 DEF Kept
        <4>6. CASE pc[c] = "now2"
          BY <2>2, <2>3, <3>1, <4>1, <4>2, <4>4, <4>6 DEF Kept
        <4>7. CASE pc[c] = "now"
          BY <2>3, <4>7 DEF Kept
        <4>8. QED
          BY <2>3, <4>5, <4>6, <4>7
      <3>4. Computed(c)'
        <4>1. percent'[c] = 0 /\ basis'[c].times = Nil
          BY <2>2, <2>3, <3>1 DEF Computed
        <4>2. answer'[c] # "percent"
          BY <1>b, <2>2, <2>3 DEF Held
        <4>3. pc'[c] \in {"storeTimes", "storeTime"} => sample'[c][1] = Nil
          BY <1>b, <2>3, <2>5 DEF Sampled
        <4>4. QED
          BY <4>1, <4>2, <4>3 DEF Computed, Bounded
      <3>5. QED
        BY <3>2, <3>3, <3>4
    <2>8. InPercent(c) /\ raced' = raced
      BY <2>2, <2>3 DEF InPercent
    <2>9. QED
      BY <1>p, <2>1, <2>7, <2>8
  <1>6. ASSUME NEW c \in Callers, WriteTimes(c) PROVE Measured'
    <2>1. \A d \in Callers \ {c} : Same(d)
      BY <1>6, <1>b, OthersSame DEF PercentStep
    <2>2. /\ UNCHANGED <<lastTime, raced, sample, percent, basis, answer>>
          /\ \/ pc[c] = "keepTimes" /\ pc'[c] = "keepTime" /\ lastTimes' = sample[c][1]
             \/ pc[c] = "storeTimes" /\ pc'[c] = "storeTime" /\ lastTimes' = sample[c][2]
      BY <1>6, <1>b DEF WriteTimes, TypeOK, Sampled
    <2>3. ASSUME ~raced' PROVE Whole' /\ Kept(c)' /\ Computed(c)'
      <3>1. Alone /\ Whole /\ Kept(c) /\ Computed(c)
        BY <1>m, <2>2, <2>3 DEF Measured
      <3>2. Whole'
        BY <2>2 DEF Whole
      <3>3. Kept(c)'
        BY <2>2 DEF Kept
      <3>4. Computed(c)'
        BY <2>2, <3>1 DEF Computed, Bounded
      <3>5. QED
        BY <3>2, <3>3, <3>4
    <2>4. InPercent(c) /\ raced' = raced
      BY <2>2 DEF InPercent
    <2>5. QED
      BY <1>p, <2>1, <2>3, <2>4
  <1>7. ASSUME NEW c \in Callers, WriteTime(c) PROVE Measured'
    <2>1. \A d \in Callers \ {c} : Same(d)
      BY <1>7, <1>b, OthersSame DEF PercentStep
    <2>2. /\ UNCHANGED <<lastTimes, raced, sample, percent, basis>>
          /\ \/ /\ pc[c] = "keepTime" /\ pc'[c] = "sleep" /\ lastTime' = sample[c][1].at
                /\ sample[c][1] # Nil /\ answer'[c] = answer[c]
             \/ pc[c] = "storeTime" /\ pc'[c] = "done" /\ lastTime' = sample[c][2].at
      BY <1>7, <1>b DEF WriteTime, Answer, TypeOK, Sampled
    <2>3. ASSUME ~raced' PROVE Whole' /\ Kept(c)' /\ Computed(c)'
      <3>1. Alone /\ Whole /\ Kept(c) /\ Computed(c)
        BY <1>m, <2>2, <2>3 DEF Measured
      <3>2. Whole'
        BY <2>2, <3>1 DEF Whole, Kept
      <3>3. Kept(c)'
        BY <2>2, <3>1 DEF Kept
      <3>4. Computed(c)'
        BY <2>2, <3>1 DEF Computed, Bounded
      <3>5. QED
        BY <3>2, <3>3, <3>4
    <2>4. InPercent(c) /\ raced' = raced
      BY <2>2 DEF InPercent
    <2>5. QED
      BY <1>p, <2>1, <2>3, <2>4
  <1>8. ASSUME NEW c \in Callers, PercentSleep(c) PROVE Measured'
    <2>1. \A d \in Callers \ {c} : Same(d)
      BY <1>8, <1>b, OthersSame DEF PercentStep
    <2>2. /\ UNCHANGED <<lastTimes, lastTime, raced, sample, percent, basis>>
          /\ pc[c] = "sleep" /\ pc'[c] \in {"times2", "done"} /\ answer'[c] \in {answer[c], "error"}
      BY <1>8, <1>b DEF PercentSleep, Answer, TypeOK
    <2>3. ASSUME ~raced' PROVE Whole' /\ Kept(c)' /\ Computed(c)'
      <3>1. Alone /\ Whole /\ Kept(c) /\ Computed(c)
        BY <1>m, <2>2, <2>3 DEF Measured
      <3>2. Whole'
        BY <2>1, <2>2, <3>1 DEF Whole, Same
      <3>3. Kept(c)'
        BY <2>2, <3>1 DEF Kept
      <3>4. Computed(c)'
        BY <1>b, <2>2, <3>1 DEF Computed, Held
      <3>5. QED
        BY <3>2, <3>3, <3>4
    <2>4. InPercent(c) /\ raced' = raced
      BY <2>2 DEF InPercent
    <2>5. QED
      BY <1>p, <2>1, <2>3, <2>4
  <1>9. ASSUME NEW c \in Callers, pc[c] \in {"delta", "calc"}, ~raced
        PROVE  lastTimes # Nil /\ lastTime = lastTimes.at
    <2>1. Alone /\ Whole
      BY <1>m, <1>9 DEF Measured
    <2>2. \A d \in Callers : pc[d] \notin {"keepTime", "storeTime"}
      BY <1>9, <2>1 DEF Alone, InPercent
    <2>3. QED
      BY <1>b, <1>9, <2>1, <2>2 DEF Whole, Sampled
  <1>10. ASSUME NEW c \in Callers, PercentDelta(c) PROVE Measured'
    <2>1. \A d \in Callers \ {c} : Same(d)
      BY <1>10, <1>b, OthersSame DEF PercentStep
    <2>2. /\ UNCHANGED <<lastTimes, lastTime, raced, sample, percent, answer>>
          /\ pc[c] = "delta" /\ pc'[c] = "calc"
          /\ basis'[c].time = lastTime /\ basis'[c].times = basis[c].times
      BY <1>10, <1>b DEF PercentDelta, TypeOK
    <2>3. ASSUME ~raced' PROVE Whole' /\ Kept(c)' /\ Computed(c)'
      <3>1. Alone /\ Whole /\ Kept(c) /\ Computed(c)
        BY <1>m, <2>2, <2>3 DEF Measured
      <3>2. lastTimes # Nil /\ lastTime = lastTimes.at
        BY <1>9, <2>2, <2>3
      <3>3. Whole'
        BY <2>2, <3>2 DEF Whole
      <3>4. Kept(c)'
        BY <2>2, <3>1, <3>2 DEF Kept
      <3>5. Computed(c)'
        BY <1>b, <2>2, <3>1 DEF Computed, Held
      <3>6. QED
        BY <3>3, <3>4, <3>5
    <2>4. InPercent(c) /\ raced' = raced
      BY <2>2 DEF InPercent
    <2>5. QED
      BY <1>p, <2>1, <2>3, <2>4
  <1>11. ASSUME NEW c \in Callers, PercentCalc(c) PROVE Measured'
    <2>1. \A d \in Callers \ {c} : Same(d)
      BY <1>11, <1>b, OthersSame DEF PercentStep
    <2>2. /\ UNCHANGED <<lastTimes, lastTime, raced, sample, answer>>
          /\ pc[c] = "calc" /\ pc'[c] = "storeTimes"
          /\ basis'[c].times = lastTimes /\ basis'[c].time = basis[c].time
          /\ percent'[c] = calculatePercent(lastTimes.cpu, sample[c][2].cpu, sample[c][2].at - basis[c].time)
      BY <1>11, <1>b DEF PercentCalc, TypeOK
    <2>3. ASSUME ~raced' PROVE Whole' /\ Kept(c)' /\ Computed(c)'
      <3>1. Alone /\ Whole /\ Kept(c) /\ Computed(c)
        BY <1>m, <2>2, <2>3 DEF Measured
      <3>2. lastTimes # Nil /\ lastTime = lastTimes.at
        BY <1>9, <2>2, <2>3
      <3>3. Bounded(c)'
        <4>1. lastTimes \in Taken /\ sample[c][2] \in Taken
          BY <1>b, <2>2 DEF TypeOK, Sampled, TimesStat, Taken
        <4>2. /\ lastTimes.at <= sample[c][2].at /\ basis[c].time = lastTimes.at
              /\ sample[c][2].cpu - lastTimes.cpu <= sample[c][2].at - lastTimes.read
          BY <2>2, <3>1, <3>2 DEF Kept
        <4>3. lastTimes.read <= lastTimes.at
          BY <1>b, <3>2 DEF SamplesBound, BoundBy
        <4>4. /\ lastTimes.cpu \in Nat /\ sample[c][2].cpu \in Nat
              /\ sample[c][2].at - lastTimes.at \in Nat /\ sample[c][2].at - lastTimes.read \in Nat
          BY <4>1, <4>2, <4>3 DEF Taken
        <4>5. percent'[c] = calculatePercent(lastTimes.cpu, sample[c][2].cpu, sample[c][2].at - lastTimes.at)
          BY <2>2, <4>2
        <4>6. /\ percent'[c] \in Nat
              /\ percent'[c] * (sample[c][2].at - lastTimes.at) <= 100 * (sample[c][2].at - lastTimes.read)
              /\ sample[c][2].cpu - lastTimes.cpu <= sample[c][2].at - lastTimes.at => percent'[c] <= 100
          <5> DEFINE x == lastTimes.cpu
                     y == sample[c][2].cpu
                     d == sample[c][2].at - lastTimes.at
                     w == sample[c][2].at - lastTimes.read
                     r == percent'[c]
          <5>1. x \in Nat /\ y \in Nat /\ d \in Nat /\ w \in Nat
            BY <4>4
          <5>2. y - x <= w
            BY <4>2
          <5>3. r = calculatePercent(x, y, d)
            BY <4>5
          <5> HIDE DEF x, y, d, w, r
          <5>4. r \in Nat /\ r * d <= 100 * w /\ (y - x <= d => r <= 100)
            <6>1. /\ calculatePercent(x, y, d) \in Nat
                  /\ calculatePercent(x, y, d) * d <= 100 * w
                  /\ y - x <= d => calculatePercent(x, y, d) <= 100
              BY <5>1, <5>2, PercentBounded
            <6>2. QED
              BY <5>3, <6>1
          <5>5. QED
            BY <5>4 DEF x, y, d, w, r
        <4>7. lastTimes.read = lastTimes.at => percent'[c] <= 100
          BY <4>2, <4>6
        <4>8. percent'[c] > 100 => lastTimes.read < lastTimes.at
          BY <4>1, <4>3, <4>6, <4>7 DEF Taken
        <4>9. sample[c][1] # Nil => lastTimes = sample[c][1]
          BY <2>2, <3>1 DEF Kept
        <4>10. percent'[c] >= 0
          BY <4>6
        <4>11. QED
          BY <2>2, <3>2, <4>2, <4>6, <4>8, <4>9, <4>10 DEF Bounded
      <3>4. Whole'
        BY <3>2, <2>2 DEF Whole
      <3>5. Kept(c)'
        BY <2>2 DEF Kept
      <3>6. Computed(c)'
        BY <2>2, <3>3 DEF Computed
      <3>7. QED
        BY <3>4, <3>5, <3>6
    <2>4. InPercent(c) /\ raced' = raced
      BY <2>2 DEF InPercent
    <2>5. QED
      BY <1>p, <2>1, <2>3, <2>4
  <1>12. ASSUME NEW c \in Callers, Finish(c) PROVE Measured'
    <2>1. \A d \in Callers \ {c} : Same(d)
      BY <1>12, <1>b, OthersSame
    <2>2. /\ UNCHANGED <<lastTimes, lastTime, raced>> /\ pc[c] = "done" /\ pc'[c] = "idle"
          /\ percent'[c] = 0 /\ answer'[c] = "none" /\ basis'[c].times = Nil
      BY <1>12, <1>b DEF Finish, TypeOK, NoBasis
    <2>3. ASSUME ~raced' PROVE Alone' /\ Whole' /\ \A d \in Callers : Kept(d)' /\ Computed(d)'
      <3>1. ~raced
        BY <2>2, <2>3
      <3>2. Alone'
        BY <1>m, <2>1, <2>2, <3>1 DEF Measured, Alone, InPercent, Same
      <3>3. Whole'
        BY <1>m, <2>1, <2>2, <3>1 DEF Measured, Whole, Same
      <3>4. \A d \in Callers : Kept(d)'
        BY <1>m, <2>1, <2>2, <3>1 DEF Measured, Kept, Same
      <3>5. \A d \in Callers : Computed(d)'
        BY <1>m, <2>1, <2>2, <3>1 DEF Measured, Computed, Bounded, Same
      <3>6. QED
        BY <3>2, <3>3, <3>4, <3>5
    <2>4. QED
      BY <2>3 DEF Measured
  <1>13. Aside => UNCHANGED <<lastTimes, lastTime, raced, sample, percent, basis, pc, answer>>
    BY AsideFrame
  <1>14. QED
    BY <1>1, <1>2, <1>3, <1>4, <1>5, <1>6, <1>7, <1>8, <1>10, <1>11, <1>12, <1>13, NextCases
       DEF Tick, Exit, Spawn, NewProcessExists, NewProcessCreateTime, PercentStep

LEMMA Invariance == Inv /\ [Next]_vars => Inv'
  BY TypeStep, SuccessionStep, ReadingStep, ProperStep, HeldStep, SeenStep, AnswerStep, SampledStep,
     BoundStep, MeasuredStep DEF Inv

LEMMA InvHolds == Spec => []Inv
  BY InitInv, Invariance, PTL DEF Spec

-----------------------------------------------------------------------------
(* The theorems *)

\* Every variable keeps its type, in overlapping calls too.
THEOREM TypeCorrect == Spec => []TypeOK
  <1>1. Inv => TypeOK
    BY DEF Inv
  <1>2. QED
    BY <1>1, InvHolds, PTL

\* Whatever the pid does between the steps of IsRunning, its answer was so at some moment of
\* the call, as long as one boot time is used.
THEOREM IsRunningLinearizable == Spec => []IsRunningCorrect
  <1>1. Inv => IsRunningCorrect
    BY DEF Inv
  <1>2. QED
    BY <1>1, InvHolds, PTL

\* Once those who found the boot-time cache empty are through, one boot time is used for
\* good, whatever its source and whatever happens to the wall clock.
THEOREM BootTimeSettles == Spec => CacheSettles
  <1>1. ASSUME Inv, [Next]_vars, Settled
        PROVE  Settled' /\ cachedBoot' = cachedBoot /\ boots' \subseteq boots \cup {cachedBoot}
    <2>a. TypeOK
      BY <1>1 DEF Inv
    <2>b. fetch \in [Goroutines -> Fetches]
      BY <2>a DEF TypeOK
    <2>c. cacheBoot /\ cachedBoot # 0 /\ stray = 0 /\ \A g \in Goroutines : fetch[g].stage \in {"none", "load"}
      BY <1>1 DEF Settled
    <2>1. ASSUME UNCHANGED bootVars PROVE Settled' /\ cachedBoot' = cachedBoot /\ boots' = boots
      BY <1>1, <2>1 DEF Settled
    <2>2. ASSUME NEW g \in Goroutines, NEW r \in CreateTimes(g), Fetched(g, r)
          PROVE  Settled' /\ cachedBoot' = cachedBoot /\ boots' \subseteq boots \cup {cachedBoot}
      <3>1. r.cache = cachedBoot /\ r.boots \subseteq {cachedBoot}
        BY <2>c DEF CreateTimes, Created
      <3>2. /\ cachedBoot' = cachedBoot /\ boots' \subseteq boots \cup {cachedBoot}
            /\ cacheBoot' = cacheBoot /\ stray' = stray
        BY <2>2, <3>1 DEF Fetched
      <3>3. \A h \in Goroutines : fetch'[h].stage \in {"none", "load"}
        BY <2>2, <2>b, <2>c DEF Fetched, NoFetch
      <3>4. QED
        BY <2>c, <3>2, <3>3 DEF Settled
    <2>3. ASSUME NEW g \in Goroutines, Fetch(g)
          PROVE  Settled' /\ cachedBoot' = cachedBoot /\ boots' = boots
      <3>1. ReadStat(g)
        BY <2>3, <2>c DEF Fetch, LoadBoot, ReadSource
      <3>2. UNCHANGED <<cacheBoot, cachedBoot, stray, boots>>
        BY <3>1 DEF ReadStat
      <3>3. \A h \in Goroutines : fetch'[h].stage \in {"none", "load"}
        BY <2>b, <2>c, <3>1 DEF ReadStat
      <3>4. QED
        BY <2>c, <3>2, <3>3 DEF Settled
    <2>4. ~StrayLoad /\ ~StrayStore
      BY <2>c DEF StrayLoad, StrayStore
    <2>5. \A c \in Callers : IsRunningStep(c) =>
              UNCHANGED bootVars \/ \E r \in CreateTimes(c) : Fetched(c, r)
      BY DEF IsRunningStep, CreateTimeCached, CreateTimeRead, CreateTimeStore, FreshExists,
         FreshCreateTime, FreshReread, Compare
    <2>6. \A c \in Callers : PercentStep(c) => UNCHANGED bootVars
      BY <2>a, PercentFrame
    <2>7. \/ UNCHANGED bootVars
          \/ \E g \in Goroutines : Fetch(g)
          \/ \E g \in Goroutines : \E r \in CreateTimes(g) : Fetched(g, r)
      BY <1>1, <2>4, <2>5, <2>6, NextCases DEF Aside, StepWallClock, Tick, Exit, Spawn, NewProcessExists,
         NewProcessCreateTime, StartIsRunning, StartPercent, Start, Finish, Goroutines
    <2>8. QED
      BY <2>1, <2>2, <2>3, <2>7
  <1>2. Inv /\ [Next]_vars =>
           (Settled => /\ Settled' /\ cachedBoot' = cachedBoot
                       /\ boots' \subseteq boots \cup {cachedBoot})
    BY <1>1
  <1>3. QED
    BY <1>2, InvHolds, PTL DEF Spec, CacheSettles

\* No call, and no two concurrent ones, change whom a handle stands for that NewProcess gave
\* a creation time.
THEOREM HandlePinned == Spec => IdentityPinned
  <1>1. Inv /\ [Next]_vars => (pinned => UNCHANGED <<createTime, owner>>)
    <2> SUFFICES ASSUME Inv, [Next]_vars, pinned PROVE UNCHANGED <<createTime, owner>>
      OBVIOUS
    <2>a. TypeOK /\ ready = "yes" /\ \A c \in Callers : pc[c] # "store"
      BY DEF Inv, Given
    <2>1. ~NewProcessCreateTime
      BY <2>a DEF NewProcessCreateTime
    <2>2. \A c \in Callers : IsRunningStep(c) => UNCHANGED <<createTime, owner>>
      BY <2>a DEF IsRunningStep, CreateTimeCached, CreateTimeRead, CreateTimeStore, FreshExists,
         FreshCreateTime, FreshReread, Compare
    <2>3. \A c \in Callers : PercentStep(c) => UNCHANGED <<createTime, owner>>
      BY <2>a, PercentFrame
    <2>4. Aside => UNCHANGED <<createTime, owner>>
      BY AsideFrame
    <2>5. QED
      BY <2>1, <2>2, <2>3, <2>4, NextCases DEF Tick, Exit, Spawn, NewProcessExists,
         StartIsRunning, StartPercent, Start, Finish
  <1>2. QED
    BY <1>1, InvHolds, PTL DEF Spec, IdentityPinned

\* Percent of a handle that one call uses at a time, for a process with one thread, reused pid
\* or not: not negative, above 100 only by as much as time.Now() was late, and with an
\* interval about that interval.
THEOREM PercentMeasured == Spec => []PercentPlausible
  <1>1. Inv => PercentPlausible
    BY DEF Inv, Measured, Computed, Bounded, PercentPlausible
  <1>2. QED
    BY <1>1, InvHolds, PTL

=============================================================================
