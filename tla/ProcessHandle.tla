---------------------------- MODULE ProcessHandle ----------------------------
(***************************************************************************)
(* A process.Process handle (process/process.go with the Linux readers of  *)
(* process_linux.go and process_posix.go): NewProcess, CreateTime,         *)
(* IsRunning and Percent, called by goroutines that share one handle       *)
(* without any lock, while the kernel lets the process run, exit and hands *)
(* its pid to a successor, and while the wall clock is stepped.            *)
(*                                                                         *)
(* One pid is modelled.  An incarnation is a process that has or had it.   *)
(* A creation time is the incarnation's start, in ticks since boot, plus   *)
(* the boot time of BootTimeWithContext (internal/common/common_linux.go): *)
(* that of /proc/stat, or in a container the wall clock minus the uptime,  *)
(* or what is in the cache, which goroutines with other handles fill too.  *)
(* IsRunning and Percent touch disjoint fields of the handle, so the       *)
(* goroutines of a behaviour use one or the other (group).                 *)
(***************************************************************************)
EXTENDS Integers, FiniteSets

CONSTANTS Callers,        \* goroutines that use the handle
          Maker,          \* the goroutine that has called NewProcess
          MaxClock,       \* bound: ticks of the machine, for each group
          MaxIncarnation, \* bound: processes that get the pid, one after the other
          Drift,          \* by how much time.Now() minus the uptime may be off btime
          MaxOps,         \* bound: operations on the handle
          BootTimes,      \* values of btime as the wall clock is stepped
          Nil             \* a nil pointer

ASSUME ConstantsAssumption ==
    /\ MaxClock \in [{"identity", "percent"} -> Nat] /\ MaxIncarnation \in Nat \ {0} /\ MaxOps \in Nat /\ Drift \subseteq Nat
    /\ BootTimes \subseteq Nat \ {0, 1} /\ BootTimes # {}
    /\ Maker \notin Callers

ASSUME NilAssumption == Nil \notin [who : 1..MaxIncarnation, cpu : Nat, read : Nat, at : Nat]

VARIABLES
    group,       \* which operations the goroutines use
    clock,       \* ticks since boot
    alive,       \* incarnation that has the pid now, 0 if none
    born,        \* start tick of each incarnation
    used,        \* CPU ticks each incarnation has consumed
    bootTime,    \* btime in /proc/stat now: the wall clock minus the uptime
    source,      \* of the boot time: "btime" of /proc/stat; "uptime": /proc/uptime in an lxc or
                 \* docker guest, or that of sysinfo if /proc/stat may not be read; "sysinfo":
                 \* that of sysinfo because the guest's /proc/uptime may not be read
    cacheBoot,   \* enableBootTimeCache
    cachedBoot,  \* common.cachedBootTime, 0 if unset
    stray,       \* a boot time that somebody with another handle is about to store, or 0
    fetch,       \* how far each goroutine is with reading a creation time
    createTime,  \* p.createTime, 0 if unset
    lastTimes,   \* p.lastCPUTimes
    lastTime,    \* p.lastCPUTime
    ready,       \* NewProcess: "no", "exists", "yes", "failed"
    pc,          \* where each goroutine's operation stands
    ct,          \* its local creation times: 1 of the handle, 2 of the fresh p2
    sample,      \* its cpuTimes and now
    percent,     \* the percentage it computed
    basis,       \* the p.lastCPUTimes and p.lastCPUTime it computed it from
    answer,      \* what it returned
    ops,         \* operations started
    owner,       \* ghost: incarnation whose stat gave p.createTime
    pinned,      \* ghost: NewProcess could read the creation time
    stepped,     \* ghost: the wall clock was stepped
    boots,       \* ghost: the boot times that creation times were computed with
    during,      \* ghost: who had the pid during each operation
    raced        \* ghost: two calls of Percent have overlapped

kernelVars == <<group, clock, alive, born, used, bootTime, source, stepped>>
bootVars   == <<cacheBoot, cachedBoot, stray, fetch, boots>>
handleVars == <<createTime, owner, pinned, ready>>
percentVars == <<lastTimes, lastTime, raced>>
callVars   == <<pc, ct, sample, percent, basis, answer, ops, during>>
vars == <<kernelVars, bootVars, handleVars, percentVars, callVars>>

Incarnations == 1..MaxIncarnation

-----------------------------------------------------------------------------
(* The machine *)

\* Every operation under way sees who has the pid.
Witness(who) ==
    during' = [c \in Callers |-> IF pc[c] = "idle" THEN {} ELSE during[c] \cup {who}]

\* A tick, spent in the process or elsewhere (IsRunning does not look at CPU times).
Tick(inProcess) ==
    /\ clock < MaxClock[group]
    /\ clock' = clock + 1
    /\ inProcess => alive # 0 /\ group = "percent"
    /\ used' = IF inProcess THEN [used EXCEPT ![alive] = @ + 1] ELSE used
    /\ UNCHANGED <<group, alive, born, bootTime, source, stepped, bootVars, handleVars, percentVars, callVars>>

Exit ==
    /\ alive # 0
    /\ alive' = 0
    /\ Witness(0)
    /\ UNCHANGED <<group, clock, born, used, bootTime, source, stepped, bootVars, handleVars,
                   percentVars, pc, ct, sample, percent, basis, answer, ops>>

\* The pid is handed out again, to a process that starts later.
Spawn(i) ==
    /\ alive = 0 /\ born[i] = 0
    /\ \A j \in Incarnations : j < i => 0 < born[j] /\ born[j] < clock
    /\ alive' = i
    /\ born' = [born EXCEPT ![i] = clock]
    /\ Witness(i)
    /\ UNCHANGED <<group, clock, used, bootTime, source, stepped, bootVars, handleVars, percentVars,
                   pc, ct, sample, percent, basis, answer, ops>>

\* NTP or an administrator steps the wall clock: btime moves (Percent does not look at it).
StepWallClock ==
    /\ group = "identity" /\ ~stepped
    /\ bootTime' \in BootTimes \ {bootTime}
    /\ stepped' = TRUE
    /\ UNCHANGED <<group, clock, alive, born, used, source, bootVars, handleVars, percentVars,
                   callVars>>

-----------------------------------------------------------------------------
(* createTimeWithContext, which reads the stat file of whoever has the pid *)
(* and then the boot time, in the stages of fetch.                         *)

Goroutines == Callers \cup {Maker}

NoFetch == [stage |-> "none", who |-> 0, start |-> 0, boot |-> 0]

\* Who is to read a creation time: NewProcess, or a call at one of these steps.
Fetching(g) == IF g = Maker THEN ready = "exists" ELSE pc[g] \in {"own", "fresh", "reread"}

\* g is done with a stage, or has the boot time b by it.
Reach(g, l, b) ==
    /\ fetch' = [fetch EXCEPT ![g].stage = l, ![g].boot = b]
    /\ UNCHANGED <<kernelVars, cacheBoot, cachedBoot, stray, boots, handleVars, percentVars, callVars>>

ReadStat(g) ==
    /\ Fetching(g) /\ fetch[g].stage = "none" /\ alive # 0
    /\ fetch' = [fetch EXCEPT ![g] = [stage |-> "load", who |-> alive, start |-> born[alive], boot |-> 0]]
    /\ UNCHANGED <<kernelVars, cacheBoot, cachedBoot, stray, boots, handleVars, percentVars, callVars>>

\* Mutant: a cache that is filled is not used.
LoadBootAlways(g) == fetch[g].stage = "load" /\ Reach(g, "source", 0)

\* The cache is not enabled or empty.
LoadBoot(g) ==
    /\ fetch[g].stage = "load" /\ ~(cacheBoot /\ cachedBoot # 0)
    /\ Reach(g, "source", 0)

\* What a read of the boot time can give now: btime, or time.Now() minus an uptime that was
\* read before it.
BootReads == IF source = "btime" THEN {bootTime} ELSE {bootTime + d : d \in Drift}

ReadSource(g) ==
    /\ fetch[g].stage = "source"
    /\ \E b \in BootReads : Reach(g, IF source = "sysinfo" THEN "have" ELSE "keep", b)

Fetch(g) == ReadStat(g) \/ LoadBoot(g) \/ ReadSource(g)

NoRead == [time |-> 0, who |-> 0]

\* How it ends with the boot time b, and with c in the cache.
Created(g, b, c) ==
    [read |-> [time |-> fetch[g].start + b, who |-> fetch[g].who], cache |-> c, boots |-> {b}]

\* How it ends: the stat file is gone or cannot be read; the boot time is in the cache; it
\* cannot be read, which gives 0 and an error that fillFromTIDStat ignores; or it has been
\* read, and it is stored if the cache is enabled.
CreateTimes(g) ==
    LET f == fetch[g]
    IN  CASE f.stage = "none" -> {[read |-> NoRead, cache |-> cachedBoot, boots |-> {}]}
          [] f.stage = "load" -> IF cacheBoot /\ cachedBoot # 0 THEN {Created(g, cachedBoot, cachedBoot)} ELSE {}
          [] f.stage = "source" -> {Created(g, 0, cachedBoot)}
          [] f.stage = "have" -> {Created(g, f.boot, cachedBoot)}
          [] f.stage = "keep" -> {Created(g, f.boot, IF cacheBoot THEN f.boot ELSE cachedBoot)}

\* g has read r.
Fetched(g, r) ==
    /\ fetch' = [fetch EXCEPT ![g] = NoFetch]
    /\ cachedBoot' = r.cache
    /\ boots' = boots \cup r.boots
    /\ UNCHANGED <<cacheBoot, stray>>

\* Goroutines with other handles find the cache empty, read the boot time and store it later.
StrayLoad ==
    /\ group = "identity" /\ cacheBoot /\ cachedBoot = 0 /\ stray = 0
    /\ source # "sysinfo" /\ stray' \in BootReads
    /\ UNCHANGED <<kernelVars, cacheBoot, cachedBoot, fetch, boots, handleVars, percentVars, callVars>>

StrayStore ==
    /\ stray # 0
    /\ cachedBoot' = stray /\ stray' = 0
    /\ UNCHANGED <<kernelVars, cacheBoot, fetch, boots, handleVars, percentVars, callVars>>

-----------------------------------------------------------------------------
(* NewProcessWithContext; the goroutines get the handle when it succeeds. *)

\* PidExistsWithContext, which may fail.
NewProcessExists ==
    /\ ready = "no"
    /\ \/ alive # 0 /\ ready' = "exists"
       \/ ready' = "failed"
    /\ UNCHANGED <<kernelVars, bootVars, createTime, owner, pinned, percentVars, callVars>>

\* Its CreateTimeWithContext, whose error is ignored.
NewProcessCreateTime ==
    /\ ready = "exists"
    /\ \E r \in CreateTimes(Maker) :
          /\ Fetched(Maker, r)
          /\ createTime' = r.read.time /\ owner' = r.read.who
          /\ pinned' = (r.read.time # 0)
    /\ ready' = "yes"
    /\ UNCHANGED <<kernelVars, percentVars, callVars>>

-----------------------------------------------------------------------------
(* IsRunningWithContext *)

Goto(c, l) == pc' = [pc EXCEPT ![c] = l]
Answer(c, a) == answer' = [answer EXCEPT ![c] = a] /\ Goto(c, "done")
Local(c, k, v) == ct' = [ct EXCEPT ![c][k] = v]

Start(c, l) ==
    /\ ready = "yes" /\ pc[c] = "idle" /\ ops < MaxOps
    /\ ops' = ops + 1
    /\ Goto(c, l)
    /\ during' = [during EXCEPT ![c] = {alive}]
    /\ UNCHANGED <<kernelVars, bootVars, handleVars, lastTimes, lastTime, ct, sample,
                   percent, basis, answer>>

StartIsRunning(c) == group = "identity" /\ Start(c, "cached") /\ UNCHANGED raced

\* Mutant: the cached creation time is not looked at.
CreateTimeUncached(c) ==
    /\ pc[c] = "cached"
    /\ Goto(c, "own")
    /\ UNCHANGED <<kernelVars, bootVars, handleVars, percentVars, ct, sample, percent, basis,
                   answer, ops, during>>

\* p.CreateTimeWithContext: the cached value, or a read ...
CreateTimeCached(c) ==
    /\ pc[c] = "cached"
    /\ \/ createTime # 0 /\ Local(c, 1, [time |-> createTime, who |-> owner]) /\ Goto(c, "exists")
       \/ createTime = 0 /\ Goto(c, "own") /\ UNCHANGED ct
    /\ UNCHANGED <<kernelVars, bootVars, handleVars, percentVars, sample, percent, basis,
                   answer, ops, during>>

CreateTimeRead(c) ==
    /\ pc[c] = "own"
    /\ \E r \in CreateTimes(c) : Fetched(c, r) /\ Local(c, 1, r.read)
    /\ Goto(c, "store")
    /\ UNCHANGED <<kernelVars, handleVars, percentVars, sample, percent,
                   basis, answer, ops, during>>

\* ... which is stored even when it failed; then the error is returned.
CreateTimeStore(c) ==
    /\ pc[c] = "store"
    /\ createTime' = ct[c][1].time
    /\ owner' = ct[c][1].who
    /\ \/ ct[c][1].time = 0 /\ Answer(c, "error")
       \/ ct[c][1].time # 0 /\ Goto(c, "exists") /\ UNCHANGED answer
    /\ UNCHANGED <<kernelVars, bootVars, pinned, ready, percentVars, ct, sample, percent,
                   basis, ops, during>>

\* Mutant: an error of the existence check is taken for "not running".
FreshExistsErrorIsFalse(c) ==
    /\ pc[c] = "exists"
    /\ \/ Answer(c, "false") /\ UNCHANGED ct
       \/ alive # 0 /\ Goto(c, "fresh") /\ UNCHANGED <<ct, answer>>
    /\ UNCHANGED <<kernelVars, bootVars, handleVars, percentVars, sample, percent,
                   basis, ops, during>>

\* NewProcessWithContext(p.Pid): a pid that does not exist is "not running"; any other
\* error is ignored and leaves p2 without a creation time.
FreshExists(c) ==
    /\ pc[c] = "exists"
    /\ \/ alive = 0 /\ Answer(c, "false") /\ UNCHANGED ct
       \/ alive # 0 /\ Goto(c, "fresh") /\ UNCHANGED <<ct, answer>>
       \/ Goto(c, "reread") /\ UNCHANGED <<ct, answer>>
    /\ UNCHANGED <<kernelVars, bootVars, handleVars, percentVars, sample, percent,
                   basis, ops, during>>

\* If it gives p2 none, p2.CreateTimeWithContext reads once more.
FreshCreateTime(c) ==
    /\ pc[c] = "fresh"
    /\ \E r \in CreateTimes(c) :
          /\ Fetched(c, r) /\ Local(c, 2, r.read)
          /\ Goto(c, IF r.read.time = 0 THEN "reread" ELSE "compare")
    /\ UNCHANGED <<kernelVars, handleVars, percentVars, sample, percent,
                   basis, answer, ops, during>>

FreshReread(c) ==
    /\ pc[c] = "reread"
    /\ \E r \in CreateTimes(c) :
          /\ Fetched(c, r) /\ Local(c, 2, r.read)
          /\ \/ r.read.time = 0 /\ Answer(c, "error")
             \/ r.read.time # 0 /\ Goto(c, "compare") /\ UNCHANGED answer
    /\ UNCHANGED <<kernelVars, handleVars, percentVars, sample, percent,
                   basis, ops, during>>

Compare(c) ==
    /\ pc[c] = "compare"
    /\ Answer(c, IF ct[c][1].time = ct[c][2].time THEN "true" ELSE "false")
    /\ UNCHANGED <<kernelVars, bootVars, handleVars, percentVars, ct, sample, percent,
                   basis, ops, during>>

-----------------------------------------------------------------------------
(* PercentWithContext *)

InPercent(c) ==
    pc[c] \in {"times0", "times", "now0", "now", "now2", "keepTimes", "keepTime", "sleep", "times2", "delta",
               "calc", "storeTimes", "storeTime"}

StartPercent(c, interval) ==
    /\ group = "percent"
    /\ Start(c, IF interval THEN "times" ELSE "times0")
    /\ raced' = (raced \/ \E d \in Callers \ {c} : InPercent(d))

\* TimesWithContext into local k: the CPU time consumed by whoever has the pid, or a failure,
\* which ends the call.  `read' is the moment, `at' will be that of time.Now().
TakeSample(c, k, l) ==
    \/ Answer(c, "error") /\ UNCHANGED sample
    \/ /\ alive # 0
       /\ sample' = [sample EXCEPT ![c][k] =
             [who |-> alive, cpu |-> used[alive], read |-> clock, at |-> clock]]
       /\ Goto(c, l) /\ UNCHANGED answer

PercentTimes(c) ==
    /\ \/ pc[c] = "times0" /\ TakeSample(c, 2, "now0")
       \/ pc[c] = "times" /\ TakeSample(c, 1, "now")
       \/ pc[c] = "times2" /\ TakeSample(c, 2, "now2")
    /\ UNCHANGED <<kernelVars, bootVars, handleVars, percentVars, ct, percent, basis, ops, during>>

\* time.Now(), which may come late; then a call without an interval looks for a last sample.
PercentNow(c) ==
    /\ \/ /\ pc[c] = "now0" /\ sample' = [sample EXCEPT ![c][2].at = clock]
          /\ Goto(c, IF lastTimes = Nil THEN "storeTimes" ELSE "delta")
       \/ pc[c] = "now" /\ sample' = [sample EXCEPT ![c][1].at = clock] /\ Goto(c, "keepTimes")
       \/ pc[c] = "now2" /\ sample' = [sample EXCEPT ![c][2].at = clock] /\ Goto(c, "delta")
    /\ UNCHANGED <<kernelVars, bootVars, handleVars, percentVars, ct, percent, basis, answer,
                   ops, during>>

\* p.lastCPUTimes and p.lastCPUTime are written one after the other: the first sample of a
\* call with an interval before it sleeps, the last sample of every call before it returns.
WriteTimes(c) ==
    /\ \/ pc[c] = "keepTimes" /\ lastTimes' = sample[c][1] /\ Goto(c, "keepTime")
       \/ pc[c] = "storeTimes" /\ lastTimes' = sample[c][2] /\ Goto(c, "storeTime")
    /\ UNCHANGED <<kernelVars, bootVars, handleVars, lastTime, raced, ct, sample, percent,
                   basis, answer, ops, during>>

WriteTime(c) ==
    /\ \/ /\ pc[c] = "keepTime"
          /\ lastTime' = sample[c][1].at
          /\ Goto(c, "sleep") /\ UNCHANGED answer
       \/ /\ pc[c] = "storeTime"
          /\ lastTime' = sample[c][2].at
          /\ Answer(c, "percent")
    /\ UNCHANGED <<kernelVars, bootVars, handleVars, lastTimes, raced, ct, sample, percent,
                   basis, ops, during>>

\* common.Sleep returns after the interval, or with the context's error.
PercentSleep(c) ==
    /\ pc[c] = "sleep"
    /\ \/ Goto(c, "times2") /\ UNCHANGED answer
       \/ Answer(c, "error")
    /\ UNCHANGED <<kernelVars, bootVars, handleVars, percentVars, ct, sample, percent, basis,
                   ops, during>>

\* Mutant: a process that used less than at the last call is not special.
calculatePercentUnguarded(cpu1, cpu2, delta) ==
    IF delta = 0 THEN 0 ELSE ((cpu2 - cpu1) * 100) \div delta

\* calculatePercent, with delta = (now - lastCPUTime) * numcpu: numcpu cancels out.
\* delta is negative when another call has stored a later sample meanwhile.
calculatePercent(cpu1, cpu2, delta) ==
    IF delta = 0 \/ cpu2 - cpu1 <= 0 THEN 0
    ELSE IF delta < 0 THEN -(((cpu2 - cpu1) * 100) \div (-delta))
    ELSE ((cpu2 - cpu1) * 100) \div delta

\* delta is computed from p.lastCPUTime before p.lastCPUTimes is read.
PercentDelta(c) ==
    /\ pc[c] = "delta"
    /\ basis' = [basis EXCEPT ![c].time = lastTime]
    /\ Goto(c, "calc")
    /\ UNCHANGED <<kernelVars, bootVars, handleVars, percentVars, ct, sample, percent, answer,
                   ops, during>>

PercentCalc(c) ==
    /\ pc[c] = "calc"
    /\ basis' = [basis EXCEPT ![c].times = lastTimes]
    /\ percent' = [percent EXCEPT ![c] =
          calculatePercent(lastTimes.cpu, sample[c][2].cpu, sample[c][2].at - basis[c].time)]
    /\ Goto(c, "storeTimes")
    /\ UNCHANGED <<kernelVars, bootVars, handleVars, percentVars, ct, sample, answer, ops,
                   during>>

-----------------------------------------------------------------------------
NoBasis == [times |-> Nil, time |-> 0]

\* The caller has the answer; the call's variables are gone.
Finish(c) ==
    /\ pc[c] = "done"
    /\ Goto(c, "idle")
    /\ ct' = [ct EXCEPT ![c] = [k \in 1..2 |-> NoRead]]
    /\ sample' = [sample EXCEPT ![c] = [k \in 1..2 |-> Nil]]
    /\ basis' = [basis EXCEPT ![c] = NoBasis]
    /\ percent' = [percent EXCEPT ![c] = 0]
    /\ answer' = [answer EXCEPT ![c] = "none"]
    /\ during' = [during EXCEPT ![c] = {}]
    /\ UNCHANGED <<kernelVars, bootVars, handleVars, percentVars, ops>>

Init ==
    /\ group \in {"identity", "percent"}
    /\ clock = 1 /\ alive = 1
    /\ born = [i \in Incarnations |-> IF i = 1 THEN 1 ELSE 0]
    /\ used = [i \in Incarnations |-> 0]
    /\ bootTime = CHOOSE b \in BootTimes : TRUE
    /\ source \in {"btime", "uptime", "sysinfo"}
    /\ cacheBoot \in BOOLEAN /\ cachedBoot = 0 /\ stray = 0
    /\ source = "sysinfo" => cacheBoot  \* without the cache it is as "uptime"
    /\ fetch = [g \in Goroutines |-> NoFetch] /\ boots = {}
    /\ createTime = 0 /\ owner = 0 /\ pinned = FALSE
    /\ ready = IF group = "identity" THEN "no" ELSE "yes"
    /\ group = "percent" => ~cacheBoot /\ source = "btime"
    /\ lastTimes = Nil /\ lastTime = 0
    /\ pc = [c \in Callers |-> "idle"]
    /\ ct = [c \in Callers |-> [k \in 1..2 |-> NoRead]]
    /\ sample = [c \in Callers |-> [k \in 1..2 |-> Nil]]
    /\ percent = [c \in Callers |-> 0]
    /\ basis = [c \in Callers |-> NoBasis]
    /\ answer = [c \in Callers |-> "none"]
    /\ ops = 0 /\ during = [c \in Callers |-> {}]
    /\ stepped = FALSE /\ raced = FALSE

Machine ==
    \/ \E inProcess \in BOOLEAN : Tick(inProcess)
    \/ Exit
    \/ \E i \in Incarnations : Spawn(i)
    \/ StepWallClock
    \/ StrayLoad \/ StrayStore

Step(c) ==
    \/ CreateTimeCached(c) \/ CreateTimeRead(c) \/ CreateTimeStore(c)
    \/ FreshExists(c) \/ FreshCreateTime(c) \/ FreshReread(c) \/ Compare(c)
    \/ PercentTimes(c) \/ PercentNow(c) \/ WriteTimes(c) \/ WriteTime(c) \/ PercentSleep(c)
    \/ PercentDelta(c) \/ PercentCalc(c) \/ Finish(c)

Next ==
    \/ Machine
    \/ \E g \in Goroutines : Fetch(g)
    \/ NewProcessExists \/ NewProcessCreateTime
    \/ \E c \in Callers :
          \/ StartIsRunning(c)
          \/ \E interval \in BOOLEAN : StartPercent(c, interval)
          \/ Step(c)

Spec == Init /\ [][Next]_vars

-----------------------------------------------------------------------------
(* Properties *)

Read == [time : Nat, who : 0..MaxIncarnation]
Fetches == [stage : {"none", "load", "source", "keep", "have"},
            who : 0..MaxIncarnation, start : Nat, boot : Nat]
TimesStat == [who : Incarnations, cpu : Nat, read : Nat, at : Nat] \cup {Nil}

\* Every variable has its type.
TypeOK ==
    /\ clock \in Nat /\ alive \in 0..MaxIncarnation
    /\ born \in [Incarnations -> Nat] /\ used \in [Incarnations -> Nat]
    /\ bootTime \in BootTimes /\ cachedBoot \in Nat /\ stray \in Nat
    /\ fetch \in [Goroutines -> Fetches] /\ boots \subseteq Nat
    /\ createTime \in Nat /\ owner \in 0..MaxIncarnation
    /\ ready \in {"no", "exists", "yes", "failed"} /\ pinned \in BOOLEAN
    /\ cacheBoot \in BOOLEAN /\ source \in {"btime", "uptime", "sysinfo"} /\ stepped \in BOOLEAN /\ raced \in BOOLEAN
    /\ lastTimes \in TimesStat /\ lastTime \in Nat
    /\ pc \in [Callers -> {"idle", "cached", "own", "store", "exists", "fresh", "reread",
                           "compare", "done", "times0", "times", "now0", "now", "now2", "keepTimes",
                           "keepTime", "sleep", "times2", "delta", "calc", "storeTimes", "storeTime"}]
    /\ ct \in [Callers -> [1..2 -> Read]]
    /\ sample \in [Callers -> [1..2 -> TimesStat]]
    /\ basis \in [Callers -> [times : TimesStat, time : Nat]]
    /\ percent \in [Callers -> Int]
    /\ answer \in [Callers -> {"none", "true", "false", "error", "percent"}]
    /\ during \in [Callers -> SUBSET (0..MaxIncarnation)]

\* What IsRunning answers was so at some moment of the call, about the process whose
\* creation time the handle holds: despite pid reuse between its steps, "true" is never
\* about a successor and "false" never about a process that was there all along.
Linearizable(c) ==
    LET who == ct[c][1].who
    IN  /\ answer[c] = "true" => who \in during[c]
        /\ answer[c] = "false" => \E w \in during[c] : w # who

\* Every creation time so far was computed with the same boot time.
OneBootTime == \A a, b \in boots : a = b

\* IsRunning is right as long as the boot time it adds to the start time is the same for all
\* (a 0 for one that could not be read is another boot time).
IsRunningCorrect == OneBootTime => \A c \in Callers : Linearizable(c)

\* Nobody is about to store another boot time in a cache that has one.
Settled ==
    /\ cacheBoot /\ cachedBoot # 0 /\ stray = 0
    /\ \A g \in Goroutines : fetch[g].stage \in {"none", "load"}

\* The cache keeps the boot time from changing, in a container too and whatever happens to the
\* wall clock: once those who found it empty are through, nobody reads another boot time or
\* stores one, and all creation times are computed with the one that was stored last.
CacheSettles ==
    [][Settled => /\ Settled' /\ cachedBoot' = cachedBoot
                  /\ boots' \subseteq boots \cup {cachedBoot}]_vars

\* A handle whose creation time NewProcess could read stands for that process for good:
\* no later call, and no two concurrent ones, exchange it for a successor's or lose it.
IdentityPinned == [][pinned => UNCHANGED <<createTime, owner>>]_vars

\* Percent of a process with one thread, on a handle that is not used by two calls of
\* Percent at once, is not negative, also when the pid has been reused since the last call;
\* it exceeds 100 only by as much as the first of the two samples was late with time.Now(),
\* after the CPU time was read; and with an interval it is about the time between the start
\* and the end.
PercentPlausible ==
    ~raced => \A c \in Callers : answer[c] = "percent" =>
        LET first == basis[c].times  last == sample[c][2]
        IN  /\ percent[c] >= 0
            /\ percent[c] > 100 => first # Nil /\ first.read < first.at
            /\ first # Nil => percent[c] * (last.at - basis[c].time) <= 100 * (last.at - first.read)
            /\ sample[c][1] # Nil => first = sample[c][1] /\ basis[c].time = first.at
=============================================================================
