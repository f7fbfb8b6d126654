----------------------------- MODULE CpuPercent -----------------------------
(***************************************************************************)
(* The percentage calculation of package cpu (cpu/cpu.go): goroutines call *)
(* Percent, either with a positive interval (two samples and a Sleep) or   *)
(* with interval 0, which compares a fresh sample with the one the last    *)
(* call left in the package variable lastCPUPercent.  The kernel counters  *)
(* move, go backwards (iowait) and change in number (hotplug) meanwhile.   *)
(*                                                                         *)
(* The mutex, the read of the old sample and the store of the new one are  *)
(* separate steps.  A TimesStat keeps the three classes of time that       *)
(* getAllBusy tells apart: quiet is Idle + Iowait, guest is Guest +        *)
(* GuestNice, user everything else.  Percentages are rounded down.         *)
(***************************************************************************)
EXTENDS Integers, Sequences, FiniteSets

CONSTANTS Callers,    \* the goroutines that call Percent
          Sleepers,   \* those that may pass a positive interval
          MaxCPU,     \* number of CPUs that can ever be online
          Burst,      \* units of time a tick adds to a counter
          Work,       \* what the CPUs can be doing: pairs of a CPU and a kind of time
          MaxTicks,   \* bound: ticks and hotplug events
          MaxCalls,   \* bound: calls of Percent
          Nil,        \* a Go nil slice
          NoOne       \* the mutex has no owner

ASSUME ConstantsAssumption ==
    /\ MaxCPU \in Nat \ {0} /\ Burst \in Nat \ {0} /\ MaxTicks \in Nat /\ MaxCalls \in Nat
    /\ Work \subseteq (1..MaxCPU) \X {"user", "guest", "quiet", "back"}
    /\ Sleepers \subseteq Callers /\ NoOne \notin Callers

VARIABLES
    goos,         \* runtime.GOOS: "linux" or "other"
    counters,     \* the kernel's lines: 0 is the total, 1..MaxCPU the CPUs
    online,       \* the CPUs that are listed
    now,          \* kernel events so far
    lastTimes,    \* lastCPUPercent: [TRUE: lastPerCPUTimes, FALSE: lastCPUTimes]
    mutex,        \* owner of lastCPUPercent's mutex
    pc,           \* where each call stands
    percpu,       \* its argument percpu
    cancelled,    \* its context is done
    base,         \* its older sample (cpuTimes1 or lastTimes)
    cur,          \* its newer sample
    result,       \* what it returned
    calls,        \* calls made so far
    version,      \* ghost: number of stores into lastTimes[m]
    took,         \* ghost: the version of the call's baseline
    put           \* ghost: the version the call's own sample became

kernelVars == <<goos, counters, online, now>>
callVars   == <<pc, percpu, cancelled, base, cur, result, calls>>
ghostVars  == <<version, took, put>>
vars == <<kernelVars, lastTimes, mutex, callVars, ghostVars>>

-----------------------------------------------------------------------------
(* Samples and the arithmetic on them *)

TimesStat == [user : Nat, guest : Nat, quiet : Nat]

\* A sample: the lines read, and (ghost) the tick at which they were read.
Sample == [at : Nat, times : Seq(TimesStat)]

SampleOrNil == Sample \cup {Nil}

Total(t) == t.user + t.guest + t.quiet

\* Mutants of the arithmetic.
getAllBusyGuestTwice(os, t) ==
    [all |-> Total(t), busy |-> Total(t) - t.quiet]
ClampNothing(n) == n

\* On Linux user time already contains guest time.
getAllBusy(os, t) ==
    LET tot == IF os = "linux" THEN Total(t) - t.guest ELSE Total(t)
    IN  [all |-> tot, busy |-> tot - t.quiet]

Clamp(n) == IF n > 100 THEN 100 ELSE IF n < 0 THEN 0 ELSE n

calculateBusy(os, t1, t2) ==
    LET a == getAllBusy(os, t1)
        b == getAllBusy(os, t2)
    IN  IF b.busy <= a.busy THEN 0
        ELSE IF b.all <= a.all THEN 100
        ELSE Clamp(((b.busy - a.busy) * 100) \div (b.all - a.all))

Errors == {"times", "context", "lengths", "nil"}

\* Of a call that has not returned.
Nothing == [ok |-> FALSE, err |-> "none", val |-> <<>>]

Failed(e) == [ok |-> FALSE, err |-> e, val |-> <<>>]

\* Both error returns of the end of a call: no old sample, or another number of CPUs.
calculateAllBusy(os, t1, t2) ==
    IF Len(t1) # Len(t2) THEN Failed("lengths")
    ELSE [ok |-> TRUE, err |-> "none",
          val |-> [i \in 1..Len(t2) |-> calculateBusy(os, t1[i], t2[i])]]

Result == [ok : BOOLEAN, err : Errors \cup {"none"}, val : Seq(Int)]

-----------------------------------------------------------------------------
(* The kernel *)

\* The lines with the numbers S, as they follow one another in the list.
InOrder(S) ==
    {f \in [1..Cardinality(S) -> S] : \A i, j \in 1..Cardinality(S) : i < j => f[i] < f[j]}

ReadNow(S) == {[at |-> now, times |-> [i \in DOMAIN f |-> counters[f[i]]]] : f \in InOrder(S)}

Listed(m) == IF m THEN online ELSE {0}

\* What one read of the counters can give.  On Linux a line that cannot be parsed is passed
\* over, and a failed read is an empty list and no error; elsewhere it is a nil slice and an
\* error.
TimesWithContext(m) ==
    IF goos = "linux" THEN UNION {ReadNow(S) : S \in SUBSET Listed(m)}
    ELSE ReadNow(Listed(m)) \cup {Nil}

Bump(t, kind) ==
    [user  |-> t.user + (IF kind \in {"user", "guest"} THEN Burst ELSE 0),
     guest |-> t.guest + (IF kind = "guest" THEN Burst ELSE 0),
     quiet |-> IF kind = "back" THEN t.quiet - 1
               ELSE t.quiet + (IF kind = "quiet" THEN Burst ELSE 0)]

\* One tick of CPU i.  Only Linux reports guest time apart.  proc(5): the iowait of a CPU
\* may also decrease.
Tick(i, kind) ==
    /\ now < MaxTicks
    /\ i \in online
    /\ kind = "back" => counters[i].quiet > 0 /\ counters[0].quiet > 0
    /\ LET k == IF kind = "guest" /\ goos # "linux" THEN "user" ELSE kind
       IN  counters' = [counters EXCEPT ![0] = Bump(@, k), ![i] = Bump(@, k)]
    /\ now' = now + 1
    /\ UNCHANGED <<goos, online, lastTimes, mutex, callVars, ghostVars>>

\* Any CPU may go and come back.
Hotplug ==
    /\ now < MaxTicks
    /\ online' \in SUBSET (1..MaxCPU) \ {online, {}}
    /\ now' = now + 1
    /\ UNCHANGED <<goos, counters, lastTimes, mutex, callVars, ghostVars>>

-----------------------------------------------------------------------------
(* PercentWithContext with a positive interval: lastTimes is never touched *)

Begin(c, m, interval) ==
    /\ pc[c] = "idle" /\ calls < MaxCalls
    /\ interval => c \in Sleepers
    /\ calls' = calls + 1
    /\ pc' = [pc EXCEPT ![c] = IF interval THEN "first" ELSE "sample"]
    /\ percpu' = [percpu EXCEPT ![c] = m]
    /\ UNCHANGED <<kernelVars, lastTimes, mutex, cancelled, base, cur, result, ghostVars>>

Return(c, r) ==
    /\ pc' = [pc EXCEPT ![c] = "done"]
    /\ result' = [result EXCEPT ![c] = r]

\* The caller has the result; the call's variables are gone.
Finish(c) ==
    /\ pc[c] = "done"
    /\ pc' = [pc EXCEPT ![c] = "idle"]
    /\ percpu' = [percpu EXCEPT ![c] = FALSE]
    /\ cancelled' = [cancelled EXCEPT ![c] = FALSE]
    /\ base' = [base EXCEPT ![c] = Nil]
    /\ cur' = [cur EXCEPT ![c] = Nil]
    /\ result' = [result EXCEPT ![c] = Nothing]
    /\ took' = [took EXCEPT ![c] = 0]
    /\ put' = [put EXCEPT ![c] = 0]
    /\ UNCHANGED <<kernelVars, lastTimes, mutex, calls, version>>

FirstSample(c) ==
    /\ pc[c] = "first"
    /\ \E s \in TimesWithContext(percpu[c]) :
          \/ s = Nil /\ Return(c, Failed("times")) /\ UNCHANGED base
          \/ /\ s # Nil
             /\ base' = [base EXCEPT ![c] = s]
             /\ pc' = [pc EXCEPT ![c] = "sleeping"]
             /\ UNCHANGED result
    /\ UNCHANGED <<kernelVars, lastTimes, mutex, percpu, cancelled, cur, calls, ghostVars>>

\* common.Sleep: the timer fires, or the context is done.
TimerFires(c) ==
    /\ pc[c] = "sleeping"
    /\ pc' = [pc EXCEPT ![c] = "second"]
    /\ UNCHANGED <<kernelVars, lastTimes, mutex, percpu, cancelled, base, cur, result,
                   calls, ghostVars>>

SleepCancelled(c) ==
    /\ pc[c] = "sleeping" /\ cancelled[c]
    /\ Return(c, Failed("context"))
    /\ UNCHANGED <<kernelVars, lastTimes, mutex, percpu, cancelled, base, cur, calls, ghostVars>>

SecondSample(c) ==
    /\ pc[c] = "second"
    /\ \E s \in TimesWithContext(percpu[c]) :
          \/ s = Nil /\ Return(c, Failed("times")) /\ UNCHANGED cur
          \/ /\ s # Nil
             /\ cur' = [cur EXCEPT ![c] = s]
             /\ pc' = [pc EXCEPT ![c] = "compute"]
             /\ UNCHANGED result
    /\ UNCHANGED <<kernelVars, lastTimes, mutex, percpu, cancelled, base, calls, ghostVars>>

ReturnInterval(c) ==
    /\ pc[c] = "compute"
    /\ Return(c, calculateAllBusy(goos, base[c].times, cur[c].times))
    /\ UNCHANGED <<kernelVars, lastTimes, mutex, percpu, cancelled, base, cur, calls, ghostVars>>

\* The caller's context is cancelled; only Sleep looks at it.
Cancel(c) ==
    /\ pc[c] = "sleeping" /\ ~cancelled[c]
    /\ cancelled' = [cancelled EXCEPT ![c] = TRUE]
    /\ UNCHANGED <<kernelVars, lastTimes, mutex, pc, percpu, base, cur, result, calls, ghostVars>>

-----------------------------------------------------------------------------
(* percentUsedFromLastCallWithContext: the sample is read before Lock *)

\* Mutant: the error of the read is not looked at.
LastCallSampleUnchecked(c) ==
    /\ pc[c] = "sample"
    /\ \E s \in TimesWithContext(percpu[c]) : cur' = [cur EXCEPT ![c] = s]
    /\ pc' = [pc EXCEPT ![c] = "lock"]
    /\ UNCHANGED <<kernelVars, lastTimes, mutex, percpu, cancelled, base, result, calls, ghostVars>>

LastCallSample(c) ==
    /\ pc[c] = "sample"
    /\ \E s \in TimesWithContext(percpu[c]) :
          \/ s = Nil /\ Return(c, Failed("times")) /\ UNCHANGED cur
          \/ /\ s # Nil
             /\ cur' = [cur EXCEPT ![c] = s]
             /\ pc' = [pc EXCEPT ![c] = "lock"]
             /\ UNCHANGED result
    /\ UNCHANGED <<kernelVars, lastTimes, mutex, percpu, cancelled, base, calls, ghostVars>>

\* Mutant: the mutex is not waited for.
LockLastUnguarded(c) ==
    /\ pc[c] = "lock"
    /\ mutex' = c
    /\ pc' = [pc EXCEPT ![c] = "read"]
    /\ UNCHANGED <<kernelVars, lastTimes, percpu, cancelled, base, cur, result, calls, ghostVars>>

LockLast(c) ==
    /\ pc[c] = "lock" /\ mutex = NoOne
    /\ mutex' = c
    /\ pc' = [pc EXCEPT ![c] = "read"]
    /\ UNCHANGED <<kernelVars, lastTimes, percpu, cancelled, base, cur, result, calls, ghostVars>>

ReadLast(c) ==
    /\ pc[c] = "read"
    /\ base' = [base EXCEPT ![c] = lastTimes[percpu[c]]]
    /\ took' = [took EXCEPT ![c] = version[percpu[c]]]
    /\ pc' = [pc EXCEPT ![c] = "store"]
    /\ UNCHANGED <<kernelVars, lastTimes, mutex, percpu, cancelled, cur, result, calls,
                   version, put>>

StoreLast(c) ==
    /\ pc[c] = "store"
    /\ lastTimes' = [lastTimes EXCEPT ![percpu[c]] = cur[c]]
    /\ version' = [version EXCEPT ![percpu[c]] = @ + 1]
    /\ put' = [put EXCEPT ![c] = version[percpu[c]] + 1]
    /\ pc' = [pc EXCEPT ![c] = "unlock"]
    /\ UNCHANGED <<kernelVars, mutex, percpu, cancelled, base, cur, result, calls, took>>

\* The deferred Unlock runs after the result is computed.
ReturnLast(c) ==
    /\ pc[c] = "unlock"
    /\ Return(c, IF base[c] = Nil THEN Failed("nil")
                 ELSE calculateAllBusy(goos, base[c].times, cur[c].times))
    /\ mutex' = NoOne
    /\ UNCHANGED <<kernelVars, lastTimes, percpu, cancelled, base, cur, calls, ghostVars>>

-----------------------------------------------------------------------------
\* Counters since boot: some time has already been spent waiting for I/O.
Boot(n) == [user |-> 0, guest |-> 0, quiet |-> n]

\* init() seeds both slots and ignores the errors.
Init ==
    /\ goos \in {"linux", "other"}
    /\ counters = [i \in 0..MaxCPU |-> Boot(IF i = 0 THEN MaxCPU ELSE 1)]
    /\ online = 1..MaxCPU
    /\ now = 0
    /\ lastTimes \in [BOOLEAN -> TimesWithContext(TRUE) \cup TimesWithContext(FALSE)]
    /\ \A m \in BOOLEAN : lastTimes[m] \in TimesWithContext(m)
    /\ mutex = NoOne
    /\ pc = [c \in Callers |-> "idle"]
    /\ percpu = [c \in Callers |-> FALSE]
    /\ cancelled = [c \in Callers |-> FALSE]
    /\ base = [c \in Callers |-> Nil]
    /\ cur = [c \in Callers |-> Nil]
    /\ result = [c \in Callers |-> Nothing]
    /\ calls = 0
    /\ version = [m \in BOOLEAN |-> 0]
    /\ took = [c \in Callers |-> 0]
    /\ put = [c \in Callers |-> 0]

Kernel ==
    \/ \E w \in Work : Tick(w[1], w[2])
    \/ Hotplug

Step(c) ==
    \/ FirstSample(c) \/ TimerFires(c) \/ SleepCancelled(c) \/ SecondSample(c)
    \/ ReturnInterval(c) \/ LastCallSample(c) \/ LockLast(c) \/ ReadLast(c)
    \/ StoreLast(c) \/ ReturnLast(c) \/ Finish(c)

Next ==
    \/ Kernel
    \/ \E c \in Callers :
          \/ \E m, interval \in BOOLEAN : Begin(c, m, interval)
          \/ Cancel(c)
          \/ Step(c)

Spec == Init /\ [][Next]_vars

-----------------------------------------------------------------------------
(* Properties *)

\* Every variable has its type.
TypeOK ==
    /\ goos \in {"linux", "other"}
    /\ counters \in [0..MaxCPU -> TimesStat]
    /\ online \in SUBSET (1..MaxCPU)
    /\ now \in Nat
    /\ lastTimes \in [BOOLEAN -> SampleOrNil]
    /\ mutex \in Callers \cup {NoOne}
    /\ pc \in [Callers -> {"idle", "first", "sleeping", "second", "compute",
                           "sample", "lock", "read", "store", "unlock", "done"}]
    /\ percpu \in [Callers -> BOOLEAN]
    /\ cancelled \in [Callers -> BOOLEAN]
    /\ base \in [Callers -> SampleOrNil]
    /\ cur \in [Callers -> SampleOrNil]
    /\ result \in [Callers -> Result]
    /\ calls \in Nat
    /\ version \in [BOOLEAN -> Nat]
    /\ took \in [Callers -> Nat]
    /\ put \in [Callers -> Nat]

\* percentUsedFromLastCallWithContext: the sample a call compares with is exactly the one
\* stored before its own, so the intervals reported by concurrent calls with interval 0
\* tile the time line: none is reported twice, none is skipped, and per-CPU and combined
\* calls do not disturb each other.
IntervalsTile ==
    \A c \in Callers : pc[c] = "unlock" =>
        /\ put[c] = took[c] + 1
        /\ lastTimes[percpu[c]] = cur[c]

\* A baseline, once there, is never lost: a failed read (an error of TimesWithContext)
\* leaves the old one for the next call.
BaselineSurvives ==
    [][\A m \in BOOLEAN : lastTimes[m] # Nil => lastTimes'[m] # Nil]_vars

\* Calls that have returned percentages: base and cur still hold their two samples.
Answered(c) == pc[c] = "done" /\ result[c].ok

\* calculateBusy: whatever the counters did (iowait backwards, samples in the wrong order),
\* a returned value is a percentage.
PercentInRange ==
    \A c \in Callers : Answered(c) =>
        \A i \in 1..Len(result[c].val) : result[c].val[i] \in 0..100

Grew(t1, t2) ==
    t1.user <= t2.user /\ t1.guest <= t2.guest /\ t1.quiet <= t2.quiet

\* The share of the elapsed time that was not idle; guest time is part of user time.
BusyShare(t1, t2) ==
    LET busy == t2.user - t1.user
        quiet == t2.quiet - t1.quiet
    IN  IF busy + quiet = 0 THEN 0 ELSE (busy * 100) \div (busy + quiet)

\* Whenever no counter went backwards between the two samples of a call, what it returns
\* for a CPU is the share of non-idle time between them (guest time counted once).
PercentIsBusyShare ==
    \A c \in Callers : Answered(c) =>
        \A i \in 1..Len(result[c].val) :
            Grew(base[c].times[i], cur[c].times[i]) =>
                result[c].val[i] = BusyShare(base[c].times[i], cur[c].times[i])

\* "Returns one value per cpu, or a single value if percpu is set to false" (cpu.go).
CombinedGivesOneValue ==
    \A c \in Callers : Answered(c) /\ ~percpu[c] => Len(result[c].val) = 1

\* The mutex is owned exactly by the call that is between Lock and the deferred Unlock: two
\* calls are never both in there, and no return path (the nil baseline, the differing
\* lengths) leaves it locked, which would block every later call with interval 0.
InSection(c) == pc[c] \in {"read", "store", "unlock"}
MutexHeldInSection ==
    \A c \in Callers : mutex = c <=> InSection(c)
=============================================================================
