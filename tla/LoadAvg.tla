------------------------------- MODULE LoadAvg -------------------------------
(***************************************************************************)
(* Package load on Windows (load/load_windows.go): the first call of Avg   *)
(* starts, through a sync.Once, the goroutine that samples the processor   *)
(* queue length every five seconds and updates three averages and the last *)
(* error under a RWMutex; every call returns what it finds there.          *)
(*                                                                         *)
(* An average is abstracted to the sample it was last updated with: its    *)
(* number (modulo Versions) and whether reading the counter succeeded.     *)
(***************************************************************************)
EXTENDS Integers, Sequences, FiniteSets

CONSTANTS Callers,   \* goroutines that call AvgWithContext
          Versions   \* samples are numbered modulo this

ASSUME ConstantsAssumption == Versions \in Nat /\ Versions > 2

\* The package variables, in the order in which f() assigns them.
Fields == <<"loadErr", "loadAvg1M", "loadAvg5M", "loadAvg15M">>

\* The order in which AvgWithContext reads them: the error last.
ReadOrder == <<2, 3, 4, 1>>

VARIABLES
    once,      \* loadAvgGoroutineOnce: "new", "busy" (in Do's function), "done"
    started,   \* number of sampler goroutines started
    sampler,   \* where the sampler stands
    ctx,       \* the context it was given: "none", "live", "done"
    counter,   \* the PDH counter: "none", "ok", "failed"
    current,   \* the sample it has read
    next,      \* index in Fields of its next assignment
    writer,    \* loadAvgMutex: "none", "pending" (Lock waits), "held"
    readers,   \* loadAvgMutex: the callers that hold RLock
    data,      \* the package variables
    stage,     \* where each call stands
    copy,      \* what each call has read so far
    at         \* index in ReadOrder of its next read

samplerVars == <<started, sampler, ctx, counter, current, next>>
loadVars == <<once, samplerVars, writer, readers, data, stage, copy, at>>

SampleType == [version : 0..Versions - 1, ok : BOOLEAN]
NoSample == [version |-> 0, ok |-> TRUE]
Nothing == [f \in 1..Len(Fields) |-> NoSample]

-----------------------------------------------------------------------------
(* AvgWithContext *)

Call(c) ==
    /\ stage[c] = "idle"
    /\ stage' = [stage EXCEPT ![c] = "once"]
    /\ UNCHANGED <<once, samplerVars, writer, readers, data, copy, at>>

\* Mutant: a flag that is set only after the goroutine was started.
OnceEnterRacy(c) ==
    /\ stage[c] = "once"
    /\ \/ once # "done" /\ once' = "busy" /\ stage' = [stage EXCEPT ![c] = "start"]
       \/ once = "done" /\ stage' = [stage EXCEPT ![c] = "rlock"] /\ UNCHANGED once
    /\ UNCHANGED <<samplerVars, writer, readers, data, copy, at>>

\* Once.Do: the first call runs the function, calls that come meanwhile wait for it.
OnceEnter(c) ==
    /\ stage[c] = "once"
    /\ \/ once = "new" /\ once' = "busy" /\ stage' = [stage EXCEPT ![c] = "start"]
       \/ once = "done" /\ stage' = [stage EXCEPT ![c] = "rlock"] /\ UNCHANGED once
    /\ UNCHANGED <<samplerVars, writer, readers, data, copy, at>>

\* go loadAvgGoroutine(ctx): the sampler lives on the first caller's context, which may
\* already be done.
StartSampler(c) ==
    /\ stage[c] = "start"
    /\ started' = started + 1
    /\ sampler' = "create"
    /\ ctx' \in {"live", "done"}
    /\ once' = "done"
    /\ stage' = [stage EXCEPT ![c] = "rlock"]
    /\ UNCHANGED <<counter, current, next, writer, readers, data, copy, at>>

\* Mutant: the mutex is not waited for.
RLockUnguarded(c) ==
    /\ stage[c] = "rlock"
    /\ readers' = readers \cup {c}
    /\ stage' = [stage EXCEPT ![c] = "read"]
    /\ at' = [at EXCEPT ![c] = 1]
    /\ UNCHANGED <<once, samplerVars, writer, data, copy>>

RLock(c) ==
    /\ stage[c] = "rlock" /\ writer = "none"
    /\ readers' = readers \cup {c}
    /\ stage' = [stage EXCEPT ![c] = "read"]
    /\ at' = [at EXCEPT ![c] = 1]
    /\ UNCHANGED <<once, samplerVars, writer, data, copy>>

ReadField(c) ==
    /\ stage[c] = "read"
    /\ copy' = [copy EXCEPT ![c][ReadOrder[at[c]]] = data[ReadOrder[at[c]]]]
    /\ \/ at[c] < Len(Fields) /\ at' = [at EXCEPT ![c] = @ + 1] /\ UNCHANGED stage
       \/ at[c] = Len(Fields) /\ stage' = [stage EXCEPT ![c] = "return"] /\ UNCHANGED at
    /\ UNCHANGED <<once, samplerVars, writer, readers, data>>

\* The deferred RUnlock.
ReturnAvg(c) ==
    /\ stage[c] = "return"
    /\ readers' = readers \ {c}
    /\ stage' = [stage EXCEPT ![c] = "idle"]
    /\ copy' = [copy EXCEPT ![c] = Nothing]
    /\ at' = [at EXCEPT ![c] = 1]
    /\ UNCHANGED <<once, samplerVars, writer, data>>

-----------------------------------------------------------------------------
(* loadAvgGoroutine *)

\* ProcessorQueueLengthCounter: without a counter the goroutine ends, and says nothing.
CreateCounter ==
    /\ sampler = "create"
    /\ \/ counter' = "ok" /\ sampler' = "sample"
       \/ counter' = "failed" /\ sampler' = "dead"
    /\ UNCHANGED <<once, started, ctx, current, next, writer, readers, data, stage, copy, at>>

\* Mutant: the goroutine ends when the counter cannot be read.
GetValueFatal ==
    /\ sampler = "sample"
    /\ \E ok \in BOOLEAN :
          /\ current' = [version |-> (current.version + 1) % Versions, ok |-> ok]
          /\ sampler' = IF ok THEN "lock" ELSE "dead"
    /\ UNCHANGED <<once, started, ctx, counter, next, writer, readers, data, stage, copy, at>>

\* f(): counter.GetValue; an error is published and counts as a load of 0.
GetValue ==
    /\ sampler = "sample"
    /\ \E ok \in BOOLEAN : current' = [version |-> (current.version + 1) % Versions, ok |-> ok]
    /\ sampler' = "lock"
    /\ UNCHANGED <<once, started, ctx, counter, next, writer, readers, data, stage, copy, at>>

\* loadAvgMutex.Lock: announced, so that no new reader gets in, then held.
Lock ==
    /\ sampler = "lock"
    /\ \/ writer = "none" /\ writer' = "pending" /\ UNCHANGED <<sampler, next>>
       \/ /\ writer = "pending" /\ readers = {}
          /\ writer' = "held" /\ sampler' = "update" /\ next' = 1
    /\ UNCHANGED <<once, started, ctx, counter, current, readers, data, stage, copy, at>>

Update ==
    /\ sampler = "update"
    /\ data' = [data EXCEPT ![next] = current]
    /\ \/ next < Len(Fields) /\ next' = next + 1 /\ UNCHANGED sampler
       \/ next = Len(Fields) /\ next' = 1 /\ sampler' = "unlock"
    /\ UNCHANGED <<once, started, ctx, counter, current, writer, readers, stage, copy, at>>

\* Mutant: returns early on an error, without Unlock.
UnlockUnlessError ==
    /\ sampler = "unlock"
    /\ writer' = IF current.ok THEN "none" ELSE writer
    /\ sampler' = IF current.ok THEN "wait" ELSE "dead"
    /\ UNCHANGED <<once, started, ctx, counter, current, next, readers, data, stage, copy, at>>

Unlock ==
    /\ sampler = "unlock"
    /\ writer' = "none"
    /\ sampler' = "wait"
    /\ UNCHANGED <<once, started, ctx, counter, current, next, readers, data, stage, copy, at>>

\* The select: the next tick, or the context is done.  With both, either is taken.
Tick ==
    /\ sampler = "wait"
    /\ sampler' = "sample"
    /\ UNCHANGED <<once, started, ctx, counter, current, next, writer, readers, data, stage, copy, at>>

CtxDone ==
    /\ sampler = "wait" /\ ctx = "done"
    /\ sampler' = "dead"
    /\ UNCHANGED <<once, started, ctx, counter, current, next, writer, readers, data, stage, copy, at>>

\* The first caller is done with its context.
CancelFirst ==
    /\ ctx = "live"
    /\ ctx' = "done"
    /\ UNCHANGED <<once, started, sampler, counter, current, next, writer, readers, data, stage,
                   copy, at>>

-----------------------------------------------------------------------------
LoadInit ==
    /\ once = "new" /\ started = 0
    /\ sampler = "none" /\ ctx = "none" /\ counter = "none"
    /\ current = NoSample /\ next = 1
    /\ writer = "none" /\ readers = {}
    /\ data = Nothing
    /\ stage = [c \in Callers |-> "idle"]
    /\ copy = [c \in Callers |-> Nothing]
    /\ at = [c \in Callers |-> 1]

Sampler == CreateCounter \/ GetValue \/ Lock \/ Update \/ Unlock \/ Tick \/ CtxDone

CallStep(c) == OnceEnter(c) \/ StartSampler(c) \/ RLock(c) \/ ReadField(c) \/ ReturnAvg(c)

LoadNext == Sampler \/ CancelFirst \/ \E c \in Callers : Call(c) \/ CallStep(c)

\* Goroutines that can run do run; the ticker ticks.  Go's RWMutex admits the readers that
\* wait when a writer leaves, hence strong fairness for RLock.
LoadFairness ==
    /\ WF_loadVars(Sampler)
    /\ \A c \in Callers : WF_loadVars(CallStep(c)) /\ SF_loadVars(RLock(c))

LoadSpec == LoadInit /\ [][LoadNext]_loadVars /\ LoadFairness

-----------------------------------------------------------------------------
(* Properties *)

\* Every variable has its type.
LoadTypeOK ==
    /\ once \in {"new", "busy", "done"} /\ started \in Nat
    /\ sampler \in {"none", "create", "sample", "lock", "update", "unlock", "wait", "dead"}
    /\ ctx \in {"none", "live", "done"} /\ counter \in {"none", "ok", "failed"}
    /\ current \in SampleType /\ next \in 1..Len(Fields)
    /\ writer \in {"none", "pending", "held"} /\ readers \subseteq Callers
    /\ data \in [1..Len(Fields) -> SampleType]
    /\ stage \in [Callers -> {"idle", "once", "start", "rlock", "read", "return"}]
    /\ copy \in [Callers -> [1..Len(Fields) -> SampleType]]
    /\ at \in [Callers -> 1..Len(Fields)]

\* However many callers race for the first call, there is one sampler: two of them would
\* update the averages twice per interval.
OneSampler == started <= 1

\* The three averages and the error that a call returns come from one and the same sample:
\* no call sees a half-done update of f().
SnapshotConsistent ==
    \A c \in Callers : stage[c] = "return" =>
        \A f, g \in 1..Len(Fields) : copy[c][f] = copy[c][g]

\* Every call of Avg returns, whatever the sampler does or fails to do.
EveryCallReturns == \A c \in Callers : stage[c] = "once" ~> stage[c] = "idle"

\* As long as the context of the first caller stays live and the counter exists, the
\* averages go on being updated, also after a failed reading of the counter.
SamplingContinues ==
    \A v \in 0..Versions - 1 :
        (counter = "ok" /\ current.version = v) ~> (ctx = "done" \/ current.version # v)

\* "loadAvgGoroutine updates avg data by fetching current load by interval": once the
\* counter exists, a next sample always follows.
UpdatesByInterval ==
    \A v \in 0..Versions - 1 :
        (counter = "ok" /\ current.version = v) ~> current.version # v
=============================================================================
