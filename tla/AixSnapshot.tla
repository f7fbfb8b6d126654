----------------------------- MODULE AixSnapshot -----------------------------
(***************************************************************************)
(* The snapshot of the process table that package process shares between   *)
(* calls on AIX (aixPSFor and refreshAIXPS in process/process_aix.go, over *)
(* AIXProcesses in internal/common/perfstat_aix.go).  A call takes the     *)
(* lock, retakes the snapshot when it is too old, looks its pid up, and    *)
(* retakes an older snapshot once when the pid is missing.  The table is   *)
(* read in batches, in the order of the pids, while processes work, exit   *)
(* and start and while time passes.                                        *)
(***************************************************************************)
EXTENDS Integers, FiniteSets, FiniteSetsExt

CONSTANTS Callers,         \* goroutines that ask for counters
          MaxPid,          \* the pids are 1..MaxPid
          Batch,           \* entries one getprocs64 call can return
          MaxAge,          \* aixPSMaxAge, in ticks
          MaxClock,        \* bound: ticks
          MaxIncarnation,  \* bound: processes ever started
          MaxCalls,        \* bound: calls of aixPSFor
          MaxCount,        \* bound: the counter of a process
          NoOne, None

ASSUME ConstantsAssumption ==
    /\ MaxPid \in Nat \ {0} /\ Batch \in Nat \ {0} /\ MaxAge \in Nat \ {0}
    /\ MaxClock \in Nat /\ MaxIncarnation \in Nat /\ MaxCalls \in Nat /\ MaxCount \in Nat
    /\ NoOne \notin Callers

\* No entry of the table or of the snapshot.
ASSUME NoneAssumption ==
    None \notin [who : Nat, count : Nat] \cup [who : Nat, count : Nat, at : Nat]

Pids == 1..MaxPid

VARIABLES
    clock,    \* aixNow
    table,    \* the kernel's process table: pid -> [who, count], or None
    spawned,  \* processes started so far
    left,     \* ghost: when each process exited, -1 before
    lock,     \* owner of aixPS's mutex
    loaded,   \* aixPS.loaded
    taken,    \* aixPS.taken
    byPID,    \* aixPS.byPID: pid -> [who, count, at], or None
    began,    \* ghost: when the read behind byPID began
    pc,       \* where each call stands
    pid,      \* its argument
    fresh,    \* its local fresh
    walk,     \* the entries its getprocs64 calls have returned so far
    index,    \* getprocs64 resumes after this pid
    since,    \* ghost: when its read of the table began
    checked,  \* ghost: when it looked at the snapshot's age
    absent,   \* ghost: the pid belonged to nobody at some moment of the call
    answer,   \* what it returned
    seen,     \* ghost: pid -> the entry last returned for it
    calls

kernelVars == <<clock, table, spawned, left>>
snapVars   == <<loaded, taken, byPID, began>>
walkVars   == <<walk, index, since>>
callVars   == <<pc, pid, fresh, walkVars, checked, absent, answer, seen, calls>>
vars == <<kernelVars, lock, snapVars, callVars>>

Empty == [p \in Pids |-> None]
Live == {p \in Pids : table[p] # None}

-----------------------------------------------------------------------------
(* The machine *)

Tick ==
    /\ clock < MaxClock
    /\ clock' = clock + 1
    /\ UNCHANGED <<table, spawned, left, lock, snapVars, callVars>>

\* A process faults or does I/O: its counters grow.
Work(p) ==
    /\ table[p] # None /\ table[p].count < MaxCount
    /\ table' = [table EXCEPT ![p].count = @ + 1]
    /\ UNCHANGED <<clock, spawned, left, lock, snapVars, callVars>>

Exit(p) ==
    /\ table[p] # None
    /\ table' = [table EXCEPT ![p] = None]
    /\ left' = [left EXCEPT ![table[p].who] = clock]
    /\ absent' = [c \in Callers |-> absent[c] \/ (pc[c] # "idle" /\ pid[c] = p)]
    /\ UNCHANGED <<clock, spawned, lock, snapVars, pc, pid, fresh, walkVars, checked, answer,
                   seen, calls>>

\* A process starts, possibly with a pid that another one had.
Spawn(p) ==
    /\ table[p] = None /\ spawned < MaxIncarnation
    /\ spawned' = spawned + 1
    /\ table' = [table EXCEPT ![p] = [who |-> spawned + 1, count |-> 0]]
    /\ UNCHANGED <<clock, left, lock, snapVars, callVars>>

-----------------------------------------------------------------------------
(* aixPSFor *)

Goto(c, l) == pc' = [pc EXCEPT ![c] = l]

Call(c, p) ==
    /\ pc[c] = "idle" /\ calls < MaxCalls
    /\ calls' = calls + 1
    /\ Goto(c, "lock")
    /\ pid' = [pid EXCEPT ![c] = p]
    /\ absent' = [absent EXCEPT ![c] = table[p] = None]
    /\ UNCHANGED <<kernelVars, lock, snapVars, fresh, walkVars, checked, answer, seen>>

\* Mutant: the mutex is not waited for.
LockUnguarded(c) ==
    /\ pc[c] = "lock"
    /\ lock' = c
    /\ Goto(c, "check")
    /\ UNCHANGED <<kernelVars, snapVars, pid, fresh, walkVars, checked, absent, answer, seen,
                   calls>>

Lock(c) ==
    /\ pc[c] = "lock" /\ lock = NoOne
    /\ lock' = c
    /\ Goto(c, "check")
    /\ UNCHANGED <<kernelVars, snapVars, pid, fresh, walkVars, checked, absent, answer, seen,
                   calls>>

\* Mutant: a snapshot may be one tick older.
StaleLater == ~loaded \/ clock - taken > MaxAge

\* The snapshot is missing or too old to be used.
Stale == ~loaded \/ clock - taken >= MaxAge

BeginWalk(c) ==
    /\ walk' = [walk EXCEPT ![c] = Empty]
    /\ index' = [index EXCEPT ![c] = 0]
    /\ since' = [since EXCEPT ![c] = clock]
    /\ Goto(c, "walk")

Check(c) ==
    /\ pc[c] = "check"
    /\ checked' = [checked EXCEPT ![c] = clock]
    /\ fresh' = [fresh EXCEPT ![c] = Stale]
    /\ \/ Stale /\ BeginWalk(c)
       \/ ~Stale /\ Goto(c, "lookup") /\ UNCHANGED walkVars
    /\ UNCHANGED <<kernelVars, lock, snapVars, pid, absent, answer, seen, calls>>

\* One getprocs64 call: the next live pids after index, at most Batch of them; fewer end the
\* loop.
GetProcs(c) ==
    LET after == {p \in Live : p > index[c]}
        got == {p \in after : Cardinality({q \in after : q < p}) < Batch}
    IN  /\ pc[c] = "walk"
        /\ walk' = [walk EXCEPT ![c] = [p \in Pids |->
              IF p \in got THEN [who |-> table[p].who, count |-> table[p].count, at |-> clock]
              ELSE walk[c][p]]]
        /\ index' = [index EXCEPT ![c] = IF got = {} THEN @ ELSE Max(got)]
        /\ Goto(c, IF Cardinality(got) < Batch THEN "publish" ELSE "walk")
        /\ UNCHANGED <<kernelVars, lock, snapVars, pid, fresh, since, checked, absent, answer,
                       seen, calls>>

Return(c, a) ==
    /\ answer' = [answer EXCEPT ![c] = a]
    /\ Goto(c, "done")

\* getprocs64 fails: the call returns the error, the old snapshot stays.
GetProcsFails(c) ==
    /\ pc[c] = "walk"
    /\ lock' = NoOne
    /\ Return(c, "error")
    /\ UNCHANGED <<kernelVars, snapVars, pid, fresh, walkVars, checked, absent, seen, calls>>

\* The end of refreshAIXPS: the stamp is taken after the table was read.
Publish(c) ==
    /\ pc[c] = "publish"
    /\ loaded' = TRUE
    /\ taken' = clock
    /\ byPID' = walk[c]
    /\ began' = since[c]
    /\ Goto(c, "lookup")
    /\ UNCHANGED <<kernelVars, lock, pid, fresh, walkVars, checked, absent, answer, seen, calls>>

Found(c) ==
    /\ pc[c] = "lookup" /\ byPID[pid[c]] # None
    /\ lock' = NoOne
    /\ seen' = [seen EXCEPT ![pid[c]] = byPID[pid[c]]]
    /\ Return(c, "entry")
    /\ UNCHANGED <<kernelVars, snapVars, pid, fresh, walkVars, checked, absent, calls>>

\* Mutant: a missing pid is believed of an older snapshot too.
MissingBelieved(c) ==
    /\ pc[c] = "lookup" /\ byPID[pid[c]] = None
    /\ lock' = NoOne /\ Return(c, "not running")
    /\ UNCHANGED <<kernelVars, snapVars, walkVars, fresh, pid, checked, absent, seen, calls>>

\* The pid is missing: believed of a snapshot taken by this call, otherwise retaken once.
Missing(c) ==
    /\ pc[c] = "lookup" /\ byPID[pid[c]] = None
    /\ \/ ~fresh[c] /\ BeginWalk(c) /\ fresh' = [fresh EXCEPT ![c] = TRUE]
                    /\ UNCHANGED <<lock, answer>>
       \/ fresh[c] /\ lock' = NoOne /\ Return(c, "not running") /\ UNCHANGED <<walkVars, fresh>>
    /\ UNCHANGED <<kernelVars, snapVars, pid, checked, absent, seen, calls>>

\* The caller has the answer; the call's variables are gone.
Finish(c) ==
    /\ pc[c] = "done"
    /\ Goto(c, "idle")
    /\ pid' = [pid EXCEPT ![c] = 1]
    /\ fresh' = [fresh EXCEPT ![c] = FALSE]
    /\ walk' = [walk EXCEPT ![c] = Empty]
    /\ index' = [index EXCEPT ![c] = 0]
    /\ since' = [since EXCEPT ![c] = 0]
    /\ checked' = [checked EXCEPT ![c] = 0]
    /\ absent' = [absent EXCEPT ![c] = FALSE]
    /\ answer' = [answer EXCEPT ![c] = "none"]
    /\ UNCHANGED <<kernelVars, lock, snapVars, seen, calls>>

-----------------------------------------------------------------------------
Init ==
    /\ clock = 0
    /\ table = Empty /\ spawned = 0 /\ left = [w \in 1..MaxIncarnation |-> -1]
    /\ lock = NoOne
    /\ loaded = FALSE /\ taken = 0 /\ byPID = Empty /\ began = 0
    /\ pc = [c \in Callers |-> "idle"]
    /\ pid = [c \in Callers |-> 1]
    /\ fresh = [c \in Callers |-> FALSE]
    /\ walk = [c \in Callers |-> Empty]
    /\ index = [c \in Callers |-> 0]
    /\ since = [c \in Callers |-> 0]
    /\ checked = [c \in Callers |-> 0]
    /\ absent = [c \in Callers |-> FALSE]
    /\ answer = [c \in Callers |-> "none"]
    /\ seen = Empty
    /\ calls = 0

Machine == Tick \/ \E p \in Pids : Work(p) \/ Exit(p) \/ Spawn(p)

Step(c) ==
    \/ Lock(c) \/ Check(c) \/ GetProcs(c) \/ GetProcsFails(c) \/ Publish(c)
    \/ Found(c) \/ Missing(c) \/ Finish(c)

Next == Machine \/ \E c \in Callers : (\E p \in Pids : Call(c, p)) \/ Step(c)

Spec == Init /\ [][Next]_vars

-----------------------------------------------------------------------------
(* Properties *)

Entry == [who : 1..MaxIncarnation, count : Nat, at : Nat]

\* Every variable has its type.
TypeOK ==
    /\ clock \in Nat /\ spawned \in 0..MaxIncarnation
    /\ left \in [1..MaxIncarnation -> Nat \cup {-1}]
    /\ table \in [Pids -> [who : 1..MaxIncarnation, count : Nat] \cup {None}]
    /\ lock \in Callers \cup {NoOne}
    /\ loaded \in BOOLEAN /\ taken \in 0..clock /\ began \in 0..taken
    /\ byPID \in [Pids -> Entry \cup {None}] /\ seen \in [Pids -> Entry \cup {None}]
    /\ pc \in [Callers -> {"idle", "lock", "check", "walk", "publish", "lookup", "done"}]
    /\ pid \in [Callers -> Pids] /\ fresh \in [Callers -> BOOLEAN]
    /\ walk \in [Callers -> [Pids -> Entry \cup {None}]]
    /\ index \in [Callers -> 0..MaxPid] /\ since \in [Callers -> Nat]
    /\ checked \in [Callers -> Nat] /\ absent \in [Callers -> BOOLEAN]
    /\ answer \in [Callers -> {"none", "entry", "not running", "error"}]

\* A process that was there during the whole call is never reported as not running,
\* although the table is read in batches and the snapshot is shared.
NotRunningIsTrue ==
    \A c \in Callers : answer[c] = "not running" => absent[c]

\* A process that has exited is soon forgotten.  A call that looks at the snapshot later than
\* aixPSMaxAge plus the length of one pass over the table after the exit does not answer with
\* that process's counters, whichever call took the snapshot, whatever happened between its
\* batches and whether the call retook it.
DepartedForgotten ==
    \A c \in Callers : pc[c] = "lookup" /\ byPID[pid[c]] # None =>
        LET exit == left[byPID[pid[c]].who]
        IN  exit # -1 => checked[c] - exit < MaxAge + (taken - began)

\* "The counters only grow": of one and the same process, no later call returns less than
\* an earlier one, whichever goroutines refreshed the snapshot in between.
CountersGrow ==
    [][\A p \in Pids :
          seen[p] # None /\ seen'[p].who = seen[p].who => seen'[p].count >= seen[p].count]_vars
=============================================================================
