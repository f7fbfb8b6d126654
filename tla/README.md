# A TLA+ verification of gopsutil

gopsutil is a Go library that reports on processes and on the machine (CPU, memory, disk,
network, load, host, sensors), with one implementation per operating system behind one API.
Most of it is readers: open something of the kernel, parse it, return a record.  What can go
wrong in ways a unit test hardly reaches is the rest: state that outlives a call and is
shared by goroutines, identities that the kernel hands to somebody else between two reads,
reads that fail half way, figures derived from counters that were not read at one moment,
and calls that must end when their context does.  The modules here model those parts.

## Inventory

| Component | State it keeps | Operations | What is hard | What makes it correct |
|---|---|---|---|---|
| `cpu.Percent` (cpu/cpu.go) | `lastCPUPercent`: two baselines, a mutex | `init`, `Percent` with and without an interval | concurrent calls share a baseline; the sample is taken before the lock; counters go backwards; CPUs come and go; failed reads | each value is a percentage and the busy share of its interval; intervals of calls without one tile the time line; an error never takes a baseline away |
| process handle (process/process.go, process_linux.go, process_posix.go) | `createTime`, `lastCPUTimes`, `lastCPUTime`, the figures of the status file, the boot-time switch | `NewProcess`, `CreateTime`, `IsRunning`, `Percent`, one-shot getters, signals | pid reuse between any two reads; errors that are dropped; fields written without a lock; a boot time that is computed anew each time | a handle stands for one process for good; `IsRunning` is true of some moment of the call; the boot-time cache settles |
| process on AIX (process_aix.go, perfstat_aix.go) | `aixPS` snapshot, `aixTTYs`, `aixBitnessCache` | `aixPSFor`, `refreshAIXPS`, `AIXProcesses`, terminal and bitness look-ups | the table is read in batches while it changes; a snapshot shared for a second; caches keyed by pid | no false "not running"; a process that exited is forgotten in bounded time; counters never shrink |
| host caches on Linux (internal/common/common_linux.go) | `cachedBootTime`, `cachedVirtMap` with its mutex and once | `BootTimeWithContext`, `VirtualizationWithContext` | several goroutines detect at once; several roots; unreadable files; one cache decides how the other is filled | one result for good; the boot time of the container inside one, of the host outside; no call hangs |
| load on Windows (load/load_windows.go, PDH counters) | averages and error under an RWMutex, a once, one goroutine | `Avg`, the sampler | first calls race; a four-field update; a goroutine on somebody's context | one sampler; consistent snapshots; calls return; sampling goes on |
| macOS libraries (internal/common/common_darwin.go) | `libCache`, each library's `fnMap`, two kinds of lock | `newLibrary`, `getFunc` | double-checked locking; errors and panics while a lock is held | maps never raced for; nothing opened or resolved twice; every request ends |
| `OpenFiles` on Windows (process_windows.go, common_windows.go) | none after the call, but goroutines that outlive it | `OpenFilesWithContext`, `CallWithExpandingBuffer` | a path query that hangs or is late; a table that grows while it is read; handles closed and reused meanwhile; five ways to return | true and complete but for what failed or timed out; no handle left open; the call returns |
| timed calls (common.go, common_windows.go) | none of their own; a goroutine or child that may outlive the call | `Command`, `CommandWithContext`, `WMIQueryWithContext`, `Sleep` | a deadline against a late answer; a kill against an exit; a grandchild that keeps the pipe | the call ends; what it returns is complete or an error; nothing is left behind or written to afterwards |
| `mem.VirtualMemory` (mem/mem_*.go) | none | one per system, on Linux one of three by the age of the kernel | counters read one after the other while pages move; unsigned differences | available and used memory are near the truth and within the machine |
| readers (every getter of process, disk, net, cpu, mem, host, sensors, docker, winservices, nfs) | none | one function per figure and system | several sources, each may fail; handles to be released on every path; the pid reused between two reads; items that come and go during a walk | nothing leaks; a result is of one process; a walk misses nothing that stayed and does not fail over what left; figures do not underflow |

How they interact: `process.CreateTime` on Linux adds the boot time of `common` to the start
tick, so a handle's identity depends on the boot-time cache; the boot time in turn depends on
the cached virtualization.  `host.Info` uses both.  `cpu.Percent` and `process.Percent` sleep
in `common.Sleep`.  `load.Avg` on Windows reads a counter of `common`.  All macOS packages go
through `newLibrary` and `getFunc`.  There are no messages; components meet in package
variables, locks and the kernel's files.

## Modules

Each module has one component, its package variables and the locals of its calls as
VARIABLES, one action per step of a handler (a step ends where another goroutine or the
kernel can act: at a lock, at a read of the kernel, between two accesses to shared state),
and the kernel as actions of its own.  `pc` says where a goroutine stands in the code;
`PROJECT.json` maps every definition to its lines.  Variables marked *ghost* exist for the
properties only.

* **CpuPercent** -- cpu/cpu.go with `common.Sleep` and the Linux reader's way of failing
  (an empty list, no error; elsewhere a nil slice and an error).  A `TimesStat` keeps the
  three classes that `getAllBusy` tells apart: idle with iowait, guest, everything else.
  On Linux a line that cannot be parsed is passed over, so a list may lack any of its lines,
  and any CPUs may come and go: two lists of one length may be of different CPUs, and are then
  compared index by index as the code does.
  Values are rounded down to whole percents.  Actions: `Begin`, the samples, the timer, the
  cancelled sleep, `LockLast`, `ReadLast`, `StoreLast`, `ReturnLast`; of the kernel `Tick`
  (which may take iowait back, as proc(5) warns) and `Hotplug`.
* **ProcessHandle** -- one handle, used by goroutines without a lock.  One pid and the
  processes that have it one after the other; a creation time is start tick plus boot time,
  as `fillFromTIDStat` computes it, in the stages of `fetch`: the stat file is read, the
  boot-time cache loaded, the source read, the result stored, with anything in between.  The
  source is btime of /proc/stat, in an lxc or docker guest `time.Now()` minus the uptime,
  which may differ from one read to the next (`Drift`), or either with `sysinfo` where the
  file may not be read, whose result is not stored; any read may fail, which gives a boot time of 0
  and no error.  `StrayLoad` and `StrayStore` are goroutines with other handles that fill the
  same cache.  In `Percent` the CPU time and the later `time.Now()` are two steps.
  `IsRunning` and `Percent` use disjoint fields, so a behaviour exercises one of the two
  (`group`); this halves the state space and hides no interaction.
* **LoadAvg** -- the once, the sampler goroutine, the RWMutex (a pending writer keeps new
  readers out) and `AvgWithContext`.  An average is abstracted to the number of the sample
  it was last updated with, modulo `Versions`, and whether that reading succeeded: what the
  properties tell apart is whether fields are of one sample and whether samples go on.
* **AixSnapshot** -- `aixPSFor`, `refreshAIXPS` and the batched `getprocs64`, against
  processes that work, exit and start.  One counter stands for the two of an entry.
* **HostCaches** -- `BootTimeWithContext` and `VirtualizationWithContext`.  The files of a
  root are abstracted to the marks the detection looks for (`AllMarks`); `Stages` is the
  order and the precedence of the code, `Files` which marks are hidden together when a file
  cannot be read.  Contexts and the environment lead to a root as in `GetEnvWithContext`.
* **SymbolTable** -- the promise of the macOS libraries: a library opened once, a symbol
  resolved once, and nobody given anything but the function asked for.
* **DarwinLibrary** -- `newLibrary` and `getFunc`, each access to a map a step.  It is shown
  to implement `SymbolTable` (`Implements`), with a library counted as open from `Dlopen` on
  and a symbol as resolved from `RegisterLibFunc` on.
* **WindowsOpenFiles** -- one call of `Process.OpenFiles`: the growing buffer, the loop over
  the listed handles, each with its goroutine, its timer and the context, and the deferred
  closes.  The table is abstracted to the handles of the process and a number of others;
  directories, pipes and other objects that are never reported are one class, `Others`.  What is
  reported as `Fd` is the number of the caller's own duplicate, as in the code.
* **TimedCall** -- the promise of a call with a limit: pieces of an answer are made while the
  maker is at work, and the caller is given all of them after it ended, or an error.
* **TimedCalls** -- one WMI query, one `Command` or one `CommandWithContext`: the calling
  goroutine, WMI's goroutine with its buffered channel, and for a command the child, a
  process it may start, the pipe, and the goroutines of os/exec that copy and kill (external,
  modelled from how `CommandWithContext` uses them: one pipe for both streams, no `WaitDelay`).
  It is shown to implement `TimedCall` (`Implements`).
* **MemoryFigures** -- `VirtualMemory` of the systems that compute Available and Used from
  counters: which counters are read together and which one after the other (`Reads`), and the
  sums and differences modulo `2^Width`.  Pages are free, inactive, in a cache, in a
  reclaimable slab or in use, and move during a call.  Shared memory, by which Linux's Cached
  and its two lists of file pages differ, is left out.  In a non-global zone of Solaris the
  code fills in neither figure (`Counts`); AIX and Plan 9 only copy figures of the kernel and
  are not in this module.
* **ReaderCode** -- the notation in which the stateless readers are written down: a reader is
  a sequence of steps, one per call that touches the system (open with or without a deferred
  release, close, read, probe, take a list, walk it, filter, keep, branch on the data, return);
  a step that can fail lists where each of its error branches leads: the error return, an
  early success, `continue`, on to the next step, or elsewhere in the function.  A call of
  another reader is one step, since that reader has a program of its own.
* **Readers** -- executes one call of a reader.  `held` and `deferred` are what it has open
  and what Go's `defer` will release, `todo`, `item`, `kept` its walk; the kernel's actions
  are `Exit` and `Reuse` of the pid and `Vanish` and `Appear` of the items of a walk, between
  any two steps.  Two calls meet only in the fields of a process handle that the status
  readers of Linux fill without a lock and then return: there a program ends with the step
  `Refilled`, the fill by another goroutine from whoever has the pid then.  Otherwise readers
  share no state, so each is looked at on its own.
* **ReaderFlow** -- what can be said of such a program from its steps alone: the points it can
  come to (a step, the handles held there, which look-up each goes back to, whether an item of
  the walk is still owed), the branches between them (`After`), and the discipline every point
  has to keep (`InOrder`).  `OrderlyReaders` are the programs that keep it.
* **LinuxProcessReaders**, **PosixProcessReaders**, **WindowsProcessReaders**,
  **DarwinProcessReaders**, **FreebsdProcessReaders**, **OpenbsdProcessReaders**,
  **SolarisProcessReaders**, **AixProcessReaders**, **LinuxNetReaders**, **NetReaders**,
  **DiskReaders**, **CpuReaders**, **MemReaders**, **HostReaders**, **SensorReaders**,
  **DockerReaders** (where the "pid" is the ID of a container, which keeps it when it is
  restarted), **LoadReaders** (with nfs and winservices) and **CommonReaders** (what
  `internal/common` does for all of them) -- the catalogues: one program per function.  Each ends with the names of
  those of its readers of which a property of `Readers` is not expected (below).
* **CpuPercentProofs**, **ProcessHandleProofs**, **AixSnapshotProofs**, **HostCachesProofs**,
  **DarwinLibraryProofs**, **WindowsOpenFilesProofs**, **GoroutinesProofs** (of `LoadAvg` and of
  `TimedCalls`) and **ReadersProofs** (of `Readers` and of `MemoryFigures`) -- the theorems.
* **MC...** -- instances for TLC, where more than values of the constants is needed; the other
  modules have a configuration of their own name.

Definitions introduced as "Mutant" are variants of the definition after them, each with one
plausible mistake; they show that a property would notice it and are used nowhere else.

## Runs

| Run | Shows | Bounds |
|---|---|---|
| `cpu_percent` | `IntervalsTile`, `PercentInRange`, `PercentIsBusyShare`, `BaselineSurvives` | two goroutines, one of which may pass an interval; two CPUs, any of which may go; two calls, two kernel events.  A tiling error needs two calls, a wrong sign two samples and one event between them |
| `process_handle` | `IsRunningCorrect`, `PercentPlausible`, `CacheSettles`, `IdentityPinned` | two goroutines and the one that called `NewProcess`, two operations, two processes for the pid, two values of btime, an uptime that is off by one or not; two ticks for `IsRunning` (a reuse needs two), three for `Percent` (so that a sample can be late with `time.Now()`): every step of an operation can fall before, between and after the exit and the reuse |
| `load_avg` | `OneSampler`, `SnapshotConsistent`, `EveryCallReturns`, `SamplingContinues` | two callers; three sample numbers, so that old, present and next differ; calls and samples are not bounded |
| `aix_snapshot` | `NotRunningIsTrue`, `DepartedForgotten`, `CountersGrow` | two callers, two calls, two pids, batches of one (so that the table takes several system calls), two processes, age limit one of two ticks |
| `host_caches` | `RightSource`, `VirtWriteOnce`, `EveryCallReturns` | two callers, two roots, six worlds of evidence chosen so that stages override one another; calls are not bounded |
| `darwin_library` | `NoMapRace`, `OnceOnly`, `EveryCallReturns`, `Implements` | two goroutines, two libraries, two functions; requests are not bounded |
| `windows_open_files` | `ReportedTruly`, `NothingLeaks`, `RestReported`, `CallReturns` | two handles (one can be late while the loop is at the other), two files and another object, a first buffer of one entry, up to two foreign handles (so that the table outgrows the buffer more than once); the machine's steps are not bounded |
| `readers` | `HandlesInOrder`, `OneProcess`, `StayersListed`, `VanishingHarmless`, `Orderly` | every program of the catalogues, one representative of those with the same steps; two items, so that one can go while the other is at its turn; two processes for the pid; calls and the items' coming and going are not bounded |
| `timed_calls` | `NothingLeftBehind`, `Implements`, `ResultQuiet`, `CallReturns`, `WorkerEnds` | one call (they share nothing), three pieces of output and a pipe for two, so that a writer can wait for a full pipe; the descendants of a child are one process that may come back |
| `memory_figures` | `AvailableNear`, `UsedNear`, `WatermarkExact` | a machine of four pages in every distribution over their five uses, two of which move during a call, 5-bit integers (sums cannot reach the limit, negative differences wrap), a watermark of two (above and below what is free); calls are not bounded |

`cpu_percent`, `process_handle` and `aix_snapshot` end when the bound on calls and ticks is
reached, `timed_calls` when its one call and what it started have ended, so deadlock is not
checked there; in the others nothing may stop, and it is.
Goroutines are declared symmetric where no liveness is checked (`process_handle`,
`aix_snapshot`; in `cpu_percent` they differ in what they may call).

Two runs compare the code with what its documentation says, and TLC finds a difference:

* `load_avg_doc` -- "updates avg data by fetching current load by interval"
  (load/load_windows.go:24): updates end for everybody when the context of the first caller
  of `Avg` does.
* `memory_figures_doc` -- "RAM available for programs to allocate" of the "Total amount of RAM
  on this system" (mem/mem.go:17-23), with a test that is to keep it from going below zero
  (mem/mem_linux.go:438): the test is on an unsigned integer and never true, so that free
  memory and caches below the watermarks make almost 2^64 bytes available.

### Known departures

Two more are stated in the modules and can be looked at by putting the definition under
INVARIANTS of the module's configuration; TLC then shows how they come about.

* `CombinedGivesOneValue` (CpuPercent) -- "or a single value if percpu is set to false"
  (cpu/cpu.go:149): on Linux an unreadable stat file makes it an empty list and no error,
  which is stored as a baseline like any other.
* `ContextRespected` (HostCaches) -- "First priority is given to the value set in `context`"
  (README.md:112): the virtualization found through one context decides for all others.

Others follow from the models, or are the exemptions below:

* "IsRunning returns whether the process is still running or not" (process/process.go:291):
  `Linearizable` without the premise of `IsRunningCorrect` fails.  A process that has run all
  along is denied when its two creation times were computed with different boot times: the
  wall clock was stepped, a container's uptime was read on the other side of a full second, a
  read of the boot time failed, or two goroutines filled the empty cache with different
  values.
* On Linux, lists of equal length can be of different CPUs (one went, another came, or lines
  were passed over), and `Percent` then compares two CPUs with one another.
* `Percent` of a process exceeds what it can use when its first `time.Now()` was late.
* The getters of the Linux status file return fields that another goroutine on the same
  handle may be filling in, or has just emptied.
* `ConnectionsMax` and its kin cut the descriptors of each process off at the caller's limit
  before they are known to be sockets, without an error.
* `OpenFiles` of Windows reports as `Fd` the number of its own duplicate, which is closed when
  the call returns, where the other systems report the descriptor of the process.
* In a non-global zone of Solaris, Total is filled in and Available and Used stay 0.

What the passing properties do not claim is as telling: `IsRunningCorrect` needs all creation
times to have been computed with one boot time (`OneBootTime`), which the cache provides once
it is settled and not before (`CacheSettles`), `PercentPlausible` needs that no two calls of
`Percent` overlap on one handle, `AvailableNear` and `UsedNear` a system that fills the figures in, `RightSource`
one root and readable files, `SamplingContinues` a live first context, `CallReturns` of
`TimedCalls` that no grandchild keeps the pipe for ever (and, for `CommandWithContext`, a
deadline of the caller's: the `X()` forms pass a background context, so their commands have
none), `UsedNear` that more pages are in use than move during a call (else it wraps).  Each premise is a way
the code can go wrong that the code does not exclude.

### What the reader properties exempt

Four sets of readers are named in the catalogues, because the code there does what the
property excludes; TLC violates the property for each when the exemption is taken away.

* *Mixing*, readers that look the pid up more than once, so that a reused pid yields figures
  of two processes: on Linux `fillFromStat` (the nice value is asked of the pid after the
  file was read), `fillFromStatus` and with it the name, `RlimitUsage`, `OpenFiles`,
  `Threads`, and, through the unlocked fields of a handle that two goroutines use, `Uids`,
  `Gids`, `Groups`, `NumCtxSwitches` and `SignalsPending`; and `getProcInodes` and `ConnectionsPid` of net; `Name` on macOS, FreeBSD and
  OpenBSD; on AIX `fillFromTIDStat`, `Threads`, the arguments read from the address space
  and with them `Exe` and `Cmdline`; in docker `CgroupCPU` and `CgroupMem`, which read several
  files of a container that may be restarted in between.  The handle's pinned creation time (`ProcessHandle`) is
  what a caller can check afterwards.
* *Fragile*, walks that give up when an item has gone: `getTerminalMap`, `Threads` on Linux
  and AIX, disk `IOCounters` on macOS, net `IOCounters` on Windows, swap devices on FreeBSD, the
  processor groups of Windows and the CPUs of OpenBSD and NetBSD.
* *Partial*, walks that may end early without an error: `PidExists`, `getFromSnapProcess`
  and `Children` on Windows (which look for one entry, or treat a failing enumeration as its
  end), `Partitions` of macOS and the BSDs (a count and a list taken by two calls),
  `Partitions` and `getLogicalDrives` on Windows, and the caller's own limit in
  `ConnectionsPidMax` on AIX and in `getProcInodes` on Linux; `ReadLinesOffsetN`, which takes a read error for the end of the
  file, and users on AIX, which does the same; `perfstatEnumerate` and `AIXMounts`, which ask
  for the size first; and those that look for one entry or stop at a marker (`ReadLine`,
  `ConvertDOSPath`, the platform of a Linux host, the frequency on macOS, boot messages on
  FreeBSD and DragonFly).
* *Leaking*: disk `IOCounters` on macOS returns from inside its loop without releasing the
  drive it is at (disk/disk_darwin.go:214-217); `NewWin32PerformanceCounter` leaves the query
  open when the counter cannot be added (common_windows.go:179), `NewSMC` the service when the
  connection cannot be opened (common_darwin.go:569).

### Fairness

Liveness assumes that goroutines which can run do, which Go's scheduler provides.

* `HostCaches`: weak fairness of each call's steps.  The writer comes once, so every wait
  ends for good.
* `LoadAvg`: weak fairness of the sampler (its ticker ticks) and of each call's steps, strong
  fairness of `RLock`: the sampler locks again and again, and Go's RWMutex admits the readers
  that wait when a writer leaves.
* `DarwinLibrary`: strong fairness of each goroutine's steps: sync.Mutex hands itself to a
  waiter after a millisecond (starvation mode), an RWMutex lets waiting readers in when a
  writer leaves.
* `WindowsOpenFiles`: weak fairness of the calling goroutine, its timer included; none of the
  goroutines it starts, whose system call may never come back.

* `TimedCalls`: weak fairness of the calling goroutine, of os/exec's goroutines, of WMI's
  goroutine once its query has ended, and of the timer; none of the query, the child and what
  it starts, which may hang for ever.

Nothing is assumed about callers (they need not call) or about contexts.

## Proofs

For all values of the constants that satisfy the assumptions of each module (any number of
goroutines, CPUs, libraries, functions), TLAPS checks:

* **CpuPercentProofs**: `TypeCorrect`, `MutualExclusion` (`MutexHeldInSection`), `Tiling`
  (`IntervalsTile`), `BaselineKept` (`BaselineSurvives`), `AlwaysAPercentage`
  (`PercentInRange`), `ExactShare` (`PercentIsBusyShare`).  The first inductive invariant is
  `TypeOK /\ Safe`: `IntervalsTile` speaks of one point of the code and is not inductive;
  `Safe` says what is known at every point of the critical section (the caller is the owner
  of the mutex; what it took is still the newest version until it stores; a sample it is
  about to store is not nil).  The second stands on it: a returned value was computed from
  the two samples its call still holds (`FromSamples`), and outside Linux no counter, baseline
  or sample has guest time (`GuestOnlyOnLinux`), which `getAllBusy` takes off on Linux alone.
  From there the two numeric properties are lemmas about `calculateBusy` on any two samples:
  `BusyInRange` (the clamp, also where counters went back) and `BusyIsShare` (no clamp and no
  early return changes the share where they grew).  `ReadLines` says that the lines of a read,
  whichever of them could be parsed, are lines of the kernel.
* **ProcessHandleProofs**: `TypeCorrect`, `IsRunningLinearizable` (`IsRunningCorrect`),
  `HandlePinned` (`IdentityPinned`), `BootTimeSettles` (`CacheSettles`), `PercentMeasured`
  (`PercentPlausible`).  A creation time
  identifies a process only because the pid is handed out to later and later ones
  (`Succession`) and because every creation time is the start of some process plus one of the
  boot times used (`AllProper`), which are all the same under the premise of
  `IsRunningCorrect`; a read under way is of a process that had the pid during the call
  (`Reading`); `Seen` says
  that a call knows everybody who had the pid while it ran, also between the stages of a read,
  and `Held` what it has read at
  each step.  For `HandlePinned` the point is that no goroutine can be about to store into a
  handle that has its creation time (`Given`).  `BootTimeSettles` needs little more than the
  types: a goroutine leaves the load for the source only while the cache is empty.  `Percent`
  needs a bound on every sample that
  somebody may still use, that who has the pid now has used no more CPU time since its `read`
  than went by (`SamplesBound`; after a reuse the difference may be negative, never too
  large), and for
  calls that do not overlap that `lastCPUTimes` and `lastCPUTime` are of one sample except
  between the two writes (`Measured`).
* **AixSnapshotProofs**: `TypeCorrect`, `NotRunningTrue` (`NotRunningIsTrue`),
  `ExitsForgotten` (`DepartedForgotten`), `NeverBack` (`CountersGrow`).  That no
  process which stays is missed rests on `BatchIsPrefix`: one `getprocs64` returns the first
  pids after the index, so that what lies up to the next index was seen, and a short batch
  was the last.  `PassedOver` carries this along the pass, `Believed` to the published
  snapshot, and `Noted` says that the ghost `absent` is not set too late.  `ExitsForgotten`
  rests on `AllWhileThere` (an entry was read while its process was there, so that it cannot
  have exited before the pass began), on `Alive` (who is in the table has not exited) and on
  `Ages` (the pass that made the snapshot ended less than the limit before a call
  looked).  `Ordered` says that
  counters only grow along the chain from what was answered over the snapshot and the pass to
  the table; it holds because an answer is given with the mutex held (`Mutex`) and processes
  are told apart by their number (`AllKnown`).
* **HostCachesProofs**: `TypeCorrect`, `DetectionRight`, `VirtStoredOnce` (`VirtWriteOnce`),
  `SourceRight` (`RightSource`).  `DetectionRight` is about `Detect` alone, for every one of
  the sets of marks: the ten stages, unrolled, find an lxc or docker guest exactly when
  `InContainer` holds.  (The stages are ten, so no induction over data is needed.)  The
  invariant is `TypeOK /\ Storing /\ Counted /\ AllRight`: only who entered the once may
  store and nothing is stored before; a call in progress has its root in `used`; and while all
  calls mean one root and every file can be read, both caches and whatever a call carries are
  those of that root.
* **WindowsOpenFilesProofs**: `TypeCorrect`, `ReportsTruly` (`ReportedTruly`), `LeaksNothing`
  (`NothingLeaks`), `ReportsTheRest` (`RestReported`).  The invariant follows a handle through
  the loop: on the list it has neither duplicate nor goroutine (`Waiting`), the one in hand is
  off the list and open (`Current`), as long as a duplicate is open its goroutine can only
  name what was duplicated (`NamedTruly`: late names come after the close and are read by
  nobody), until the call returns every duplicate is open and has a number of its own
  (`OneEach`), and afterwards a file is reported, missed or the call has failed (`Accounted`).
* **DarwinLibraryProofs**: `TypeCorrect`, `MapsNeverRaced`, `NothingTwice` and the refinement
  `ImplementsTable`.  The invariant is `TypeOK /\ Locks /\ Opened /\ Registered`: locks are
  owned by exactly those in their sections; a library has been opened iff it is in the cache
  or its opener is about to store it; the same for a function and its map.  The last two are
  what makes the second look under the lock suffice, and what lets every step be mapped to
  one of `SymbolTable`.
* **GoroutinesProofs**, of `TimedCalls`: `TypeCorrect`, `LeavesNothing` (`NothingLeftBehind`),
  `ResultsQuiet` (`ResultQuiet`) and the refinement `ImplementsTimedCall`.  The invariant is
  `TypeOK /\ Query /\ Child` and that only a call that has returned has an outcome: `Query`
  says that the channel holds the query's own outcome and nothing before it ended, `Child`
  that a child past `Wait` is reaped and that a copying goroutine which has ended leaves
  neither a writer nor anything in the pipe.
* **GoroutinesProofs**, of `LoadAvg`: `LoadTypeCorrect`, `OnlyOneSampler`,
  `SnapshotsConsistent`.  The invariant is `LoadTypeOK /\ Started /\ Locks /\ Data /\ Copies`: no
  sampler before the once is past it; no reader while the writer holds the lock; all fields of
  one sample except during the update, where those before `next` are of the current one; and
  a reader's copies equal the data as long as it holds the read lock.
* **ReadersProofs**, of `Readers`: `ReadersTypeCorrect`, `HandlesAlwaysInOrder`
  (`HandlesInOrder`), `AlwaysOneProcess` (`OneProcess`), `StayersAlwaysListed`
  (`StayersListed`), `VanishingAlwaysHarmless` (`VanishingHarmless`).  Together they say that
  the flow analysis of `ReaderFlow` is sound: a program whose points keep the discipline has
  the four properties, whatever its steps are, for any set of items, any number of processes
  with the pid one after the other, and whatever the kernel does in between.  The invariant is
  `Typed /\ Unused /\ Covered /\ PinnedRight /\ Simulated`.  `Simulated` is the heart: the
  state of a call is at all times described by one of the points found for its program
  (`Represents`).  A point knows no processes, only tags, the numbers of the steps that looked
  the pid up; `Names` says that some map from tags to processes makes what it says of the
  handles and of the figures true.  That map changes when a step in a loop looks the pid up
  again, which is why the discipline asks that nothing it found the last time is in use still
  (`LookupAt`), and `PinnedRight` is why a process that is held may be got at through its pid.
  `Covered` carries an item through the walk: it is still to come, in hand, kept or excused.
  The theorems have `Orderly` as their premise; that it holds of every program of the
  catalogues is what the run `readers` adds, and `FlowAssumption`, which TLC evaluates there,
  is that the points are closed under `After`.  The exemptions
  named above (`Mixing`, `Partial`, `Leaking`, `Fragile`) are exemptions of the theorems too.
* **ReadersProofs**, of `MemoryFigures`: `AvailableAlwaysNear` (`AvailableNear`),
  `UsedAlwaysNear` (`UsedNear`), `WatermarkAlwaysExact` (`WatermarkExact`), for a machine of
  any size, integers of any width and any number of pages that move.  The invariant is
  `MemoryTyped /\ ReadSoFar /\ Drift /\ Answered`.  `Drift`: the counters read so far,
  completed by those still to be read as they are now, are off the truth by at most the pages
  that have moved; a read changes neither side, and a page that moves changes each by one at
  most.  Zones of Solaris are left out of the first two (`Counts`).  `Wrapping` is the one fact about unsigned integers: an intermediate sum may have gone
  below zero and wrapped, but the final one is exact if it is within the width.

The assumptions are the named ones of the modules: bounds are natural numbers (some positive:
a machine has a CPU, a pid has a first process); a model value for "nobody" or "no entry" is
none of the things it is told apart from (`NoneAssumption` of `AixSnapshot`); and for
`HostCaches`, `control_d` is only found where Xen is, and `lxc-version` is a command that is
found or not whatever root a context names; for `MemoryFigures`, that the counters are far
from the largest integer, and that `2^Width` is a natural number, which is said because the
provers do not know exponentiation; and `FlowAssumption`.  TLC evaluates all of them on the instances.  No
theorem assumes fairness.

Every inductive invariant was checked by TLC on the instance of its run before it was proved.
The proofs changed three models: the divisor in `calculatePercent` of `ProcessHandle` may be
negative (another call may have stored a later sample meanwhile), which is now a case of its
own, since TLA+ leaves `\div` by a negative number undefined; `AixSnapshot` states that
"no entry" is not an entry; and `MemoryFigures` writes its sums over the five kinds of pages
out (they were folds, of which the provers cannot say what they add up to) and states that
the systems are those whose counters it knows.

Only model-checked:

* liveness (`EveryCallReturns`, `CallReturns`, `WorkerEnds`, `SamplingContinues`) and ENABLED,
  which are out of the prover's reach;
* that each program of the catalogues is `Orderly`, a fact about those lists which TLC
  establishes one by one.

## Not modelled

* Layout: parsers and formatters (/proc files, sysctl buffers, command output) have no state
  and no interleaving; their unit tests with recorded files are the right tool.  In the reader
  catalogues a parser is a branch on the data it may refuse.
* One-line forwarding (the `X()` wrappers of `XWithContext`, `String` methods), functions that
  return "not implemented", generated types and the sample program.
* Caches that a handle or a pid keeps besides the ones modelled: `aixBitnessCache`, the
  terminals of AIX, the parent of a Windows handle, which `NumThreads` sets without a lock
  (a program of the catalogues only sees that it may be remembered).
  The code promises nothing about a reused pid that a property could hold it to.
* To which process a socket is attributed by net on Linux when inodes are reused between the
  walk over the descriptors and the read of the tables; the walk itself is in the catalogues.

`PROJECT.json` lists each part with the reason, and under `hazards` what each line of the code
is exposed to, covered or not.

### Noticed on the way

Not properties, but what a reader of the models may want to know of the code.

* `CgroupMem` ignores the errors of all files but the first: a limit that cannot be read is 0
  without an error.  `SwapMemory` of OpenBSD and NetBSD does the same when swapctl fails.
* `readSMC` returns no error, and zero data, when its second call does not succeed.
* `maxLogicalProcessorsPerGroup` (cpu/cpu_windows.go) is the size of an integer in bytes, 8, not
  the 64 processors of a group.
* `Times` of NetBSD and of AIX with cgo are not divided by the clock's rate, although
  cpu/cpu.go:20 speaks of seconds.
* `CallSyscall` on FreeBSD and OpenBSD returns errno 0 as an error that is not nil.
* `kelvinToCelsius` multiplies in 32 bits; swap of Windows subtracts unsigned figures of two
  kinds; `Usage` of OpenBSD and NetBSD may underflow.
* `ErrTimeout` is declared and never returned.

## Plan

In this order, most important first:

1. **NetConnections**: sockets, inodes and processes of net_linux.go against reuse of both.
2. **ProcessCaches**: bitness and terminals on AIX, the parent on Windows, against pid reuse.
