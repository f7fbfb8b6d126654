----------------------- MODULE WindowsProcessReaders -----------------------
(***************************************************************************)
(* The readers of process/process_windows.go, in the notation of           *)
(* ReaderCode.  "process" is the handle OpenProcess returns.               *)
(***************************************************************************)
EXTENDS ReaderCode, Sequences

\* OpenProcess, one query through the handle, CloseHandle deferred.
QueryThroughHandle ==
    << Open("process", "pid", {Error}), Read("process", {Error}), Return(Ok) >>

\* The same call where "access denied" and "invalid parameter", the error for
\* a pid nobody has, are answers.
OpenIfThere == WhenGone(Open("process", "pid", {Ok, Error}), {Ok})

\* Enabling SeDebugPrivilege when the package is loaded: any failure just
\* leaves the privilege off.
initPrivilege ==
    << Open("token", "machine", {Ok}), Read("machine", {Ok}), Read("token", {On}), Return(Ok) >>

\* EnumProcesses: an answer that fills the buffer is dropped, and the next
\* asked for with a larger one; the first that does not is the list.
pids ==
    << Branch({2, 4}), Probe("machine", {Error}), Branch({1}), List("machine", {Error}), Each(7), Keep,
       Return(Ok) >>

\* Pid 0 exists and a negative one is an error; one that is no multiple of 4
\* is looked up in the list of all pids; the others are opened.
PidExists ==
    << Branch({Ok, Error, 2, 6}),
       List("machine", {Error}), Each(5), Branch({Ok, Skip}), Return(Ok),
       OpenIfThere, Read("process", {Error}), Return(Ok) >>

\* Remembered in the handle, else the base name of the executable, or the
\* parent in the process's row of the snapshot.
Name == << Branch({Ok, On}), Read("pid", {Error}), Return(Ok) >>
Ppid == << Branch({Ok, On}), Read("pid", {Error}), Return(Ok) >>

\* The number in that row; the parent next to it is remembered.
NumThreads == << Read("pid", {Error}), Return(Ok) >>

\* Vista and later, or the XP call, whose device path is converted.
Exe ==
    << Open("process", "pid", {Error}), Branch({3, 5}),
       Read("process", {Error}), Return(Ok),
       Read("process", {Error}), Read("machine", {On}), Return(Ok) >>

parseCmdline ==
    << Branch({On, Error}), Open("argv", "machine", {Error}), Read("argv", {}), Return(Ok) >>

\* The process parameters: the address of the PEB, the PEB, the parameters.
getUserProcessParams(fails) ==
    << Read("process", fails), Read("process", fails), Read("process", fails) >>

\* A failed query of the process's bitness falls back to that of the caller.
is32BitProcess == << Read("process", {On}) >>

Cwd ==
    << OpenIfThere >> \o is32BitProcess
    \o getUserProcessParams({Error})
    \o << Branch({Ok, On}), Read("process", {Error}), Return(Ok) >>

\* Mutant: the process is released before its token is opened.
UsernameReleased ==
    << OpenBare("process", "pid", {Error}), Close("process"), Open("token", "process", {Error}),
       Read("token", {Error}), Read("machine", {Error}), Return(Ok) >>

Username ==
    << Open("process", "pid", {Error}), Open("token", "process", {Error}),
       Read("token", {Error}), Read("machine", {Error}), Return(Ok) >>

Nice == QueryThroughHandle
IOCounters == QueryThroughHandle
NumFDs == QueryThroughHandle
getRusage == QueryThroughHandle
getMemoryInfo == QueryThroughHandle
getProcessCPUTimes == QueryThroughHandle
Suspend == QueryThroughHandle
Resume == QueryThroughHandle

\* os.FindProcess opens the process, Kill acts on that handle.
Kill == QueryThroughHandle

\* Mutant: returns the error of TerminateProcess before the handle is closed.
TerminateEarlyReturn ==
    << OpenBare("process", "pid", {Error}), Read("process", {Error}),
       Close("process"), Return(Ok) >>

\* The one that closes its handle itself, on both ways out.
Terminate ==
    << OpenBare("process", "pid", {Error}), Read("process", {5}),
       Close("process"), Return(Ok),
       Close("process"), Return(Error) >>

\* NewProcess on an item: it must exist, its creation time may fail.
NewProcess == << Read("item", {Skip}), Read("item", {On}) >>

\* Any error of Process32Next ends the walk as if it were its end.
Children ==
    << Open("snapshot", "machine", {Error}), List("snapshot", {Error}), EachEntry(8, {Ok}),
       Filter >> \o NewProcess \o << Keep, Return(Ok) >>

\* The process's own row of the snapshot, or an error when there is none.
getFromSnapProcess ==
    << Open("snapshot", "machine", {Error}), List("snapshot", {Error}), EachEntry(5, {Error}),
       Branch({Ok, Skip}), Return(Error) >>

\* Here only ERROR_NO_MORE_FILES is the end.
buildSnapProcessMap ==
    << Open("snapshot", "machine", {Error}), List("snapshot", {Error}), EachEntry(5, {Error}),
       Keep, Return(Ok) >>

\* The pids, then the snapshot; a process missing from the snapshot is still
\* listed, one that is gone is not.
Processes ==
    << List("machine", {Error}), Read("machine", {Error}), Each(7) >>
    \o NewProcess \o << Keep, Return(Ok) >>

\* The environment block is read until its end, or until the memory cannot
\* be read: that is taken for the end.
getProcessEnvironmentVariables ==
    << OpenIfThere >> \o is32BitProcess
    \o getUserProcessParams({Error})
    \o << Read("process", {Ok, Error}), Return(Ok) >>

\* The PEB (up to step 8), else the native query on the same handle (9); or,
\* when VM_READ is refused, the native query on a weaker handle (12).
getProcessCommandLine ==
    << WhenGone(Open("process", "pid", {12, Error}), {Ok}) >> \o is32BitProcess
    \o getUserProcessParams({9})
    \o << Branch({Ok, On}), Read("process", {9}), Return(Ok) >>
    \o << Read("process", {Error}), Read("process", {Error}), Return(Ok) >>
    \o << Open("process", "pid", {Ok}), Read("process", {Ok}), Read("process", {Ok}), Return(Ok) >>

WindowsProcess ==
    [win_init |-> initPrivilege, win_pids |-> pids, win_PidExists |-> PidExists, win_Name |-> Name, win_Ppid |-> Ppid,
     win_NumThreads |-> NumThreads, win_Exe |-> Exe,
     win_parseCmdline |-> parseCmdline, win_Cwd |-> Cwd, win_Username |-> Username,
     win_Nice |-> Nice, win_IOCounters |-> IOCounters, win_NumFDs |-> NumFDs,
     win_getRusage |-> getRusage, win_getMemoryInfo |-> getMemoryInfo,
     win_getProcessCPUTimes |-> getProcessCPUTimes, win_Suspend |-> Suspend, win_Resume |-> Resume,
     win_Kill |-> Kill, win_Terminate |-> Terminate, win_Children |-> Children,
     win_getFromSnapProcess |-> getFromSnapProcess, win_buildSnapProcessMap |-> buildSnapProcessMap,
     win_Processes |-> Processes, win_Environ |-> getProcessEnvironmentVariables,
     win_Cmdline |-> getProcessCommandLine]

\* PidExists and getFromSnapProcess look for one pid; Children ends its walk
\* at any error of Process32Next.
WindowsPartial == {"win_PidExists", "win_getFromSnapProcess", "win_Children"}
=============================================================================
