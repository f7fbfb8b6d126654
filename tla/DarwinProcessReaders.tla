----------------------- MODULE DarwinProcessReaders ------------------------
(***************************************************************************)
(* The readers of process/process_darwin.go, in the notation of            *)
(* ReaderCode.                                                             *)
(* Each sysctl, each call of libproc and each ps looks the pid up anew.    *)
(* "lib" is the handle of loadProcFuncs; "thread" is the operating         *)
(* system's thread, which a reader that looks at errno locks.              *)
(***************************************************************************)
EXTENDS ReaderCode, Sequences

pids == << List("machine", {Error}), Each(4), Keep, Return(Ok) >>

\* sysctl kern.proc.pid, and the wrappers that use one figure of it.
getKProc == << Read("pid", {Error}), Return(Ok) >>

Ppid == getKProc
createTime == getKProc
Uids == getKProc
Gids == getKProc
Nice == getKProc

\* sysctl kern.procargs2, whose buffer holds the arguments and what follows.
procArgs == << Read("pid", {Error}), Return(Ok) >>

CmdlineSlice == procArgs
Environ == procArgs

\* A name of 15 characters or more may be cut, so that the arguments are read
\* too; a process without any keeps the short name.
Name == << Read("pid", {Error}), Branch({Ok, On}), Read("pid", {Error}), Return(Ok) >>

\* ps -p fails when it finds nobody.
callPs == << Read("pid", {Error}), Return(Ok) >>

Status == callPs
Foreground == callPs

loadProcFuncs == << Open("lib", "machine", {Error}) >>

\* The readers that need errno, which belongs to the thread.
WithErrno == loadProcFuncs \o << Open("thread", "machine", {}), Read("pid", {Error}), Return(Ok) >>

IOCounters == WithErrno
Cwd == WithErrno

Exe == loadProcFuncs \o << Read("pid", {Error}), Return(Ok) >>

\* proc_pidinfo(PROC_PIDTASKINFO) whose result is not looked at: zeros when
\* the process is gone or belongs to somebody else.
TaskInfo == loadProcFuncs \o << Read("pid", {On}), Return(Ok) >>

NumThreads == TaskInfo
MemoryInfo == TaskInfo

Times == loadProcFuncs \o << Read("pid", {On}), Read("machine", {On}), Return(Ok) >>

\* The size the table of descriptors needs, then the table.
NumFDs == loadProcFuncs \o << Probe("pid", {Error}), Read("pid", {Error}), Return(Ok) >>

\* Whether somebody has the pid, then the creation time, whose error is
\* dropped.
NewProcess == << Read("item", {Skip}), Read("item", {On}) >>

Processes == << List("machine", {Error}), Each(6) >> \o NewProcess \o << Keep, Return(Ok) >>

\* A list that cannot be had is no children, and no error.
Children == << List("machine", {Ok}), Each(6), Read("item", {Skip}), Filter, Keep, Return(Ok) >>

DarwinProcess ==
    [darwin_pids |-> pids, darwin_getKProc |-> getKProc, darwin_Ppid |-> Ppid,
     darwin_createTime |-> createTime, darwin_Uids |-> Uids, darwin_Gids |-> Gids,
     darwin_Nice |-> Nice, darwin_procArgs |-> procArgs, darwin_CmdlineSlice |-> CmdlineSlice,
     darwin_Environ |-> Environ, darwin_Name |-> Name, darwin_callPs |-> callPs,
     darwin_Status |-> Status, darwin_Foreground |-> Foreground, darwin_IOCounters |-> IOCounters,
     darwin_Cwd |-> Cwd, darwin_Exe |-> Exe, darwin_NumThreads |-> NumThreads,
     darwin_MemoryInfo |-> MemoryInfo, darwin_Times |-> Times, darwin_NumFDs |-> NumFDs,
     darwin_Processes |-> Processes, darwin_Children |-> Children]

DarwinMixing == {"darwin_Name"}
=============================================================================
