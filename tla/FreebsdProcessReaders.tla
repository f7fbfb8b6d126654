----------------------- MODULE FreebsdProcessReaders -----------------------
(***************************************************************************)
(* The readers of process/process_freebsd.go, in the notation of           *)
(* ReaderCode.                                                             *)
(***************************************************************************)
EXTENDS ReaderCode, Sequences

\* common.CallSyscall: the size of the answer, then the answer, both by pid.
\* A size of zero returns the errno 0 as an error, which is not nil, so that
\* the callers fail instead of returning an empty answer.
CallSyscall == << Probe("pid", {Error}), Branch({On, Error}), Read("pid", {Error}), Return(Ok) >>

Exe == CallSyscall
Cmdline == CallSyscall

\* The record of the process; an answer of another size is an error too.
getKProc ==
    << Probe("pid", {Error}), Branch({On, Error}), Read("pid", {Error}), Branch({Ok, Error}) >>

\* The directory's record is checked for its size in the same way.
Cwd == getKProc

\* The wrappers that use one figure of that record: the call of getKProc.
KProcFigure == << Read("pid", {Error}), Return(Ok) >>

Ppid == KProcFigure
createTime == KProcFigure
Status == KProcFigure
UidsGidsGroups == KProcFigure
Nice == KProcFigure
IOCounters == KProcFigure
NumThreads == KProcFigure
Times == KProcFigure

Name == << Read("pid", {Error}), Branch({Ok, On}), Read("pid", {Error}), Return(Ok) >>

Foreground == << Read("pid", {Error}), Return(Ok) >>

Terminal == << Read("pid", {Error}), Read("machine", {Error}), Return(Ok) >>

MemoryInfo == << Read("pid", {Error}), Read("machine", {Error}), Return(Ok) >>

NewProcess == << Read("item", {Skip}), Read("item", {On}) >>

\* The records of the whole table; one that cannot be parsed is passed over.
Processes ==
    << List("machine", {Error}), Each(7), Filter >> \o NewProcess \o << Keep, Return(Ok) >>

\* The error of Processes is dropped by both.
pids == << List("machine", {Ok}), Each(4), Keep, Return(Ok) >>
Children == << List("machine", {Ok}), Each(6), Read("item", {Skip}), Filter, Keep, Return(Ok) >>

FreebsdProcess ==
    [freebsd_CallSyscall |-> CallSyscall, freebsd_Exe |-> Exe, freebsd_Cmdline |-> Cmdline,
     freebsd_getKProc |-> getKProc, freebsd_Cwd |-> Cwd, freebsd_Ppid |-> Ppid,
     freebsd_createTime |-> createTime, freebsd_Status |-> Status, freebsd_Uids |-> UidsGidsGroups,
     freebsd_Nice |-> Nice, freebsd_IOCounters |-> IOCounters, freebsd_NumThreads |-> NumThreads,
     freebsd_Times |-> Times, freebsd_Name |-> Name, freebsd_Foreground |-> Foreground,
     freebsd_Terminal |-> Terminal, freebsd_MemoryInfo |-> MemoryInfo,
     freebsd_Processes |-> Processes, freebsd_pids |-> pids, freebsd_Children |-> Children]

FreebsdMixing == {"freebsd_Name"}
=============================================================================
