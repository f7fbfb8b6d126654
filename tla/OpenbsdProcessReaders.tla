----------------------- MODULE OpenbsdProcessReaders -----------------------
(***************************************************************************)
(* The readers of process/process_openbsd.go, in the notation of           *)
(* ReaderCode.  There is no creation time on this system, so NewProcess    *)
(* only asks whether somebody has the pid.                                 *)
(***************************************************************************)
EXTENDS ReaderCode, Sequences

\* The size of the records asked for, then the records; no size is an error.
callKernProcSyscall(on) == << Probe(on, {Error}), Branch({On, Error}), Read(on, {Error}) >>

\* One record of the right size.
getKProc == callKernProcSyscall("pid") \o << Branch({Ok, Error}) >>

KProcFigure == << Read("pid", {Error}), Return(Ok) >>

Ppid == KProcFigure
Status == KProcFigure
UidsGidsGroups == KProcFigure
Nice == KProcFigure
IOCounters == KProcFigure
Times == KProcFigure

\* common.CallSyscall: a size of zero returns the errno 0 as an error, which
\* is not nil.
CallSyscall == << Probe("pid", {Error}), Branch({On, Error}), Read("pid", {Error}), Return(Ok) >>

Cwd == CallSyscall

\* The pointers of the answer are walked; one that is outside it, or a string
\* without an end, is an error.
CmdlineSlice ==
    << Probe("pid", {Error}), Branch({On, Error}), Read("pid", {Error}), Branch({Ok, Error}) >>

Cmdline == << Read("pid", {Error}), Return(Ok) >>

Name == << Read("pid", {Error}), Branch({Ok, On}), Read("pid", {Error}), Return(Ok) >>

Foreground == << Read("pid", {Error}), Return(Ok) >>

Terminal == << Read("pid", {Error}), Read("machine", {Error}), Return(Ok) >>

MemoryInfo == << Read("pid", {Error}), Read("machine", {Error}), Return(Ok) >>

Processes ==
    << Probe("machine", {Error}), Branch({On, Error}), List("machine", {Error}),
       Each(8), Filter, Read("item", {Skip}), Keep, Return(Ok) >>

pids == << List("machine", {Ok}), Each(4), Keep, Return(Ok) >>
Children == << List("machine", {Ok}), Each(6), Read("item", {Skip}), Filter, Keep, Return(Ok) >>

OpenbsdProcess ==
    [openbsd_getKProc |-> getKProc, openbsd_Ppid |-> Ppid, openbsd_Status |-> Status,
     openbsd_Uids |-> UidsGidsGroups, openbsd_Nice |-> Nice, openbsd_IOCounters |-> IOCounters,
     openbsd_Times |-> Times, openbsd_CallSyscall |-> CallSyscall, openbsd_Cwd |-> Cwd,
     openbsd_CmdlineSlice |-> CmdlineSlice, openbsd_Cmdline |-> Cmdline, openbsd_Name |-> Name,
     openbsd_Foreground |-> Foreground, openbsd_Terminal |-> Terminal,
     openbsd_MemoryInfo |-> MemoryInfo, openbsd_Processes |-> Processes, openbsd_pids |-> pids,
     openbsd_Children |-> Children]

OpenbsdMixing == {"openbsd_Name"}
=============================================================================
