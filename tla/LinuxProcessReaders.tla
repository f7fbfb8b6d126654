------------------------ MODULE LinuxProcessReaders ------------------------
(***************************************************************************)
(* The readers of process/process_linux.go, in the notation of ReaderCode. *)
(* os.ReadFile and os.Readlink on a path under /proc/<pid> look the pid up *)
(* each time they are called.                                              *)
(***************************************************************************)
EXTENDS ReaderCode, Sequences

\* One file or link of the process; a line that cannot be parsed is an error
\* as well.
ReadOneFile == << Read("pid", {Error}), Return(Ok) >>

Foreground == ReadOneFile
Environ == ReadOneFile
Cwd == ReadOneFile
Exe == ReadOneFile
Cmdline == ReadOneFile
IOCounters == ReadOneFile
Statm == ReadOneFile

\* /proc/<pid>/stat (or that of a thread), the boot time, and the nice value,
\* which is asked of getpriority(pid) instead of taken from the file; the
\* errors of the last two are ignored.
fillFromTIDStat(on) == << Read(on, {Error}), Read("machine", {On}), Read("pid", {On}) >>

Stat == fillFromTIDStat("pid") \o << Return(Ok) >>

\* The wrappers that use only figures of the file, and the one that uses
\* only the nice value.
StatFigure == << Read("pid", {Error}), Read("machine", {On}), Probe("pid", {On}), Return(Ok) >>

Ppid == StatFigure
CreateTime == StatFigure
Times == StatFigure
PageFaults == StatFigure

Nice == << Probe("pid", {Error}), Read("machine", {On}), Read("pid", {On}), Return(Ok) >>

Terminal ==
    << Read("pid", {Error}), Read("machine", {On}), Probe("pid", {On}), Read("machine", {Error}),
       Return(Ok) >>

\* /proc/<pid>/status, line by line into the fields of the handle; a name of
\* 15 characters or more may be cut, so the command line is read too (else
\* that step is passed over).
fillFromStatus == << Read("pid", {Error}), Read("pid", {On, Error}), Refilled, Return(Ok) >>

\* The wrappers that return a field with another figure of that file: own is
\* "read" if the value comes from this call, other if it comes from the call
\* of another goroutine on the same handle.
StatusFigure(own, other) ==
    << Use(own, "pid", {Error}), Probe("pid", {On, Error}), Use(other, "pid", {On}), Return(Ok) >>

\* A single figure is the one's or the other's.
Status == StatusFigure("read", "probe")
NumThreads == StatusFigure("read", "probe")
Overwritten == StatusFigure("probe", "read")

\* Remembered in the handle.
Tgid == << Branch({Ok, On}) >> \o StatusFigure("read", "probe")

\* A list or record can be part the one's, part the other's: both calls fill
\* in what the handle points to at the time.
UidsGidsGroups == StatusFigure("read", "read")
NumCtxSwitches == StatusFigure("read", "read")
SignalsPending == StatusFigure("read", "read")

\* /proc/<pid>/comm when it is complete, else the status file.
fillName == << Read("pid", {On}), Branch({5, On}) >> \o fillFromStatus

\* Remembered in the handle.
Name == << Branch({Ok, On}), Read("pid", {Error}), Return(Ok) >>

\* The limits, and if the use is wanted: stat, status, the times and the
\* number of descriptors.
RlimitUsage ==
    << Read("pid", {Error}), Branch({Ok, On}) >> \o fillFromTIDStat("pid")
    \o << Read("pid", {Error}), Probe("pid", {On, Error}), Refilled,
          Read("pid", {Error}), Read("pid", {Error}), Return(Ok) >>

fillFromLimits == << Open("limits", "pid", {Error}), Read("limits", {Error}), Return(Ok) >>

NumFDs == << Open("fd", "pid", {Error}), Read("fd", {Error}), Return(Ok) >>

\* Mutant: the first link that cannot be read ends the walk.
fillFromfdBreak ==
    << List("pid", {Error}), Each(6), Read("part", {6}), Branch({On, Error}), Keep, Return(Ok) >>

\* The numbers in /proc/<pid>/fd, then one link after the other, each found
\* through the pid again; an unreadable link is passed over.
fillFromfd ==
    << List("pid", {Error}), Each(6), Read("part", {Skip}), Branch({On, Error}), Keep, Return(Ok) >>

\* The numbers in /proc/<pid>/task, then the stat file of each.
Threads ==
    << List("pid", {Error}), Each(5), Read("part", {Error}), Keep, Return(Ok) >>

\* Mutant: the sum of the mappings next to the list of them.
MemoryMapsBoth == << Branch({2, 3}), Read("pid", {On}), Read("pid", {Error}), Return(Ok) >>

\* smaps, or smaps_rollup where that exists and the sum is wanted.
MemoryMaps == << Branch({2, 3}), Probe("pid", {On}), Read("pid", {Error}), Return(Ok) >>

NewProcess == << Read("item", {Skip}), Read("item", {On}) >>

\* Every /proc/[0-9]*/stat; the ones whose parent is the process are opened.
Children ==
    << List("machine", {Error}), Each(8), Read("item", {Skip}), Filter >>
    \o NewProcess \o << Keep, Return(Ok) >>

Processes == << List("machine", {Error}), Each(6) >> \o NewProcess \o << Keep, Return(Ok) >>

\* The numeric names in a directory: /proc, or /proc/<pid>/task.
readPidsFromDir(via) ==
    << Open("dir", via, {Error}), List("dir", {Error}), Each(6), Filter, Keep, Return(Ok) >>

LinuxProcess ==
    [linux_Foreground |-> Foreground, linux_Environ |-> Environ, linux_Cwd |-> Cwd, linux_Exe |-> Exe,
     linux_Cmdline |-> Cmdline, linux_IOCounters |-> IOCounters, linux_Statm |-> Statm, linux_Stat |-> Stat,
     linux_Ppid |-> Ppid, linux_CreateTime |-> CreateTime, linux_Times |-> Times, linux_PageFaults |-> PageFaults,
     linux_Nice |-> Nice, linux_Terminal |-> Terminal, linux_fillFromStatus |-> fillFromStatus,
     linux_Tgid |-> Tgid, linux_Status |-> Status, linux_Uids |-> UidsGidsGroups,
     linux_NumCtxSwitches |-> NumCtxSwitches, linux_NumThreads |-> NumThreads,
     linux_SignalsPending |-> SignalsPending, linux_Overwritten |-> Overwritten, linux_fillName |-> fillName,
     linux_Name |-> Name, linux_RlimitUsage |-> RlimitUsage,
     linux_Rlimit |-> fillFromLimits, linux_NumFDs |-> NumFDs, linux_OpenFiles |-> fillFromfd,
     linux_Threads |-> Threads, linux_MemoryMaps |-> MemoryMaps, linux_Children |-> Children,
     linux_Processes |-> Processes, linux_pids |-> readPidsFromDir("machine"),
     linux_tids |-> readPidsFromDir("pid")]

LinuxMixing ==
    {"linux_Stat", "linux_fillFromStatus", "linux_fillName", "linux_Uids", "linux_NumCtxSwitches",
     "linux_SignalsPending", "linux_RlimitUsage", "linux_OpenFiles", "linux_Threads"}

LinuxFragile == {"linux_Threads"}
=============================================================================
