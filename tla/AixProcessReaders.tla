------------------------- MODULE AixProcessReaders -------------------------
(***************************************************************************)
(* The readers of process/process_aix.go, in the notation of ReaderCode.   *)
(* Most of them open /proc/<pid>/psinfo ("info"), which every process has, *)
(* and /proc/<pid>/status ("status"), which a zombie or kernel process     *)
(* lacks: that it does not exist is no error, and it also does not exist   *)
(* when the process is gone.                                               *)
(***************************************************************************)
EXTENDS ReaderCode, Sequences

OpenInfo == Open("info", "pid", {Error})
OpenStatusOr(missing) == WhenGone(Open("status", "pid", {Error, missing}), {missing})

\* psinfo, status and the shared snapshot, each looked up by pid.  The figures
\* a wrapper uses are read, the others probed.
fillFromStat(info, status, snapshot) ==
    << OpenInfo, Use(info, "info", {Error}), OpenStatusOr(5), Use(status, "status", {Error}),
       Use(snapshot, "pid", {Error}), Return(Ok) >>

createTime == fillFromStat("read", "probe", "probe")
Times == fillFromStat("probe", "read", "probe")
PageFaults == fillFromStat("probe", "probe", "read")

\* The nice value is one of a thread, so the process's stays zero.
Nice == fillFromStat("probe", "probe", "probe")

\* The parent from psinfo only when there is no status.
Ppid ==
    << OpenInfo, Probe("info", {Error}), OpenStatusOr(7), Read("status", {Error}),
       Probe("pid", {Error}), Return(Ok),
       Read("info", {}), Probe("pid", {Error}), Return(Ok) >>

\* The same with a thread's two files; a thread they cannot be opened for is
\* taken for its process.  lwpstatus is closed at once when lwpsinfo fails,
\* and again by its defer.
fillFromTIDStat ==
    << OpenInfo, Read("info", {Error}), OpenStatusOr(11), Read("status", {Error}),
       Open("lwpstatus", "part", {11}), Open("lwpsinfo", "part", {10}),
       Read("lwpstatus", {Error}), Read("lwpsinfo", {Error}), Branch({11}),
       Close("lwpstatus"),
       Read("pid", {Error}), Return(Ok) >>

\* The threads, then the above for each; the times are those of the process.
Threads ==
    << List("pid", {Error}), Each(7), Read("pid", {Error}), Probe("part", {On, Error}),
       Probe("pid", {Error}), Keep, Return(Ok) >>

\* status, and what there is of psinfo, into the fields of the handle.  Each
\* wrapper returns one of them, which is assigned as a whole: its value comes
\* from one of the files, or from another goroutine's call on the handle.
fillFromStatus(status, info, other) ==
    << OpenStatusOr(3), Use(status, "status", {Error}),
       Open("info", "pid", {5}), Use(info, "info", {5}), Use(other, "pid", {On}), Return(Ok) >>

Status == fillFromStatus("read", "probe", "probe")
SignalsPending == fillFromStatus("read", "probe", "probe")
UidsGidsGroups == fillFromStatus("probe", "read", "probe")
NumThreads == fillFromStatus("probe", "read", "probe")
Overwritten == fillFromStatus("probe", "probe", "read")

\* Remembered in the handle; from psinfo only when there is no status.
Tgid ==
    << Branch({On, Ok}), OpenStatusOr(7), Read("status", {Error}),
       Open("info", "pid", {Ok}), Probe("info", {Ok}), Return(Ok),
       Open("info", "pid", {Ok}), Read("info", {Ok}), Return(Ok) >>

getProcessBitness == << Branch({On, Ok}), Read("pid", {Error}), Return(Ok) >>

\* The arguments in the process's memory, at the address psinfo gave, with
\* the pointer size found by pid (8 where that fails).  A short read of the
\* vector's address returns no arguments and no error; a later one ends the
\* list.
readArgsFromAddressSpace ==
    << Branch({On, Error}), Open("as", "pid", {Error}), Read("pid", {On}),
       Read("as", {Error, Ok}), Read("as", {Ok}), Return(Ok) >>

\* psinfo, then the arguments, or what psinfo says where they cannot be had.
InfoThenArgs == << OpenInfo, Read("info", {Error}), Read("pid", {On}), Return(Ok) >>

fillFromExe == InfoThenArgs
fillFromCmdline == InfoThenArgs

Name == << Branch({On, Ok}), Read("pid", {Error}), Return(Ok) >>

fillFromStatm == << OpenInfo, Read("info", {Error}), Return(Ok) >>

\* The device number in psinfo, then the table of terminals.
Terminal == << OpenInfo, Read("info", {Error}), Branch({On, Ok}), Read("machine", {}), Return(Ok) >>

\* A device that is not in the table: both directories are scanned again,
\* under the mutex, whatever can be read of them.
lookupAIXTTY ==
    << Open("mutex", "machine", {}), Branch({On, Ok}), List("machine", {On}), List("machine", {On}),
       Each(9), Read("item", {Skip}), Filter, Keep, Return(Ok) >>

IOCounters == << Read("pid", {Error}), Return(Ok) >>

Environ == << Read("pid", {Error}), Return(Ok) >>

MemoryMaps == << Read("pid", {Error}), Return(Ok) >>

\* The owner of the process, its name, and the limits lsuser knows for it.
fillFromLimits ==
    << Read("pid", {Error}), Branch({On, Error}), Read("machine", {Error}), Read("machine", {Error}),
       Return(Ok) >>

\* No descriptors and no error where the directory does not exist.
fillFromfdList ==
    << WhenGone(Open("fd", "pid", {Ok, Error}), {Ok}), Read("fd", {Error}), Return(Ok) >>

\* The number of descriptors is not used; procfiles fails for a process that
\* is gone.
OpenFiles == << WhenGone(Probe("pid", {Error}), {On}), Read("pid", {Error}), Return(Ok) >>

fillFromCwd == << WhenGone(Read("pid", {Ok, Error}), {Ok}), Return(Ok) >>

readPpidFromStatus ==
    << OpenStatusOr(4), Read("status", {Error}), Return(Ok), OpenInfo, Read("info", {Error}), Return(Ok) >>

NewProcess == << Read("item", {Skip}), Read("item", {On}) >>

Children ==
    << List("machine", {Error}), Each(8), Read("item", {Skip}), Filter >>
    \o NewProcess \o << Keep, Return(Ok) >>

Processes == << List("machine", {Error}), Each(6) >> \o NewProcess \o << Keep, Return(Ok) >>

\* A pid that is listed twice is taken once.
readPidsFromDir ==
    << Open("dir", "machine", {Error}), List("dir", {Error}), Each(6), Filter, Keep, Return(Ok) >>

AixProcess ==
    [aix_createTime |-> createTime, aix_Times |-> Times, aix_PageFaults |-> PageFaults, aix_Nice |-> Nice,
     aix_Ppid |-> Ppid, aix_fillFromTIDStat |-> fillFromTIDStat, aix_Threads |-> Threads,
     aix_Status |-> Status, aix_SignalsPending |-> SignalsPending, aix_Uids |-> UidsGidsGroups,
     aix_NumThreads |-> NumThreads, aix_Overwritten |-> Overwritten, aix_Tgid |-> Tgid, aix_getProcessBitness |-> getProcessBitness,
     aix_readArgs |-> readArgsFromAddressSpace, aix_Exe |-> fillFromExe, aix_Cmdline |-> fillFromCmdline,
     aix_Name |-> Name, aix_Statm |-> fillFromStatm, aix_Terminal |-> Terminal,
     aix_lookupAIXTTY |-> lookupAIXTTY, aix_IOCounters |-> IOCounters, aix_Environ |-> Environ,
     aix_MemoryMaps |-> MemoryMaps, aix_Rlimit |-> fillFromLimits, aix_NumFDs |-> fillFromfdList,
     aix_OpenFiles |-> OpenFiles, aix_Cwd |-> fillFromCwd, aix_readPpid |-> readPpidFromStatus,
     aix_Children |-> Children, aix_Processes |-> Processes, aix_pids |-> readPidsFromDir]

AixMixing == {"aix_fillFromTIDStat", "aix_Threads", "aix_readArgs", "aix_Exe", "aix_Cmdline"}
AixFragile == {"aix_Threads"}
=============================================================================
