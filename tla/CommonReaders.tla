--------------------------- MODULE CommonReaders ---------------------------
(***************************************************************************)
(* What the readers of internal/common, which those of all packages call,  *)
(* do, in the notation of ReaderCode.  The items are lines of a file,      *)
(* directory entries, or what a library lists.                             *)
(***************************************************************************)
EXTENDS ReaderCode, Sequences

OneRead == << Read("machine", {Error}), Return(Ok) >>
TwoReads == << Read("machine", {Error}), Read("machine", {Error}), Return(Ok) >>
CheckedRead == << Read("machine", {Error}), Branch({Ok, Error}) >>

-----------------------------------------------------------------------------
(* Files *)

ReadFile == OneRead

\* Line by line.  An error ends the walk as the end of the file does: the
\* lines up to there are returned, without an error.
ReadLinesOffsetN ==
    << Open("file", "machine", {Error}), List("file", {}), EachEntry(7, {7}), Branch({On, 7}), Filter, Keep,
       Return(Ok) >>

ReadLines == OneRead

\* The first line with the prefix; here an error is reported.
ReadLine ==
    << Open("file", "machine", {Error}), List("file", {}), EachEntry(5, {Error}), Branch({Skip, Ok}), Return(Ok) >>

ReadInts == << Open("file", "machine", {Error}), Read("file", {Error}), Branch({Ok, Error}) >>

\* The entries of a directory that are numbers.
NumProcs ==
    << Open("proc", "machine", {Error}), List("proc", {Error}), Each(6), Filter, Keep, Return(Ok) >>

-----------------------------------------------------------------------------
(* Commands *)

\* Only that there is no such command is an error.  An exit status of 1
\* without output means no process; any other failure is taken for output.
CallLsof == << List("machine", {Error, Ok, On}), Each(5), Filter, Keep, Return(Ok) >>

AixBootTime == CheckedRead
AixUptime == CheckedRead

-----------------------------------------------------------------------------
(* System calls and libraries *)

SysctlUint == CheckedRead

\* The length, then the data, which may have grown.
BsdCallSyscall == << Probe("machine", {Error}), Branch({On, Ok}), Read("machine", {Error}), Return(Ok) >>
OpenbsdCallSyscall == BsdCallSyscall

PerfstatCPUTotalStat == OneRead
PerfstatMemoryTotalStat == OneRead
PerfstatPartitionTotalStat == OneRead

\* The number of the entries, then so many of them: of a list that has grown
\* in between the last ones are cut off.
perfstatEnumerate ==
    << List("machine", {Error}), Branch({On, Ok}), Read("machine", {Error}), Each(7), Branch({On, 7}), Keep,
       Return(Ok) >>

\* The size again if the buffer was too small.  A table that has outgrown the
\* second buffer too is taken for empty.
AIXMounts ==
    << List("machine", {Error}), Branch({5, 3}), Read("machine", {Error}), Branch({On, Ok}),
       Each(8), Branch({On, 8}), Keep, Return(Ok) >>

\* In batches, each going on after the last entry of the one before.
AIXProcesses == << List("machine", {Error}), EachEntry(4, {Error}), Keep, Return(Ok) >>
AIXThreads == AIXProcesses

\* As long as the environment does not fit, the buffer is doubled and the
\* answer dropped; at 4 MB it is used as it is.  The eight rounds this takes
\* at most are not counted.
AIXProcessEnv ==
    << Branch({2, 4}), Probe("pid", {Error}), Branch({1}), Read("pid", {Error}), Return(Ok) >>

\* A counter that cannot be added leaves its query open.
NewWin32PerformanceCounter ==
    << OpenBare("query", "machine", {Error}), Read("query", {Error}), HandOver("query"), Return(Ok) >>

GetValue == TwoReads
GetCounterValue == OneRead
CreateQuery == OneRead
CreateCounter == OneRead

\* Every drive letter, until one has the device of the path.
ConvertDOSPath == << List("machine", {}), Each(5), Read("item", {Skip}), Branch({Skip, Ok}), Return(Ok) >>

\* The service is released once the connection is open; when it cannot be
\* opened, the service is not released.
NewSMC ==
    << Read("machine", {Error}), OpenBare("service", "machine", {Error}), OpenBare("conn", "service", {Error}),
       Close("service"), HandOver("conn"), Return(Ok) >>

-----------------------------------------------------------------------------
Common ==
    [common_ReadFile |-> ReadFile, common_ReadLinesOffsetN |-> ReadLinesOffsetN, common_ReadLines |-> ReadLines,
     common_ReadLine |-> ReadLine, common_ReadInts |-> ReadInts, common_NumProcs |-> NumProcs,
     common_CallLsof |-> CallLsof, common_aix_BootTime |-> AixBootTime, common_aix_Uptime |-> AixUptime,
     common_SysctlUint |-> SysctlUint, common_bsd_CallSyscall |-> BsdCallSyscall,
     common_openbsd_CallSyscall |-> OpenbsdCallSyscall,
     common_aix_PerfstatCPUTotalStat |-> PerfstatCPUTotalStat,
     common_aix_PerfstatMemoryTotalStat |-> PerfstatMemoryTotalStat,
     common_aix_PerfstatPartitionTotalStat |-> PerfstatPartitionTotalStat,
     common_aix_perfstatEnumerate |-> perfstatEnumerate, common_aix_Mounts |-> AIXMounts,
     common_aix_Processes |-> AIXProcesses, common_aix_Threads |-> AIXThreads,
     common_aix_ProcessEnv |-> AIXProcessEnv,
     common_win_NewWin32PerformanceCounter |-> NewWin32PerformanceCounter, common_win_GetValue |-> GetValue,
     common_win_GetCounterValue |-> GetCounterValue, common_win_CreateQuery |-> CreateQuery,
     common_win_CreateCounter |-> CreateCounter, common_win_ConvertDOSPath |-> ConvertDOSPath,
     common_darwin_NewSMC |-> NewSMC]

\* Those that end a walk at an error or at an outdated number, and those that
\* look for one entry.
CommonPartial ==
    {"common_ReadLinesOffsetN", "common_aix_perfstatEnumerate", "common_aix_Mounts",
     "common_ReadLine", "common_win_ConvertDOSPath"}

CommonLeaking == {"common_win_NewWin32PerformanceCounter", "common_darwin_NewSMC"}
=============================================================================
