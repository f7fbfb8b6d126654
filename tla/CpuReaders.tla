----------------------------- MODULE CpuReaders -----------------------------
(***************************************************************************)
(* The readers of package cpu on every system, in the notation of          *)
(* ReaderCode.  The items are CPUs, packages of them, groups of them or    *)
(* lines about them.  Times on Linux, which Percent rests on, is in module *)
(* CpuPercent with what it makes of its failures.                          *)
(***************************************************************************)
EXTENDS ReaderCode, Sequences

OneRead == << Read("machine", {Error}), Return(Ok) >>
TwoReads == << Read("machine", {Error}), Read("machine", {Error}), Return(Ok) >>
FourReads == [i \in 1..4 |-> Read("machine", {Error})] \o << Return(Ok) >>

\* One figure or the other (from 4).
EitherRead ==
    << Branch({2, 4}), Read("machine", {Error}), Return(Ok), Read("machine", {Error}), Return(Ok) >>

\* A table of the CPUs, or (from 6) one row for all.
TableOrTotal ==
    << Branch({2, 6}), List("machine", {Error}), Each(5), Keep, Return(Ok),
       Read("machine", {Error}), Return(Ok) >>

-----------------------------------------------------------------------------
(* Linux *)

\* Unlike Times it reports what it cannot read or parse.  One row (from 9), or
\* those of the CPUs after the first line, which may be all there is.
ExTimes ==
    << Open("stat", "machine", {Error}), Branch({3, 9}),
       Read("stat", {Error, Ok}), List("stat", {}), EachEntry(8, {Error}), Branch({On, Error}), Keep, Return(Ok),
       Read("stat", {Error}), Branch({Ok, Error}) >>

\* The core and the frequency of one CPU, as far as they can be had.
finishCPUInfo ==
    << Branch({2, 3}), Read("machine", {On}), Read("machine", {Ok}), Return(Ok) >>

\* A number that is none is an error; a CPU that is taken down meanwhile has
\* no frequency.
LinuxInfo ==
    << List("machine", {Error}), Each(6), Branch({On, Error}), Read("item", {On}), Keep, Return(Ok) >>

\* The logical CPUs in cpuinfo, or in stat where there are none; or (from 6)
\* the different sets of siblings in either of two places, or the cores in
\* cpuinfo.
LinuxCounts ==
    << Branch({2, 6}), Read("machine", {4}), Branch({On, Ok}), Read("machine", {Error}), Return(Ok),
       List("machine", {10}), Each(10), Read("item", {Skip}), Keep, Branch({On, Ok}),
       List("machine", {15}), Each(15), Read("item", {Skip}), Keep, Branch({On, Ok}),
       Read("machine", {Error}), Return(Ok) >>

-----------------------------------------------------------------------------
(* Windows *)

\* The performance information of all CPUs; when that fails or is empty, the
\* total (from 5) has another source.
WindowsTimes ==
    << List("machine", {Error, 5}), Each(4), Keep, Return(Ok), Read("machine", {Error}), Return(Ok) >>

systemTimes == OneRead

\* From every group of processors, where the system knows groups.
perfInfo ==
    << Branch({2, 4}), Read("machine", {Error}), Return(Ok),
       Branch({On, Error}), Read("machine", {Error}), Return(Ok) >>

perfInfoSingleGroup == OneRead

\* The size of a group is asked for before its figures: a processor added in
\* between is noticed by the size of the answer.
perfInfoAllGroups ==
    << List("machine", {Error}), Each(7), Probe("item", {Error}), Read("item", {Error}),
       Branch({On, Error}), Keep, Return(Ok) >>

getProcessorPowerInformation ==
    << Probe("machine", {Error}), Branch({On, Error}), Read("machine", {Error}), Return(Ok) >>

\* The packages, the frequencies and the firmware's table, then for every
\* package the registry keys of its processors, which may be missing.
WindowsInfo ==
    << List("machine", {Error}), Read("machine", {Error}), Read("machine", {Error}),
       Each(9), OpenBare("key", "item", {8}), Read("key", {On}), Close("key"), Keep, Return(Ok) >>

getSMBIOSProcessorInfo == << Probe("machine", {Error}), Read("machine", {Error}), Branch({Ok, Error}) >>

\* The length, then the entries.
getSystemLogicalProcessorInformationEx ==
    << Probe("machine", {Error}), Branch({On, Error}), List("machine", {Error}), Each(6), Keep, Return(Ok) >>

\* The active processors, or those of the system information; or (from 6) the
\* cores.
WindowsCounts ==
    << Branch({2, 6}), Read("machine", {4}), Return(Ok), Read("machine", {Error}), Return(Ok),
       Read("machine", {Error}), Return(Ok) >>

-----------------------------------------------------------------------------
(* macOS *)

DarwinTimes == << Open("system", "machine", {Error}), Read("system", {Error}), Return(Ok) >>

\* Ten figures and the frequency, each of which may be missing.
DarwinInfo == [i \in 1..11 |-> Read("machine", {On})] \o << Return(Ok) >>

DarwinCounts == OneRead

\* The kernel allocates the table, which is given back on return.
perCPUTimes ==
    << List("machine", {Error}), Branch({On, Error}), Open("cpuload", "machine", {}), Each(6), Keep, Return(Ok) >>

allCPUTimes == OneRead

\* The libraries, opened once; then the device "pmgr" among those the
\* iterator gives out (others from 14).  Its data may be missing (from 12) or
\* too short.
getFrequency ==
    << Read("machine", {Error}), Open("iterator", "machine", {Error}), Open("key", "machine", {}),
       List("iterator", {}), Each(16), OpenBare("service", "iterator", {}), Branch({8, 14}),
       OpenBare("data", "service", {12}), Close("data"), Close("service"), Branch({Ok, Error}),
       Close("service"), Return(Error),
       Close("service"), Branch({Skip}),
       Return(Ok) >>

-----------------------------------------------------------------------------
(* The BSDs, Solaris, AIX, Plan 9 *)

\* A CPU that is not present has no times.
FreebsdTimes ==
    << Branch({2, 7}), List("machine", {Error}), Each(6), Filter, Keep, Return(Ok),
       Read("machine", {Error}), Branch({Ok, Error}) >>

DragonflyTimes ==
    << Branch({2, 7}), List("machine", {Error}), Each(6), Filter, Keep, Return(Ok),
       Read("machine", {Error}), Return(Ok) >>

FreebsdInfo == FourReads
DragonflyInfo == FourReads

\* The lines of the boot messages up to the one that ends those about CPUs.
FreebsdParseDmesgBoot ==
    << List("machine", {Error}), Each(7), Branch({On, 7}), Filter, Branch({On, Error}), Keep, Return(Ok) >>

DragonflyParseDmesgBoot == FreebsdParseDmesgBoot

\* The total, or (from 4) the number of CPUs and each of them.
TotalOrEach ==
    << Branch({2, 4}), Read("machine", {Error}), Branch({Ok, Error}),
       List("machine", {Error}), Each(9), Read("item", {Error}), Filter, Keep, Return(Ok) >>

OpenbsdTimes == TotalOrEach
NetbsdTimes == TotalOrEach

OpenbsdInfo == [i \in 1..3 |-> Read("machine", {Error})] \o << Return(Ok) >>

NetbsdInfo ==
    << Read("machine", {Error}), Branch({On, Error}), Read("machine", {Error}), Read("machine", {Error}), Return(Ok) >>

SolarisTimes ==
    << List("machine", {Error}), Each(6), Filter, Branch({On, Error}), Keep, Return(Ok) >>

SolarisInfo ==
    << Read("machine", {Error}), Branch({On, Error}), Read("machine", {Error}), Branch({Ok, Error}) >>

parseISAInfo == << Branch({Ok, Error}) >>
parseProcessorInfo == << List("machine", {}), Each(5), Branch({On, Error}), Keep, Return(Ok) >>

AixTimesCgo == TableOrTotal
AixInfoCgo == TwoReads
AixCountsCgo == EitherRead
AixTimes == TableOrTotal

\* prtconf is run once; its output, or its error, is kept.
AixInfo == OneRead
AixCounts == EitherRead

Plan9Times == TwoReads

-----------------------------------------------------------------------------
Cpu ==
    [cpu_linux_ExTimes |-> ExTimes, cpu_linux_finishCPUInfo |-> finishCPUInfo, cpu_linux_Info |-> LinuxInfo,
     cpu_linux_Counts |-> LinuxCounts,
     cpu_win_Times |-> WindowsTimes, cpu_win_systemTimes |-> systemTimes, cpu_win_perfInfo |-> perfInfo,
     cpu_win_perfInfoSingleGroup |-> perfInfoSingleGroup, cpu_win_perfInfoAllGroups |-> perfInfoAllGroups,
     cpu_win_getProcessorPowerInformation |-> getProcessorPowerInformation, cpu_win_Info |-> WindowsInfo,
     cpu_win_getSMBIOSProcessorInfo |-> getSMBIOSProcessorInfo,
     cpu_win_getLogicalProcessorInformation |-> getSystemLogicalProcessorInformationEx,
     cpu_win_Counts |-> WindowsCounts,
     cpu_darwin_Times |-> DarwinTimes, cpu_darwin_Info |-> DarwinInfo, cpu_darwin_Counts |-> DarwinCounts,
     cpu_darwin_perCPUTimes |-> perCPUTimes, cpu_darwin_allCPUTimes |-> allCPUTimes,
     cpu_darwin_getFrequency |-> getFrequency,
     cpu_freebsd_Times |-> FreebsdTimes, cpu_dragonfly_Times |-> DragonflyTimes,
     cpu_freebsd_Info |-> FreebsdInfo, cpu_dragonfly_Info |-> DragonflyInfo,
     cpu_freebsd_parseDmesgBoot |-> FreebsdParseDmesgBoot,
     cpu_dragonfly_parseDmesgBoot |-> DragonflyParseDmesgBoot,
     cpu_openbsd_Times |-> OpenbsdTimes, cpu_netbsd_Times |-> NetbsdTimes,
     cpu_openbsd_Info |-> OpenbsdInfo, cpu_netbsd_Info |-> NetbsdInfo,
     cpu_solaris_Times |-> SolarisTimes, cpu_solaris_Info |-> SolarisInfo,
     cpu_solaris_parseISAInfo |-> parseISAInfo, cpu_solaris_parseProcessorInfo |-> parseProcessorInfo,
     cpu_aix_TimesCgo |-> AixTimesCgo, cpu_aix_InfoCgo |-> AixInfoCgo, cpu_aix_CountsCgo |-> AixCountsCgo,
     cpu_aix_Times |-> AixTimes, cpu_aix_Info |-> AixInfo, cpu_aix_Counts |-> AixCounts,
     cpu_plan9_Times |-> Plan9Times]

CpuFragile == {"cpu_win_perfInfoAllGroups", "cpu_openbsd_Times", "cpu_netbsd_Times"}

\* One device is looked for; the messages after the end marker are not read.
CpuPartial == {"cpu_darwin_getFrequency", "cpu_freebsd_parseDmesgBoot", "cpu_dragonfly_parseDmesgBoot"}
=============================================================================
