----------------------------- MODULE HostReaders -----------------------------
(***************************************************************************)
(* The readers of package host on every system, in the notation of         *)
(* ReaderCode.  The items are records of the file of logged-in users or    *)
(* lines of a command's output.  The boot time and the kind of             *)
(* virtualization on Linux, which are cached, are in module HostCaches.    *)
(***************************************************************************)
EXTENDS ReaderCode, Sequences

OneRead == << Read("machine", {Error}), Return(Ok) >>
TwoReads == << Read("machine", {Error}), Read("machine", {Error}), Return(Ok) >>
CheckedRead == << Read("machine", {Error}), Branch({Ok, Error}) >>

\* Two names that may each be missing.
TwoNames == << Read("machine", {On}), Read("machine", {On}), Return(Ok) >>

\* The whole file of users, then its records: those of another type, or that
\* cannot be decoded, are left out.
UsersFile ==
    << Open("utmp", "machine", {Error}), List("utmp", {Error}), Each(6), Filter, Keep, Return(Ok) >>

\* A boot time that is cached (unless the caller has not asked for the cache)
\* is not asked for again.
CachedRead == << Branch({Ok, On}), Read("machine", {Error}), Return(Ok) >>

\* Nine figures; what this system does not implement is left empty, and the
\* other errors are collected and joined: one of them fails the call, but
\* only after all the figures were asked for.
Info == [i \in 1..9 |-> Read("machine", {On})] \o << Branch({Ok, Error}) >>

-----------------------------------------------------------------------------
(* Linux *)

\* Of three files the first that exists is read, and the following ones
\* (unasked whether they exist: fallthrough) when it is empty or cannot be
\* read; a host without any has no ID, which is no error.
LinuxHostID ==
    << Probe("machine", {4}), Read("machine", {5}), Branch({5, Ok}),
       Probe("machine", {7}), Read("machine", {7}), Branch({7, Ok}),
       Read("machine", {Ok}), Return(Ok) >>

LinuxNumProcs == OneRead
LinuxUptime == OneRead
LinuxUsers == UsersFile
LinuxKernelVersion == OneRead

\* The file if it exists, or (from 4) the command if that exists.
getlsbStruct ==
    << Probe("machine", {4}), Read("machine", {Error}), Return(Ok),
       Probe("machine", {Ok}), Read("machine", {Error}), Return(Ok) >>

\* What lsb-release says, if anything; then the first of the distributions'
\* files (the items) that exists and is not all but empty.  It may be gone by
\* the time it is read: the version is then unknown.
LinuxPlatformInformation ==
    << Read("machine", {On}), List("machine", {}), Each(7), Probe("item", {Skip}), Branch({Skip, On, Ok}),
       Read("item", {On}), Return(Ok) >>

KernelArch == OneRead

-----------------------------------------------------------------------------
(* Windows *)

WindowsHostID ==
    << Open("key", "machine", {Error}), Read("key", {Error}), Branch({Ok, Error}) >>

WindowsNumProcs == OneRead
WindowsUptime == OneRead

\* The 64-bit counter if the system has it, else the one that wraps around.
uptimeMillis == << Probe("machine", {On}), Read("machine", {Error}), Return(Ok) >>

WindowsBootTime == CachedRead
WindowsPlatformInformation == OneRead

\* The name has to be there, its length and then itself; the build, the
\* service pack, the revision and the display version may each be missing, at
\* the first or at the second of two calls.
platformInformation ==
    << Read("machine", {Error}), Open("key", "machine", {Error}),
       Probe("key", {Error}), Read("key", {Error}),
       Branch({6, 8}), Probe("key", {8}), Read("key", {On}),
       Probe("key", {10}), Read("key", {On}),
       Probe("key", {12}), Read("key", {On}),
       Probe("key", {14}), Read("key", {On}),
       Return(Ok) >>

WindowsKernelVersion == OneRead
WindowsKernelArch == << Read("machine", {}), Return(Ok) >>

-----------------------------------------------------------------------------
(* macOS and the BSDs *)

DarwinHostID == CheckedRead
DarwinNumProcs == OneRead
DarwinUsers == UsersFile
DarwinPlatformInformation == << Read("machine", {On}), Read("machine", {On}), Probe("machine", {On}), Return(Ok) >>
DarwinKernelVersion == OneRead

BsdBootTime == CachedRead
BsdUptime == OneRead

FreebsdHostID == OneRead
FreebsdNumProcs == OneRead

\* The file of the releases since 9.0, or (from 8) the one before.
FreebsdUsers == << Probe("machine", {8}) >>
    \o << Open("utmp", "machine", {Error}), List("utmp", {Error}), Each(7), Filter, Keep, Return(Ok) >>
    \o << Read("machine", {Error}), Return(Ok) >>

getUsersFromUtmp == UsersFile
FreebsdPlatformInformation == TwoReads
FreebsdKernelVersion == OneRead

OpenbsdNumProcs == OneRead
OpenbsdPlatformInformation == TwoNames
OpenbsdUsers == UsersFile
OpenbsdKernelVersion == OneRead
NetbsdPlatformInformation == TwoNames
NetbsdKernelVersion == OneRead

-----------------------------------------------------------------------------
(* Solaris and AIX *)

\* On SmartOS the zone, or in the global one the name of the host; what
\* fails leads on to hostid (7), which may fail as well.
SolarisHostID ==
    << Read("machine", {Error}), Branch({3, 7}), Read("machine", {7}), Branch({5, Ok, 7}),
       Read("machine", {7}), Return(Ok), Read("machine", {Ok}), Return(Ok) >>

SolarisNumProcs == OneRead
SolarisBootTime == CheckedRead
SolarisUptime == OneRead
parseReleaseFile == OneRead
parseUnameOutput == CheckedRead
SolarisKernelVersion == OneRead
SolarisPlatformInformation == TwoReads

\* The first call asks, in its own context; every other gets its answer, or
\* its error.
AixHostID == << Branch({Ok, Error, On}), Read("machine", {Error}), Return(Ok) >>
AixPlatformInformation ==
    << Branch({Ok, Error, On}), Read("machine", {Error}), Read("machine", {Error}), Return(Ok) >>
AixKernelVersion == AixHostID
AixKernelArch ==
    << Branch({Ok, Error, On}), Read("machine", {4}), Return(Ok), Read("machine", {Error}), Return(Ok) >>

\* Record by record: an error ends the walk as the end of the file does.
AixUsers ==
    << Open("utmp", "machine", {Error}), List("utmp", {}), EachEntry(6, {6}), Filter, Keep, Return(Ok) >>

\* A workload partition, or a logical one, or neither; what cannot be asked
\* is taken for no.
AixVirtualization ==
    << Read("machine", {3}), Branch({On, Ok}), Read("machine", {Ok}), Return(Ok) >>

AixBootTimeCgo == OneRead
AixUptimeCgo == OneRead
AixNumProcsCgo == OneRead
AixNumProcs == OneRead
AixUptime == OneRead
AixBootTime == OneRead

-----------------------------------------------------------------------------
Host ==
    [host_Info |-> Info,
     host_linux_HostID |-> LinuxHostID, host_linux_numProcs |-> LinuxNumProcs,
     host_linux_Uptime |-> LinuxUptime, host_linux_Users |-> LinuxUsers,
     host_linux_KernelVersion |-> LinuxKernelVersion, host_linux_getlsbStruct |-> getlsbStruct,
     host_linux_PlatformInformation |-> LinuxPlatformInformation, host_posix_KernelArch |-> KernelArch,
     host_win_HostID |-> WindowsHostID, host_win_numProcs |-> WindowsNumProcs,
     host_win_Uptime |-> WindowsUptime, host_win_uptimeMillis |-> uptimeMillis,
     host_win_BootTime |-> WindowsBootTime, host_win_PlatformInformation |-> WindowsPlatformInformation,
     host_win_platformInformation |-> platformInformation,
     host_win_KernelVersion |-> WindowsKernelVersion, host_win_KernelArch |-> WindowsKernelArch,
     host_darwin_HostID |-> DarwinHostID, host_darwin_numProcs |-> DarwinNumProcs,
     host_darwin_Users |-> DarwinUsers, host_darwin_PlatformInformation |-> DarwinPlatformInformation,
     host_darwin_KernelVersion |-> DarwinKernelVersion,
     host_bsd_BootTime |-> BsdBootTime, host_bsd_Uptime |-> BsdUptime,
     host_freebsd_HostID |-> FreebsdHostID, host_freebsd_numProcs |-> FreebsdNumProcs,
     host_freebsd_Users |-> FreebsdUsers, host_freebsd_getUsersFromUtmp |-> getUsersFromUtmp,
     host_freebsd_PlatformInformation |-> FreebsdPlatformInformation,
     host_freebsd_KernelVersion |-> FreebsdKernelVersion,
     host_openbsd_numProcs |-> OpenbsdNumProcs, host_openbsd_PlatformInformation |-> OpenbsdPlatformInformation,
     host_openbsd_Users |-> OpenbsdUsers, host_openbsd_KernelVersion |-> OpenbsdKernelVersion,
     host_netbsd_PlatformInformation |-> NetbsdPlatformInformation,
     host_netbsd_KernelVersion |-> NetbsdKernelVersion,
     host_solaris_HostID |-> SolarisHostID, host_solaris_numProcs |-> SolarisNumProcs,
     host_solaris_BootTime |-> SolarisBootTime, host_solaris_Uptime |-> SolarisUptime,
     host_solaris_parseReleaseFile |-> parseReleaseFile, host_solaris_parseUnameOutput |-> parseUnameOutput,
     host_solaris_KernelVersion |-> SolarisKernelVersion,
     host_solaris_PlatformInformation |-> SolarisPlatformInformation,
     host_aix_HostID |-> AixHostID, host_aix_PlatformInformation |-> AixPlatformInformation,
     host_aix_KernelVersion |-> AixKernelVersion, host_aix_KernelArch |-> AixKernelArch,
     host_aix_Users |-> AixUsers, host_aix_Virtualization |-> AixVirtualization,
     host_aix_BootTimeCgo |-> AixBootTimeCgo, host_aix_UptimeCgo |-> AixUptimeCgo,
     host_aix_numProcsCgo |-> AixNumProcsCgo, host_aix_numProcs |-> AixNumProcs,
     host_aix_Uptime |-> AixUptime, host_aix_BootTime |-> AixBootTime]

\* A read error ends the list of users; the first file of a distribution
\* decides.
HostPartial == {"host_aix_Users", "host_linux_PlatformInformation"}
=============================================================================
