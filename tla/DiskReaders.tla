---------------------------- MODULE DiskReaders ----------------------------
(***************************************************************************)
(* The readers of package disk on every system, in the notation of         *)
(* ReaderCode.  The items are mounts, drives, volumes or devices.          *)
(***************************************************************************)
EXTENDS ReaderCode, Sequences

\* One system call or command decides.
OneRead == << Read("machine", {Error}), Return(Ok) >>

\* A table that is taken as a whole, of which some rows are kept.
FilteredTable == << List("machine", {Error}), Each(5), Filter, Keep, Return(Ok) >>

\* The number of mounts, then as many mounts: one that is made between the
\* two calls pushes another out of the buffer.
CountThenFill ==
    << Probe("machine", {Error}), List("machine", {Error}), EachEntry(5, {5}), Keep, Return(Ok) >>

\* A name that is refused, a command, and an answer it may not contain.
NamedCommand == << Branch({On, Error}), Read("machine", {Error}), Branch({Ok, Error}) >>

UnixUsage == OneRead

-----------------------------------------------------------------------------
(* Linux *)

\* mountinfo, or mounts where that does not exist.
readMountFile ==
    << Read("machine", {3, Error}), Return(Ok), Read("machine", {Error}), Return(Ok) >>

\* The mounts of process 1, or of this one where those cannot be had unless
\* the file was given; the supported filesystems; then the lines of mounts
\* (from 6) or of mountinfo (from 9), where a malformed line is an error and
\* the device behind a name is looked up if possible.
LinuxPartitions ==
    << List("machine", {Error, 3}), Branch({4}), List("machine", {Error}),
       Read("machine", {On, Error}), Branch({6, 9}),
       Each(14), Filter, Keep,
       Each(14), Branch({On, Error}), Filter, Read("item", {On}), Keep,
       Return(Ok) >>

getFileSystems == FilteredTable

\* A line that is too short is passed over, a number that is none an error;
\* serial number and label are those of the device if it is still there.
LinuxIOCounters ==
    << List("machine", {Error}), Each(9), Filter, Branch({On, Error}), Filter,
       Read("item", {On}), Read("item", {On}), Keep, Return(Ok) >>

\* That the file does not exist is no error.
udevData == << Open("file", "machine", {Ok, Error}), Read("file", {Error}), Return(Ok) >>

LinuxSerialNumber ==
    << Read("machine", {Error}), Read("machine", {On}), Branch({On, Ok}),
       Read("machine", {On}), Read("machine", {On}), Return(Ok) >>

LinuxLabel ==
    << Branch({On, 4}), Read("machine", {4}), Return(Ok),
       Read("machine", {Error}), Read("machine", {Error}), Return(Ok) >>

-----------------------------------------------------------------------------
(* Windows *)

initCounters ==
    << OpenBare("key", "machine", {Ok}), Read("key", {On}), Close("key"), Return(Ok) >>

WindowsUsage == OneRead

\* The drives (up to 6), then the volumes mounted as folders.  The end of the
\* context ends either walk, and so does a volume that cannot be found (after
\* some attempts): the warnings are added to a copy and lost, so the call
\* succeeds.
WindowsPartitions ==
    << List("machine", {Error}), Each(7), Branch({On, 7}), Filter, Read("item", {Skip}), Keep,
       Open("volumes", "machine", {Ok}), List("volumes", {}), EachEntry(15, {15}), Branch({On, 15}),
       Read("item", {Skip}), Filter, Read("item", {Skip}), Keep,
       Return(Ok) >>

\* The length, then the drives.  A drive mapped between the two calls makes
\* the buffer too short, which is no error: it stays empty.
getLogicalDrives ==
    << Probe("machine", {Error}), Branch({On, Error}), List("machine", {Error}), Branch({5, 7}),
       Each(7), Keep, Return(Ok) >>

\* The unit of a walk here is a drive; it is opened, and closed by a defer
\* when the whole call returns.  A drive that is gone or has no counters is
\* passed over.
WindowsIOCounters ==
    << List("machine", {Error}), Each(8), Filter,
       WhenGone(Open("drive", "item", {Skip, Error}), {Skip}), Read("drive", {Skip, Error}),
       Filter, Keep, Return(Ok) >>

getVolumePaths == << Probe("machine", {Error}), Read("machine", {Error}), Return(Ok) >>

-----------------------------------------------------------------------------
(* macOS *)

DarwinPartitions == CountThenFill

DarwinSerialNumber == << Read("machine", {Error}), Branch({Ok, Error}) >>

\* The libraries, the iterator over the drives, and each drive it gives out.
\* An error of one drive ends the call before that drive is released.
DarwinIOCounters ==
    << Read("machine", {Error}), Open("key", "machine", {}), Open("drives", "machine", {Error}),
       List("drives", {}), Each(11),
       OpenBare("drive", "drives", {}), Read("item", {Error}), Close("drive"), Filter, Keep,
       Return(Ok) >>

getDriveStat ==
    << Open("parent", "machine", {Error}), Branch({On, Ok}), Open("props", "machine", {Error}),
       Open("key", "machine", {}), Read("props", {}), Read("parent", {Error}), Return(Ok) >>

\* One of the six figures, each looked up with a string of its own.
fillStat ==
    << Open("props", "machine", {Error, Ok}), Open("key", "machine", {}), Read("props", {Error}),
       OpenBare("string", "machine", {}), Read("props", {On}), Close("string"), Return(Ok) >>

-----------------------------------------------------------------------------
(* The BSDs, Solaris and AIX *)

FreebsdPartitions == CountThenFill
OpenbsdPartitions == CountThenFill
NetbsdPartitions == CountThenFill

FreebsdIOCounters ==
    << List("machine", {Error}), Each(6), Filter, Read("item", {On}), Keep, Return(Ok) >>

OpenbsdIOCounters == FilteredTable

FreebsdSerialNumber == NamedCommand
OpenbsdUsage == OneRead
NetbsdUsage == << Branch({On, Error}), Read("machine", {Error}), Return(Ok) >>

\* A file that cannot be opened is noticed when its scanner fails.
SolarisPartitions ==
    << Open("mnttab", "machine", {Error}), List("mnttab", {Error}), EachEntry(6, {Error}),
       Filter, Keep, Return(Ok) >>

SolarisIOCounters ==
    << List("machine", {Error}), Each(6), Filter, Branch({On, Error}), Keep, Return(Ok) >>

SolarisUsage == OneRead
SolarisSerialNumber == << Read("machine", {Error}), Branch({Ok, Error}) >>

AixIOCounters == FilteredTable
AixPartitionsCgo == << List("machine", {Error}), Each(4), Keep, Return(Ok) >>

AixPartitions ==
    << List("machine", {Error}), Read("machine", {On}), Each(6), Filter, Keep, Return(Ok) >>

GetMountFSType ==
    << Read("machine", {Error}), Branch({On, Ok}), Read("machine", {On}), Return(Ok) >>

vfsNames == << List("machine", {On}), Each(5), Filter, Keep, Return(Ok) >>

AixSerialNumber == NamedCommand

-----------------------------------------------------------------------------
Disk ==
    [disk_unix_Usage |-> UnixUsage,
     disk_linux_readMountFile |-> readMountFile, disk_linux_Partitions |-> LinuxPartitions,
     disk_linux_getFileSystems |-> getFileSystems, disk_linux_IOCounters |-> LinuxIOCounters,
     disk_linux_udevData |-> udevData, disk_linux_SerialNumber |-> LinuxSerialNumber,
     disk_linux_Label |-> LinuxLabel,
     disk_win_init |-> initCounters, disk_win_Usage |-> WindowsUsage, disk_win_Partitions |-> WindowsPartitions,
     disk_win_getLogicalDrives |-> getLogicalDrives, disk_win_IOCounters |-> WindowsIOCounters,
     disk_win_getVolumePaths |-> getVolumePaths,
     disk_darwin_Partitions |-> DarwinPartitions, disk_darwin_SerialNumber |-> DarwinSerialNumber,
     disk_darwin_IOCounters |-> DarwinIOCounters, disk_darwin_getDriveStat |-> getDriveStat,
     disk_darwin_fillStat |-> fillStat,
     disk_freebsd_Partitions |-> FreebsdPartitions, disk_openbsd_Partitions |-> OpenbsdPartitions,
     disk_netbsd_Partitions |-> NetbsdPartitions, disk_freebsd_IOCounters |-> FreebsdIOCounters,
     disk_openbsd_IOCounters |-> OpenbsdIOCounters, disk_freebsd_SerialNumber |-> FreebsdSerialNumber,
     disk_openbsd_Usage |-> OpenbsdUsage, disk_netbsd_Usage |-> NetbsdUsage,
     disk_solaris_Partitions |-> SolarisPartitions, disk_solaris_IOCounters |-> SolarisIOCounters,
     disk_solaris_Usage |-> SolarisUsage, disk_solaris_SerialNumber |-> SolarisSerialNumber,
     disk_aix_IOCounters |-> AixIOCounters, disk_aix_PartitionsCgo |-> AixPartitionsCgo,
     disk_aix_Partitions |-> AixPartitions, disk_aix_GetMountFSType |-> GetMountFSType,
     disk_aix_vfsNames |-> vfsNames, disk_aix_SerialNumber |-> AixSerialNumber]

DiskFragile == {"disk_darwin_IOCounters"}

\* A mount or a drive that comes up between two calls, the end of the context.
DiskPartial ==
    {"disk_darwin_Partitions", "disk_freebsd_Partitions", "disk_openbsd_Partitions",
     "disk_netbsd_Partitions", "disk_win_Partitions", "disk_win_getLogicalDrives"}

DiskLeaking == {"disk_darwin_IOCounters"}
=============================================================================
