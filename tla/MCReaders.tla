----------------------------- MODULE MCReaders -----------------------------
EXTENDS ReaderFlow

Windows == INSTANCE WindowsProcessReaders
Posix == INSTANCE PosixProcessReaders
Linux == INSTANCE LinuxProcessReaders
LinuxN == INSTANCE LinuxNetReaders
Darwin == INSTANCE DarwinProcessReaders
Freebsd == INSTANCE FreebsdProcessReaders
Openbsd == INSTANCE OpenbsdProcessReaders
Solaris == INSTANCE SolarisProcessReaders
Aix == INSTANCE AixProcessReaders
D == INSTANCE DiskReaders
N == INSTANCE NetReaders
M == INSTANCE MemReaders
C == INSTANCE CpuReaders
H == INSTANCE HostReaders
S == INSTANCE SensorReaders
L == INSTANCE LoadReaders
K == INSTANCE DockerReaders
Shared == INSTANCE CommonReaders

AllPrograms ==
    Windows!WindowsProcess @@ Posix!PosixProcess @@ Linux!LinuxProcess @@ LinuxN!LinuxNet
    @@ Darwin!DarwinProcess @@ Freebsd!FreebsdProcess @@ Openbsd!OpenbsdProcess
    @@ Solaris!SolarisProcess @@ Aix!AixProcess @@ D!Disk @@ N!Net
    @@ M!Mem @@ C!Cpu @@ H!Host @@ S!Sensors @@ L!Load @@ K!Docker @@ Shared!Common

AllMixing ==
    Linux!LinuxMixing \cup LinuxN!LinuxNetMixing \cup Darwin!DarwinMixing
    \cup Freebsd!FreebsdMixing \cup Openbsd!OpenbsdMixing \cup Aix!AixMixing
    \cup K!DockerMixing
AllFragile == Posix!PosixFragile \cup Linux!LinuxFragile \cup Aix!AixFragile \cup D!DiskFragile
    \cup N!NetFragile \cup M!MemFragile \cup C!CpuFragile
AllPartial == Windows!WindowsPartial \cup LinuxN!LinuxNetPartial \cup D!DiskPartial \cup N!NetPartial
    \cup C!CpuPartial \cup H!HostPartial \cup Shared!CommonPartial
AllLeaking == D!DiskLeaking \cup Shared!CommonLeaking

\* The points that can be reached from `from', given those found so far.
RECURSIVE Reach(_, _, _)
Reach(steps, found, from) ==
    IF from = {} THEN found
    ELSE LET next == UNION {After(steps, p) : p \in {q \in from : q.result = Busy}}
         IN  Reach(steps, found \cup next, next \ found)

AllFlow == [r \in DOMAIN AllPrograms |-> Reach(AllPrograms[r], {Start}, {Start})]
=============================================================================
