--------------------------- MODULE DockerReaders ---------------------------
(***************************************************************************)
(* The readers of package docker on Linux, in the notation of ReaderCode.  *)
(* The container stands where the process stands elsewhere: "pid" is the   *)
(* container, looked up by its ID.  A container that is restarted keeps    *)
(* its ID and gets a new control group, the next incarnation.              *)
(***************************************************************************)
EXTENDS ReaderCode, Sequences

\* docker ps: a line of another form than expected is left out.
GetDockerStat == << List("machine", {Error}), Each(5), Filter, Keep, Return(Ok) >>
GetDockerIDList == GetDockerStat

\* A container ID that is a path is refused.  The file is looked for in the
\* layout of the cgroupfs driver (or the caller's); if it is not there, the
\* path is that of the systemd driver, whether or not there is such a file.
getCgroupFilePath == << Branch({On, Error}), Probe("pid", {On}), Return(Ok) >>

\* A call of getCgroupFilePath: only the name can make it fail.
FindFile == WhenGone(Probe("pid", {Error}), {On})

OneFile == << FindFile, Read("pid", {Error}), Branch({Ok, Error}) >>

getCgroupMemFile == OneFile
getCgroupMemFileV2 == OneFile
getCgroupMemFailCntV2 == OneFile

cgroupCPUV2 == << FindFile, Read("pid", {Error}), Return(Ok) >>

\* Control groups of version 2, or from 6; cpuacct.stat, then cpuacct.usage,
\* which is found anew.
CgroupCPU ==
    << Branch({6, On}), FindFile, Read("pid", {Error}), Read("pid", {Error}), Return(Ok),
       Read("pid", {Error}), Return(Ok) >>

CgroupCPUUsage ==
    << Branch({5, On}), FindFile, Read("pid", {Error}), Branch({Ok, Error}),
       Read("pid", {Error}), Return(Ok) >>

\* memory.stat must be there; of the four other files each may be missing,
\* and its figure is then 0.
MemFiles ==
    << FindFile, Read("pid", {Error}), Read("pid", {On}), Read("pid", {On}), Read("pid", {On}),
       Read("pid", {On}), Return(Ok) >>

cgroupMemV2 == MemFiles

CgroupMem == << Branch({On, 4}), Read("pid", {Error}), Return(Ok) >> \o MemFiles

\* The directory of the calling process: its own path below the root, or the
\* root itself where that does not exist.
cgroupOwnDir == << Read("machine", {Error}), Branch({On, Error}), Probe("machine", {On}), Return(Ok) >>

CgroupCPUOwn == << Read("machine", {Error}), Read("machine", {Error}), Return(Ok) >>
CgroupMemOwn == CgroupCPUOwn

-----------------------------------------------------------------------------
Docker ==
    [docker_GetDockerStat |-> GetDockerStat, docker_GetDockerIDList |-> GetDockerIDList,
     docker_getCgroupFilePath |-> getCgroupFilePath, docker_getCgroupMemFile |-> getCgroupMemFile,
     docker_getCgroupMemFileV2 |-> getCgroupMemFileV2, docker_getCgroupMemFailCntV2 |-> getCgroupMemFailCntV2,
     docker_cgroupCPUV2 |-> cgroupCPUV2, docker_CgroupCPU |-> CgroupCPU,
     docker_CgroupCPUUsage |-> CgroupCPUUsage, docker_cgroupMemV2 |-> cgroupMemV2,
     docker_CgroupMem |-> CgroupMem, docker_cgroupOwnDir |-> cgroupOwnDir,
     docker_CgroupCPUOwn |-> CgroupCPUOwn, docker_CgroupMemOwn |-> CgroupMemOwn]

\* Several files of a container that may be restarted between two of them.
DockerMixing == {"docker_CgroupCPU", "docker_cgroupMemV2", "docker_CgroupMem"}
=============================================================================
