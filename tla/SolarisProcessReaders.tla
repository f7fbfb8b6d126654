----------------------- MODULE SolarisProcessReaders -----------------------
(***************************************************************************)
(* The readers of process/process_solaris.go, in the notation of           *)
(* ReaderCode.  There is no creation time on this system.                  *)
(***************************************************************************)
EXTENDS ReaderCode, Sequences

\* The link path/a.out, or the name the process was executed by where that
\* does not exist, which is also what a process that is gone looks like.
Exe ==
    << WhenGone(Read("pid", {3, Error}), {3}), Return(Ok), Read("pid", {Error}), Return(Ok) >>

fillFromPathCwd == << Read("pid", {Error}), Return(Ok) >>
fillFromCmdline == << Read("pid", {Error}), Return(Ok) >>

fillFromfdList == << Open("fd", "pid", {Error}), Read("fd", {Error}), Return(Ok) >>

readPidsFromDir ==
    << Open("dir", "machine", {Error}), List("dir", {Error}), Each(6), Filter, Keep, Return(Ok) >>

Processes == << List("machine", {Error}), Each(5), Read("item", {Skip}), Keep, Return(Ok) >>

SolarisProcess ==
    [solaris_Exe |-> Exe, solaris_Cwd |-> fillFromPathCwd, solaris_Cmdline |-> fillFromCmdline,
     solaris_NumFDs |-> fillFromfdList, solaris_pids |-> readPidsFromDir,
     solaris_Processes |-> Processes]
=============================================================================
