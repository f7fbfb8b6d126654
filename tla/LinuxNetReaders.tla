-------------------------- MODULE LinuxNetReaders --------------------------
(***************************************************************************)
(* The readers of net/net_linux.go, in the notation of ReaderCode: the     *)
(* counters, whose files are walked line by line, and the inventory of     *)
(* sockets that Connections joins with /proc/net.                          *)
(***************************************************************************)
EXTENDS ReaderCode, Sequences

\* /proc/net/dev: a line without a name or with too few columns is passed
\* over, one with a bad number is an error.
IOCountersByFile ==
    << List("machine", {Error}), Branch({On, Error}),
       Each(7), Filter, Branch({On, Error}), Keep, Return(Ok) >>

\* /proc/net/snmp, the protocols asked for; a malformed line is an error even
\* for a protocol that is not.
ProtoCounters ==
    << List("machine", {Error}), Each(7), Branch({On, Error}), Filter, Branch({On, Error}), Keep,
       Return(Ok) >>

FilterCounters == << Read("machine", {Error}), Read("machine", {Error}), Return(Ok) >>

conntrackStatsFromFile == << List("machine", {Error}), Each(5), Filter, Keep, Return(Ok) >>

\* The descriptors of a process, up to the caller's limit if there is one
\* (then an empty directory is an error), each found through the pid again;
\* what is no socket, or cannot be read any more, is passed over.
getProcInodes ==
    << Open("fd", "pid", {Error}), List("fd", {Error}),
       Each(8), Branch({On, 8}), Read("part", {Skip}), Filter, Keep, Return(Ok) >>

Pids ==
    << Open("proc", "machine", {Error}), List("proc", {Error}), Each(6), Filter, Keep, Return(Ok) >>

getUids == << Read("pid", {Error}), Return(Ok) >>

\* Mutant: ESRCH does not count as gone.
getProcInodesAllNoESRCH ==
    << List("machine", {Error}), Each(6), Read("item", {Skip, Error}), Filter, Keep, Return(Ok) >>

\* Every process's sockets.  isProcessGone passes over the processes that are
\* gone or not accessible; any other error ends the walk.
getProcInodesAll ==
    << List("machine", {Error}), Each(6),
       WhenGone(Read("item", {Skip, Error}), {Skip}), Filter, Keep, Return(Ok) >>

\* One process's sockets, then /proc/<pid>/net/*; the owner of each row is
\* looked up by its pid.
ConnectionsPid ==
    << Branch({On, Error}), Read("pid", {Ok}), Branch({Ok, On}), Read("pid", {Error}),
       Read("pid", {On}), Return(Ok) >>

\* The same for all processes: the sockets of each, the tables, and the owner
\* of each row if its process is still there.  A row that has the addresses
\* and the state of an earlier one is left out.
ConnectionsAll ==
    << Branch({On, Error}), Read("machine", {Error}), List("machine", {Error}), Each(8), Filter,
       Read("item", {On}), Keep, Return(Ok) >>

\* That there is no table for IPv6 is no error; a row with a bad address is
\* left out, while in the table of unix sockets a bad type is an error.
processInet == << Branch({On, Ok}), List("machine", {Error}), Each(6), Filter, Keep, Return(Ok) >>

processUnix ==
    << List("machine", {Error}), Each(6), Filter, Branch({On, Error}), Keep, Return(Ok) >>

LinuxNet ==
    [linuxnet_IOCounters |-> IOCountersByFile, linuxnet_ProtoCounters |-> ProtoCounters,
     linuxnet_FilterCounters |-> FilterCounters, linuxnet_Conntrack |-> conntrackStatsFromFile,
     linuxnet_getProcInodes |-> getProcInodes, linuxnet_Pids |-> Pids, linuxnet_getUids |-> getUids,
     linuxnet_getProcInodesAll |-> getProcInodesAll, linuxnet_ConnectionsPid |-> ConnectionsPid,
     linuxnet_ConnectionsAll |-> ConnectionsAll, linuxnet_processInet |-> processInet,
     linuxnet_processUnix |-> processUnix]

LinuxNetMixing == {"linuxnet_getProcInodes", "linuxnet_ConnectionsPid"}

\* The caller's limit on the number of descriptors.
LinuxNetPartial == {"linuxnet_getProcInodes"}
=============================================================================
