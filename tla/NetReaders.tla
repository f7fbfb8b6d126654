----------------------------- MODULE NetReaders -----------------------------
(***************************************************************************)
(* The readers of package net on the systems other than Linux, in the      *)
(* notation of ReaderCode.  The items are interfaces, protocols or         *)
(* connections: the rows of a table of the kernel or of a command's output.*)
(***************************************************************************)
EXTENDS ReaderCode, Sequences

\* The rows that are wanted and well formed.
FilteredTable == << List("machine", {Error}), Each(5), Filter, Keep, Return(Ok) >>

\* The same where a wanted row that is malformed is an error.
ParsedTable == << List("machine", {Error}), Each(6), Filter, Branch({On, Error}), Keep, Return(Ok) >>

WholeTable == << List("machine", {Error}), Each(4), Keep, Return(Ok) >>

-----------------------------------------------------------------------------
(* Windows *)

\* The interfaces, then the counters of each, with one call or the older one:
\* an interface that is gone by then fails the call.
WindowsIOCounters ==
    << List("machine", {Error}), Each(5), Read("item", {Error}), Keep, Return(Ok) >>

\* The tables of the kinds asked for, up to four; one that cannot be had is
\* left out.
WindowsConnectionsPid ==
    << Branch({On, Error}), Read("machine", {On}), Read("machine", {On}), Read("machine", {On}),
       Read("machine", {On}), Return(Ok) >>

MaxRetry == 10

\* Ask for the table with a buffer that has grown by what was missing and a
\* reserve, at most MaxRetry times; then its rows.
RetriedTable ==
    [i \in 1..(2 * MaxRetry) |->
        IF i % 2 = 0 THEN Branch({2 * MaxRetry + 1})
        ELSE List("machine", {Error} \cup ({i + 2} \ {2 * MaxRetry + 1}))]
    \o << Each(2 * MaxRetry + 3), Keep, Return(Ok) >>

getTCPConnections == RetriedTable
getUDPConnections == RetriedTable

-----------------------------------------------------------------------------
(* macOS and FreeBSD *)

\* netstat for all interfaces (up to 6).  If names in it are cut short, the
\* full names, and netstat again for each that it had no row for; one that is
\* gone by then is left out.
DarwinIOCounters ==
    << Read("machine", {Error}), List("machine", {Error}), Branch({4, 7}),
       Each(14), Filter, Keep,
       List("machine", {Error}), Each(14), Branch({On, 11}), Keep,
       WhenGone(Read("item", {Error}), {Skip}), Filter, Keep,
       Return(Ok) >>

FreebsdIOCounters == ParsedTable

\* lsof: only that it is not installed is an error; a failure without output
\* is an empty list, one with output is read all the same.
CallLsof == << Read("machine", {Error, Ok, On}), Return(Ok) >>

UnixConnectionsPid == FilteredTable

-----------------------------------------------------------------------------
(* OpenBSD, NetBSD, Solaris, AIX *)

\* Where netstat is, its output for bytes, packets and (OpenBSD) errors, and
\* then the rows of all, merged by name.
OpenbsdIOCounters ==
    << Read("machine", {Error}), List("machine", {Error}), List("machine", {Error}), List("machine", {Error}),
       Each(9), Filter, Branch({On, Error}), Keep, Return(Ok) >>

NetbsdIOCounters ==
    << Read("machine", {Error}), List("machine", {Error}), List("machine", {Error}),
       Each(8), Filter, Branch({On, Error}), Keep, Return(Ok) >>

\* "unix" is not implemented; a row that cannot be parsed is left out.
BsdConnections ==
    << Branch({On, Error}), Read("machine", {Error}), List("machine", {Error}),
       Each(7), Filter, Keep, Return(Ok) >>

OpenbsdConnections == BsdConnections
NetbsdConnections == BsdConnections

SolarisIOCounters ==
    << List("machine", {Error}), Each(5), Branch({On, Error}), Keep, Return(Ok) >>

AixIOCountersCgo == WholeTable
AixIOCounters == WholeTable
AixProtoCounters == FilteredTable
AixConnections == ParsedTable

\* The sockets, all rows parsed first; then, until the caller's limit is
\* reached, the process that holds each, which is 0 where rmsock cannot tell.
AixConnectionsPidMax ==
    << List("machine", {Error}), Branch({On, Error}), Each(8), Branch({On, 8}),
       Read("item", {On}), Filter, Keep, Return(Ok) >>

resolveAIXSockToPid == << Read("machine", {On}), Return(Ok) >>

-----------------------------------------------------------------------------
Net ==
    [net_win_IOCounters |-> WindowsIOCounters, net_win_ConnectionsPid |-> WindowsConnectionsPid,
     net_win_getTCPConnections |-> getTCPConnections, net_win_getUDPConnections |-> getUDPConnections,
     net_darwin_IOCounters |-> DarwinIOCounters, net_freebsd_IOCounters |-> FreebsdIOCounters,
     net_unix_CallLsof |-> CallLsof, net_unix_ConnectionsPid |-> UnixConnectionsPid,
     net_openbsd_IOCounters |-> OpenbsdIOCounters, net_netbsd_IOCounters |-> NetbsdIOCounters,
     net_openbsd_Connections |-> OpenbsdConnections, net_netbsd_Connections |-> NetbsdConnections,
     net_solaris_IOCounters |-> SolarisIOCounters,
     net_aix_IOCountersCgo |-> AixIOCountersCgo, net_aix_IOCounters |-> AixIOCounters,
     net_aix_ProtoCounters |-> AixProtoCounters, net_aix_Connections |-> AixConnections,
     net_aix_ConnectionsPidMax |-> AixConnectionsPidMax, net_aix_resolveSock |-> resolveAIXSockToPid]

NetFragile == {"net_win_IOCounters"}

\* The caller's limit on the number of connections.
NetPartial == {"net_aix_ConnectionsPidMax"}
=============================================================================
