---------------------------- MODULE LoadReaders ----------------------------
(***************************************************************************)
(* The readers of package load on every system but Windows (whose sampler  *)
(* is module LoadAvg), of nfs and of winservices, in the notation of       *)
(* ReaderCode.  The items are processes, threads, lines or services.       *)
(***************************************************************************)
EXTENDS ReaderCode, Sequences

OneRead == << Read("machine", {Error}), Return(Ok) >>
TwoReads == << Read("machine", {Error}), Read("machine", {Error}), Return(Ok) >>
CheckedRead == << Read("machine", {Error}), Branch({Ok, Error}) >>

-----------------------------------------------------------------------------
(* load *)

\* The file, or sysinfo where the file cannot be read or parsed.
LinuxAvg == << Read("machine", {3}), Return(Ok), Read("machine", {Error}), Return(Ok) >>
sysinfoAvg == OneRead
fileAvg == CheckedRead
readLoadAvgFromFile == OneRead

\* Lines of another form are left out; the processes are counted after that.
LinuxMisc ==
    << List("machine", {Error}), Each(5), Filter, Keep, Read("machine", {Error}), Return(Ok) >>

BsdAvg == OneRead
BsdMisc == TwoReads
OpenbsdGetForkStat == CheckedRead
DarwinAvg == OneRead
DarwinMisc == OneRead

SolarisAvg ==
    << List("machine", {Error}), EachEntry(6, {Error}), Filter, Branch({On, Error}), Keep, Return(Ok) >>
SolarisMisc == OneRead

AixAvgCgo == OneRead

\* The processes one by one, then the threads of each: those of a process
\* that has exited meanwhile are not counted.  The other counters may be
\* missing.
AixMiscCgo ==
    << List("machine", {Error}), Each(5), Read("item", {Skip}), Keep,
       Read("machine", {On}), Read("machine", {On}), Return(Ok) >>

AixAvg == OneRead

\* The processes, then the threads, then the counters: three moments.
AixMisc ==
    << List("machine", {Error}), Read("machine", {Error}), Each(5), Keep, Read("machine", {Error}), Return(Ok) >>

-----------------------------------------------------------------------------
(* nfs *)

\* A row of names is remembered until the row of its values comes; a row of
\* values without names is left out, and so is a value without a name.
nfsStats == OneRead
nfsClientStats == OneRead
nfsServerStats == OneRead
parseNfsstat == << List("machine", {}), Each(5), Filter, Keep, Return(Ok) >>

-----------------------------------------------------------------------------
(* winservices *)

\* The manager is disconnected on return; the handle of the service is the
\* caller's, and the package has nothing to close it with.
getService ==
    << Open("manager", "machine", {Error}), OpenBare("service", "manager", {Error}), HandOver("service"), Return(Ok) >>

NewService == OneRead

\* The configuration, which is kept although the status then fails.
GetServiceDetail == TwoReads
QueryServiceConfig == OneRead

\* The length, for which the first call has to fail, then the status.
QueryStatus == << Probe("machine", {3, Error}), Return(Ok), Read("machine", {Error}), Return(Ok) >>

\* Only the names: no service of the list has a handle.
ListServices ==
    << Open("manager", "machine", {Error}), List("manager", {Error}), Each(5), Keep, Return(Ok) >>

-----------------------------------------------------------------------------
Load ==
    [load_linux_Avg |-> LinuxAvg, load_linux_sysinfoAvg |-> sysinfoAvg, load_linux_fileAvg |-> fileAvg,
     load_linux_readLoadAvgFromFile |-> readLoadAvgFromFile, load_linux_Misc |-> LinuxMisc,
     load_bsd_Avg |-> BsdAvg, load_bsd_Misc |-> BsdMisc, load_openbsd_getForkStat |-> OpenbsdGetForkStat,
     load_darwin_Avg |-> DarwinAvg, load_darwin_Misc |-> DarwinMisc,
     load_solaris_Avg |-> SolarisAvg, load_solaris_Misc |-> SolarisMisc,
     load_aix_AvgCgo |-> AixAvgCgo, load_aix_MiscCgo |-> AixMiscCgo,
     load_aix_Avg |-> AixAvg, load_aix_Misc |-> AixMisc,
     nfs_stats |-> nfsStats, nfs_ClientStats |-> nfsClientStats, nfs_ServerStats |-> nfsServerStats,
     nfs_parseNfsstat |-> parseNfsstat,
     winservices_getService |-> getService, winservices_NewService |-> NewService,
     winservices_GetServiceDetail |-> GetServiceDetail,
     winservices_QueryServiceConfig |-> QueryServiceConfig, winservices_QueryStatus |-> QueryStatus,
     winservices_ListServices |-> ListServices]
=============================================================================
