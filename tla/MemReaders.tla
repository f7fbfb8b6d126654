----------------------------- MODULE MemReaders -----------------------------
(***************************************************************************)
(* The readers of package mem on every system, in the notation of          *)
(* ReaderCode.  The items are the counters of a file or swap devices.      *)
(* What becomes of the counters is in module MemoryFigures.                *)
(***************************************************************************)
EXTENDS ReaderCode, Sequences

OneRead == << Read("machine", {Error}), Return(Ok) >>
TwoReads == << Read("machine", {Error}), Read("machine", {Error}), Return(Ok) >>
CheckedRead == << Read("machine", {Error}), Branch({Ok, Error}) >>
WholeTable == << List("machine", {Error}), Each(4), Keep, Return(Ok) >>

\* A header that has to be the expected one, and rows that have to be right.
CheckedTable ==
    << List("machine", {Error}), Branch({On, Error}), Each(7), Filter, Branch({On, Error}), Keep, Return(Ok) >>

-----------------------------------------------------------------------------
(* Linux *)

\* A counter the library knows and cannot parse is an error.  Where the
\* kernel gives no available memory, the watermarks are read too; they may
\* be missing.
fillFromMeminfo ==
    << List("machine", {Error}), Each(6), Filter, Branch({On, Error}), Keep,
       Branch({On, Ok}), Read("machine", {On}), Return(Ok) >>

\* Here a counter that cannot be parsed is left out.
LinuxSwapMemory ==
    << Read("machine", {Error}), List("machine", {Error}), Each(6), Filter, Keep, Return(Ok) >>

LinuxSwapDevices == << Open("swaps", "machine", {Error}), Read("swaps", {Error}), Return(Ok) >>

parseSwapsFile ==
    << Read("machine", {Error}), Branch({On, Error}), List("machine", {}), EachEntry(7, {Error}),
       Branch({On, Error}), Keep, Return(Ok) >>

-----------------------------------------------------------------------------
(* Windows *)

WindowsVirtualMemory == OneRead
WindowsExVirtualMemory == TwoReads

\* A performance counter, whose query is closed when the call returns.
WindowsSwapMemory ==
    << Open("query", "machine", {Error}), Read("query", {Error}), Read("machine", {Error}), Return(Ok) >>

\* The page files are handed to a callback; the page size is asked for once.
WindowsSwapDevices == << Read("machine", {}), List("machine", {Error}), Each(5), Keep, Return(Ok) >>

-----------------------------------------------------------------------------
(* macOS, the BSDs, Solaris, AIX, Plan 9 *)

DarwinVirtualMemory ==
    << Open("system", "machine", {Error}), Read("system", {Error}), Read("system", {}),
       Read("machine", {Error}), Return(Ok) >>

DarwinSwapMemory == CheckedRead

\* Seven or eight counters, each a call of its own; only the version of the
\* kernel may be unknown.
FreebsdVirtualMemory ==
    [i \in 1..7 |-> Read("machine", {Error})]
    \o << Read("machine", {On}), Read("machine", {Error}), Return(Ok) >>

\* The number of the devices, then each: one that is gone by then is an error.
FreebsdSwapMemory ==
    << List("machine", {Error}), Branch({On, Error}), Read("machine", {Error}),
       Each(8), Read("item", {Error}), Branch({On, Error}), Keep, Return(Ok) >>

OpenbsdVirtualMemory ==
    << Read("machine", {Error}), Read("machine", {Error}), Branch({Ok, Error}) >>

NetbsdVirtualMemory == TwoReads

\* That there is no swapctl, or that it fails, is no error.
OpenbsdSwapMemory == << Read("machine", {Ok}), Branch({Ok, Error}) >>
NetbsdSwapMemory == OpenbsdSwapMemory

BsdSwapDevices == OneRead
parseSwapctlOutput == CheckedTable

\* The name of the zone; the memory and what is free of it, or (from 6) what
\* the zone may have.
SolarisVirtualMemory ==
    << Read("machine", {Error}), Branch({On, 6}), Read("machine", {Error}), Read("machine", {Error}), Return(Ok),
       Read("machine", {Error}), Return(Ok) >>

SolarisCapacity == CheckedRead
SolarisFree == << Read("machine", {Error}), Branch({On, Error}), Read("machine", {Error}), Return(Ok) >>
SolarisZoneCapacity == CheckedRead
SolarisSwapDevices == OneRead
parseSwapsCommandOutput == CheckedTable

AixVirtualMemoryCgo == OneRead
AixSwapDevicesCgo == WholeTable
AixSwapMemoryCgo == OneRead
AixVirtualMemory == CheckedRead
AixSwapMemory == CheckedRead
AixSwapDevices == WholeTable

Plan9SwapMemory == OneRead
Plan9VirtualMemory == OneRead

-----------------------------------------------------------------------------
Mem ==
    [mem_linux_fillFromMeminfo |-> fillFromMeminfo, mem_linux_SwapMemory |-> LinuxSwapMemory,
     mem_linux_SwapDevices |-> LinuxSwapDevices, mem_linux_parseSwapsFile |-> parseSwapsFile,
     mem_win_VirtualMemory |-> WindowsVirtualMemory, mem_win_ExVirtualMemory |-> WindowsExVirtualMemory,
     mem_win_SwapMemory |-> WindowsSwapMemory, mem_win_SwapDevices |-> WindowsSwapDevices,
     mem_darwin_VirtualMemory |-> DarwinVirtualMemory, mem_darwin_SwapMemory |-> DarwinSwapMemory,
     mem_freebsd_VirtualMemory |-> FreebsdVirtualMemory, mem_freebsd_SwapMemory |-> FreebsdSwapMemory,
     mem_openbsd_VirtualMemory |-> OpenbsdVirtualMemory, mem_netbsd_VirtualMemory |-> NetbsdVirtualMemory,
     mem_openbsd_SwapMemory |-> OpenbsdSwapMemory, mem_netbsd_SwapMemory |-> NetbsdSwapMemory,
     mem_bsd_SwapDevices |-> BsdSwapDevices, mem_bsd_parseSwapctlOutput |-> parseSwapctlOutput,
     mem_solaris_VirtualMemory |-> SolarisVirtualMemory, mem_solaris_capacity |-> SolarisCapacity,
     mem_solaris_free |-> SolarisFree, mem_solaris_zoneCapacity |-> SolarisZoneCapacity,
     mem_solaris_SwapDevices |-> SolarisSwapDevices, mem_solaris_parse |-> parseSwapsCommandOutput,
     mem_aix_VirtualMemoryCgo |-> AixVirtualMemoryCgo, mem_aix_SwapDevicesCgo |-> AixSwapDevicesCgo,
     mem_aix_SwapMemoryCgo |-> AixSwapMemoryCgo, mem_aix_VirtualMemory |-> AixVirtualMemory,
     mem_aix_SwapMemory |-> AixSwapMemory, mem_aix_SwapDevices |-> AixSwapDevices,
     mem_plan9_SwapMemory |-> Plan9SwapMemory, mem_plan9_VirtualMemory |-> Plan9VirtualMemory]

MemFragile == {"mem_freebsd_SwapMemory"}
=============================================================================
