--------------------------- MODULE SensorReaders ---------------------------
(***************************************************************************)
(* The readers of package sensors, in the notation of ReaderCode.  The     *)
(* items are sensors.                                                      *)
(***************************************************************************)
EXTENDS ReaderCode, Sequences

\* A file that need not exist and need not be readable.
optionalValueReadFromFile == << Probe("machine", {Ok}), Read("machine", {Ok}), Return(Ok) >>

\* One pattern, and another where the first has no file.
getTemperatureFiles ==
    << Read("machine", {Error}), Branch({On, Ok}), Read("machine", {Error}), Return(Ok) >>

\* A sensor that cannot be read, or that is gone since the files were listed,
\* is left out with a warning; the warnings are returned as an error next to
\* the list.  Where there are no sensors the older thermal zones (from 9) are
\* walked in the same way.
LinuxTemperatures ==
    << List("machine", {Error}), Branch({On, 9}),
       Each(8), Read("item", {On}), Read("item", {Skip}), Read("item", {Skip}), Keep, Branch({Ok, Error}),
       List("machine", {Error}), Each(14), Read("item", {Skip}), Read("item", {Skip}), Keep, Branch({Ok, Error}) >>

LinuxExTemperature ==
    << List("machine", {Error}), Each(6), Read("item", {On}), Read("item", {Skip}), Keep, Branch({Ok, Error}) >>

-----------------------------------------------------------------------------
(* macOS *)

\* A fixed list of keys: one that cannot be read is reported as 0.
DarwinTemperatures ==
    << Open("smc", "machine", {Error}), List("machine", {}), Each(6), Read("smc", {On}), Keep, Return(Ok) >>

\* The size and type of the value, then the value.
readSMC == << Read("machine", {Error}), Read("machine", {Error, Ok}), Return(Ok) >>

\* The libraries, opened once; the pattern and the client, which are released
\* on return.
Arm64Temperatures ==
    << Read("machine", {Error}), Open("sensors", "machine", {}), Open("system", "machine", {}),
       Read("system", {}), Return(Ok) >>

\* Every service: without an event (a sensor switched off) or without a name
\* it is left out, and so is another of the same name (9).
getSensors ==
    << List("machine", {Ok}), Open("services", "machine", {}), Open("product", "machine", {}),
       Each(13), OpenBare("event", "services", {Skip}), Close("event"),
       OpenBare("name", "services", {Skip}), Branch({9, 11}),
       Close("name"), Branch({Skip}),
       Close("name"), Keep, Return(Ok) >>

\* Two numbers and two strings, released on return, of which the dictionary
\* is made that the caller gets.
matching ==
    << Open("pageNum", "machine", {}), Open("usageNum", "machine", {}), Open("k1", "machine", {}),
       Open("k2", "machine", {}), Read("k1", {}), Return(Ok) >>

-----------------------------------------------------------------------------
(* Windows and Solaris *)

WindowsTemperatures == << List("machine", {Error}), Each(4), Keep, Return(Ok) >>

\* ipmitool's lines: one that is no temperature is left out, one that cannot
\* be read, or a number that is none, ends the call.
SolarisTemperatures ==
    << List("machine", {Error}), EachEntry(6, {Error}), Filter, Branch({On, Error}), Keep, Return(Ok) >>

-----------------------------------------------------------------------------
Sensors ==
    [sensors_linux_optionalValue |-> optionalValueReadFromFile,
     sensors_linux_getTemperatureFiles |-> getTemperatureFiles,
     sensors_linux_Temperatures |-> LinuxTemperatures, sensors_linux_ExTemperature |-> LinuxExTemperature,
     sensors_darwin_Temperatures |-> DarwinTemperatures, sensors_darwin_readSMC |-> readSMC,
     sensors_arm64_Temperatures |-> Arm64Temperatures, sensors_arm64_getSensors |-> getSensors,
     sensors_arm64_matching |-> matching,
     sensors_win_Temperatures |-> WindowsTemperatures, sensors_solaris_Temperatures |-> SolarisTemperatures]
=============================================================================
