------------------------ MODULE PosixProcessReaders ------------------------
(***************************************************************************)
(* The readers of process/process_posix.go, shared by every Unix.          *)
(***************************************************************************)
EXTENDS ReaderCode, Sequences

\* The terminals under /dev, then those under /dev/pts or, where that cannot
\* be opened, the legacy names; then the device number of each.
getTerminalMap ==
    << Open("dev", "machine", {Error}), List("dev", {Error}),
       Open("pts", "machine", {6}), List("pts", {Error}), Branch({7}),
       List("machine", {On}),
       Each(10), Read("item", {Error}), Keep, Return(Ok) >>

\* The directory of the pid where /proc is mounted, else the null signal,
\* for which "no such process" and "not permitted" are answers.
PidExists ==
    << Branch({On, Error}), Open("osProcess", "machine", {Error}), Branch({4, 6}),
       WhenGone(Read("pid", {Error}), {Ok}), Return(Ok),
       WhenGone(Read("pid", {Ok, Error}), {Ok}), Return(Ok) >>

\* Suspend, Resume, Terminate and Kill are this with a signal each.
SendSignal ==
    << Open("osProcess", "machine", {Error}), Read("pid", {Error}), Return(Ok) >>

Username == << Read("pid", {Error}), Branch({Ok, On}), Read("machine", {Error}), Return(Ok) >>

PosixProcess ==
    [posix_getTerminalMap |-> getTerminalMap, posix_PidExists |-> PidExists,
     posix_SendSignal |-> SendSignal, posix_Username |-> Username]

PosixFragile == {"posix_getTerminalMap"}
=============================================================================
