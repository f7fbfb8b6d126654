---------------------------- MODULE MCCpuPercent ----------------------------
(* CpuPercent on a small instance; see the .cfg files for the values. *)
EXTENDS CpuPercent

\* CPU 1 runs a guest (user time where guest time is not reported) or has its iowait
\* corrected downwards, CPU 2 idles: the total line sees every mixture.
MCWork == {<<1, "guest">>, <<1, "back">>, <<2, "quiet">>}
=============================================================================
