---------------------------- MODULE MCIfaaManager ----------------------------
(***************************************************************************)
(* Three threads, so that one may use what a second is still making while  *)
(* a third waits for the monitor; two deaths, the second of which may be   *)
(* that of the service bound for the first.                                *)
(***************************************************************************)
EXTENDS IfaaManager

CONSTANTS t1, t2, t3

MCThreads == {t1, t2, t3}
MCMaxDeaths == 2
=============================================================================
