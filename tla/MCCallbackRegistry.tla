-------------------------- MODULE MCCallbackRegistry --------------------------
(***************************************************************************)
(* Two binder threads, two clients, three LinkedCallbacks: one client can  *)
(* register twice while the other registers too.                           *)
(***************************************************************************)
EXTENDS CallbackRegistry

CONSTANTS t1, t2, c1, c2, o1, o2, o3

MCThreads == {t1, t2}
MCClients == {c1, c2}
MCObjs == {o1, o2, o3}
=============================================================================
