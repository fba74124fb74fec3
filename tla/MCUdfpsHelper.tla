---------------------------- MODULE MCUdfpsHelper ----------------------------
(***************************************************************************)
(* Two binder threads, the real nap of three seconds, and one second more  *)
(* than that on the press's clock.                                         *)
(***************************************************************************)
EXTENDS UdfpsHelper

CONSTANTS b1, b2, watchdog

MCCallers == {b1, b2}
MCForceAfter == 3
MCMaxHeld == 4
=============================================================================
