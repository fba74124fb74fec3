-------------------------- MODULE MCFingerprintStack --------------------------
(***************************************************************************)
(* One crash of syshelper, which restarts the HAL, and one death besides.  *)
(***************************************************************************)
EXTENDS FingerprintStack

MCInputs == {"setNotify", "authenticate", "touchDownCmd", "onAuthenticated"}
MCQueueCap == 1
MCMaxDeaths == 2
MCMaxCrashes == 1
MCForceAfter == 0
MCMaxHeld == 0
=============================================================================
