----------------------- MODULE MCBiometricsFingerprint -----------------------
(***************************************************************************)
(* One callback may wait, beside the error that answers a cancel; two      *)
(* deaths, of the HAL, of the framework or one of each.                    *)
(***************************************************************************)
EXTENDS BiometricsFingerprint

MCQueueCap == 1
MCMaxDeaths == 2
=============================================================================
