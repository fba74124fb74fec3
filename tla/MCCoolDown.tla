------------------------------ MODULE MCCoolDown ------------------------------
(***************************************************************************)
(* Two users, the default and another level of the list, two failures.   *)
(***************************************************************************)
EXTENDS CoolDown

CONSTANTS owner, guest

MCUsers == {owner, guest}
MCLevels == {0, 5}
MCMaxFaults == 2
=============================================================================
