---------------------------- MODULE OneShotTrigger ----------------------------
(***************************************************************************)
(* What a one-shot sensor promises its framework: an event disarms the     *)
(* sensor, and no two events belong to one arming.  An event that was      *)
(* already under way when the sensor was disarmed may still come, once.    *)
(***************************************************************************)
VARIABLES
    enabled,   \* the sensor is armed
    credit,    \* an event may still come
    parity     \* of the number of events posted

vars == <<enabled, credit, parity>>

TypeOK ==
    /\ enabled \in BOOLEAN
    /\ credit \in BOOLEAN
    /\ parity \in BOOLEAN

Init == ~enabled /\ ~credit /\ parity = FALSE

Arm == ~enabled /\ enabled' /\ credit' /\ UNCHANGED parity

\* The event of this arming may be under way or not.
Disarm ==
    /\ enabled
    /\ ~enabled'
    /\ credit' \in BOOLEAN
    /\ UNCHANGED parity

\* Nothing was under way after all.
Lapse == ~enabled /\ credit /\ ~credit' /\ UNCHANGED <<enabled, parity>>

\* Whether the sensor is armed (again) or not, an event leaves it disarmed.
Fire ==
    /\ credit
    /\ ~credit'
    /\ ~enabled'
    /\ parity' = ~parity

Next == Arm \/ Disarm \/ Lapse \/ Fire

Spec == Init /\ [][Next]_vars

\* No armed sensor has spent its event.
ArmedHasCredit == enabled => credit
=============================================================================
