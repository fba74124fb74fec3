---------------------------- MODULE SensorsSubHal ----------------------------
(***************************************************************************)
(* The sensors sub-HAL around its one sensor: mCallback, through which the *)
(* sensor's thread posts, is stored by initialize and destroyed before the *)
(* sensor is, both without the sensor's mutex.                             *)
(*                                                                         *)
(* The callers are those of UdfpsSensor; the HAL proxy, which is not in    *)
(* the repository, keeps initialize apart from the other calls, disarms    *)
(* the sensors before it, and arms none before the first.                  *)
(* mCurrentOperationMode is only written; flush, batch and the injection   *)
(* of an event do nothing to a one-shot sensor.                            *)
(***************************************************************************)
EXTENDS UdfpsSensor

CONSTANT None    \* no caller

ASSUME NoneAssumption == None \notin Callers

VARIABLES
    mCallback,      \* "null", "live", "freed" while it is replaced, or "destroyed"
    initializer     \* the caller in initialize

subVars == <<mCallback, initializer>>
subHalVars == <<vars, subVars>>

SubHalTypeOK ==
    /\ TypeOK
    /\ mCallback \in {"null", "live", "freed", "destroyed"}
    /\ initializer \in Callers \cup {None}
    /\ mCallback = "freed" => initializer # None
    /\ initializer # None =>
         /\ life = "built"
         /\ \A p \in Callers \ {initializer} : pc[p] = "idle"

\* The constructor adds the sensor, which starts its thread.
SubHalInit ==
    /\ Init
    /\ mCallback = "null"
    /\ initializer = None

NoCall == initializer = None /\ \A p \in Callers : pc[p] = "idle"

\* initialize assigns the new callback: the old one goes first.
Initialize(p) ==
    /\ life = "built"
    /\ NoCall
    /\ mCallback \in {"null", "live"}
    /\ ~mIsEnabled
    /\ mCallback' = IF mCallback = "live" THEN "freed" ELSE "live"
    /\ initializer' = p
    /\ UNCHANGED vars

StoreCallback ==
    /\ mCallback = "freed"
    /\ mCallback' = "live"
    /\ UNCHANGED <<vars, initializer>>

\* The rest of initialize: the sensors go back to NORMAL.
ResetMode ==
    /\ initializer # None
    /\ mCallback = "live"
    /\ SetOperationMode(initializer, "NORMAL")
    /\ UNCHANGED subVars

\* A call that only has to reach the sensor.
CallSensor(p) ==
    /\ initializer = None
    /\ mCallback = "live"
    /\ \/ \E enable \in BOOLEAN : Activate(p, enable)
       \/ \E mode \in Modes : SetOperationMode(p, mode)
    /\ UNCHANGED subVars

\* setOperationMode returns, from initialize too.
FinishMode(p) ==
    /\ InterruptAfterMode(p)
    /\ initializer' = IF initializer = p THEN None ELSE initializer
    /\ UNCHANGED mCallback

\* The members are destroyed in the reverse of their order.
DestroyCallback ==
    /\ life = "built"
    /\ NoCall
    /\ mCallback \in {"null", "live"}
    /\ mCallback' = "destroyed"
    /\ UNCHANGED <<vars, initializer>>

DestroySensors ==
    /\ mCallback = "destroyed"
    /\ DestroyUdfpsSensor
    /\ UNCHANGED subVars

\* What the sensor and the panel do on their own; a post that meets "freed" or
\* "destroyed" uses a callback that is gone.
SensorStepAlone ==
    /\ \/ Construction \/ Destruction
       \/ RunThread \/ SpuriousWake \/ PollFails \/ HandleBadRead
       \/ PanelReports
    /\ UNCHANGED subVars

SubHalNext ==
    \/ \E p \in Callers : Initialize(p) \/ CallSensor(p) \/ FinishMode(p)
    \/ StoreCallback
    \/ ResetMode
    \/ DestroyCallback
    \/ DestroySensors
    \/ SensorStepAlone

SubHalSpec == SubHalInit /\ [][SubHalNext]_subHalVars /\ Fairness

-----------------------------------------------------------------------------
(* Properties                                                              *)

\* Whatever the thread posts goes through a callback that is there, with two
\* exceptions that the code leaves open: the one event that comes after a
\* disarm may meet the callback of a framework that is being replaced, and
\* the callback is destroyed while the thread still runs
\* (SensorsSubHal.cpp:140-149, SensorsSubHal.h:80-82).
EventsHaveACallback ==
    [][events' # events =>
         \/ mCallback = "live"
         \/ ~mIsEnabled /\ runPc = "polled"
         \/ mCallback = "destroyed"]_subHalVars

=============================================================================
