------------------------------- MODULE CoolDown -------------------------------
(***************************************************************************)
(* The chargespeed app: a charging level that each user saves in a secure  *)
(* setting, and the one node cool_down of the kernel to which it is        *)
(* written when the user picks it, when the user is started and when a     *)
(* charger is plugged.                                                     *)
(*                                                                         *)
(* The app has one process for each user, with one thread.  Its calls of   *)
(* the settings provider and of the file system are single steps, between  *)
(* which the kernel, the other user's process or the end of the process    *)
(* may come.  Every level in the list is at least 0, so the clamp of       *)
(* writeCoolDown changes nothing.                                          *)
(***************************************************************************)
EXTENDS Naturals

CONSTANTS
    Users,
    Levels,      \* the values of the list
    MaxFaults    \* bound: deaths of a process, reboots and failures of a write

ASSUME CoolDownAssumption == /\ "kernel" \notin Users
                             /\ Levels \subseteq Nat
                             /\ 0 \in Levels
                             /\ MaxFaults \in Nat

VARIABLES
    access,     \* of the app to the two names of the node
    node,       \* the level in the kernel
    writer,     \* whose process wrote it last, or "kernel"
    clearDue,   \* the kernel has still to clear it for a charger
    saved,      \* SECURE_KEY of each user
    pending,    \* a broadcast waits for the user's receiver
    pc,         \* what the user's process is doing
    level,      \* its local variable, 0 when it has none
    screen,     \* of each user: "closed", the list, or that it is unavailable
    shown,      \* the level that the list shows
    lost,       \* the last write of this user did not reach the node
    faults      \* failures that may still happen

kernelVars == <<access, node, writer, clearDue>>
screenVars == <<screen, shown>>
appVars == <<saved, pc, level, screenVars, lost>>
vars == <<kernelVars, appVars, pending, faults>>

Paths == {1, 2}
Pcs == {"idle", "restore", "apply", "show"}

TypeOK ==
    /\ access \in [Paths -> {"missing", "readonly", "writable"}]
    /\ node \in Levels
    /\ writer \in Users \cup {"kernel"}
    /\ clearDue \in BOOLEAN
    /\ saved \in [Users -> Levels]
    /\ pending \in [Users -> BOOLEAN]
    /\ pc \in [Users -> Pcs]
    /\ level \in [Users -> Levels]
    /\ screen \in [Users -> {"closed", "list", "unavailable"}]
    /\ shown \in [Users -> Levels]
    /\ \A u \in Users :
         /\ screen[u] = "list" => \E p \in Paths : access[p] # "missing"
         /\ pc[u] \in {"apply", "show"} => screen[u] = "list"
    /\ lost \in [Users -> BOOLEAN]
    /\ faults \in 0..MaxFaults

\* The device has booted, for the first time.
Init ==
    /\ access \in [Paths -> {"missing", "readonly", "writable"}]
    /\ node = 0
    /\ writer = "kernel"
    /\ clearDue = FALSE
    /\ saved = [u \in Users |-> 0]
    /\ pending = [u \in Users |-> FALSE]
    /\ pc = [u \in Users |-> "idle"]
    /\ level = [u \in Users |-> 0]
    /\ screen = [u \in Users |-> "closed"]
    /\ shown = [u \in Users |-> 0]
    /\ lost = [u \in Users |-> FALSE]
    /\ faults = MaxFaults

-----------------------------------------------------------------------------
(* CoolDownUtils                                                           *)

Having(rights) == {p \in Paths : access[p] \in rights}
FirstOf(paths) == IF 1 \in paths THEN 1 ELSE IF 2 \in paths THEN 2 ELSE 0

\* Seeded fault: the first name that exists is taken.
FirstExistingPath == FirstOf(Having({"readonly", "writable"}))

\* The first name that is writable, else the first that exists, else null.
getCoolDownPath ==
    IF Having({"writable"}) # {} THEN FirstOf(Having({"writable"}))
    ELSE FirstOf(Having({"readonly"}))

isSupported == getCoolDownPath # 0

Writable == getCoolDownPath # 0 /\ access[getCoolDownPath] = "writable"

\* What follows the write in the call that made it.
AfterWrite(u) ==
    IF pc[u] = "apply"
    THEN pc' = [pc EXCEPT ![u] = "show"] /\ UNCHANGED level
    ELSE pc' = [pc EXCEPT ![u] = "idle"] /\ level' = [level EXCEPT ![u] = 0]

\* writeCoolDown; both names lead to the same node.
WriteCoolDown(u) ==
    /\ pc[u] \in {"restore", "apply"}
    /\ IF Writable
       THEN /\ node' = level[u]
            /\ writer' = u
            /\ lost' = [lost EXCEPT ![u] = FALSE]
       ELSE /\ lost' = [lost EXCEPT ![u] = TRUE]
            /\ UNCHANGED <<node, writer>>
    /\ AfterWrite(u)
    /\ UNCHANGED <<access, clearDue, saved, screenVars, pending, faults>>

\* Its IOException, which nobody looks at.
WriteFails(u) ==
    /\ pc[u] \in {"restore", "apply"}
    /\ Writable
    /\ faults > 0
    /\ faults' = faults - 1
    /\ lost' = [lost EXCEPT ![u] = TRUE]
    /\ AfterWrite(u)
    /\ UNCHANGED <<kernelVars, saved, screenVars, pending>>

-----------------------------------------------------------------------------
(* The receiver and the screen                                             *)

\* onReceive and the first half of restore.
OnReceive(u) ==
    /\ pc[u] = "idle"
    /\ pending[u]
    /\ pending' = [pending EXCEPT ![u] = FALSE]
    /\ IF isSupported
       THEN /\ level' = [level EXCEPT ![u] = saved[u]]
            /\ pc' = [pc EXCEPT ![u] = "restore"]
       ELSE UNCHANGED <<level, pc>>
    /\ UNCHANGED <<kernelVars, saved, screenVars, lost, faults>>

\* Seeded fault: the screen shows the default of the list.
OnCreatePreferencesDefault(u) ==
    /\ pc[u] = "idle"
    /\ screen[u] = "closed"
    /\ screen' = [screen EXCEPT ![u] = IF isSupported THEN "list" ELSE "unavailable"]
    /\ shown' = [shown EXCEPT ![u] = 0]
    /\ UNCHANGED <<kernelVars, saved, pc, level, lost, pending, faults>>

\* Seeded fault: the list is shown whether the node exists or not.
OnCreatePreferencesUnchecked(u) ==
    /\ pc[u] = "idle"
    /\ screen[u] = "closed"
    /\ screen' = [screen EXCEPT ![u] = "list"]
    /\ shown' = [shown EXCEPT ![u] = saved[u]]
    /\ UNCHANGED <<kernelVars, saved, pc, level, lost, pending, faults>>

OnCreatePreferences(u) ==
    /\ pc[u] = "idle"
    /\ screen[u] = "closed"
    /\ IF isSupported
       THEN /\ screen' = [screen EXCEPT ![u] = "list"]
            /\ shown' = [shown EXCEPT ![u] = saved[u]]
       ELSE /\ screen' = [screen EXCEPT ![u] = "unavailable"]
            /\ UNCHANGED shown
    /\ UNCHANGED <<kernelVars, saved, pc, level, lost, pending, faults>>

\* Seeded fault: the level is applied but not saved.
OnPreferenceChangeUnsaved(u, l) ==
    /\ pc[u] = "idle"
    /\ screen[u] = "list"
    /\ level' = [level EXCEPT ![u] = l]
    /\ pc' = [pc EXCEPT ![u] = "apply"]
    /\ UNCHANGED <<kernelVars, saved, screenVars, lost, pending, faults>>

\* onPreferenceChange up to putInt of saveAndApply; the write follows.
OnPreferenceChange(u, l) ==
    /\ pc[u] = "idle"
    /\ screen[u] = "list"
    /\ saved' = [saved EXCEPT ![u] = l]
    /\ level' = [level EXCEPT ![u] = l]
    /\ pc' = [pc EXCEPT ![u] = "apply"]
    /\ UNCHANGED <<kernelVars, screenVars, lost, pending, faults>>

\* The rest of onPreferenceChange, whatever became of the write.
SetValue(u) ==
    /\ pc[u] = "show"
    /\ shown' = [shown EXCEPT ![u] = level[u]]
    /\ pc' = [pc EXCEPT ![u] = "idle"]
    /\ level' = [level EXCEPT ![u] = 0]
    /\ UNCHANGED <<kernelVars, saved, screen, lost, pending, faults>>

\* The user leaves the screen.
Leave(u) ==
    /\ pc[u] = "idle"
    /\ screen[u] # "closed"
    /\ screen' = [screen EXCEPT ![u] = "closed"]
    /\ shown' = [shown EXCEPT ![u] = 0]
    /\ UNCHANGED <<kernelVars, saved, pc, level, lost, pending, faults>>

-----------------------------------------------------------------------------
(* The kernel and the system                                               *)

\* BOOT_COMPLETED or LOCKED_BOOT_COMPLETED for a user that is started.
UserStarts(u) ==
    /\ pending' = [pending EXCEPT ![u] = TRUE]
    /\ UNCHANGED <<kernelVars, appVars, faults>>

\* ACTION_POWER_CONNECTED goes to all users who are running, and the kernel may
\* clear the node before or after their receivers write it.
ChargerConnects(running) ==
    /\ pending' = [u \in Users |-> pending[u] \/ u \in running]
    /\ clearDue' \in {clearDue, TRUE}
    /\ UNCHANGED <<access, node, writer, appVars, faults>>

KernelClears ==
    /\ clearDue
    /\ clearDue' = FALSE
    /\ node' = 0
    /\ writer' = "kernel"
    /\ UNCHANGED <<access, appVars, pending, faults>>

\* The process is killed, in the middle of a change too.
ProcessDies(u) ==
    /\ faults > 0
    /\ faults' = faults - 1
    /\ pc' = [pc EXCEPT ![u] = "idle"]
    /\ level' = [level EXCEPT ![u] = 0]
    /\ screen' = [screen EXCEPT ![u] = "closed"]
    /\ shown' = [shown EXCEPT ![u] = 0]
    /\ lost' = [lost EXCEPT ![u] = @ \/ pc[u] = "apply"]
    /\ UNCHANGED <<kernelVars, saved, pending>>

Reboot ==
    /\ faults > 0
    /\ faults' = faults - 1
    /\ node' = 0
    /\ writer' = "kernel"
    /\ clearDue' = FALSE
    /\ pending' = [u \in Users |-> FALSE]
    /\ pc' = [u \in Users |-> "idle"]
    /\ level' = [u \in Users |-> 0]
    /\ screen' = [u \in Users |-> "closed"]
    /\ shown' = [u \in Users |-> 0]
    /\ lost' = [u \in Users |-> lost[u] \/ pc[u] = "apply"]
    /\ UNCHANGED <<access, saved>>

AppStep(u) == WriteCoolDown(u) \/ OnReceive(u) \/ SetValue(u)

Next ==
    \/ \E u \in Users :
         \/ AppStep(u)
         \/ WriteFails(u)
         \/ OnCreatePreferences(u)
         \/ \E l \in Levels : OnPreferenceChange(u, l)
         \/ Leave(u)
         \/ UserStarts(u)
         \/ ProcessDies(u)
    \/ \E running \in SUBSET Users : ChargerConnects(running)
    \/ KernelClears
    \/ Reboot

\* A process that has something to do does it, and its broadcasts reach it
\* although its user goes on picking levels.
Fairness == \A u \in Users : WF_vars(WriteCoolDown(u) \/ SetValue(u)) /\ SF_vars(OnReceive(u))

Spec == Init /\ [][Next]_vars /\ Fairness

-----------------------------------------------------------------------------
(* Properties                                                              *)

\* The node holds what the user whose process wrote it last has saved, unless
\* that user's last write was lost or is still to come; only the kernel can
\* take it to 0 behind the app's back (CoolDownUtils.java:70-106).
NodeFollowsSaved ==
    /\ writer = "kernel" => node = 0
    /\ \A u \in Users :
         (writer = u /\ ~lost[u] /\ pc[u] # "apply") => node = saved[u]

\* A level on the screen is the one in the kernel, under the same conditions:
\* the screen is told of no failure, and of no other writer
\* (ChargingSpeedFragment.java:33-56).
ShownIsApplied ==
    \A u \in Users :
        (screen[u] = "list" /\ pc[u] = "idle" /\ writer = u /\ ~lost[u]) =>
            node = shown[u]

\* A broadcast brings the saved level to the node, if nothing fails any more,
\* through whichever name can be written (BootCompletedReceiver.java:21-32,
\* CoolDownUtils.java:34-47).  It may not stay there: a clear that the kernel
\* does later, or another user's receiver, overwrites it.
BroadcastRestores ==
    \A u \in Users :
        (pending[u] /\ faults = 0 /\ \E p \in Paths : access[p] = "writable") ~>
            (node = saved[u])

=============================================================================
