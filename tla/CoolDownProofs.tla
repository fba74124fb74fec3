---------------------------- MODULE CoolDownProofs ----------------------------
(***************************************************************************)
(* Proofs about the chargespeed app, for any number of users, levels and   *)
(* failures.                                                               *)
(***************************************************************************)
EXTENDS CoolDown, TLAPS

\* A call that has not returned works with the level that is saved: nothing
\* saves another one in between.
LocalInv == \A u \in Users : pc[u] # "idle" => level[u] = saved[u]

\* The list shows what is saved, until it is changed.
ShownInv ==
    \A u \in Users :
        (screen[u] = "list" /\ pc[u] \in {"idle", "restore"}) => shown[u] = saved[u]

CoolDownInv == TypeOK /\ LocalInv /\ ShownInv /\ NodeFollowsSaved

USE CoolDownAssumption DEF CoolDownAssumption

-----------------------------------------------------------------------------
LEMMA ListMeansSupported ==
    ASSUME TypeOK, isSupported
    PROVE  \E p \in Paths : access[p] # "missing"
BY DEF isSupported, getCoolDownPath, FirstOf, Having, Paths

LEMMA InitEstablishes == Init => CoolDownInv
<1> SUFFICES ASSUME Init PROVE CoolDownInv
  OBVIOUS
<1>1. TypeOK
  <2>1. faults \in 0..MaxFaults
    BY DEF Init
  <2>2. /\ pc \in [Users -> Pcs]
        /\ screen \in [Users -> {"closed", "list", "unavailable"}]
        /\ \A u \in Users : screen[u] = "closed" /\ pc[u] = "idle"
    BY DEF Init, Pcs
  <2> QED
    BY <2>1, <2>2 DEF Init, TypeOK
<1>2. LocalInv /\ ShownInv /\ NodeFollowsSaved
  BY DEF Init, LocalInv, ShownInv, NodeFollowsSaved
<1> QED
  BY <1>1, <1>2 DEF CoolDownInv

LEMMA WritePreserves ==
    ASSUME CoolDownInv, NEW u \in Users, WriteCoolDown(u) \/ WriteFails(u)
    PROVE  CoolDownInv'
<1> USE DEF CoolDownInv
<1>1. /\ UNCHANGED <<access, clearDue, saved, screenVars, pending>>
      /\ pc[u] \in {"restore", "apply"}
      /\ \A v \in Users \ {u} : pc'[v] = pc[v] /\ level'[v] = level[v] /\ lost'[v] = lost[v]
      /\ pc'[u] = IF pc[u] = "apply" THEN "show" ELSE "idle"
      /\ pc[u] = "apply" => level'[u] = level[u]
      /\ \/ node' = level[u] /\ writer' = u /\ ~lost'[u]
         \/ UNCHANGED <<node, writer>> /\ lost'[u]
  BY DEF WriteCoolDown, WriteFails, AfterWrite, kernelVars, TypeOK
<1>2. TypeOK'
  <2>1. lost' \in [Users -> BOOLEAN]
    BY DEF WriteCoolDown, WriteFails, TypeOK
  <2>2. faults' \in 0..MaxFaults
    <3>1. faults' = faults \/ (faults > 0 /\ faults' = faults - 1)
      BY DEF WriteCoolDown, WriteFails
    <3> QED
      BY <3>1 DEF TypeOK
  <2>3. AfterWrite(u)
    BY DEF WriteCoolDown, WriteFails
  <2>4. pc' \in [Users -> Pcs] /\ level' \in [Users -> Levels]
    BY <2>3 DEF AfterWrite, TypeOK, Pcs
  <2> QED
    BY <1>1, <2>1, <2>2, <2>4 DEF TypeOK, screenVars
<1>3. LocalInv'
  BY <1>1 DEF LocalInv, TypeOK
<1>4. ShownInv'
  BY <1>1 DEF ShownInv, TypeOK, screenVars
<1>5. NodeFollowsSaved'
  BY <1>1 DEF NodeFollowsSaved, LocalInv, TypeOK
<1> QED
  BY <1>2, <1>3, <1>4, <1>5

LEMMA OnReceivePreserves ==
    ASSUME CoolDownInv, NEW u \in Users, OnReceive(u)
    PROVE  CoolDownInv'
<1> USE DEF CoolDownInv
<1>1. UNCHANGED <<kernelVars, saved, screenVars, lost, faults>> /\ pc[u] = "idle"
  BY DEF OnReceive
<1>2. CASE isSupported
  <2>1. /\ level' = [level EXCEPT ![u] = saved[u]]
        /\ pc' = [pc EXCEPT ![u] = "restore"]
    BY <1>2 DEF OnReceive
  <2>2. TypeOK'
    BY <1>1, <2>1 DEF OnReceive, TypeOK, Pcs, kernelVars, screenVars
  <2> QED
    BY <1>1, <2>1, <2>2
    DEF TypeOK, LocalInv, ShownInv, NodeFollowsSaved, kernelVars, screenVars
<1>3. CASE ~isSupported
  <2>1. UNCHANGED <<level, pc>>
    BY <1>3 DEF OnReceive
  <2>2. TypeOK'
    BY <1>1, <2>1 DEF OnReceive, TypeOK, Pcs, kernelVars, screenVars
  <2> QED
    BY <1>1, <2>1, <2>2
    DEF LocalInv, ShownInv, NodeFollowsSaved, kernelVars, screenVars
<1> QED
  BY <1>2, <1>3

LEMMA OnCreatePreferencesPreserves ==
    ASSUME CoolDownInv, NEW u \in Users, OnCreatePreferences(u)
    PROVE  CoolDownInv'
<1> USE DEF CoolDownInv
<1>1. /\ UNCHANGED <<kernelVars, saved, pc, level, lost, pending, faults>>
      /\ pc[u] = "idle"
  BY DEF OnCreatePreferences
<1>2. /\ screen' \in [Users -> {"closed", "list", "unavailable"}]
      /\ shown' \in [Users -> Levels]
      /\ \A v \in Users \ {u} : screen'[v] = screen[v] /\ shown'[v] = shown[v]
      /\ screen'[u] = "list" => isSupported /\ shown'[u] = saved[u]
  BY DEF OnCreatePreferences, TypeOK
<1>3. TypeOK'
  BY <1>1, <1>2, ListMeansSupported DEF TypeOK, kernelVars
<1> QED
  BY <1>1, <1>2, <1>3 DEF LocalInv, ShownInv, NodeFollowsSaved, kernelVars

LEMMA OnPreferenceChangePreserves ==
    ASSUME CoolDownInv, NEW u \in Users, NEW l \in Levels, OnPreferenceChange(u, l)
    PROVE  CoolDownInv'
<1> USE DEF CoolDownInv
<1>1. TypeOK'
  BY DEF OnPreferenceChange, TypeOK, Pcs, kernelVars, screenVars
<1>2. LocalInv'
  BY DEF OnPreferenceChange, TypeOK, LocalInv
<1>3. ShownInv'
  BY DEF OnPreferenceChange, TypeOK, ShownInv, screenVars
<1>4. NodeFollowsSaved'
  BY DEF OnPreferenceChange, TypeOK, NodeFollowsSaved, kernelVars
<1> QED
  BY <1>1, <1>2, <1>3, <1>4

LEMMA SetValuePreserves ==
    ASSUME CoolDownInv, NEW u \in Users, SetValue(u)
    PROVE  CoolDownInv'
<1> USE DEF CoolDownInv
<1>1. TypeOK'
  BY DEF SetValue, TypeOK, Pcs, kernelVars
<1>2. LocalInv' /\ NodeFollowsSaved'
  BY DEF SetValue, TypeOK, LocalInv, NodeFollowsSaved, kernelVars
<1>3. ShownInv'
  BY DEF SetValue, TypeOK, LocalInv, ShownInv
<1> QED
  BY <1>1, <1>2, <1>3

LEMMA LeavePreserves ==
    ASSUME CoolDownInv, NEW u \in Users, Leave(u)
    PROVE  CoolDownInv'
<1> USE DEF CoolDownInv
<1>1. TypeOK'
  BY DEF Leave, TypeOK, kernelVars
<1>2. LocalInv' /\ NodeFollowsSaved' /\ ShownInv'
  BY DEF Leave, TypeOK, LocalInv, NodeFollowsSaved, ShownInv, kernelVars
<1> QED
  BY <1>1, <1>2

\* Broadcasts and the kernel.
LEMMA SystemPreserves ==
    ASSUME CoolDownInv,
           \/ \E u \in Users : UserStarts(u)
           \/ \E running \in SUBSET Users : ChargerConnects(running)
           \/ KernelClears
    PROVE  CoolDownInv'
<1> USE DEF CoolDownInv
<1>1. UNCHANGED <<access, appVars, faults>>
  BY DEF UserStarts, ChargerConnects, KernelClears, kernelVars
<1>2. UNCHANGED <<node, writer>> \/ (node' = 0 /\ writer' = "kernel")
  BY DEF UserStarts, ChargerConnects, KernelClears, kernelVars
<1>3. TypeOK'
  <2>1. clearDue' \in BOOLEAN /\ pending' \in [Users -> BOOLEAN]
    BY DEF UserStarts, ChargerConnects, KernelClears, kernelVars, TypeOK
  <2> QED
    BY <1>1, <1>2, <2>1 DEF TypeOK, appVars, screenVars
<1> QED
  BY <1>1, <1>2, <1>3 DEF LocalInv, ShownInv, NodeFollowsSaved, appVars, screenVars

LEMMA ProcessDiesPreserves ==
    ASSUME CoolDownInv, NEW u \in Users, ProcessDies(u)
    PROVE  CoolDownInv'
<1> USE DEF CoolDownInv
<1>1. TypeOK'
  BY DEF ProcessDies, TypeOK, Pcs, kernelVars
<1>2. LocalInv' /\ ShownInv'
  BY DEF ProcessDies, TypeOK, LocalInv, ShownInv
<1>3. NodeFollowsSaved'
  BY DEF ProcessDies, TypeOK, NodeFollowsSaved, kernelVars
<1> QED
  BY <1>1, <1>2, <1>3

LEMMA RebootPreserves ==
    ASSUME CoolDownInv, Reboot
    PROVE  CoolDownInv'
<1> USE DEF CoolDownInv
<1>1. TypeOK'
  <2>1. faults' \in 0..MaxFaults /\ lost' \in [Users -> BOOLEAN]
    BY DEF Reboot, TypeOK
  <2>2. /\ pc' \in [Users -> Pcs]
        /\ screen' \in [Users -> {"closed", "list", "unavailable"}]
        /\ \A u \in Users : screen'[u] = "closed" /\ pc'[u] = "idle"
    BY DEF Reboot, Pcs
  <2> QED
    BY <2>1, <2>2 DEF Reboot, TypeOK
<1>2. LocalInv' /\ ShownInv' /\ NodeFollowsSaved'
  BY DEF Reboot, LocalInv, ShownInv, NodeFollowsSaved
<1> QED
  BY <1>1, <1>2

LEMMA StepPreserves == CoolDownInv /\ [Next]_vars => CoolDownInv'
<1> SUFFICES ASSUME CoolDownInv, [Next]_vars PROVE CoolDownInv'
  OBVIOUS
<1>1. CASE UNCHANGED vars
  BY <1>1 DEF CoolDownInv, TypeOK, LocalInv, ShownInv, NodeFollowsSaved,
              vars, kernelVars, appVars, screenVars
<1>2. CASE Next
  BY <1>2, WritePreserves, OnReceivePreserves, OnCreatePreferencesPreserves,
     OnPreferenceChangePreserves, SetValuePreserves, LeavePreserves, SystemPreserves,
     ProcessDiesPreserves, RebootPreserves
  DEF Next, AppStep
<1> QED
  BY <1>1, <1>2

LEMMA CoolDownInvHolds == Spec => []CoolDownInv
BY InitEstablishes, StepPreserves, PTL DEF Spec

-----------------------------------------------------------------------------
\* The types of the app: the list is open only if there is a node, and stays
\* open while a change is applied (ChargingSpeedFragment.java:20-56).
THEOREM CoolDownTypeCorrect == Spec => []TypeOK
BY CoolDownInvHolds, PTL DEF CoolDownInv

\* The node holds what its last writer saved, unless that write was lost or is
\* to come (CoolDownUtils.java:70-106).
THEOREM NodeAlwaysFollowsSaved == Spec => []NodeFollowsSaved
BY CoolDownInvHolds, PTL DEF CoolDownInv

\* So does the list on the screen (ChargingSpeedFragment.java:33-56).
THEOREM ShownAlwaysApplied == Spec => []ShownIsApplied
<1>1. CoolDownInv => ShownIsApplied
  BY DEF CoolDownInv, ShownInv, NodeFollowsSaved, ShownIsApplied
<1> QED
  BY <1>1, CoolDownInvHolds, PTL

=============================================================================
