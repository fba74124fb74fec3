-------------------------- MODULE UdfpsHelperProofs --------------------------
(***************************************************************************)
(* Proofs about the touch status and its watchdog, for any set of binder   *)
(* threads and any length of the nap.                                      *)
(***************************************************************************)
EXTENDS UdfpsHelper, TLAPS

\* While the watchdog naps, a press it saw when it fell asleep has lasted as
\* long as the nap so far.
NapMeasuresThePress ==
    /\ runPc = "sleep" /\ currentIsDownState /\ ~repressed => held + napLeft >= ForceAfter
    /\ runPc \in {"recheck", "force"} /\ currentIsDownState /\ ~repressed => held >= ForceAfter

USE CallersAssumption, TimesAssumption DEF CallersAssumption, TimesAssumption

-----------------------------------------------------------------------------
(* Steps keep the parts of the invariant                                   *)

LEMMA InitInv == Init => TypeOK /\ StuckOnlyByRace /\ NapMeasuresThePress
<1>1. Init => TypeOK
  <2> SUFFICES ASSUME Init PROVE TypeOK
    OBVIOUS
  <2>1. napLeft \in 0..ForceAfter /\ held \in 0..MaxHeld
    BY DEF Init
  <2> QED
    BY <2>1 DEF Init, TypeOK, RunPcs
<1>2. Init => StuckOnlyByRace /\ NapMeasuresThePress
  BY DEF Init, StuckOnlyByRace, NapMeasuresThePress
<1> QED
  BY <1>1, <1>2

\* Only one thread holds the mutex, and a nap is set to ForceAfter at most.
LEMMA TypeStep == TypeOK /\ [Next]_vars => TypeOK'
<1> SUFFICES ASSUME TypeOK, [Next]_vars
             PROVE  TypeOK'
  OBVIOUS
<1>1. ASSUME NEW t \in Callers \cup {Run}, NEW d \in BOOLEAN, SetTouch(t, d)
      PROVE  /\ currentIsDownState' \in BOOLEAN
             /\ fpdown_mutex_lock' \in Callers \cup {Run, NoThread}
             /\ napLeft' \in 0..ForceAfter
             /\ held' \in 0..MaxHeld
             /\ repressed' \in BOOLEAN
             /\ missed' \in BOOLEAN
  BY <1>1 DEF SetTouch, TypeOK
<1>2. ASSUME NEW t \in Callers, TouchDown(t) PROVE TypeOK'
  BY <1>1, <1>2 DEF TouchDown, TypeOK
<1>3. ASSUME NEW t \in Callers, TouchUp(t) PROVE TypeOK'
  BY <1>1, <1>3 DEF TouchUp, TypeOK
<1>4. ASSUME NEW t \in Callers, Notify(t) PROVE TypeOK'
  BY <1>4 DEF Notify, NotifyAll, TypeOK, RunPcs
<1>5. CASE Watchdog
  <2>1. CASE Check
    <3>1. napLeft' \in 0..ForceAfter
      BY <2>1 DEF Check, TypeOK
    <3> QED
      BY <2>1, <3>1 DEF Check, TypeOK, RunPcs
  <2>2. CASE Predicate \/ Park
    BY <2>2 DEF Predicate, Park, TypeOK, RunPcs
  <2>3. CASE NapOver \/ Recheck \/ ForceNotify
    BY <2>3 DEF NapOver, Recheck, ForceNotify, TypeOK, RunPcs
  <2> QED
    BY <1>5, <2>1, <2>2, <2>3 DEF Watchdog
<1>6. CASE SpuriousWake
  BY <1>6 DEF SpuriousWake, TypeOK, RunPcs
<1>7. CASE ForceTouchUp
  BY <1>1, <1>7 DEF ForceTouchUp, TypeOK, RunPcs
<1>8. CASE Tick
  BY <1>8 DEF Tick, TypeOK
<1>9. CASE UNCHANGED vars
  BY <1>9 DEF vars, TypeOK
<1> QED
  BY <1>2, <1>3, <1>4, <1>5, <1>6, <1>7, <1>8, <1>9 DEF Next

\* The property is inductive as it stands: whoever sets the status holds the
\* mutex until the watchdog is notified or has missed it.
LEMMA RaceStep == TypeOK /\ StuckOnlyByRace /\ [Next]_vars => StuckOnlyByRace'
<1> SUFFICES ASSUME TypeOK, StuckOnlyByRace, [Next]_vars
             PROVE  StuckOnlyByRace'
  OBVIOUS
<1> USE DEF StuckOnlyByRace
<1>1. ASSUME NEW t \in Callers, TouchDown(t) PROVE StuckOnlyByRace'
  BY <1>1 DEF TouchDown, SetTouch
<1>2. ASSUME NEW t \in Callers, TouchUp(t) PROVE StuckOnlyByRace'
  BY <1>2 DEF TouchUp, SetTouch
<1>3. ASSUME NEW t \in Callers, Notify(t) PROVE StuckOnlyByRace'
  BY <1>3 DEF Notify, NotifyAll, TypeOK
<1>4. CASE Predicate
  BY <1>4 DEF Predicate, TypeOK
<1>5. CASE Park
  BY <1>5 DEF Park
<1>6. CASE Check \/ NapOver \/ Recheck \/ ForceNotify \/ SpuriousWake
  BY <1>6 DEF Check, NapOver, Recheck, ForceNotify, SpuriousWake
<1>7. CASE ForceTouchUp
  BY <1>7 DEF ForceTouchUp
<1>8. CASE Tick
  BY <1>8 DEF Tick
<1>9. CASE UNCHANGED vars
  BY <1>9 DEF vars
<1> QED
  BY <1>1, <1>2, <1>3, <1>4, <1>5, <1>6, <1>7, <1>8, <1>9 DEF Next, Watchdog

\* A second that passes is one less of the nap and one more of the press.
LEMMA NapStep == TypeOK /\ NapMeasuresThePress /\ [Next]_vars => NapMeasuresThePress'
<1> SUFFICES ASSUME TypeOK, NapMeasuresThePress, [Next]_vars
             PROVE  NapMeasuresThePress'
  OBVIOUS
<1> USE DEF NapMeasuresThePress, TypeOK
<1>1. ASSUME NEW t \in Callers, TouchDown(t) PROVE NapMeasuresThePress'
  BY <1>1 DEF TouchDown, SetTouch, Napping
<1>2. ASSUME NEW t \in Callers, TouchUp(t) PROVE NapMeasuresThePress'
  BY <1>2 DEF TouchUp, SetTouch
<1>3. ASSUME NEW t \in Callers, Notify(t) PROVE NapMeasuresThePress'
  BY <1>3 DEF Notify, NotifyAll
<1>4. CASE Check
  BY <1>4 DEF Check
<1>5. CASE NapOver
  BY <1>5 DEF NapOver
<1>6. CASE Recheck
  BY <1>6 DEF Recheck
<1>7. CASE Predicate \/ Park \/ ForceNotify \/ SpuriousWake \/ ForceTouchUp
  BY <1>7 DEF Predicate, Park, ForceNotify, SpuriousWake, ForceTouchUp
<1>8. CASE Tick
  BY <1>8 DEF Tick
<1>9. CASE UNCHANGED vars
  BY <1>9 DEF vars
<1> QED
  BY <1>1, <1>2, <1>3, <1>4, <1>5, <1>6, <1>7, <1>8, <1>9 DEF Next, Watchdog

LEMMA NapIsEnough == NapMeasuresThePress => ForcedPressWasHeld
  BY DEF NapMeasuresThePress, ForcedPressWasHeld

-----------------------------------------------------------------------------
(* The theorems                                                            *)

\* Every variable keeps its type: the nap never exceeds ForceAfter seconds,
\* the mutex has at most one holder (UdfpsHelper.h:36-38).
THEOREM TypeCorrect == Spec => []TypeOK
  BY InitInv, TypeStep, PTL DEF Spec

\* The watchdog misses a press only through the race between wait()'s look
\* at the predicate and its enrolment (UdfpsHelper.cpp:41-62, 89).
THEOREM OnlyTheRaceMissesAPress == Spec => []StuckOnlyByRace
  BY InitInv, RaceStep, TypeCorrect, PTL DEF Spec

\* The watchdog lifts no press before its ForceAfter seconds, unless that
\* press began during the nap (UdfpsHelper.cpp:94-97).
THEOREM NoOldPressIsCutShort == Spec => []ForcedPressWasHeld
  BY InitInv, NapStep, NapIsEnough, TypeCorrect, PTL DEF Spec
=============================================================================
