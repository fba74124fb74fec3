----------------------------- MODULE UdfpsHelper -----------------------------
(***************************************************************************)
(* The touch status of the syshelper service (src/syshelper/UdfpsHelper)   *)
(* and the watchdog thread that lifts a press nobody lifted.               *)
(*                                                                         *)
(* Binder threads run touchDown and touchUp.  Each sets                    *)
(* currentIsDownState under fpdown_mutex_lock and notifies mWaitCV before  *)
(* it unlocks.  The watchdog waits on mWaitCV with ANOTHER mutex,          *)
(* run_mutex_lock, so a notification can fall between its evaluation of    *)
(* the predicate and its enrolment as a waiter.  Such a notification is    *)
(* lost, and the history variable missed records that it was that of a     *)
(* touchDown.                                                              *)
(*                                                                         *)
(* Reads and writes of currentIsDownState are single steps: it is a plain  *)
(* bool, read without a lock.                                              *)
(***************************************************************************)
EXTENDS Naturals

CONSTANTS
    Callers,      \* the binder threads that run touchDown and touchUp
    Run,          \* mThread, the watchdog
    NoThread,     \* no thread: the holder of a free mutex
    ForceAfter,   \* seconds the watchdog sleeps: sleep(3)
    MaxHeld       \* bound: held stops counting here

ASSUME CallersAssumption == Run \notin Callers /\ NoThread \notin Callers \cup {Run}
ASSUME TimesAssumption == /\ ForceAfter \in Nat
                          /\ MaxHeld \in Nat
                          /\ MaxHeld >= ForceAfter

VARIABLES
    currentIsDownState, \* the touch status
    fpdown_mutex_lock,  \* its holder
    runPc,              \* where the watchdog is in run()
    napLeft,            \* seconds left of the watchdog's sleep
    held,               \* seconds since currentIsDownState became true
    repressed,          \* history: that was after the current nap began
    missed              \* history: a touchDown notified a watchdog that had
                        \* seen the predicate false and was not waiting yet

vars == <<currentIsDownState, fpdown_mutex_lock, runPc, napLeft, held, repressed, missed>>

RunPcs == {"check", "pred", "parking", "blocked",
           "sleep", "recheck", "force", "forced"}

\* From the moment run() has seen the status down until it has lifted it.
Napping == {"sleep", "recheck", "force"}

TypeOK ==
    /\ currentIsDownState \in BOOLEAN
    /\ fpdown_mutex_lock \in Callers \cup {Run, NoThread}
    /\ runPc \in RunPcs
    /\ napLeft \in 0..ForceAfter
    /\ held \in 0..MaxHeld
    /\ repressed \in BOOLEAN
    /\ missed \in BOOLEAN

Init ==
    /\ currentIsDownState = FALSE
    /\ fpdown_mutex_lock = NoThread
    /\ runPc = "check"
    /\ napLeft = 0
    /\ held = 0
    /\ repressed = FALSE
    /\ missed = FALSE

-----------------------------------------------------------------------------
(* touchDown and touchUp                                                   *)

\* The first half of both handlers: lock, then assign the status.
SetTouch(t, isDown) ==
    /\ fpdown_mutex_lock = NoThread
    /\ fpdown_mutex_lock' = t
    /\ currentIsDownState' = isDown
    /\ IF isDown /\ ~currentIsDownState
         THEN held' = 0 /\ repressed' = (runPc \in Napping)
         ELSE held' = (IF isDown THEN held ELSE 0) /\ UNCHANGED repressed
    /\ UNCHANGED <<napLeft, missed>>

\* Seeded fault: nobody is notified of the change.
NotifyNobody == UNCHANGED <<runPc, missed>>

\* The second half: notify_all, then unlock.  Only a watchdog that is already
\* a waiter hears it.
NotifyAll ==
    /\ runPc' = IF runPc = "blocked" THEN "pred" ELSE runPc
    /\ missed' = (missed \/ (runPc = "parking" /\ currentIsDownState))

\* Seeded fault: a touchDown that finds the status down returns at once.
TouchDownIfUp(t) == ~currentIsDownState /\ SetTouch(t, TRUE) /\ UNCHANGED runPc

TouchDown(t) == SetTouch(t, TRUE) /\ UNCHANGED runPc

TouchUp(t) == SetTouch(t, FALSE) /\ UNCHANGED runPc

Notify(t) ==
    /\ fpdown_mutex_lock = t
    /\ fpdown_mutex_lock' = NoThread
    /\ NotifyAll
    /\ UNCHANGED <<currentIsDownState, napLeft, held, repressed>>

-----------------------------------------------------------------------------
(* run(), the watchdog                                                     *)

\* Seeded fault: one second too many.
CheckOversleeping ==
    /\ runPc = "check"
    /\ IF currentIsDownState
         THEN runPc' = "sleep" /\ napLeft' = ForceAfter + 1 /\ repressed' = FALSE
         ELSE runPc' = "pred" /\ UNCHANGED <<napLeft, repressed>>
    /\ UNCHANGED <<currentIsDownState, fpdown_mutex_lock, held, missed>>

\* if (!currentIsDownState) wait(...) else sleep(3)
Check ==
    /\ runPc = "check"
    /\ IF currentIsDownState
         THEN runPc' = "sleep" /\ napLeft' = ForceAfter /\ repressed' = FALSE
         ELSE runPc' = "pred" /\ UNCHANGED <<napLeft, repressed>>
    /\ UNCHANGED <<currentIsDownState, fpdown_mutex_lock, held, missed>>

\* wait() evaluates its predicate before it blocks and after each wake-up.
Predicate ==
    /\ runPc = "pred"
    /\ IF currentIsDownState
         THEN runPc' = "check" /\ UNCHANGED missed
         ELSE runPc' = "parking" /\ missed' = FALSE
    /\ UNCHANGED <<currentIsDownState, fpdown_mutex_lock, napLeft, held, repressed>>

\* The watchdog becomes a waiter of mWaitCV.
Park ==
    /\ runPc = "parking"
    /\ runPc' = "blocked"
    /\ UNCHANGED <<currentIsDownState, fpdown_mutex_lock, napLeft, held, repressed, missed>>

\* A condition variable may wake without a notification; nothing makes it.
SpuriousWake ==
    /\ runPc = "blocked"
    /\ runPc' = "pred"
    /\ UNCHANGED <<currentIsDownState, fpdown_mutex_lock, napLeft, held, repressed, missed>>

\* Seeded fault: the sleep returns before its time.
NapCutShort ==
    /\ runPc = "sleep"
    /\ runPc' = "recheck"
    /\ UNCHANGED <<currentIsDownState, fpdown_mutex_lock, napLeft, held, repressed, missed>>

NapOver ==
    /\ runPc = "sleep"
    /\ napLeft = 0
    /\ runPc' = "recheck"
    /\ UNCHANGED <<currentIsDownState, fpdown_mutex_lock, napLeft, held, repressed, missed>>

\* Seeded fault: the watchdog gives up when the press outlived its nap.
RecheckGivingUp ==
    /\ runPc = "recheck"
    /\ runPc' = IF currentIsDownState THEN "pred" ELSE "check"
    /\ UNCHANGED <<currentIsDownState, fpdown_mutex_lock, napLeft, held, repressed, missed>>

Recheck ==
    /\ runPc = "recheck"
    /\ runPc' = IF currentIsDownState THEN "force" ELSE "check"
    /\ UNCHANGED <<currentIsDownState, fpdown_mutex_lock, napLeft, held, repressed, missed>>

\* The watchdog's own touchUp: it is not waiting, so its notification wakes nobody.
ForceTouchUp ==
    /\ runPc = "force"
    /\ SetTouch(Run, FALSE)
    /\ runPc' = "forced"

ForceNotify ==
    /\ runPc = "forced"
    /\ fpdown_mutex_lock = Run
    /\ fpdown_mutex_lock' = NoThread
    /\ runPc' = "check"
    /\ UNCHANGED <<currentIsDownState, napLeft, held, repressed, missed>>

\* One second passes, for the press and for the nap.
Tick ==
    /\ held' = IF currentIsDownState /\ held < MaxHeld THEN held + 1 ELSE held
    /\ napLeft' = IF napLeft > 0 THEN napLeft - 1 ELSE 0
    /\ UNCHANGED <<currentIsDownState, fpdown_mutex_lock, runPc, repressed, missed>>

Watchdog == Check \/ Predicate \/ Park \/ NapOver \/ Recheck \/ ForceNotify

Next ==
    \/ \E t \in Callers : TouchDown(t) \/ TouchUp(t) \/ Notify(t)
    \/ Watchdog
    \/ SpuriousWake
    \/ ForceTouchUp
    \/ Tick

(* Fairness.  A thread inside a critical section leaves it, the watchdog   *)
(* runs when it can, time passes.  Callers take fpdown_mutex_lock again    *)
(* and again for a few instructions each; strong fairness says that the    *)
(* watchdog is not overtaken for ever.  No caller is obliged to call.      *)
Fairness ==
    /\ WF_vars(Watchdog)
    /\ SF_vars(ForceTouchUp)
    /\ \A t \in Callers : WF_vars(Notify(t))
    /\ WF_vars(Tick)

Spec == Init /\ [][Next]_vars /\ Fairness

-----------------------------------------------------------------------------
(* Properties                                                              *)

\* The watchdog waits while the status is down, and no caller is about to
\* notify it, only after the race of run(): a touchDown's notification fell
\* between wait()'s look at the predicate and its enrolment as a waiter.
\* Nothing else makes the watchdog miss a press (UdfpsHelper.cpp:41-62, 89).
StuckOnlyByRace ==
    (/\ runPc \in {"parking", "blocked"}
     /\ currentIsDownState
     /\ fpdown_mutex_lock = NoThread) => missed

\* A press that was down when the watchdog began its nap is never cut short
\* of ForceAfter seconds; the watchdog lifts a younger press only if that
\* press began during the nap (UdfpsHelper.cpp:94-97).
ForcedPressWasHeld ==
    (/\ runPc \in {"recheck", "force"}
     /\ currentIsDownState
     /\ ~repressed) => held >= ForceAfter

\* Every press ends, by a touchUp or by the watchdog, unless the watchdog
\* missed its notification and waits (UdfpsHelper.cpp:84-101).
LiftedOrMissed ==
    currentIsDownState ~> (~currentIsDownState \/ (runPc = "blocked" /\ missed))

\* A missed press is not lost for good: as long as touchDown or touchUp keep
\* being called, every press ends, whichever of the two it is
\* (UdfpsHelper.cpp:47, 58: both notify even when nothing changed).
NextCallLifts ==
    ([]<>(fpdown_mutex_lock \in Callers)) => (currentIsDownState ~> ~currentIsDownState)

\* What the warning of run() says of a forced touch up: "down time is larger
\* than 3s" (UdfpsHelper.cpp:96).
DownTimeIsLargerThan3s ==
    (runPc = "force" /\ currentIsDownState) => held >= ForceAfter

\* What the watchdog is there for: a press is lifted by force when nobody
\* lifts it (UdfpsHelper.cpp:95-97).
EveryPressIsLifted == currentIsDownState ~> ~currentIsDownState

=============================================================================
