--------------------------- MODULE FingerprintStack ---------------------------
(***************************************************************************)
(* The fingerprint HAL together with syshelper, whose touch status it      *)
(* drives, under the crashes of both.                                      *)
(*                                                                         *)
(* touchDown and touchUp are two-way binder calls: the HAL's only thread   *)
(* is blocked until syshelper has notified and unlocked, or is dead.  A    *)
(* crash of syshelper takes three parties to repair: init, which restarts  *)
(* the HAL (onrestart) before it starts syshelper again; the service       *)
(* manager, which lists the dead service until it hears of the crash; and  *)
(* the HAL, which looks syshelper up once, when it starts.                 *)
(*                                                                         *)
(* A call that syshelper has not begun when the HAL dies is dropped.  The  *)
(* framework neither dies nor reports touches here: their handlers do not  *)
(* call syshelper.                                                         *)
(***************************************************************************)
EXTENDS Naturals, Sequences

CONSTANTS
    IsUff, QueueCap, MaxDeaths,      \* of BiometricsFingerprint
    Run, NoThread, ForceAfter, MaxHeld,  \* of UdfpsHelper
    Binder,       \* the thread of syshelper that serves the HAL
    Inputs,        \* bound: the calls and callbacks that the HAL gets
    MaxCrashes    \* bound: crashes of syshelper, each of which kills the HAL

ASSUME StackAssumption ==
    /\ IsUff \in BOOLEAN
    /\ QueueCap \in Nat /\ MaxDeaths \in Nat /\ MaxCrashes \in Nat
    /\ Binder # Run /\ NoThread \notin {Binder, Run}
    /\ ForceAfter \in Nat /\ MaxHeld \in Nat /\ MaxHeld >= ForceAfter

VARIABLES
    up, hasOplus, isEnrolling, mClientCallback, call, line, dimlayer_hbm, notify_fppress,
    framework, client, challenge, finger, inbox, session, queue, leftover, deaths,
    currentIsDownState, fpdown_mutex_lock, runPc, napLeft, held, repressed, missed,
    syshelper,       \* "up", "crashed" and still listed, or "down"
    handle,          \* mOplusUdfpsHelper: "none" without a HAL, "live", "dead", or
                     \* "stale" when it was dead already as the HAL got it
    waiting,         \* the HAL's call is being served
    restartPending,  \* init has still to run onrestart
    crashes          \* how many there were

Hal == INSTANCE BiometricsFingerprint
Helper == INSTANCE UdfpsHelper WITH Callers <- {Binder}

halVars == <<up, hasOplus, isEnrolling, mClientCallback, call, line, dimlayer_hbm,
             notify_fppress, framework, client, challenge, finger, inbox, session, queue,
             leftover, deaths>>
helperVars == <<currentIsDownState, fpdown_mutex_lock, runPc, napLeft, held, repressed, missed>>
stackVars == <<syshelper, handle, waiting, restartPending, crashes>>
vars == <<halVars, helperVars, stackVars>>

TypeOK ==
    /\ Hal!TypeOK
    /\ Helper!TypeOK
    /\ syshelper \in {"up", "crashed", "down"}
    /\ handle \in {"none", "live", "dead", "stale"}
    /\ up <=> handle # "none"
    /\ handle = "live" => syshelper = "up"
    /\ waiting => handle = "live" /\ fpdown_mutex_lock = Binder
    /\ restartPending \in BOOLEAN
    /\ crashes \in 0..MaxCrashes

Init ==
    /\ Hal!Init
    /\ Helper!Init
    /\ syshelper = "down"
    /\ handle = "none"
    /\ waiting = FALSE
    /\ restartPending = FALSE
    /\ crashes = 0

-----------------------------------------------------------------------------
(* The HAL and its calls of syshelper                                      *)

\* The effects of the handlers that are the HAL's own.
RunHandler ==
    /\ \/ Hal!SetEnrolling \/ Hal!WriteDimlayer \/ Hal!WriteFpPress
       \/ Hal!SetCallback \/ Hal!Forward \/ Hal!Notify \/ Hal!Return
    /\ UNCHANGED <<helperVars, stackVars>>

\* A call of a dead service fails, and the failure is ignored.
CallFails ==
    /\ handle # "live"
    /\ Hal!CallHelper
    /\ UNCHANGED <<helperVars, stackVars>>

\* Seeded fault: touchUp goes the way of touchDown.
BeginCallDownOnly ==
    /\ handle = "live" /\ ~waiting
    /\ Hal!Op \in {"touchDown", "touchUp"} /\ Helper!TouchDown(Binder)
    /\ waiting' = TRUE
    /\ UNCHANGED <<halVars, syshelper, handle, restartPending, crashes>>

BeginCall ==
    /\ handle = "live" /\ ~waiting
    /\ \/ Hal!Op = "touchDown" /\ Helper!TouchDown(Binder)
       \/ Hal!Op = "touchUp" /\ Helper!TouchUp(Binder)
    /\ waiting' = TRUE
    /\ UNCHANGED <<halVars, syshelper, handle, restartPending, crashes>>

\* Seeded fault: the reply is lost.
EndCallSilently ==
    /\ Helper!Notify(Binder)
    /\ UNCHANGED <<halVars, stackVars>>

\* Seeded fault: the thread that serves the HAL gives up with it.
EndCallOfTheLiving ==
    /\ waiting
    /\ Helper!Notify(Binder)
    /\ Hal!CallHelper
    /\ waiting' = FALSE
    /\ UNCHANGED <<syshelper, handle, restartPending, crashes>>

\* syshelper finishes what it began, and replies if the HAL still lives.
EndCall ==
    /\ Helper!Notify(Binder)
    /\ IF waiting THEN Hal!CallHelper ELSE UNCHANGED halVars
    /\ waiting' = FALSE
    /\ UNCHANGED <<syshelper, handle, restartPending, crashes>>

\* The bound on deaths leaves one for each restart by init.
Restarts == (MaxCrashes - crashes) + (IF restartPending THEN 1 ELSE 0)
MayDie == deaths + Restarts < MaxDeaths

HalEnds ==
    /\ Hal!HalDies
    /\ handle' = "none"
    /\ waiting' = FALSE

HalDies ==
    /\ MayDie
    /\ HalEnds
    /\ UNCHANGED <<helperVars, syshelper, restartPending, crashes>>

\* The constructor takes what the service manager lists, and waits if that is
\* nothing.
HalStarts ==
    /\ syshelper # "down"
    /\ Hal!HalStarts
    /\ handle' = IF syshelper = "up" THEN "live" ELSE "stale"
    /\ UNCHANGED <<helperVars, syshelper, waiting, restartPending, crashes>>

-----------------------------------------------------------------------------
(* syshelper's own thread, its crashes and what repairs them               *)

Watchdog ==
    /\ syshelper = "up"
    /\ Helper!Watchdog
    /\ UNCHANGED <<halVars, stackVars>>

ForceTouchUp ==
    /\ syshelper = "up"
    /\ Helper!ForceTouchUp
    /\ UNCHANGED <<halVars, stackVars>>

SpuriousWake ==
    /\ syshelper = "up"
    /\ Helper!SpuriousWake
    /\ UNCHANGED <<halVars, stackVars>>

Tick ==
    /\ syshelper = "up"
    /\ Helper!Tick
    /\ UNCHANGED <<halVars, stackVars>>

SyshelperCrashes ==
    /\ syshelper = "up"
    /\ crashes < MaxCrashes
    /\ crashes' = crashes + 1
    /\ syshelper' = "crashed"
    /\ handle' = IF handle = "live" THEN "dead" ELSE handle
    /\ waiting' = FALSE
    /\ restartPending' = TRUE
    /\ currentIsDownState' = FALSE
    /\ fpdown_mutex_lock' = NoThread
    /\ runPc' = "check"
    /\ napLeft' = 0 /\ held' = 0
    /\ repressed' = FALSE /\ missed' = FALSE
    /\ UNCHANGED halVars

ServiceManagerHears ==
    /\ syshelper = "crashed"
    /\ syshelper' = "down"
    /\ UNCHANGED <<halVars, helperVars, handle, waiting, restartPending, crashes>>

\* Seeded fault: the rc file has no onrestart.
InitRestartsNothing ==
    /\ restartPending
    /\ restartPending' = FALSE
    /\ UNCHANGED <<halVars, helperVars, syshelper, handle, waiting, crashes>>

\* onrestart restart vendor.fps_hal.samurai: one that is down starts anyway.
InitRestartsHal ==
    /\ restartPending
    /\ restartPending' = FALSE
    /\ IF up THEN HalEnds ELSE UNCHANGED <<halVars, handle, waiting>>
    /\ UNCHANGED <<helperVars, syshelper, crashes>>

\* init runs onrestart as it reaps the process, before it starts it again.
SyshelperStarts ==
    /\ syshelper # "up"
    /\ ~restartPending
    /\ syshelper' = "up"
    /\ UNCHANGED <<halVars, helperVars, handle, waiting, restartPending, crashes>>

-----------------------------------------------------------------------------
(* The framework's service thread, the vendor's HAL and the next call      *)

TakeCall(t) == Hal!TakeCall(t) /\ UNCHANGED <<helperVars, stackVars>>

TakeCallback == Hal!TakeCallback /\ UNCHANGED <<helperVars, stackVars>>

Environment ==
    /\ \/ \E c \in Inputs \cap Hal!ServiceCalls : Hal!ServiceCall(c)
       \/ \E c \in Inputs \cap Hal!Callbacks : Hal!VendorPosts(c)
    /\ UNCHANGED <<helperVars, stackVars>>

Next ==
    \/ RunHandler \/ CallFails \/ BeginCall \/ EndCall
    \/ HalDies \/ HalStarts
    \/ Watchdog \/ ForceTouchUp \/ SpuriousWake \/ Tick
    \/ SyshelperCrashes \/ ServiceManagerHears \/ InitRestartsHal \/ SyshelperStarts
    \/ \E t \in Hal!Threads : TakeCall(t)
    \/ TakeCallback
    \/ Environment

\* The HAL's thread runs until it calls syshelper, which serves it.
HalThread == RunHandler \/ CallFails

\* What init does; each crash or death gives it a finite amount of work.
InitProcess == InitRestartsHal \/ SyshelperStarts \/ HalStarts

\* Every process runs, and no thread that waits for a mutex or a turn is
\* overtaken for ever.  No one has to call, to die or to crash.
Fairness ==
    /\ WF_vars(HalThread)
    /\ SF_vars(BeginCall) /\ WF_vars(EndCall)
    /\ \A t \in Hal!Threads : SF_vars(TakeCall(t))
    /\ WF_vars(Watchdog) /\ SF_vars(ForceTouchUp) /\ WF_vars(Tick)
    /\ WF_vars(ServiceManagerHears) /\ WF_vars(InitProcess)

Spec == Init /\ [][Next]_vars /\ Fairness

-----------------------------------------------------------------------------
(* Properties                                                              *)

\* What BiometricsFingerprint takes for granted of syshelper, that its calls
\* return, is true of the two together: the stack implements that module with
\* its fairness, so what holds there holds here (BiometricsFingerprint.cpp:
\* 183-229, 263-280; UdfpsHelper.cpp:41-62).
ImplementsHal == Hal!Spec

\* When the framework hears of a result, the touch is over for syshelper too,
\* whatever crashed before (BiometricsFingerprint.cpp:183-191, 203-219).
ResultsComeAfterTouchUp ==
    (/\ call \in {"onAuthenticated", "onRejected", "onEnrollResult", "onEnrolled"}
     /\ Hal!Op = "notify") => ~currentIsDownState

\* A HAL whose syshelper crashed under it gets a handle again, by the restart
\* that init makes (line 6 of the rc file).  The handle is "stale" if the HAL
\* started before the service manager had heard of the crash: the code does
\* not look again (BiometricsFingerprint.cpp:49-58).
HandleComesBack == handle = "dead" ~> handle \in {"live", "stale"}

\* Every press ends although the HAL dies in it, or the crash of syshelper
\* forgets it; the exception is the race of the watchdog
\* (UdfpsHelper.cpp:84-101).
PressEnds ==
    currentIsDownState ~> (~currentIsDownState \/ (runPc = "blocked" /\ missed))

=============================================================================
