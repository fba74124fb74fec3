------------------------ MODULE FingerprintStackProofs ------------------------
(***************************************************************************)
(* The safety of the fingerprint HAL and syshelper together, for any bound *)
(* on calls, deaths and crashes: the stack takes the steps of its two      *)
(* parts, so what is proved of each part alone holds in it too.            *)
(***************************************************************************)
EXTENDS FingerprintStack, TLAPS

\* What is proved of the two parts alone, said of them in the stack.
HalProofs == INSTANCE BiometricsFingerprintProofs
HelperProofs == INSTANCE UdfpsHelperProofs WITH Callers <- {Binder}

\* A call that is served is the one the HAL's handler has come to, and what a
\* touchUp has lifted stays up until the HAL goes on.  Without a live handle,
\* nobody has pressed since syshelper crashed.
CallInv ==
    /\ line \in Nat \ {0}
    /\ up <=> handle # "none"
    /\ ~up => call = "none"
    /\ handle = "live" => syshelper = "up"
    /\ syshelper # "up" => ~currentIsDownState
    /\ up /\ handle # "live" => ~currentIsDownState
    /\ waiting => /\ handle = "live"
                  /\ Hal!Op \in {"touchDown", "touchUp"}
                  /\ Hal!Op = "touchUp" => ~currentIsDownState

\* How far a handler is that has made its touchUp.
ResultsInv ==
    /\ call \in {"onEnrollResult", "onEnrolled"} /\ line > 1 => ~currentIsDownState
    /\ call = "onRejected" /\ line > 2 => ~currentIsDownState
    /\ call = "onAuthenticated" /\ line > 3 => ~currentIsDownState

StackInv == CallInv /\ ResultsInv

-----------------------------------------------------------------------------
(* The stack takes the steps of BiometricsFingerprint                      *)

LEMMA HalVariables == (UNCHANGED halVars) => UNCHANGED Hal!vars
  BY DEF halVars, Hal!vars, Hal!halVars, Hal!nodeVars, Hal!frameworkVars, Hal!vendorVars

LEMMA StepIsHalStep == [Next]_vars => [Hal!Next]_(Hal!vars)
<1>. SUFFICES ASSUME [Next]_vars PROVE Hal!Next \/ UNCHANGED Hal!vars
  OBVIOUS
<1>1. CASE RunHandler
  BY <1>1 DEF RunHandler, Hal!Next, Hal!RunHandler
<1>2. CASE CallFails
  BY <1>2 DEF CallFails, Hal!Next, Hal!RunHandler
<1>3. CASE BeginCall
  BY <1>3, HalVariables DEF BeginCall
<1>4. CASE EndCall
  BY <1>4, HalVariables DEF EndCall, Hal!Next, Hal!RunHandler
<1>5. CASE HalDies \/ InitRestartsHal
  BY <1>5, HalVariables DEF HalDies, InitRestartsHal, HalEnds, Hal!Next
<1>6. CASE HalStarts
  BY <1>6 DEF HalStarts, Hal!Next
<1>7. CASE Watchdog \/ ForceTouchUp \/ SpuriousWake \/ Tick
  BY <1>7, HalVariables DEF Watchdog, ForceTouchUp, SpuriousWake, Tick
<1>8. CASE SyshelperCrashes \/ ServiceManagerHears \/ SyshelperStarts
  BY <1>8, HalVariables DEF SyshelperCrashes, ServiceManagerHears, SyshelperStarts
<1>9. CASE \E t \in Hal!Threads : TakeCall(t)
  BY <1>9 DEF TakeCall, Hal!Next
<1>10. CASE TakeCallback
  BY <1>10 DEF TakeCallback, Hal!Next
<1>11. CASE Environment
  BY <1>11 DEF Environment, Hal!Next
<1>12. CASE UNCHANGED vars
  BY <1>12, HalVariables DEF vars
<1>. QED
  BY <1>1, <1>2, <1>3, <1>4, <1>5, <1>6, <1>7, <1>8, <1>9, <1>10, <1>11, <1>12 DEF Next

\* Whatever syshelper does, the HAL takes only the steps of its own module
\* (BiometricsFingerprint.cpp:39-280): its safety properties hold in the stack.
THEOREM StackImplementsHal == Spec => Hal!Init /\ [][Hal!Next]_(Hal!vars)
<1>1. Init => Hal!Init
  BY DEF Init
<1>. QED  BY <1>1, StepIsHalStep, PTL DEF Spec

-----------------------------------------------------------------------------
(* The invariant                                                           *)

\* Where touchUp and notify stand in the handlers of results.
LEMMA ResultPlaces ==
    ASSUME line \in Nat \ {0}
    PROVE  /\ call \in {"onEnrollResult", "onEnrolled"} =>
                (line = 1 => Hal!Op = "touchUp") /\ (Hal!Op = "notify" => line > 1)
           /\ call = "onRejected" =>
                (line = 2 => Hal!Op = "touchUp") /\ (Hal!Op = "notify" => line > 2)
           /\ call = "onAuthenticated" =>
                (line = 3 => Hal!Op = "touchUp") /\ (Hal!Op = "notify" => line > 3)
           /\ call \in {"onEnrollResult", "onEnrolled", "onRejected", "onAuthenticated"} =>
                Hal!Op # "touchDown"
<1>1. CASE call \in {"onEnrollResult", "onEnrolled"}
  <2>1. Hal!Program[call] = <<"touchUp", "notify">>
    BY <1>1 DEF Hal!Program
  <2>. QED  BY <1>1, <2>1 DEF Hal!Op, Hal!ReturnsAtOnce, Hal!ServiceCalls
<1>2. CASE call = "onRejected"
  <2>1. Hal!Program[call] = <<"release", "touchUp", "notify">>
    BY <1>2 DEF Hal!Program
  <2>. QED  BY <1>2, <2>1 DEF Hal!Op, Hal!ReturnsAtOnce, Hal!ServiceCalls
<1>3. CASE call = "onAuthenticated"
  <2>1. Hal!Program[call] = <<"lightOff", "release", "touchUp", "notify">>
    BY <1>3 DEF Hal!Program
  <2>. QED  BY <1>3, <2>1 DEF Hal!Op, Hal!ReturnsAtOnce, Hal!ServiceCalls
<1>. QED  BY <1>1, <1>2, <1>3

LEMMA OpStays == (UNCHANGED <<call, line, hasOplus>>) => Hal!Op' = Hal!Op
  BY DEF Hal!Op, Hal!ReturnsAtOnce

LEMMA InvIsEnough == StackInv => ResultsComeAfterTouchUp
  BY ResultPlaces DEF StackInv, CallInv, ResultsInv, ResultsComeAfterTouchUp

LEMMA InitInv == Init => StackInv
  BY DEF Init, Hal!Init, Helper!Init, StackInv, CallInv, ResultsInv

\* A step that changes neither what the HAL runs nor the touch status of
\* syshelper nor how they are connected.
LEMMA QuietStepInv ==
    ASSUME StackInv, UNCHANGED <<up, call, line, hasOplus, currentIsDownState, stackVars>>
    PROVE  StackInv'
  BY OpStays DEF StackInv, CallInv, ResultsInv, stackVars

\* An effect of a handler other than a touch is followed by the next.
LEMMA NextLineInv ==
    ASSUME StackInv, line' = line + 1, ~waiting,
           Hal!Op = "touchUp" => ~currentIsDownState,
           UNCHANGED <<up, call, currentIsDownState, stackVars>>
    PROVE  StackInv'
  BY ResultPlaces DEF StackInv, CallInv, ResultsInv, stackVars

\* The HAL begins a handler or ends one.
LEMMA FirstLineInv ==
    ASSUME StackInv, line' = 1, ~waiting,
           up \/ call' = "none",
           UNCHANGED <<up, currentIsDownState, stackVars>>
    PROVE  StackInv'
  BY DEF StackInv, CallInv, ResultsInv, stackVars

LEMMA RunHandlerInv == StackInv /\ RunHandler => StackInv'
<1>. SUFFICES ASSUME StackInv, RunHandler PROVE StackInv'
  OBVIOUS
<1>1. Hal!Op \notin {"touchDown", "touchUp"} /\ ~waiting
  BY DEF RunHandler, Hal!SetEnrolling, Hal!WriteDimlayer, Hal!WriteFpPress, Hal!SetCallback,
         Hal!Forward, Hal!Notify, Hal!Return, StackInv, CallInv
<1>2. /\ \/ line' = line + 1 /\ call' = call
         \/ line' = 1 /\ call' = "none"
      /\ up' = up
  BY DEF RunHandler, Hal!SetEnrolling, Hal!WriteDimlayer, Hal!WriteFpPress, Hal!SetCallback,
         Hal!Forward, Hal!Notify, Hal!Return, Hal!halVars
<1>3. UNCHANGED <<currentIsDownState, stackVars>>
  BY DEF RunHandler, helperVars
<1>. QED  BY <1>1, <1>2, <1>3, NextLineInv, FirstLineInv

LEMMA CallFailsInv == StackInv /\ CallFails => StackInv'
<1>. SUFFICES ASSUME StackInv, CallFails PROVE StackInv'
  OBVIOUS
<1>1. UNCHANGED <<up, call, currentIsDownState, stackVars>> /\ line' = line + 1
  BY DEF CallFails, helperVars, Hal!CallHelper, Hal!halVars
<1>2. ~waiting /\ ~currentIsDownState
  BY DEF CallFails, Hal!CallHelper, Hal!Op, StackInv, CallInv
<1>. QED  BY <1>1, <1>2, NextLineInv

LEMMA BeginCallInv == StackInv /\ BeginCall => StackInv'
<1>. SUFFICES ASSUME StackInv, BeginCall PROVE StackInv'
  OBVIOUS
<1>1. UNCHANGED <<up, call, line, hasOplus, syshelper, handle, restartPending>>
  BY DEF BeginCall, halVars
<1>2. /\ handle = "live" /\ waiting'
      /\ \/ Hal!Op = "touchDown"
         \/ Hal!Op = "touchUp" /\ ~currentIsDownState'
  BY DEF BeginCall, Helper!TouchDown, Helper!TouchUp, Helper!SetTouch
<1>3. CallInv'
  BY <1>1, <1>2, OpStays DEF StackInv, CallInv
<1>4. ResultsInv'
  BY <1>1, <1>2, ResultPlaces DEF StackInv, CallInv, ResultsInv
<1>. QED  BY <1>1, <1>3, <1>4 DEF StackInv

LEMMA EndCallInv == StackInv /\ EndCall => StackInv'
<1>. SUFFICES ASSUME StackInv, EndCall PROVE StackInv'
  OBVIOUS
<1>1. UNCHANGED <<currentIsDownState, syshelper, handle, restartPending>> /\ ~waiting'
  BY DEF EndCall, Helper!Notify
<1>2. CASE waiting
  <2>1. UNCHANGED <<up, call>> /\ line' = line + 1
    BY <1>2 DEF EndCall, Hal!CallHelper, Hal!halVars
  <2>2. Hal!Op = "touchUp" => ~currentIsDownState
    BY <1>2 DEF StackInv, CallInv
  <2>. QED
    BY <1>1, <2>1, <2>2, ResultPlaces DEF StackInv, CallInv, ResultsInv
<1>3. CASE ~waiting
  BY <1>1, <1>3 DEF EndCall, halVars, StackInv, CallInv, ResultsInv
<1>. QED  BY <1>2, <1>3

LEMMA HalEndsInv ==
    ASSUME StackInv, HalEnds, UNCHANGED <<currentIsDownState, syshelper>>
    PROVE  StackInv'
  BY DEF StackInv, CallInv, ResultsInv, HalEnds, Hal!HalDies

LEMMA HalStartsInv == StackInv /\ HalStarts => StackInv'
<1>. SUFFICES ASSUME StackInv, HalStarts PROVE StackInv'
  OBVIOUS
<1>1. /\ ~up /\ up' /\ call' = call /\ line' = line
      /\ UNCHANGED <<currentIsDownState, syshelper, waiting, restartPending>>
      /\ handle' = IF syshelper = "up" THEN "live" ELSE "stale"
  BY DEF HalStarts, Hal!HalStarts, helperVars
<1>2. ~waiting
  BY <1>1 DEF StackInv, CallInv
<1>. QED  BY <1>1, <1>2 DEF StackInv, CallInv, ResultsInv

\* The threads of syshelper never press by themselves.
LEMMA HelperStepInv ==
    ASSUME StackInv, Watchdog \/ ForceTouchUp \/ SpuriousWake \/ Tick
    PROVE  StackInv'
<1>1. UNCHANGED <<up, call, line, hasOplus, stackVars>>
  BY DEF Watchdog, ForceTouchUp, SpuriousWake, Tick, halVars
<1>2. currentIsDownState' = currentIsDownState \/ ~currentIsDownState'
  BY DEF Watchdog, Helper!Watchdog, Helper!Check, Helper!Predicate, Helper!Park, Helper!NapOver,
         Helper!Recheck, Helper!ForceNotify, ForceTouchUp, Helper!ForceTouchUp, Helper!SetTouch,
         SpuriousWake, Helper!SpuriousWake, Tick, Helper!Tick
<1>. QED
  BY <1>1, <1>2, OpStays DEF StackInv, CallInv, ResultsInv, stackVars

LEMMA SyshelperInv ==
    ASSUME StackInv, SyshelperCrashes \/ ServiceManagerHears \/ SyshelperStarts
    PROVE  StackInv'
<1>1. UNCHANGED <<up, call, line, hasOplus>>
  BY DEF SyshelperCrashes, ServiceManagerHears, SyshelperStarts, halVars
<1>2. CASE SyshelperCrashes
  BY <1>1, <1>2 DEF SyshelperCrashes, StackInv, CallInv, ResultsInv
<1>3. CASE ServiceManagerHears \/ SyshelperStarts
  BY <1>1, <1>3, OpStays DEF ServiceManagerHears, SyshelperStarts, helperVars,
     StackInv, CallInv, ResultsInv
<1>. QED  BY <1>2, <1>3

LEMMA InitRestartsHalInv == StackInv /\ InitRestartsHal => StackInv'
<1>. SUFFICES ASSUME StackInv, InitRestartsHal PROVE StackInv'
  OBVIOUS
<1>1. CASE up
  BY <1>1, HalEndsInv DEF InitRestartsHal, helperVars
<1>2. CASE ~up
  BY <1>2 DEF InitRestartsHal, helperVars, halVars, StackInv, CallInv, ResultsInv
<1>. QED  BY <1>1, <1>2

LEMMA BeginHandlerInv ==
    ASSUME StackInv, (\E t \in Hal!Threads : TakeCall(t)) \/ TakeCallback
    PROVE  StackInv'
<1>1. /\ call = "none" /\ line' = 1 /\ up' = up /\ up
      /\ UNCHANGED <<currentIsDownState, stackVars>>
  BY DEF TakeCall, Hal!TakeCall, TakeCallback, Hal!TakeCallback, Hal!Begin, Hal!halVars, helperVars
<1>2. ~waiting
  BY <1>1 DEF StackInv, CallInv, Hal!Op
<1>. QED  BY <1>1, <1>2, FirstLineInv

LEMMA EnvironmentInv == StackInv /\ Environment => StackInv'
<1>. SUFFICES ASSUME StackInv, Environment PROVE StackInv'
  OBVIOUS
<1>1. UNCHANGED <<up, call, line, hasOplus, currentIsDownState, stackVars>>
  BY DEF Environment, Hal!ServiceCall, Hal!VendorPosts, Hal!halVars, helperVars
<1>. QED  BY <1>1, QuietStepInv

LEMMA StepInv == StackInv /\ [Next]_vars => StackInv'
<1>. SUFFICES ASSUME StackInv, [Next]_vars PROVE StackInv'
  OBVIOUS
<1>1. CASE HalDies
  BY <1>1, HalEndsInv DEF HalDies, helperVars
<1>2. CASE UNCHANGED vars
  BY <1>2, QuietStepInv DEF vars, halVars, helperVars
<1>. QED
  BY <1>1, <1>2, RunHandlerInv, CallFailsInv, BeginCallInv, EndCallInv, HalStartsInv,
     HelperStepInv, SyshelperInv, InitRestartsHalInv, BeginHandlerInv, EnvironmentInv DEF Next

LEMMA AlwaysInv == Spec => []StackInv
  BY InitInv, StepInv, PTL DEF Spec

\* Whatever crashes, the framework hears of a result after its touch is over
\* for syshelper (BiometricsFingerprint.cpp:183-219).
THEOREM ResultsAlwaysComeAfterTouchUp == Spec => []ResultsComeAfterTouchUp
  BY AlwaysInv, InvIsEnough, PTL

-----------------------------------------------------------------------------
(* What holds of the HAL alone holds of the HAL in the stack               *)

\* The steps of BiometricsFingerprint in the stack are those its proofs speak
\* of: both are read from the same module.
LEMMA SameHal ==
    /\ Hal!Init => HalProofs!Init
    /\ [Hal!Next]_(Hal!vars) => [HalProofs!Next]_(HalProofs!vars)
  BY DEF
     Hal!Op, HalProofs!Op, Hal!Program, HalProofs!Program, Hal!ReturnsAtOnce,
     HalProofs!ReturnsAtOnce, Hal!ServiceCalls, HalProofs!ServiceCalls, Hal!TouchCalls,
     HalProofs!TouchCalls, Hal!Callbacks, HalProofs!Callbacks, Hal!Threads,
     HalProofs!Threads, Hal!Calls, HalProofs!Calls, Hal!halVars, HalProofs!halVars,
     Hal!nodeVars, HalProofs!nodeVars, Hal!frameworkVars, HalProofs!frameworkVars,
     Hal!vendorVars, HalProofs!vendorVars, Hal!Init, HalProofs!Init, Hal!Next,
     HalProofs!Next, Hal!vars, HalProofs!vars, Hal!RunHandler, HalProofs!RunHandler,
     Hal!SetEnrolling, HalProofs!SetEnrolling, Hal!NewEnrolling, HalProofs!NewEnrolling,
     Hal!WriteDimlayer, HalProofs!WriteDimlayer, Hal!NewDimlayer, HalProofs!NewDimlayer,
     Hal!LeftoverWithout, HalProofs!LeftoverWithout, Hal!WriteFpPress,
     HalProofs!WriteFpPress, Hal!CallHelper, HalProofs!CallHelper, Hal!SetCallback,
     HalProofs!SetCallback, Hal!Forward, HalProofs!Forward, Hal!MayForward,
     HalProofs!MayForward, Hal!Notify, HalProofs!Notify, Hal!Return, HalProofs!Return,
     Hal!TakeCallback, HalProofs!TakeCallback, Hal!Begin, HalProofs!Begin, Hal!HalStarts,
     HalProofs!HalStarts, Hal!HalDies, HalProofs!HalDies, Hal!FrameworkDies,
     HalProofs!FrameworkDies, Hal!FrameworkStarts, HalProofs!FrameworkStarts,
     Hal!BootCompleted, HalProofs!BootCompleted, Hal!TakeCall, HalProofs!TakeCall,
     Hal!ServiceCall, HalProofs!ServiceCall, Hal!TouchCall, HalProofs!TouchCall,
     Hal!VendorPosts, HalProofs!VendorPosts

\* The invariant of the HAL alone holds in the stack.
LEMMA AlwaysHalInv == Spec => []HalProofs!HalInv
<1>. USE StackAssumption DEF StackAssumption, HalProofs!BoundsAssumption
<1>1. Hal!Init => HalProofs!HalInv
  BY SameHal, HalProofs!InitInv
<1>2. HalProofs!HalInv /\ [Hal!Next]_(Hal!vars) => HalProofs!HalInv'
  BY SameHal, HalProofs!NextInv
<1>. QED  BY <1>1, <1>2, StackImplementsHal, PTL

\* A HAL whose syshelper crashes, comes back or is never found still turns the
\* nodes on only for a reason, and authenticates without the flag of an
\* enrolment (BiometricsFingerprint.cpp:78-157, 183-229).
THEOREM HalSafetyHoldsInStack ==
    Spec => [](Hal!NodesForAReason /\ Hal!AuthenticationIsNoEnrolment)
<1>1. HalProofs!HalInv => HalProofs!NodesForAReason /\ HalProofs!AuthenticationIsNoEnrolment
  BY HalProofs!InvIsEnough, StackAssumption DEF StackAssumption, HalProofs!BoundsAssumption
<1>2. /\ HalProofs!NodesForAReason => Hal!NodesForAReason
      /\ HalProofs!AuthenticationIsNoEnrolment => Hal!AuthenticationIsNoEnrolment
  BY DEF HalProofs!NodesForAReason, Hal!NodesForAReason,
     HalProofs!AuthenticationIsNoEnrolment, Hal!AuthenticationIsNoEnrolment
<1>. QED  BY <1>1, <1>2, AlwaysHalInv, PTL

-----------------------------------------------------------------------------
(* What holds of syshelper alone holds between its crashes                 *)

LEMMA StepIsHelperStep == [Next]_vars => [Helper!Next \/ Helper!Init']_(Helper!vars)
<1>. SUFFICES ASSUME [Next]_vars PROVE Helper!Next \/ Helper!Init' \/ UNCHANGED Helper!vars
  OBVIOUS
<1>1. (UNCHANGED helperVars) => UNCHANGED Helper!vars
  BY DEF helperVars, Helper!vars
<1>2. CASE BeginCall
  BY <1>2 DEF BeginCall, Helper!Next
<1>3. CASE EndCall
  BY <1>3 DEF EndCall, Helper!Next
<1>4. CASE Watchdog \/ ForceTouchUp \/ SpuriousWake \/ Tick
  BY <1>4 DEF Watchdog, ForceTouchUp, SpuriousWake, Tick, Helper!Next
<1>5. CASE SyshelperCrashes
  BY <1>5 DEF SyshelperCrashes, Helper!Init
<1>6. CASE RunHandler \/ CallFails \/ HalDies \/ HalStarts
  BY <1>1, <1>6 DEF RunHandler, CallFails, HalDies, HalStarts
<1>7. CASE ServiceManagerHears \/ InitRestartsHal \/ SyshelperStarts
  BY <1>1, <1>7 DEF ServiceManagerHears, InitRestartsHal, SyshelperStarts
<1>8. CASE (\E t \in Hal!Threads : TakeCall(t)) \/ TakeCallback \/ Environment
  BY <1>1, <1>8 DEF TakeCall, TakeCallback, Environment
<1>9. CASE UNCHANGED vars
  BY <1>1, <1>9 DEF vars
<1>. QED
  BY <1>2, <1>3, <1>4, <1>5, <1>6, <1>7, <1>8, <1>9 DEF Next

\* In the stack syshelper takes the steps of its own module, or starts afresh
\* after a crash: nothing the HAL or init does reaches into it otherwise
\* (UdfpsHelper.cpp:41-101).
THEOREM StackRunsHelper == Spec => Helper!Init /\ [][Helper!Next \/ Helper!Init']_(Helper!vars)
<1>1. Init => Helper!Init
  BY DEF Init
<1>. QED  BY <1>1, StepIsHelperStep, PTL DEF Spec

HelperInv == /\ HelperProofs!TypeOK
             /\ HelperProofs!StuckOnlyByRace
             /\ HelperProofs!NapMeasuresThePress

LEMMA SameHelper ==
    /\ Helper!Init => HelperProofs!Init
    /\ [Helper!Next]_(Helper!vars) => [HelperProofs!Next]_(HelperProofs!vars)
    /\ HelperProofs!TypeOK <=> Helper!TypeOK
    /\ HelperProofs!StuckOnlyByRace <=> Helper!StuckOnlyByRace
    /\ HelperProofs!ForcedPressWasHeld <=> Helper!ForcedPressWasHeld
  BY DEF
     Helper!Init, HelperProofs!Init, Helper!Next, HelperProofs!Next, Helper!vars,
     HelperProofs!vars, Helper!TypeOK, HelperProofs!TypeOK, Helper!RunPcs,
     HelperProofs!RunPcs, Helper!Napping, HelperProofs!Napping, Helper!StuckOnlyByRace,
     HelperProofs!StuckOnlyByRace, Helper!ForcedPressWasHeld,
     HelperProofs!ForcedPressWasHeld, Helper!SetTouch, HelperProofs!SetTouch,
     Helper!NotifyAll, HelperProofs!NotifyAll, Helper!TouchDown, HelperProofs!TouchDown,
     Helper!TouchUp, HelperProofs!TouchUp, Helper!Notify, HelperProofs!Notify,
     Helper!Watchdog, HelperProofs!Watchdog, Helper!Check, HelperProofs!Check,
     Helper!Predicate, HelperProofs!Predicate, Helper!Park, HelperProofs!Park,
     Helper!SpuriousWake, HelperProofs!SpuriousWake, Helper!NapOver, HelperProofs!NapOver,
     Helper!Recheck, HelperProofs!Recheck, Helper!ForceTouchUp, HelperProofs!ForceTouchUp,
     Helper!ForceNotify, HelperProofs!ForceNotify, Helper!Tick, HelperProofs!Tick

\* syshelper's invariant holds from each start to the next.
LEMMA AlwaysHelperInv == Spec => []HelperInv
<1>. USE StackAssumption DEF StackAssumption, HelperProofs!CallersAssumption,
     HelperProofs!TimesAssumption
<1>1. Helper!Init => HelperInv
  BY SameHelper, HelperProofs!InitInv DEF HelperInv
<1>2. HelperInv /\ [Helper!Next \/ Helper!Init']_(Helper!vars) => HelperInv'
  <2>1. Helper!Init' => HelperInv'
    BY <1>1, PTL
  <2>2. HelperInv /\ [Helper!Next]_(Helper!vars) => HelperInv'
    BY SameHelper, HelperProofs!TypeStep, HelperProofs!RaceStep, HelperProofs!NapStep
       DEF HelperInv
  <2>. QED  BY <2>1, <2>2
<1>. QED  BY <1>1, <1>2, StackRunsHelper, PTL

\* Whatever the HAL does and whoever crashes, the watchdog misses a press only
\* through its race and cuts no press short that it saw before its nap
\* (UdfpsHelper.cpp:84-101).
THEOREM HelperSafetyHoldsInStack ==
    Spec => [](Helper!StuckOnlyByRace /\ Helper!ForcedPressWasHeld)
<1>1. HelperInv => Helper!StuckOnlyByRace /\ Helper!ForcedPressWasHeld
  BY SameHelper, HelperProofs!NapIsEnough, StackAssumption
     DEF HelperInv, StackAssumption, HelperProofs!CallersAssumption, HelperProofs!TimesAssumption
<1>. QED  BY <1>1, AlwaysHelperInv, PTL

-----------------------------------------------------------------------------
(* The types                                                               *)

\* What ties the two together; a call that is served holds the mutex.
StackTypes ==
    /\ syshelper \in {"up", "crashed", "down"}
    /\ handle \in {"none", "live", "dead", "stale"}
    /\ waiting => fpdown_mutex_lock = Binder
    /\ restartPending \in BOOLEAN

LEMMA CrashesAreBounded == Spec => [](crashes \in 0..MaxCrashes)
<1>1. Init => crashes \in 0..MaxCrashes
  BY StackAssumption DEF Init, StackAssumption
<1>2. [Next]_vars => UNCHANGED crashes \/ SyshelperCrashes
  BY DEF Next, vars, stackVars, RunHandler, CallFails, BeginCall, EndCall, HalDies,
     HalStarts, Watchdog, ForceTouchUp, SpuriousWake, Tick, ServiceManagerHears,
     InitRestartsHal, SyshelperStarts, TakeCall, TakeCallback, Environment
<1>3. crashes \in 0..MaxCrashes /\ [Next]_vars => (crashes \in 0..MaxCrashes)'
  BY <1>2, StackAssumption DEF StackAssumption, SyshelperCrashes
<1>. QED  BY <1>1, <1>3, PTL DEF Spec

LEMMA StackTypesStep == StackInv /\ StackTypes /\ [Next]_vars => StackTypes'
<1>. SUFFICES ASSUME StackInv, StackTypes, [Next]_vars PROVE StackTypes'
  OBVIOUS
<1>. USE StackAssumption DEF StackAssumption, StackTypes
<1>1. CASE UNCHANGED <<stackVars, fpdown_mutex_lock>>
  BY <1>1 DEF stackVars
<1>2. CASE RunHandler \/ CallFails \/ TakeCallback \/ Environment \/ UNCHANGED vars
  BY <1>1, <1>2 DEF RunHandler, CallFails, TakeCallback, Environment, helperVars, vars
<1>3. CASE \E t \in Hal!Threads : TakeCall(t)
  BY <1>1, <1>3 DEF TakeCall, helperVars
<1>4. CASE BeginCall
  BY <1>4 DEF BeginCall, Helper!TouchDown, Helper!TouchUp, Helper!SetTouch
<1>5. CASE EndCall
  BY <1>5 DEF EndCall
<1>6. CASE HalDies \/ HalStarts
  BY <1>6 DEF HalDies, HalEnds, HalStarts, helperVars
<1>7. CASE Watchdog
  BY <1>7 DEF Watchdog, stackVars, Helper!Watchdog, Helper!Check, Helper!Predicate, Helper!Park,
     Helper!NapOver, Helper!Recheck, Helper!ForceNotify
<1>8. CASE ForceTouchUp \/ SpuriousWake \/ Tick
  BY <1>8 DEF ForceTouchUp, SpuriousWake, Tick, stackVars, Helper!ForceTouchUp, Helper!SetTouch,
     Helper!SpuriousWake, Helper!Tick
<1>9. CASE SyshelperCrashes
  BY <1>9 DEF SyshelperCrashes
<1>10. CASE ServiceManagerHears \/ SyshelperStarts
  BY <1>10 DEF ServiceManagerHears, SyshelperStarts, helperVars
<1>11. CASE InitRestartsHal
  BY <1>11 DEF InitRestartsHal, HalEnds, helperVars
<1>. QED
  BY <1>2, <1>3, <1>4, <1>5, <1>6, <1>7, <1>8, <1>9, <1>10, <1>11 DEF Next

\* The parts keep their types in the stack, a handle is live only while
\* syshelper runs, and a call that is served holds its mutex
\* (BiometricsFingerprint.cpp:49-58; UdfpsHelper.cpp:41-62).
THEOREM StackTypeCorrect == Spec => []TypeOK
<1>1. Init => StackTypes
  BY DEF Init, StackTypes
<1>2. HalProofs!HalInv => Hal!TypeOK
  BY DEF HalProofs!HalInv, HalProofs!TypeOK, Hal!TypeOK, HalProofs!ServiceCalls,
     Hal!ServiceCalls, HalProofs!TouchCalls, Hal!TouchCalls, HalProofs!Callbacks,
     Hal!Callbacks, HalProofs!Threads, Hal!Threads, HalProofs!Calls, Hal!Calls
<1>3. HelperInv => Helper!TypeOK
  BY SameHelper DEF HelperInv
<1>4. Hal!TypeOK /\ Helper!TypeOK /\ StackInv /\ StackTypes
      /\ crashes \in 0..MaxCrashes => TypeOK
  BY DEF StackInv, CallInv, StackTypes, TypeOK
<1>. QED
  BY <1>1, <1>2, <1>3, <1>4, StackTypesStep, CrashesAreBounded, AlwaysInv, AlwaysHalInv,
     AlwaysHelperInv, PTL DEF Spec

=============================================================================
