------------------------- MODULE SensorsSubHalProofs -------------------------
(***************************************************************************)
(* Proofs about the sensors sub-HAL, for any number of calling threads,    *)
(* any room in the pipe and any number of failures. First its sensor,      *)
(* which implements OneShotTrigger. Then the sub-HAL: it uses the sensor   *)
(* as UdfpsSensor says, so what is proved of the sensor holds in it, and   *)
(* what it posts meets a callback but in two named cases.                  *)
(***************************************************************************)
EXTENDS SensorsSubHal, TLAPS

\* Before the constructor ends nothing is armed or stopped, and the thread
\* has not chosen its run() as long as it is not started.
ConstructionInv ==
    /\ life \in {"base", "udfps"} => ~mIsEnabled /\ ~mStopThread /\ fds = "unset"
    /\ fds = "unset" => life \in {"base", "udfps"}
    /\ fds \in {"noPipe", "noFp"} => mStopThread
    /\ life \in {"joining", "gone"} => ~mIsEnabled
    /\ life = "gone" => runPc = "exited"
    /\ loop = "none" => runPc = "spawned" /\ events = FALSE
    /\ runPc = "spawned" => loop = "none"

\* The thread polls only in UdfpsSensor::run, with its files open, and sees
\* no byte that is not there.
PollInv ==
    /\ runPc \in {"polling", "polled"} => fds = "ok" /\ loop = "udfps"
    /\ runPc = "sampling" => loop = "base"
    /\ "pipe" \in revents => pipe > 0

SensorInv ==
    /\ TypeOK
    /\ ConstructionInv
    /\ PollInv
    /\ WaitsOnlyWhenIdle
    /\ NeverBlindPoll

-----------------------------------------------------------------------------
\* The constructor of UdfpsSensor begins.
LEMMA EnterStep ==
    ASSUME SensorInv, EnterUdfpsSensor
    PROVE  SensorInv'
<1>1. TypeOK'
  BY DEF SensorInv, TypeOK, Modes, RunPcs, Lives, EnterUdfpsSensor, sensorVars, panelVars
<1>2. ConstructionInv'
  BY DEF SensorInv, ConstructionInv, EnterUdfpsSensor, sensorVars, panelVars
<1>3. PollInv'
  BY DEF SensorInv, PollInv, EnterUdfpsSensor, sensorVars, panelVars
<1>4. WaitsOnlyWhenIdle'
  BY DEF SensorInv, WaitsOnlyWhenIdle, Armed, EnterUdfpsSensor, sensorVars, panelVars
<1>5. NeverBlindPoll'
  BY DEF SensorInv, NeverBlindPoll, Armed, EnterUdfpsSensor, sensorVars, panelVars
<1> QED
  BY <1>1, <1>2, <1>3, <1>4, <1>5 DEF SensorInv

\* The constructor opens its files or gives up.
LEMMA OpenFdsStep ==
    ASSUME SensorInv, OpenFds
    PROVE  SensorInv'
<1>1. TypeOK'
  BY DEF SensorInv, TypeOK, Modes, RunPcs, Lives, OpenFds, panelVars
<1>2. ConstructionInv'
  BY DEF SensorInv, ConstructionInv, OpenFds, panelVars
<1>3. PollInv'
  BY DEF SensorInv, TypeOK, ConstructionInv, PollInv, OpenFds, panelVars
<1>4. WaitsOnlyWhenIdle'
  BY DEF SensorInv, ConstructionInv, PollInv, WaitsOnlyWhenIdle, Armed, OpenFds, panelVars
<1>5. NeverBlindPoll'
  BY DEF SensorInv, NeverBlindPoll, Armed, OpenFds, panelVars
<1> QED
  BY <1>1, <1>2, <1>3, <1>4, <1>5 DEF SensorInv

\* ~UdfpsSensor writes its byte.
LEMMA DestroyUdfpsSensorStep ==
    ASSUME SensorInv, DestroyUdfpsSensor
    PROVE  SensorInv'
<1>1. TypeOK'
  BY DEF SensorInv, TypeOK, Modes, RunPcs, Lives, DestroyUdfpsSensor, InterruptPoll,
         sensorVars, panelVars
<1>2. ConstructionInv'
  BY DEF SensorInv, ConstructionInv, DestroyUdfpsSensor, InterruptPoll, sensorVars,
         panelVars
<1>3. PollInv'
  BY DEF SensorInv, TypeOK, PollInv, DestroyUdfpsSensor, InterruptPoll, sensorVars,
         panelVars
<1>4. WaitsOnlyWhenIdle'
  BY DEF SensorInv, WaitsOnlyWhenIdle, Armed, DestroyUdfpsSensor, InterruptPoll, sensorVars,
         panelVars
<1>5. NeverBlindPoll'
  BY DEF SensorInv, TypeOK, NeverBlindPoll, Armed, DestroyUdfpsSensor, InterruptPoll,
         sensorVars, panelVars
<1> QED
  BY <1>1, <1>2, <1>3, <1>4, <1>5 DEF SensorInv

\* ~Sensor stops the thread and wakes it.
LEMMA DestroySensorStep ==
    ASSUME SensorInv, DestroySensor
    PROVE  SensorInv'
<1>1. TypeOK'
  BY DEF SensorInv, TypeOK, Modes, RunPcs, Lives, DestroySensor, NotifyAll, panelVars
<1>2. ConstructionInv'
  BY DEF SensorInv, ConstructionInv, DestroySensor, NotifyAll, panelVars
<1>3. PollInv'
  BY DEF SensorInv, PollInv, DestroySensor, NotifyAll, panelVars
<1>4. WaitsOnlyWhenIdle'
  BY DEF SensorInv, WaitsOnlyWhenIdle, Armed, DestroySensor, NotifyAll, panelVars
<1>5. NeverBlindPoll'
  BY DEF SensorInv, NeverBlindPoll, Armed, DestroySensor, NotifyAll, panelVars
<1> QED
  BY <1>1, <1>2, <1>3, <1>4, <1>5 DEF SensorInv

\* The thread is joined.
LEMMA JoinStep ==
    ASSUME SensorInv, Join
    PROVE  SensorInv'
<1>1. TypeOK'
  BY DEF SensorInv, TypeOK, Modes, RunPcs, Lives, Join, sensorVars, panelVars
<1>2. ConstructionInv'
  BY DEF SensorInv, ConstructionInv, Join, sensorVars, panelVars
<1>3. PollInv'
  BY DEF SensorInv, PollInv, Join, sensorVars, panelVars
<1>4. WaitsOnlyWhenIdle'
  BY DEF SensorInv, WaitsOnlyWhenIdle, Armed, Join, sensorVars, panelVars
<1>5. NeverBlindPoll'
  BY DEF SensorInv, NeverBlindPoll, Armed, Join, sensorVars, panelVars
<1> QED
  BY <1>1, <1>2, <1>3, <1>4, <1>5 DEF SensorInv

\* A call arms or disarms the sensor: it wakes the thread and interrupts its poll.
LEMMA ActivateStep ==
    ASSUME SensorInv, NEW p \in Callers, NEW enable \in BOOLEAN, Activate(p, enable)
    PROVE  SensorInv'
<1>1. TypeOK'
  BY DEF SensorInv, TypeOK, Modes, RunPcs, Lives, Activate, InterruptPoll, NotifyAll,
         objectVars, panelVars
<1>2. ConstructionInv'
  BY DEF SensorInv, ConstructionInv, Activate, InterruptPoll, NotifyAll, objectVars,
         panelVars
<1>3. PollInv'
  BY DEF SensorInv, TypeOK, PollInv, Activate, InterruptPoll, NotifyAll, objectVars,
         panelVars
<1>4. WaitsOnlyWhenIdle'
  BY DEF SensorInv, WaitsOnlyWhenIdle, Armed, Activate, InterruptPoll, NotifyAll,
         objectVars, panelVars
<1>5. NeverBlindPoll'
  BY DEF SensorInv, TypeOK, PollInv, NeverBlindPoll, Armed, Activate, InterruptPoll,
         NotifyAll, objectVars, panelVars
<1> QED
  BY <1>1, <1>2, <1>3, <1>4, <1>5 DEF SensorInv

\* A call changes the mode; its byte is on its way.
LEMMA SetOperationModeStep ==
    ASSUME SensorInv, NEW p \in Callers, NEW mode \in Modes, SetOperationMode(p, mode)
    PROVE  SensorInv'
<1>1. TypeOK'
  BY DEF SensorInv, TypeOK, Modes, RunPcs, Lives, SetOperationMode, NotifyAll, objectVars,
         panelVars
<1>2. ConstructionInv'
  BY DEF SensorInv, ConstructionInv, SetOperationMode, NotifyAll, objectVars, panelVars
<1>3. PollInv'
  BY DEF SensorInv, PollInv, SetOperationMode, NotifyAll, objectVars, panelVars
<1>4. WaitsOnlyWhenIdle'
  BY DEF SensorInv, WaitsOnlyWhenIdle, Armed, SetOperationMode, NotifyAll, objectVars,
         panelVars
<1>5. NeverBlindPoll'
  BY DEF SensorInv, TypeOK, NeverBlindPoll, Armed, SetOperationMode, NotifyAll, objectVars,
         panelVars
<1> QED
  BY <1>1, <1>2, <1>3, <1>4, <1>5 DEF SensorInv

\* That byte arrives.
LEMMA InterruptAfterModeStep ==
    ASSUME SensorInv, NEW p \in Callers, InterruptAfterMode(p)
    PROVE  SensorInv'
<1>1. TypeOK'
  BY DEF SensorInv, TypeOK, InterruptAfterMode, InterruptPoll, sensorVars, objectVars,
         panelVars
<1>2. ConstructionInv'
  BY DEF SensorInv, ConstructionInv, InterruptAfterMode, InterruptPoll, sensorVars,
         objectVars, panelVars
<1>3. PollInv'
  BY DEF SensorInv, TypeOK, PollInv, InterruptAfterMode, InterruptPoll, sensorVars,
         objectVars, panelVars
<1>4. WaitsOnlyWhenIdle'
  BY DEF SensorInv, WaitsOnlyWhenIdle, Armed, InterruptAfterMode, InterruptPoll, sensorVars,
         objectVars, panelVars
<1>5. NeverBlindPoll'
  BY DEF SensorInv, TypeOK, PollInv, NeverBlindPoll, Armed, InterruptAfterMode,
         InterruptPoll, sensorVars, objectVars, panelVars
<1> QED
  BY <1>1, <1>2, <1>3, <1>4, <1>5 DEF SensorInv

\* The thread reaches one of the two loops.
LEMMA StartThreadStep ==
    ASSUME SensorInv, StartThread
    PROVE  SensorInv'
<1>1. TypeOK'
  BY DEF SensorInv, TypeOK, Modes, RunPcs, Lives, StartThread, LoopHead, MaySample,
         sensorVars, panelVars
<1>2. ConstructionInv'
  BY DEF SensorInv, ConstructionInv, StartThread, LoopHead, MaySample, sensorVars, panelVars
<1>3. PollInv'
  BY DEF SensorInv, TypeOK, ConstructionInv, PollInv, StartThread, LoopHead, MaySample,
         sensorVars, panelVars
<1>4. WaitsOnlyWhenIdle'
  BY DEF SensorInv, WaitsOnlyWhenIdle, Armed, StartThread, LoopHead, MaySample, sensorVars,
         panelVars
<1>5. NeverBlindPoll'
  BY DEF SensorInv, TypeOK, ConstructionInv, PollInv, NeverBlindPoll, Armed, Modes, RunPcs,
         Lives, StartThread, LoopHead, MaySample, sensorVars, panelVars
<1> QED
  BY <1>1, <1>2, <1>3, <1>4, <1>5 DEF SensorInv

\* wait() evaluates its predicate.
LEMMA WakeUpStep ==
    ASSUME SensorInv, WakeUp
    PROVE  SensorInv'
<1>1. TypeOK'
  BY DEF SensorInv, TypeOK, Modes, RunPcs, Lives, WakeUp, LoopHead, MaySample, sensorVars,
         objectVars, panelVars
<1>2. ConstructionInv'
  BY DEF SensorInv, ConstructionInv, WakeUp, LoopHead, MaySample, sensorVars, objectVars,
         panelVars
<1>3. PollInv'
  BY DEF SensorInv, TypeOK, ConstructionInv, PollInv, WakeUp, LoopHead, MaySample,
         sensorVars, objectVars, panelVars
<1>4. WaitsOnlyWhenIdle'
  BY DEF SensorInv, WaitsOnlyWhenIdle, Armed, WakeUp, LoopHead, MaySample, sensorVars,
         objectVars, panelVars
<1>5. NeverBlindPoll'
  BY DEF SensorInv, TypeOK, ConstructionInv, PollInv, NeverBlindPoll, Armed, Modes, RunPcs,
         Lives, WakeUp, LoopHead, MaySample, sensorVars, objectVars, panelVars
<1> QED
  BY <1>1, <1>2, <1>3, <1>4, <1>5 DEF SensorInv

\* Sensor::run goes round again.
LEMMA SampleAgainStep ==
    ASSUME SensorInv, SampleAgain
    PROVE  SensorInv'
<1>1. TypeOK'
  BY DEF SensorInv, TypeOK, Modes, RunPcs, Lives, SampleAgain, LoopHead, MaySample,
         sensorVars, objectVars, panelVars
<1>2. ConstructionInv'
  BY DEF SensorInv, ConstructionInv, SampleAgain, LoopHead, MaySample, sensorVars,
         objectVars, panelVars
<1>3. PollInv'
  BY DEF SensorInv, PollInv, SampleAgain, LoopHead, MaySample, sensorVars, objectVars,
         panelVars
<1>4. WaitsOnlyWhenIdle'
  BY DEF SensorInv, WaitsOnlyWhenIdle, Armed, SampleAgain, LoopHead, MaySample, sensorVars,
         objectVars, panelVars
<1>5. NeverBlindPoll'
  BY DEF SensorInv, TypeOK, PollInv, NeverBlindPoll, Armed, SampleAgain, LoopHead,
         MaySample, sensorVars, objectVars, panelVars
<1> QED
  BY <1>1, <1>2, <1>3, <1>4, <1>5 DEF SensorInv

\* poll() returns.
LEMMA PollReturnsStep ==
    ASSUME SensorInv, PollReturns
    PROVE  SensorInv'
<1>1. TypeOK'
  BY DEF SensorInv, TypeOK, Modes, RunPcs, Lives, PollReturns, sensorVars, objectVars,
         panelVars
<1>2. ConstructionInv'
  BY DEF SensorInv, ConstructionInv, PollReturns, sensorVars, objectVars, panelVars
<1>3. PollInv'
  BY DEF SensorInv, PollInv, PollReturns, sensorVars, objectVars, panelVars
<1>4. WaitsOnlyWhenIdle'
  BY DEF SensorInv, WaitsOnlyWhenIdle, Armed, PollReturns, sensorVars, objectVars, panelVars
<1>5. NeverBlindPoll'
  BY DEF SensorInv, NeverBlindPoll, Armed, PollReturns, sensorVars, objectVars, panelVars
<1> QED
  BY <1>1, <1>2, <1>3, <1>4, <1>5 DEF SensorInv

\* poll() fails.
LEMMA PollFailsStep ==
    ASSUME SensorInv, PollFails
    PROVE  SensorInv'
<1>1. TypeOK'
  <2>1. pipe' \in Nat
    BY DEF SensorInv, TypeOK, PollInv, PollFails
  <2>2. faults' \in 0..MaxFaults
    BY BoundsAssumption DEF BoundsAssumption, SensorInv, TypeOK, PollFails
  <2> QED
    BY <2>1, <2>2 DEF SensorInv, TypeOK, PollFails, sensorVars, objectVars, panelVars,
                      Modes, RunPcs, Lives
<1>2. ConstructionInv'
  BY DEF SensorInv, ConstructionInv, PollFails, sensorVars, objectVars, panelVars
<1>3. PollInv'
  BY DEF SensorInv, PollInv, PollFails, sensorVars, objectVars, panelVars
<1>4. WaitsOnlyWhenIdle'
  BY DEF SensorInv, WaitsOnlyWhenIdle, Armed, PollFails, sensorVars, objectVars, panelVars
<1>5. NeverBlindPoll'
  BY DEF SensorInv, NeverBlindPoll, Armed, PollFails, sensorVars, objectVars, panelVars
<1> QED
  BY <1>1, <1>2, <1>3, <1>4, <1>5 DEF SensorInv

\* The thread stops because poll() failed.
LEMMA HandleErrorStep ==
    ASSUME SensorInv, HandleError
    PROVE  SensorInv'
<1>1. TypeOK'
  BY DEF SensorInv, TypeOK, Modes, RunPcs, Lives, HandleError, LoopHead, objectVars,
         panelVars
<1>2. ConstructionInv'
  BY DEF SensorInv, ConstructionInv, PollInv, HandleError, LoopHead, objectVars, panelVars
<1>3. PollInv'
  BY DEF SensorInv, PollInv, HandleError, LoopHead, objectVars, panelVars
<1>4. WaitsOnlyWhenIdle'
  BY DEF SensorInv, WaitsOnlyWhenIdle, Armed, HandleError, LoopHead, objectVars, panelVars
<1>5. NeverBlindPoll'
  BY DEF SensorInv, NeverBlindPoll, Armed, HandleError, LoopHead, objectVars, panelVars
<1> QED
  BY <1>1, <1>2, <1>3, <1>4, <1>5 DEF SensorInv

\* The thread posts an event and disarms the sensor.
LEMMA HandleFingerStep ==
    ASSUME SensorInv, HandleFinger
    PROVE  SensorInv'
<1>1. TypeOK'
  BY DEF SensorInv, TypeOK, Modes, RunPcs, Lives, HandleFinger, LoopHead, objectVars
<1>2. ConstructionInv'
  BY DEF SensorInv, ConstructionInv, HandleFinger, LoopHead, objectVars
<1>3. PollInv'
  BY DEF SensorInv, PollInv, HandleFinger, LoopHead, objectVars
<1>4. WaitsOnlyWhenIdle'
  BY DEF SensorInv, WaitsOnlyWhenIdle, Armed, HandleFinger, LoopHead, objectVars
<1>5. NeverBlindPoll'
  BY DEF SensorInv, NeverBlindPoll, Armed, HandleFinger, LoopHead, objectVars
<1> QED
  BY <1>1, <1>2, <1>3, <1>4, <1>5 DEF SensorInv

\* The thread drains a byte.
LEMMA HandleOtherStep ==
    ASSUME SensorInv, HandleOther
    PROVE  SensorInv'
<1>1. TypeOK'
  <2>1. pipe' \in Nat
    BY DEF SensorInv, TypeOK, PollInv, HandleOther, DrainPipe
  <2>2. faults' \in 0..MaxFaults
    BY BoundsAssumption DEF BoundsAssumption, SensorInv, TypeOK, HandleOther
  <2>3. fpNotify' \in BOOLEAN
    BY DEF SensorInv, TypeOK, HandleOther
  <2>4. runPc' \in RunPcs /\ revents' \in SUBSET {"pipe", "fp", "error"}
    BY DEF HandleOther, LoopHead, RunPcs
  <2> QED
    BY <2>1, <2>2, <2>3, <2>4 DEF SensorInv, TypeOK, HandleOther, sensorVars, objectVars
<1>2. ConstructionInv'
  BY DEF SensorInv, ConstructionInv, HandleOther, DrainPipe, LoopHead, sensorVars,
         objectVars
<1>3. PollInv'
  BY DEF SensorInv, PollInv, HandleOther, DrainPipe, LoopHead, sensorVars, objectVars
<1>4. WaitsOnlyWhenIdle'
  BY DEF SensorInv, WaitsOnlyWhenIdle, Armed, HandleOther, DrainPipe, LoopHead, sensorVars,
         objectVars
<1>5. NeverBlindPoll'
  BY DEF SensorInv, TypeOK, ConstructionInv, PollInv, NeverBlindPoll, Armed, Modes, RunPcs,
         Lives, HandleOther, DrainPipe, LoopHead, sensorVars, objectVars
<1> QED
  BY <1>1, <1>2, <1>3, <1>4, <1>5 DEF SensorInv

\* The thread cannot read fp_state.
LEMMA HandleBadReadStep ==
    ASSUME SensorInv, HandleBadRead
    PROVE  SensorInv'
<1>1. TypeOK'
  <2>1. pipe' \in Nat
    BY DEF SensorInv, TypeOK, PollInv, HandleBadRead, DrainPipe
  <2>2. faults' \in 0..MaxFaults
    BY BoundsAssumption DEF BoundsAssumption, SensorInv, TypeOK, HandleBadRead
  <2> QED
    BY <2>1, <2>2 DEF SensorInv, TypeOK, HandleBadRead, LoopHead, sensorVars, objectVars,
                      Modes, RunPcs, Lives
<1>2. ConstructionInv'
  BY DEF SensorInv, ConstructionInv, HandleBadRead, DrainPipe, LoopHead, sensorVars,
         objectVars
<1>3. PollInv'
  BY DEF SensorInv, PollInv, HandleBadRead, DrainPipe, LoopHead, sensorVars, objectVars
<1>4. WaitsOnlyWhenIdle'
  BY DEF SensorInv, WaitsOnlyWhenIdle, Armed, HandleBadRead, DrainPipe, LoopHead,
         sensorVars, objectVars
<1>5. NeverBlindPoll'
  BY DEF SensorInv, TypeOK, ConstructionInv, PollInv, NeverBlindPoll, Armed, Modes, RunPcs,
         Lives, HandleBadRead, DrainPipe, LoopHead, sensorVars, objectVars
<1> QED
  BY <1>1, <1>2, <1>3, <1>4, <1>5 DEF SensorInv

-----------------------------------------------------------------------------
\* Every step keeps the inductive invariant.
LEMMA SensorStep == SensorInv /\ [Next]_vars => SensorInv'
<1> SUFFICES ASSUME SensorInv, [Next]_vars
             PROVE  SensorInv'
  OBVIOUS
<1>1. ASSUME NEW p \in Callers,
             \/ \E enable \in BOOLEAN : Activate(p, enable)
             \/ \E mode \in Modes : SetOperationMode(p, mode)
             \/ InterruptAfterMode(p)
      PROVE  SensorInv'
  BY <1>1, ActivateStep, SetOperationModeStep, InterruptAfterModeStep
<1>2. CASE RunThread
  BY <1>2, StartThreadStep, WakeUpStep, SampleAgainStep, PollReturnsStep, HandleErrorStep,
     HandleFingerStep, HandleOtherStep DEF RunThread
<1>3. CASE Construction \/ DestroyUdfpsSensor \/ Destruction
  BY <1>3, EnterStep, OpenFdsStep, DestroyUdfpsSensorStep, DestroySensorStep, JoinStep
     DEF Construction, Destruction
<1>4. CASE SpuriousWake
  BY <1>4 DEF SpuriousWake, SensorInv, TypeOK, ConstructionInv, PollInv, WaitsOnlyWhenIdle,
              NeverBlindPoll, Armed, RunPcs, sensorVars, objectVars, panelVars
<1>5. CASE PanelReports
  <2>1. TypeOK'
    BY <1>5 DEF PanelReports, SensorInv, TypeOK, sensorVars, objectVars
  <2> QED
    BY <1>5, <2>1 DEF PanelReports, SensorInv, ConstructionInv, PollInv, WaitsOnlyWhenIdle,
                      NeverBlindPoll, Armed, sensorVars, objectVars
<1>6. CASE UNCHANGED vars
  BY <1>6 DEF vars, SensorInv, TypeOK, ConstructionInv, PollInv, WaitsOnlyWhenIdle,
              NeverBlindPoll, Armed, sensorVars, objectVars, panelVars
<1> QED
  BY <1>1, <1>2, <1>3, <1>4, <1>5, <1>6, PollFailsStep, HandleBadReadStep DEF Next

\* The inductive invariant holds throughout.
LEMMA SensorInvHolds == Spec => []SensorInv
<1>1. Init => SensorInv
  <2> SUFFICES ASSUME Init PROVE SensorInv
    OBVIOUS
  <2>1. faults \in 0..MaxFaults /\ pipe \in Nat
    BY BoundsAssumption DEF BoundsAssumption, Init
  <2>2. TypeOK
    BY <2>1 DEF Init, TypeOK, Modes, RunPcs, Lives
  <2> QED
    BY <2>2 DEF Init, SensorInv, ConstructionInv, PollInv, WaitsOnlyWhenIdle, NeverBlindPoll,
                Armed
<1> QED
  BY <1>1, SensorStep, PTL DEF Spec

-----------------------------------------------------------------------------
\* The run thread waits only while the sensor is neither armed nor stopped,
\* unless its constructor failed: no wake-up is lost (Sensor.cpp:270-293).
THEOREM NoLostWakeUp == Spec => []WaitsOnlyWhenIdle
<1>1. SensorInv => WaitsOnlyWhenIdle
  BY DEF SensorInv
<1> QED
  BY <1>1, SensorInvHolds, PTL

\* Except under the destructor, a poll of a sensor that is disarmed or
\* injected has a byte that interrupts it, or will have (Sensor.cpp:270-313).
THEOREM NoBlindPoll == Spec => []NeverBlindPoll
<1>1. SensorInv => NeverBlindPoll
  BY DEF SensorInv
<1> QED
  BY <1>1, SensorInvHolds, PTL

-----------------------------------------------------------------------------
\* A step that changes nothing the framework sees.
LEMMA StutterStep ==
    ASSUME mIsEnabled' = mIsEnabled,
           (mIsEnabled \/ runPc \in {"polling", "polled"})'
               = (mIsEnabled \/ runPc \in {"polling", "polled"}),
           (loop # "base" /\ events)' = (loop # "base" /\ events)
    PROVE  UNCHANGED Trigger!vars
BY DEF Trigger!vars

\* The head of the loop without an event: what was under way at most lapses.
LEMMA LoopHeadRefines ==
    ASSUME SensorInv, NEW stop \in BOOLEAN,
           LoopHead(stop, mIsEnabled, loop),
           UNCHANGED <<mIsEnabled, loop>>,
           loop # "base" => events' = events,
           runPc = "polled" \/ (runPc \in {"woken", "sampling"} /\ (stop = mStopThread))
    PROVE  [Trigger!Next]_Trigger!vars
<1>1. (loop # "base" /\ events)' = (loop # "base" /\ events)
  BY DEF SensorInv, TypeOK
<1>2. CASE mIsEnabled
  BY <1>1, <1>2, StutterStep
<1>3. CASE ~mIsEnabled
  <2>1. runPc' \notin {"polling", "polled"}
    BY <1>3 DEF LoopHead
  <2>2. CASE runPc = "polled"
    BY <1>1, <1>3, <2>1, <2>2 DEF Trigger!Next, Trigger!Lapse
  <2>3. CASE runPc # "polled"
    BY <1>1, <1>3, <2>1, <2>3, StutterStep
  <2> QED
    BY <2>2, <2>3
<1> QED
  BY <1>2, <1>3

\* Every step of the sensor is a step of the trigger or a stutter.
LEMMA StepRefines == SensorInv /\ SensorInv' /\ [Next]_vars => [Trigger!Next]_Trigger!vars
<1> SUFFICES ASSUME SensorInv, SensorInv', [Next]_vars
             PROVE  [Trigger!Next]_Trigger!vars
  OBVIOUS
<1> USE DEF sensorVars, objectVars, panelVars
<1>1. CASE Construction \/ DestroyUdfpsSensor \/ Join
  BY <1>1, StutterStep DEF Construction, EnterUdfpsSensor, OpenFds, DestroyUdfpsSensor, Join
<1>2. CASE DestroySensor
  <2>1. /\ (runPc \in {"polling", "polled"})' = (runPc \in {"polling", "polled"})
        /\ (loop # "base" /\ events)' = (loop # "base" /\ events)
        /\ ~mIsEnabled'
    BY <1>2 DEF DestroySensor, NotifyAll
  <2>2. CASE mIsEnabled
    BY <2>1, <2>2 DEF Trigger!Next, Trigger!Disarm
  <2>3. CASE ~mIsEnabled
    BY <2>1, <2>3, StutterStep DEF SensorInv, TypeOK
  <2> QED
    BY <2>2, <2>3
<1>3. ASSUME NEW p \in Callers, NEW enable \in BOOLEAN, Activate(p, enable)
      PROVE  [Trigger!Next]_Trigger!vars
  <2>1. /\ (loop # "base" /\ events)' = (loop # "base" /\ events)
        /\ mIsEnabled # enable
        /\ mIsEnabled' = enable
    BY <1>3 DEF Activate
  <2>2. CASE enable
    BY <2>1, <2>2 DEF SensorInv, TypeOK, Trigger!Next, Trigger!Arm
  <2>3. CASE ~enable
    BY <2>1, <2>3 DEF SensorInv, TypeOK, Trigger!Next, Trigger!Disarm
  <2> QED
    BY <2>2, <2>3
<1>4. ASSUME NEW p \in Callers, NEW mode \in Modes, SetOperationMode(p, mode)
      PROVE  UNCHANGED Trigger!vars
  BY <1>4, StutterStep DEF SetOperationMode, NotifyAll
<1>5. ASSUME NEW p \in Callers, InterruptAfterMode(p)
      PROVE  UNCHANGED Trigger!vars
  BY <1>5, StutterStep DEF InterruptAfterMode
<1>6. CASE StartThread
  <2>1. CASE mIsEnabled
    BY <1>6, <2>1, StutterStep
       DEF StartThread, LoopHead, MaySample, SensorInv, ConstructionInv, PollInv
  <2>2. CASE ~mIsEnabled
    BY <1>6, <2>2, StutterStep
       DEF StartThread, LoopHead, MaySample, SensorInv, ConstructionInv, PollInv
  <2> QED
    BY <2>1, <2>2
<1>7. CASE WakeUp \/ SampleAgain
  <2>1. loop # "base" => events' = events
    BY <1>7 DEF WakeUp, SampleAgain, LoopHead, MaySample
  <2> QED
    BY <1>7, <2>1, LoopHeadRefines DEF WakeUp, SampleAgain, SensorInv, TypeOK
<1>8. CASE PollReturns \/ PollFails
  BY <1>8, StutterStep DEF PollReturns, PollFails
<1>9. CASE HandleError \/ HandleOther \/ HandleBadRead
  BY <1>9, LoopHeadRefines DEF HandleError, HandleOther, HandleBadRead, SensorInv, TypeOK
<1>10. CASE HandleFinger
  <2>1. /\ runPc = "polled" /\ loop = "udfps" /\ loop' = loop
        /\ ~mIsEnabled'
        /\ runPc' \notin {"polling", "polled"}
        /\ events' = ~events
    BY <1>10 DEF HandleFinger, LoopHead, SensorInv, PollInv
  <2> QED
    BY <2>1 DEF Trigger!Next, Trigger!Fire, SensorInv, TypeOK
<1>11. CASE SpuriousWake \/ PanelReports
  BY <1>11, StutterStep DEF SpuriousWake, PanelReports
<1>12. CASE UNCHANGED vars
  BY <1>12, StutterStep DEF vars
<1> QED
  BY <1>1, <1>2, <1>3, <1>4, <1>5, <1>6, <1>7, <1>8, <1>9, <1>10, <1>11, <1>12
     DEF Next, Destruction, RunThread

\* The sensor implements the one-shot trigger (Sensor.cpp:286-315): whatever
\* the calls and the panel do, an event of UdfpsSensor::run disarms the
\* sensor, and no arming has two events.
THEOREM SensorIsOneShot == Spec => OneShot
<1>1. Init => Trigger!Init
  BY DEF Init, Trigger!Init
<1> QED
  BY <1>1, StepRefines, SensorInvHolds, PTL DEF Spec, OneShot, Trigger!Spec

-----------------------------------------------------------------------------
(* The sub-HAL                                                             *)

\* While initialize replaces the callback, no call is under way at the sensor,
\* and the sub-HAL is not destroyed.
CallInv ==
    /\ mCallback \in {"null", "live", "freed", "destroyed"}
    /\ initializer \in Callers \cup {None}
    /\ mCallback = "freed" => initializer # None /\ pc[initializer] = "idle"
    /\ mCallback = "destroyed" => initializer = None
    /\ initializer # None =>
         /\ life = "built"
         /\ \A p \in Callers \ {initializer} : pc[p] = "idle"

\* The sensor is armed only while there is a callback.
CallbackInv == mIsEnabled => mCallback \in {"live", "destroyed"}

SubHalInv == SensorInv /\ CallInv /\ CallbackInv

USE NoneAssumption DEF NoneAssumption

-----------------------------------------------------------------------------
\* Each step of the sub-HAL is a step of its sensor, or leaves it alone.
LEMMA SubHalStepRefines == CallInv /\ [SubHalNext]_subHalVars => [Next]_vars
<1> SUFFICES ASSUME CallInv, [SubHalNext]_subHalVars PROVE [Next]_vars
  OBVIOUS
<1>1. ASSUME NEW p \in Callers, Initialize(p) PROVE UNCHANGED vars
  BY <1>1 DEF Initialize
<1>2. ASSUME NEW p \in Callers, CallSensor(p) PROVE Next
  BY <1>2 DEF CallSensor, Next
<1>3. ASSUME NEW p \in Callers, FinishMode(p) PROVE Next
  BY <1>3 DEF FinishMode, Next
<1>4. CASE StoreCallback \/ DestroyCallback
  BY <1>4 DEF StoreCallback, DestroyCallback
<1>5. CASE ResetMode
  <2>1. initializer \in Callers /\ "NORMAL" \in Modes /\ SetOperationMode(initializer, "NORMAL")
    BY <1>5 DEF ResetMode, CallInv, Modes
  <2> QED
    BY <2>1 DEF Next
<1>6. CASE DestroySensors
  BY <1>6 DEF DestroySensors, Next
<1>7. CASE SensorStepAlone
  BY <1>7 DEF SensorStepAlone, Next
<1>8. CASE UNCHANGED subHalVars
  BY <1>8 DEF subHalVars
<1> QED
  BY <1>1, <1>2, <1>3, <1>4, <1>5, <1>6, <1>7, <1>8 DEF SubHalNext

\* What the sensor does on its own leaves the calls alone and arms nothing.
LEMMA AloneStep ==
    ASSUME SubHalInv, SensorStepAlone
    PROVE  CallInv' /\ CallbackInv'
<1>1. UNCHANGED <<subVars, pc>>
  BY DEF SensorStepAlone, Construction, EnterUdfpsSensor, OpenFds, Destruction, DestroySensor,
         Join, RunThread, StartThread, WakeUp, SampleAgain, PollReturns, HandleError,
         HandleFinger, HandleOther, SpuriousWake, PollFails, HandleBadRead, PanelReports
<1>2. life = "built" => life' = life
  BY DEF SensorStepAlone, Construction, EnterUdfpsSensor, OpenFds, Destruction, DestroySensor,
         Join, RunThread, StartThread, WakeUp, SampleAgain, PollReturns, HandleError,
         HandleFinger, HandleOther, SpuriousWake, PollFails, HandleBadRead, PanelReports,
         objectVars
<1>3. mIsEnabled' => mIsEnabled
  BY DEF SensorStepAlone, Construction, EnterUdfpsSensor, OpenFds, Destruction, DestroySensor,
         Join, RunThread, StartThread, WakeUp, SampleAgain, PollReturns, HandleError,
         HandleFinger, HandleOther, SpuriousWake, PollFails, HandleBadRead, PanelReports,
         sensorVars
<1> QED
  BY <1>1, <1>2, <1>3 DEF SubHalInv, CallInv, CallbackInv, subVars

LEMMA CallStep ==
    ASSUME SubHalInv, NEW p \in Callers, CallSensor(p) \/ FinishMode(p)
    PROVE  CallInv' /\ CallbackInv'
<1> USE DEF SubHalInv
<1>1. CASE CallSensor(p)
  <2>1. initializer = None /\ mCallback = "live" /\ UNCHANGED subVars
    BY <1>1 DEF CallSensor
  <2> QED
    BY <2>1 DEF CallInv, CallbackInv, subVars
<1>2. CASE FinishMode(p)
  <2>1. /\ pc[p] = "interrupt"
        /\ pc' = [pc EXCEPT ![p] = "idle"]
        /\ UNCHANGED <<life, mIsEnabled, mCallback>>
        /\ initializer' = IF initializer = p THEN None ELSE initializer
    BY <1>2 DEF FinishMode, InterruptAfterMode, objectVars, sensorVars
  <2> QED
    BY <2>1 DEF CallInv, CallbackInv, SensorInv, TypeOK
<1> QED
  BY <1>1, <1>2

LEMMA InitializeStep ==
    ASSUME SubHalInv,
           \/ \E p \in Callers : Initialize(p)
           \/ StoreCallback
           \/ ResetMode
    PROVE  CallInv' /\ CallbackInv'
<1> USE DEF SubHalInv
<1>1. ASSUME NEW p \in Callers, Initialize(p) PROVE CallInv' /\ CallbackInv'
  <2>1. UNCHANGED <<pc, life, mIsEnabled>>
    BY <1>1 DEF Initialize, vars, sensorVars, objectVars
  <2> QED
    BY <1>1, <2>1 DEF Initialize, NoCall, CallInv, CallbackInv
<1>2. CASE StoreCallback
  <2>1. UNCHANGED <<pc, life, mIsEnabled>>
    BY <1>2 DEF StoreCallback, vars, sensorVars, objectVars
  <2> QED
    BY <1>2, <2>1 DEF StoreCallback, CallInv, CallbackInv
<1>3. CASE ResetMode
  <2>1. /\ initializer \in Callers /\ mCallback = "live" /\ UNCHANGED <<subVars, life, mIsEnabled>>
        /\ pc' = [pc EXCEPT ![initializer] = "interrupt"]
    BY <1>3 DEF ResetMode, SetOperationMode, CallInv, objectVars
  <2> QED
    BY <2>1 DEF CallInv, CallbackInv, SensorInv, TypeOK, subVars
<1> QED
  BY <1>1, <1>2, <1>3

LEMMA DestroyStep ==
    ASSUME SubHalInv, DestroyCallback \/ DestroySensors
    PROVE  CallInv' /\ CallbackInv'
<1> USE DEF SubHalInv
<1>1. CASE DestroyCallback
  BY <1>1 DEF DestroyCallback, NoCall, CallInv, CallbackInv
<1>2. CASE DestroySensors
  <2>1. mCallback = "destroyed" /\ initializer = None /\ UNCHANGED subVars
    BY <1>2 DEF DestroySensors, CallInv
  <2> QED
    BY <2>1 DEF CallInv, CallbackInv, subVars
<1> QED
  BY <1>1, <1>2

LEMMA SubHalStep == SubHalInv /\ [SubHalNext]_subHalVars => SubHalInv'
<1> SUFFICES ASSUME SubHalInv, [SubHalNext]_subHalVars PROVE SubHalInv'
  OBVIOUS
<1>1. SensorInv'
  BY SubHalStepRefines, SensorStep DEF SubHalInv
<1>2. CASE UNCHANGED subHalVars
  BY <1>1, <1>2 DEF SubHalInv, CallInv, CallbackInv, subHalVars, subVars, vars, sensorVars,
                    objectVars
<1>3. CASE SubHalNext
  BY <1>1, <1>3, AloneStep, CallStep, InitializeStep, DestroyStep DEF SubHalNext, SubHalInv
<1> QED
  BY <1>2, <1>3

LEMMA SubHalInvHolds == SubHalSpec => []SubHalInv
<1>1. SubHalInit => SubHalInv
  <2> SUFFICES ASSUME SubHalInit PROVE SubHalInv
    OBVIOUS
  <2>1. SensorInv
    <3>1. faults \in 0..MaxFaults /\ pipe \in Nat
      BY BoundsAssumption DEF BoundsAssumption, SubHalInit, Init
    <3>2. TypeOK
      BY <3>1 DEF SubHalInit, Init, TypeOK, Modes, RunPcs, Lives
    <3> QED
      BY <3>2 DEF SubHalInit, Init, SensorInv, ConstructionInv, PollInv, WaitsOnlyWhenIdle,
                  NeverBlindPoll, Armed
  <2> QED
    BY <2>1 DEF SubHalInit, Init, SubHalInv, CallInv, CallbackInv
<1> QED
  BY <1>1, SubHalStep, PTL DEF SubHalSpec

-----------------------------------------------------------------------------
\* The types of the sub-HAL; initialize keeps the other calls out until it
\* has reset the mode (SensorsSubHal.cpp:140-144).
THEOREM SubHalTypeCorrect == SubHalSpec => []SubHalTypeOK
<1>1. SubHalInv => SubHalTypeOK
  BY DEF SubHalInv, SensorInv, CallInv, SubHalTypeOK
<1> QED
  BY <1>1, SubHalInvHolds, PTL

\* The sub-HAL implements its sensor, fairness included: what holds of
\* UdfpsSensor holds of the sensor in it (SensorsSubHal.cpp:35-63, 140-144).
THEOREM SubHalImplementsSensor == SubHalSpec => Spec
<1>1. SubHalInit => Init
  BY DEF SubHalInit
<1>2. SubHalInv => CallInv
  BY DEF SubHalInv
<1> QED
  BY <1>1, <1>2, SubHalStepRefines, SubHalInvHolds, PTL DEF SubHalSpec, Spec

\* What is proved of the sensor alone holds of the sensor in the sub-HAL, whose
\* calls come in a narrower order (SensorsSubHal.cpp:35-63, 140-149).
THEOREM SensorPromisesInSubHal ==
    SubHalSpec => OneShot /\ []WaitsOnlyWhenIdle /\ []NeverBlindPoll
  BY SubHalImplementsSensor, SensorIsOneShot, NoLostWakeUp, NoBlindPoll, PTL

\* An event of the thread meets a callback, unless it comes late or the
\* sub-HAL is being destroyed (SensorsSubHal.cpp:140-149).
THEOREM EventsAlwaysHaveACallback == SubHalSpec => EventsHaveACallback
<1>1. ASSUME SubHalInv, [SubHalNext]_subHalVars, events' # events
      PROVE  \/ mCallback = "live"
             \/ ~mIsEnabled /\ runPc = "polled"
             \/ mCallback = "destroyed"
  <2>1. [Next]_vars
    BY <1>1, SubHalStepRefines DEF SubHalInv
  <2>2. mIsEnabled \/ runPc = "polled"
    BY <1>1, <2>1
    DEF Next, Construction, EnterUdfpsSensor, OpenFds, DestroyUdfpsSensor, Destruction,
        DestroySensor, Join, Activate, SetOperationMode, InterruptAfterMode, RunThread,
        StartThread, WakeUp, SampleAgain, LoopHead, MaySample, PollReturns, HandleError,
        HandleFinger, HandleOther, SpuriousWake, PollFails, HandleBadRead, PanelReports, vars
  <2> QED
    BY <1>1, <2>2 DEF SubHalInv, CallbackInv
<1>2. SubHalInv /\ [SubHalNext]_subHalVars
        => [events' # events =>
              \/ mCallback = "live"
              \/ ~mIsEnabled /\ runPc = "polled"
              \/ mCallback = "destroyed"]_subHalVars
  BY <1>1
<1> QED
  BY <1>2, SubHalInvHolds, PTL DEF SubHalSpec, EventsHaveACallback
=============================================================================
