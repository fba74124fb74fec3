----------------------------- MODULE UdfpsSensor -----------------------------
(***************************************************************************)
(* The UDFPS sensor of the sensors sub-HAL (src/sensors/Sensor.cpp): its   *)
(* run thread, the framework's calls, its construction and destruction.    *)
(*                                                                         *)
(* Every access to the state is made under mRunMutex, except where an      *)
(* action says otherwise, and nothing blocks while it is held (see         *)
(* PipeRoom), so each critical section is one step.  The run thread drops  *)
(* the mutex to wait on mWaitCV or to poll; a poll is interrupted by a     *)
(* byte in a pipe.                                                         *)
(***************************************************************************)
EXTENDS Naturals, FiniteSets

CONSTANTS
    Callers,      \* threads of the sensors service
    PipeCap,      \* bound: bytes in the pipe (65536 in the kernel)
    MaxFaults     \* bound: failures of poll and of reads of fp_state

ASSUME BoundsAssumption == /\ IsFiniteSet(Callers)
                           /\ PipeCap \in Nat
                           /\ MaxFaults \in Nat

VARIABLES
    mIsEnabled, mMode, mStopThread,
    pipe,        \* bytes in mWaitPipeFd
    fds,         \* what the constructor could open
    life,        \* construction and destruction of the object
    loop,        \* the run() that the virtual call of startThread chose
    runPc,       \* where the run thread is
    revents,     \* what poll returned
    pc,          \* where each caller is
    finger,      \* the finger is on the sensor: the state of fp_state
    fpNotify,    \* fp_state was notified since it was read
    events,      \* parity of the number of events posted
    faults       \* failures that may still happen

sensorVars == <<mIsEnabled, mMode, mStopThread>>
objectVars == <<fds, life, loop>>
panelVars == <<finger, fpNotify>>
vars == <<sensorVars, objectVars, panelVars, pipe, runPc, revents, pc, events, faults>>

Modes == {"NORMAL", "DATA_INJECTION"}
RunPcs == {"spawned", "waiting", "woken", "polling", "polled", "sampling", "exited"}
Lives == {"base", "udfps", "built", "closing", "joining", "gone"}

TypeOK ==
    /\ mIsEnabled \in BOOLEAN
    /\ mMode \in Modes
    /\ mStopThread \in BOOLEAN
    /\ pipe \in Nat
    /\ fds \in {"unset", "ok", "noPipe", "noFp"}
    /\ life \in Lives
    /\ loop \in {"none", "base", "udfps"}
    /\ runPc \in RunPcs
    /\ revents \in SUBSET {"pipe", "fp", "error"}
    /\ pc \in [Callers -> {"idle", "interrupt"}]
    /\ finger \in BOOLEAN
    /\ fpNotify \in BOOLEAN
    /\ events \in BOOLEAN
    /\ faults \in 0..MaxFaults

\* Sensor::Sensor has started the thread; the object is still a Sensor.
\* A file of sysfs counts as notified until it is first read.
Init ==
    /\ mIsEnabled = FALSE
    /\ mMode = "NORMAL"
    /\ mStopThread = FALSE
    /\ pipe = 0
    /\ fds = "unset"
    /\ life = "base"
    /\ loop = "none"
    /\ runPc = "spawned"
    /\ revents = {}
    /\ pc = [p \in Callers |-> "idle"]
    /\ finger \in BOOLEAN
    /\ fpNotify = TRUE
    /\ events = FALSE
    /\ faults = MaxFaults

Armed == mIsEnabled /\ mMode = "NORMAL"

-----------------------------------------------------------------------------
(* Pieces of the handlers                                                  *)

\* Seeded fault: the change is not announced.
NotifyNobody == UNCHANGED runPc

\* mWaitCV.notify_all()
NotifyAll == runPc' = IF runPc = "waiting" THEN "woken" ELSE runPc

\* Seeded fault: the poll is not interrupted.
InterruptNothing == UNCHANGED pipe

\* interruptPoll()
InterruptPoll == pipe' = IF fds = "noPipe" THEN pipe ELSE pipe + 1

\* The model has no full pipe, on which write() would block: a call starts
\* only if there is room for its byte beside those still to be written.
PipeRoom == pipe + Cardinality({p \in Callers : pc[p] = "interrupt"}) < PipeCap

\* Seeded fault: a disarmed sensor does not wait.
LoopHeadAlwaysOn(stop, enabled, run) ==
    /\ runPc' = IF stop THEN "exited"
                ELSE IF mMode = "DATA_INJECTION" THEN "waiting"
                ELSE IF run = "base" THEN "sampling"
                ELSE "polling"
    /\ revents' = {}

\* The head of both loops: run() stops, waits, or does its work.
LoopHead(stop, enabled, run) ==
    /\ runPc' = IF stop THEN "exited"
                ELSE IF ~enabled \/ mMode = "DATA_INJECTION" THEN "waiting"
                ELSE IF run = "base" THEN "sampling"
                ELSE "polling"
    /\ revents' = {}

\* Sensor::run, which is not overridden yet, posts in each round; it skips
\* one when the clock was set back.
MaySample ==
    IF runPc' = "sampling" THEN events' \in BOOLEAN ELSE events' = events

-----------------------------------------------------------------------------
(* Construction and destruction                                            *)

\* The constructor of UdfpsSensor begins: from here on virtual calls reach it.
EnterUdfpsSensor ==
    /\ life = "base"
    /\ life' = "udfps"
    /\ UNCHANGED <<sensorVars, fds, loop, panelVars, pipe, runPc, revents, pc, events, faults>>

\* pipe() and open().  A failure stops the thread, without the mutex and
\* without a notification.
OpenFds ==
    /\ life = "udfps"
    /\ life' = "built"
    /\ \/ fds' = "ok" /\ UNCHANGED mStopThread
       \/ fds' \in {"noPipe", "noFp"} /\ mStopThread' = TRUE
    /\ UNCHANGED <<mIsEnabled, mMode, loop, panelVars, pipe, runPc, revents, pc, events, faults>>

\* ~UdfpsSensor, when no call is under way.
DestroyUdfpsSensor ==
    /\ life = "built"
    /\ \A p \in Callers : pc[p] = "idle"
    /\ PipeRoom
    /\ life' = "closing"
    /\ InterruptPoll
    /\ UNCHANGED <<sensorVars, fds, loop, panelVars, runPc, revents, pc, events, faults>>

\* Seeded fault: the destructor does not notify.
DestroySensorSilently ==
    /\ life = "closing"
    /\ life' = "joining"
    /\ mStopThread' = TRUE
    /\ mIsEnabled' = FALSE
    /\ UNCHANGED <<mMode, fds, loop, panelVars, pipe, runPc, revents, pc, events, faults>>

\* The locked block of ~Sensor.
DestroySensor ==
    /\ life = "closing"
    /\ life' = "joining"
    /\ mStopThread' = TRUE
    /\ mIsEnabled' = FALSE
    /\ NotifyAll
    /\ UNCHANGED <<mMode, fds, loop, panelVars, pipe, revents, pc, events, faults>>

\* mRunThread.join()
Join ==
    /\ life = "joining"
    /\ runPc = "exited"
    /\ life' = "gone"
    /\ UNCHANGED <<sensorVars, fds, loop, panelVars, pipe, runPc, revents, pc, events, faults>>

-----------------------------------------------------------------------------
(* Calls of the sensors service                                            *)

Activate(p, enable) ==
    /\ life = "built"
    /\ pc[p] = "idle"
    /\ PipeRoom
    /\ mIsEnabled # enable
    /\ mIsEnabled' = enable
    /\ InterruptPoll
    /\ NotifyAll
    /\ UNCHANGED <<mMode, mStopThread, objectVars, panelVars, revents, pc, events, faults>>

\* Sensor::setOperationMode, under the mutex.
SetOperationMode(p, mode) ==
    /\ life = "built"
    /\ pc[p] = "idle"
    /\ PipeRoom
    /\ mMode' = mode
    /\ IF mMode # mode THEN NotifyAll ELSE UNCHANGED runPc
    /\ pc' = [pc EXCEPT ![p] = "interrupt"]
    /\ UNCHANGED <<mIsEnabled, mStopThread, objectVars, panelVars, pipe, revents, events, faults>>

\* Seeded fault: UdfpsSensor does not override setOperationMode.
InterruptNotAfterMode(p) ==
    /\ pc[p] = "interrupt"
    /\ pc' = [pc EXCEPT ![p] = "idle"]
    /\ UNCHANGED <<sensorVars, objectVars, panelVars, pipe, runPc, revents, events, faults>>

\* The rest of UdfpsSensor::setOperationMode, without the mutex.
InterruptAfterMode(p) ==
    /\ pc[p] = "interrupt"
    /\ pc' = [pc EXCEPT ![p] = "idle"]
    /\ InterruptPoll
    /\ UNCHANGED <<sensorVars, objectVars, panelVars, runPc, revents, events, faults>>

-----------------------------------------------------------------------------
(* The run thread                                                          *)

\* startThread: the virtual call, and the head of the loop it reaches.
StartThread ==
    /\ runPc = "spawned"
    /\ loop' = IF life = "base" THEN "base" ELSE "udfps"
    /\ LoopHead(mStopThread, mIsEnabled, loop')
    /\ MaySample
    /\ UNCHANGED <<sensorVars, fds, life, panelVars, pipe, pc, faults>>

\* wait() has the mutex again and evaluates its predicate.
WakeUp ==
    /\ runPc = "woken"
    /\ LoopHead(mStopThread, mIsEnabled, loop)
    /\ MaySample
    /\ UNCHANGED <<sensorVars, objectVars, panelVars, pipe, pc, faults>>

SpuriousWake ==
    /\ runPc = "waiting"
    /\ runPc' = "woken"
    /\ UNCHANGED <<sensorVars, objectVars, panelVars, pipe, revents, pc, events, faults>>

\* Sensor::run after wait_for, whose period is 0 for a one-shot sensor.
SampleAgain ==
    /\ runPc = "sampling"
    /\ LoopHead(mStopThread, mIsEnabled, loop)
    /\ MaySample
    /\ UNCHANGED <<sensorVars, objectVars, panelVars, pipe, pc, faults>>

\* poll() returns what is ready, without the mutex.
PollReturns ==
    /\ runPc = "polling"
    /\ pipe > 0 \/ fpNotify
    /\ revents' = {r \in {"pipe", "fp"} : IF r = "pipe" THEN pipe > 0 ELSE fpNotify}
    /\ runPc' = "polled"
    /\ UNCHANGED <<sensorVars, objectVars, panelVars, pipe, pc, events, faults>>

PollFails ==
    /\ runPc = "polling"
    /\ faults > 0
    /\ faults' = faults - 1
    /\ revents' = {"error"}
    /\ runPc' = "polled"
    /\ UNCHANGED <<sensorVars, objectVars, panelVars, pipe, pc, events>>

\* rc < 0: the thread stops for good.
HandleError ==
    /\ runPc = "polled"
    /\ revents = {"error"}
    /\ mStopThread' = TRUE
    /\ LoopHead(TRUE, mIsEnabled, loop)
    /\ UNCHANGED <<mIsEnabled, mMode, objectVars, panelVars, pipe, pc, events, faults>>

\* Seeded fault: the sensor stays armed after its event.
HandleFingerStayingArmed ==
    /\ runPc = "polled"
    /\ "fp" \in revents
    /\ finger
    /\ fpNotify' = FALSE
    /\ events' = ~events
    /\ LoopHead(mStopThread, mIsEnabled, loop)
    /\ UNCHANGED <<sensorVars, objectVars, finger, pipe, pc, faults>>

\* readFpState sees the finger: the sensor disarms itself and posts, without
\* another look at mIsEnabled or mMode.
HandleFinger ==
    /\ runPc = "polled"
    /\ "fp" \in revents
    /\ finger
    /\ fpNotify' = FALSE
    /\ mIsEnabled' = FALSE
    /\ events' = ~events
    /\ LoopHead(mStopThread, FALSE, loop)
    /\ UNCHANGED <<mMode, mStopThread, objectVars, finger, pipe, pc, faults>>

\* Seeded fault: a byte is read whether poll saw one or not.
DrainBlindly == pipe' = pipe - 1

\* One byte, if poll saw any.
DrainPipe == pipe' = IF "pipe" \in revents THEN pipe - 1 ELSE pipe

\* Seeded fault: fp_state is read before it is known to be notified.
HandleOtherReadingFirst ==
    /\ runPc = "polled"
    /\ revents # {"error"}
    /\ "fp" \in revents => ~finger
    /\ fpNotify' = FALSE
    /\ DrainPipe
    /\ LoopHead(mStopThread, mIsEnabled, loop)
    /\ UNCHANGED <<sensorVars, objectVars, finger, pc, events, faults>>

\* readFpState sees no finger, or there was nothing to read.
HandleOther ==
    /\ runPc = "polled"
    /\ revents # {"error"}
    /\ IF "fp" \in revents THEN ~finger /\ fpNotify' = FALSE ELSE UNCHANGED fpNotify
    /\ DrainPipe
    /\ LoopHead(mStopThread, mIsEnabled, loop)
    /\ UNCHANGED <<sensorVars, objectVars, finger, pc, events, faults>>

\* readFpState fails before or after the file counts as read.
HandleBadRead ==
    /\ runPc = "polled"
    /\ "fp" \in revents
    /\ faults > 0
    /\ faults' = faults - 1
    /\ fpNotify' \in BOOLEAN
    /\ DrainPipe
    /\ LoopHead(mStopThread, mIsEnabled, loop)
    /\ UNCHANGED <<sensorVars, objectVars, finger, pc, events>>

-----------------------------------------------------------------------------
\* The panel driver reports a touch, a lift or a move.
PanelReports ==
    /\ finger' \in BOOLEAN
    /\ fpNotify' = TRUE
    /\ UNCHANGED <<sensorVars, objectVars, pipe, runPc, revents, pc, events, faults>>

Construction == EnterUdfpsSensor \/ OpenFds

Destruction == DestroySensor \/ Join

RunThread ==
    \/ StartThread \/ WakeUp \/ SampleAgain \/ PollReturns
    \/ HandleError \/ HandleFinger \/ HandleOther

Next ==
    \/ Construction
    \/ DestroyUdfpsSensor
    \/ Destruction
    \/ \E p \in Callers :
         \/ \E enable \in BOOLEAN : Activate(p, enable)
         \/ \E mode \in Modes : SetOperationMode(p, mode)
         \/ InterruptAfterMode(p)
    \/ RunThread
    \/ SpuriousWake
    \/ PollFails
    \/ HandleBadRead
    \/ PanelReports

\* Every thread that can take a step takes one in the end; nobody has to
\* call, to destroy the sensor, to touch the panel or to fail.
Fairness ==
    /\ WF_vars(Construction)
    /\ WF_vars(Destruction)
    /\ WF_vars(RunThread)
    /\ \A p \in Callers : WF_vars(InterruptAfterMode(p))

Spec == Init /\ [][Next]_vars /\ Fairness

-----------------------------------------------------------------------------
(* Properties                                                              *)

\* The run thread waits only when it has nothing to do: no call armed or
\* stopped the sensor without waking it (Sensor.cpp:270-284, 291-293).  The
\* exception is a constructor that failed, which stops the thread without a
\* notification (Sensor.cpp:250-253).
WaitsOnlyWhenIdle == (runPc = "waiting" /\ fds = "ok") => ~Armed /\ ~mStopThread

\* The run thread never polls with nothing to interrupt it while the sensor
\* is disarmed or injected: the byte of the call that changed this is in the
\* pipe or on its way (Sensor.cpp:270-284, 296-313).  Only the destructor,
\* which writes its byte before it stops the thread, is outside this.
NeverBlindPoll ==
    (runPc \in {"polling", "polled"} /\ ~Armed /\ life # "joining") =>
        pipe > 0 \/ \E p \in Callers : pc[p] = "interrupt"

\* The sensor is a one-shot trigger as long as the thread runs
\* UdfpsSensor::run: an event disarms it, each arming has at most one event,
\* and at most one comes late after a disarm (Sensor.cpp:286-315).
Trigger == INSTANCE OneShotTrigger WITH
    enabled <- mIsEnabled,
    credit <- mIsEnabled \/ runPc \in {"polling", "polled"},
    parity <- loop # "base" /\ events

OneShot == Trigger!Spec

\* A finger reported while the sensor is armed is turned into an event, or
\* is lifted or the sensor disarmed first (Sensor.cpp:296-308).
FingerIsSeen ==
    (/\ life = "built" /\ loop # "base" /\ ~mStopThread /\ faults = 0 /\ revents # {"error"}
     /\ Armed /\ finger /\ fpNotify) ~> (~Armed \/ ~finger \/ life # "built")

\* A disarmed sensor does not keep its thread polling: an interrupted poll
\* always leads back to the wait (Sensor.cpp:288-293, 309-312).
DisarmedThreadRests ==
    (life = "built" /\ ~Armed) ~>
        (runPc \in {"waiting", "exited"} \/ Armed \/ life # "built")

\* The destruction of a sensor that is disarmed returns from join, also when
\* the thread is still in a poll; and so does that of any sensor whose thread
\* stopped by itself, as its files did not open or a poll failed
\* (Sensor.cpp:89-99, 250-253, 266-268, 300-304).
DisarmedSensorIsJoined ==
    (life = "closing" /\ (~Armed \/ mStopThread)) ~> (life = "gone")

=============================================================================
