# Verification of the Realme samurai device tree

This directory models the programs of `src/` that have state, threads and
failures: the `syshelper` service, the sensors sub-HAL with its UDFPS sensor, the
fingerprint HAL and its composition with syshelper, the chargespeed app, the
IFAA manager and the light sensor's screen capture. TLC checks small instances;
TLAPS proves the main safety properties for every value of the constants.

## 1. Inventory

Most of the repository (overlays, audio tables, sepolicy, permissions, rc
files) is data for the platform. The programs are these.

| Component | Source | State | Operations |
|---|---|---|---|
| syshelper, touch status | `syshelper/UdfpsHelper.*` | `currentIsDownState`, `fpdown_mutex_lock`, `mWaitCV`, `run_mutex_lock` | `touchDown`, `touchUp`, `getTouchStatus`; the thread `run` |
| syshelper, callbacks | `syshelper/UdfpsHelper.*`, `LinkedCallback.*` | `callbacks_`, `callback_mutex_lock`, death links | `registerCallback`, `unregisterCallback`, `OnCallbackDied` |
| sensors sub-HAL | `sensors/Sensor.*`, `SensorsSubHal.*` | `mCallback`; of its sensor `mIsEnabled`, `mMode`, `mStopThread`, the pipe, the poll | `initialize`, `activate`, `setOperationMode`, construction, destruction; the thread `run` |
| fingerprint HAL | `fingerprint/BiometricsFingerprint.*` | `isEnrolling`, the nodes `dimlayer_hbm` and `notify_fppress`, three proxies | framework calls, callbacks of the vendor HAL |
| ALS | `als/default/AreaCapture.cpp` | none | `getAreaBrightness` |
| chargespeed | `chargespeed/...` | a secure setting of each user, the node `cool_down`, the list on the screen | preference change, boot and charger broadcasts |
| ifaamanager | `ifaamanager/...` | the factory's field, `INSTANCE`, `mContext`, `mService`, the death link | `getIFAAManager`, `getInstance`, connection and loss of the service, `binderDied` |
| vendor init | `init/init_samurai.cpp` | properties | choice of names from the project id |
| init scripts | `rootdir/...` | properties, configfs | USB gadget triggers; the rest sets parameters |
| tools | `extract-files.sh`, `releasetools.py` | files of the developer | none on the device |

How they interact. The vendor's fingerprint HAL (outside the repository) calls
`onFingerprintCmd` of the fingerprint HAL, which calls `touchDown` and `touchUp`
of syshelper. Syshelper's rc file restarts the fingerprint HAL whenever
syshelper is restarted. Clients of syshelper register callbacks; the binder
runtime reports their deaths. The panel driver notifies `fp_state`, which the
sensor polls; the sensors framework activates and disarms the sensor. The
fingerprint HAL switches the panel's high-brightness layer.

What is hard, and the property that covers it:

- *Touch status.* The watchdog waits with another mutex than the one the
  notifiers hold; it sleeps three seconds during which anything may happen; it
  acts on a value read without a lock. (`StuckOnlyByRace`,
  `ForcedPressWasHeld`, `LiftedOrMissed`, `NextCallLifts`)
- *Callbacks.* A client may die while its object is half made, while it is
  probed, while it is unregistered; a death notification that has begun is not
  stopped. (`EntriesAreReady`, `LinksAreLive`, `DeadEntriesHaveAReaper`,
  `ImplementsRegistrations`, `DeadClientsAreForgotten`)
- *Sensor.* The mutex is dropped for `poll()`; the interrupting byte and the
  state change are two steps; the thread starts before the object is complete;
  files may not open and polls may fail. (`WaitsOnlyWhenIdle`, `NeverBlindPoll`,
  `OneShot`, `FingerIsSeen`, `DisarmedThreadRests`, `DisarmedSensorIsJoined`)
- *Fingerprint HAL.* Nodes set by one event are cleared by another that may
  never come; a crash leaves nodes set; the framework's service thread, its
  touches and the vendor's callbacks come in any order, and each handler tests
  `isEnrolling` for itself. (`NodesForAReason`, `ToldFingerIsLit`,
  `AuthenticationIsNoEnrolment`, `LeftoverIsCleared`, `AbandonedLightGoesOut`)
- *HAL and syshelper.* The HAL's one thread is blocked in syshelper while either
  may die; a crash of syshelper is repaired by init, the service manager and the
  HAL in steps of their own. (`ImplementsHal`, `ResultsComeAfterTouchUp`,
  `HandleComesBack`, `PressEnds`)
- *Sub-HAL.* `initialize` replaces the callback without the mutex of the sensor
  whose thread posts through it. (`EventsHaveACallback`)
- *Chargespeed.* Two users' processes, a kernel that clears the node, failing
  writes and kills between save and write all meet at one node.
  (`NodeFollowsSaved`, `ShownIsApplied`, `BroadcastRestores`)
- *Ifaamanager.* The instance is published before its context; a lost service is
  bound again; a death is handled on a service that may have been replaced.
  (`HalfMadeOnlyInside`, `OneBindPerProcess`, `LinkedUnlessLate`, `Reconnects`)
- *ALS.* Rows in memory are longer than the area. (`ReportsTheMean`)

`PROJECT.json` lists these hazards line by line.

## 2. Modules

| Module | Role |
|---|---|
| `UdfpsHelper` | touch status and watchdog |
| `CallbackRegistry` | registration, `LinkedCallback`, deaths, restart of the service |
| `Registrations` | abstract: what the registry promises its clients; `CallbackRegistry` implements it |
| `OneShotTrigger` | abstract: what a one-shot sensor promises |
| `UdfpsSensor` | the sensor and its thread; implements `OneShotTrigger` |
| `SensorsSubHal` | the sub-HAL around the sensor; extends and implements `UdfpsSensor` |
| `BiometricsFingerprint` | the fingerprint HAL, its callers and the two panel nodes |
| `FingerprintStack` | composes `BiometricsFingerprint` and `UdfpsHelper`; implements the former |
| `CoolDown` | the chargespeed app, its users, the kernel's node |
| `IfaaManager` | factory, singleton, connection and death recipient |
| `AreaCapture` | the mean colour of an area of the screen |
| `MC...` | instances for TLC |
| `...Proofs` | theorems |

In each module the seeded faults (operators whose comment says so) are plausible
mistakes next to the definition they would replace. They are not part of the
specification; replacing the definition by one makes the property they belong to
fail, which shows that the property depends on that code.

### UdfpsHelper

Variables are the members of the class, the thread's program counter and the
time. `SetTouch` and `Notify` are the two halves of `touchDown` and `touchUp`
(both hold `fpdown_mutex_lock`); `Check`, `Predicate`, `Park`, `NapOver`,
`Recheck`, `ForceTouchUp`, `ForceNotify` are the lines of `run()` in order. The
wait of a condition variable is three steps, because the notifiers do not hold
the waiter's mutex: the predicate is evaluated, the thread becomes a waiter, it
is woken. `getTouchStatus` only reads. `Tick` is a second; `held` is the age of
the press, `napLeft` the rest of `sleep(3)`. Two history variables, `missed` and
`repressed`, let properties speak of the past.

Abstraction: a read or write of the plain `bool` is one step. The code reads it
without a lock, so C++ promises nothing; the build makes one load of it.

### CallbackRegistry

`Make`, `SetService`, `SetCallback` are the statements of `LinkedCallback::Make`
in order (the object is linked to death before it is filled in). `Emplace`,
`Probe`, `Unregister` are the rest of the calls. `Deliver`, `DeathService`,
`DeathEnter`, `DeathRemove` follow a notification from
`OnCallbackDiedWrapped` to `unregisterCallback`. `Crash` is the abort of
`CHECK_NE`, or of the use of a freed object; `Restart` is init's.

Modelled from the NDK: a link to a binder that has reported its death is
refused; `unlinkToDeath` removes a notification that has not begun and does not
wait for one that has; the notifications of one binder run one after the other.
The use of a freed cookie may abort, return early or go on; memory is not reused
by another object. `onUdfpsTouchStatusChanged` has no effect on the registry
except that it reports a dead client. `OnUdfpsTouchStatusChanged`, which would
notify every callback, is called from nowhere (its calls are commented out) and
is not modelled.

`Registrations` is what a client may rely on: a call takes effect at one instant.
A registration adds one entry of its caller, and is refused only if the caller is
dead; the end of an `unregisterCallback` removes all entries of that client and no
other; else only a death, or the end of the service, takes an entry away, and the
service ends only after some client died. The mapping (`Log`): the abstract
entries are the objects in `callbacks_` with their owners (`Registered`), a call
is "registering" until `emplace_back` and "registered" during the probe
(`CallPhases`); the half made objects, the mutex and the notifications do not
appear. The probe of a client that has died is the abstract `Withdraw`, the end
of a notification is `Forget`, and the abort of `CHECK_NE` is `Abort`.
`LivingClientsAreKept` says a part of this without the abstract module; it is
proved and has no run of its own.

### UdfpsSensor and OneShotTrigger

A critical section of `mRunMutex` is one action: nothing in it blocks (a full
pipe would make `write` block; calls start only when there is room for their
byte, `PipeRoom`). `LoopHead` is the decision at the head of both `run()` loops.
`EnterUdfpsSensor` and `OpenFds` are the constructor, which runs while the
thread it has started already runs; `StartThread` chooses `Sensor::run` or
`UdfpsSensor::run` by how far the constructor is. `PollReturns` drops the
mutex; `HandleFinger`, `HandleOther`, `HandleError`, `HandleBadRead` are the
branches after it. `setOperationMode` writes its byte after it has dropped the
mutex, hence the two actions.

Not modelled: the contents of events. `batch` and `flush` of a one-shot sensor do
nothing, and `injectEvent` is refused.

`OneShot` is the refinement `OneShotTrigger` under the mapping `enabled` =
`mIsEnabled`, `credit` = armed or in a poll, `parity` = that of the events. It
covers the thread in `UdfpsSensor::run`. A thread that began in `Sensor::run`
(the constructor of the derived class had not begun yet) posts in a loop and
never disarms; its events are left out of the mapping, and this hazard is listed.

### BiometricsFingerprint

The service has one thread (`configureRpcThreadpool(1, true)`), so its handlers
do not interleave with each other. They do interleave with the callers, the
vendor's HAL, deaths and init: `Program` gives each handler as the list of its
effects in the order of the code, and each effect (`SetEnrolling`,
`WriteDimlayer`, `WriteFpPress`, `CallHelper`, `SetCallback`, `Forward`,
`Notify`) is a step. The tests of `isEnrolling` before a write are in
`NewDimlayer`; the early return of `ensureOplusHal` is `ReturnsAtOnce`, and
`MayForward` with `isUff`. `TakeCall`, `TakeCallback` and `Return` are the
thread's loop. The nodes belong to the kernel: they survive `HalDies`.
`BootCompleted` is the trigger of `rootdir/etc/init.target.rc:164`, which clears
them.

The framework and the vendor's HAL are not in the repository. Of the framework
the model keeps what Android's fingerprint service does with this interface: one
client at a time; `preEnroll` before an enrolment and `postEnroll` some time
after it; no touch begins without a client, and one that has begun ends even when
the client is gone; a dead HAL ends the client. `postEnroll` is not owed: an
enrolment may be left and an authentication begun, the case the comment at
`BiometricsFingerprint.cpp:148` is about. The vendor's HAL posts any callback
its session allows, at any time, and touch commands always; its callbacks are
one-way and stay in order. It may answer a cancel and may have posted a result
before it heard of the cancel. Its session survives a death of this HAL, or does
not (`onrestart restart fps_hal`). Calls of a dead framework are still served
before its successor comes.

Abstractions: a write to a node succeeds (a failure is only logged). The
constructor waits for syshelper, so `mOplusUdfpsHelper` is not null; here its
calls return in one step. A callback to a dead framework is lost; the
abort of a process that ignores a failed call is one of the deaths `HalDies`
allows at any time. Calls that only forward change none of this state.

The constructor's wait for syshelper, its handle and the calls are refined by
`FingerprintStack`.

### FingerprintStack

Two instances over the same variables: `BiometricsFingerprint` and, with
one caller named `Binder`, `UdfpsHelper`. `touchDown` and `touchUp` are two-way
calls, so the abstract step `CallHelper` becomes `BeginCall` (syshelper's thread
takes the mutex and sets the status) and `EndCall` (it notifies, unlocks and
replies); in between the HAL's thread is blocked (`waiting`) and either process
may die. `CallFails` is a call to a dead service, whose failure is ignored.

`SyshelperCrashes` sets off three repairs that are steps of their own: init runs
`onrestart restart vendor.fps_hal.samurai` (`InitRestartsHal`) before it starts
syshelper (`SyshelperStarts`); the service manager forgets the dead service
(`ServiceManagerHears`); and `HalStarts` looks syshelper up, once. `handle` is
`mOplusUdfpsHelper`: "live", "dead" after a crash, or "stale" when the service
manager handed out a service that was dead already.

The framework neither dies nor reports touches here: those handlers make no call
of syshelper, and `BiometricsFingerprint` covers them. A call that syshelper has
not begun when the HAL dies is dropped.

`ImplementsHal` is the refinement: the composition implements
`BiometricsFingerprint!Spec`, its fairness included.

### SensorsSubHal

Extends `UdfpsSensor` with `mCallback` and the caller of `initialize`.
`Initialize`, `StoreCallback` and `ResetMode` are the assignment (the strong
pointer drops the old callback, then holds the new one) and the
`setOperationMode(NORMAL)` after it; `CallSensor` forwards `activate` and
`setOperationMode`; `DestroyCallback` and `DestroySensors` are the members in the
reverse of their order; `SensorStepAlone` is what the sensor does by itself, its
posts through `postEvents` included. The HAL proxy is not in the repository; the
model keeps that it runs `initialize` alone, disarms the sensors before it, and
arms none before the first.

### CoolDown

Each user who is started has a process with one thread, and all of them write
one node, under the first of two names that is writable. `OnReceive` reads the
saved level and `WriteCoolDown` writes it: the two halves of `restore`, and
likewise `OnPreferenceChange`, `WriteCoolDown` and `SetValue` are
`onPreferenceChange` with `saveAndApply`. `WriteFails` is the `IOException` that
nobody looks at. `ChargerConnects` sends the broadcast and may make the kernel
clear the node, at any later time (`KernelClears`, the case the comment of
`BootCompletedReceiver` is about). `ProcessDies` and `Reboot` may come in the
middle of a change. `writer` and `lost` are history: who wrote the node last,
and whose last write did not reach it.

Abstractions: the names that exist and their permissions do not change while the
device runs; the settings provider keeps what it was given (its own disk write
is asynchronous, in another process); the clamp of negative levels never acts,
as the list has none. `readCoolDown` has no caller.

### IfaaManager

`GetIFAAManager` and `ReturnInstance` are the factory, with its unsynchronized
field; `FirstCheck`, `EnterMonitor`, `SecondCheck`, `SetContext`, `Bind`,
`LeaveMonitor` are the lines of `getInstance`. `initService` calls
`bindService`, whose result is ignored. `OnServiceConnected`, `LinkToDeath` and
`OnServiceDisconnected` run on the main thread; `BinderDied` on a binder thread,
at any time after the death, so it may meet the next service in `mService`.
Processes of the service are numbered (`gen`). `ServiceDies` may end the binding
(the system gives up a service that keeps crashing).

Abstraction: a read or write of a static field is one step and stores are seen
in order; `mContext` is not volatile, so Java promises this only to readers of
`INSTANCE`. `Use` stands for any call of the manager. The lists and numbers the
manager answers with are not modelled.

### AreaCapture

`CaptureDisplay` is a successful capture: an area, laid out in memory with rows
of `stride` pixels, four bytes each. `SumUp` adds the bytes at `Offset`, the
address arithmetic of the loops, over `Pixels`, modulo the range of `uint32_t`. A float
quotient is kept as its two terms. `CaptureFails` covers both errors, which
reply without a result.

## 3. Runs

| Run | Shows |
|---|---|
| `helper` | each press is lifted unless its notification fell into the race of `run()`; a press the watchdog saw as it fell asleep is not cut short; any later call repairs a missed press |
| `helper_down_time` | **violation**: a press younger than three seconds is lifted by force, although the warning says "down time is larger than 3s" |
| `helper_lifted` | **violation**: a press whose notification is lost is never lifted |
| `registry` | the registry implements `Registrations`, dead clients lose their entries for good, only finished objects are registered, fresh notifications have a living cookie |
| `registry_check` | **violation**: `CHECK_NE(nullptr, service_sp)` fails when a client dies during `Make` |
| `registry_cookie` | **violation**: "it is always safe to reinterpret_cast the cookie" is not so for a notification that has begun |
| `sensor` | of the sensor inside its sub-HAL: no lost wake-up, no blind poll, one event per arming, a finger is seen, a disarmed sensor rests, one that is disarmed or whose thread has stopped by itself is joined; no event goes through a callback that is being replaced, but for the one that comes after a disarm |
| `fingerprint` | the panel is lit and pressed only for an enrolment, for a touch or by a death; the vendor's HAL is told of a finger only on a lit, pressed panel; an authentication runs with `isEnrolling` reset; later touches turn off what a death left on, and the light of an enrolment that was left without `postEnroll` |
| `stack` | HAL and syshelper implement the HAL alone; when the framework hears of a result the press is over in syshelper; a HAL whose syshelper crashed is restarted and gets a handle again (a dead one, which it keeps, if it starts before the service manager has heard of the crash); every press ends, whoever dies in it, but for the watchdog's race |
| `cool_down` | the node holds what its last writer saved unless that write was lost; the screen shows what is applied under the same condition; a broadcast brings the saved level to the node |
| `ifaa` | a half made instance exists only between two lines of the synchronized block; one binding for each process of the service; its deaths stay watched unless an older one is reported late; the service is connected again |
| `als` | the reply is the mean of exactly the pixels shown |

Bounds, and why they are enough:

- `helper`: two callers (one may hold the mutex while another waits), the real
  three seconds, ages up to four (one beyond the threshold the code uses).
- `registry`: two threads, two clients, three objects in one life of the
  service. One client can have two entries, or an entry and one being made,
  while the other has one. The run does not check for deadlock: when both
  clients are dead and all is delivered, nothing is left to do.
- `sensor`: two callers, four bytes in the pipe (65536 in the kernel), two
  failures. A call adds one byte and the thread removes one; two concurrent
  calls, the destructor's byte and one left over fit.
- `fingerprint`: one callback may wait beside the error that answers a cancel, so
  a result and an error can be in flight together; two deaths, so that a HAL may
  die, leave a node on, and its successor or the framework die as well. With two
  waiting callbacks the safety properties were checked too. `IsUff` is FALSE:
  TRUE only drops the forwarding of touches. No deadlock is possible, as a user
  may always call or touch. A HAL or a framework that is down may stay down.
- `stack`: one crash of syshelper, which costs the HAL one death, and one death of
  the HAL besides, before or after it. The HAL gets `setNotify`, `authenticate`, a
  touch-down command and a result, one waiting at a time: enough for a press with
  a result on both sides of a crash. `ForceAfter` is 0, which here lets the nap
  of the watchdog end at any time; its three seconds are the matter of `helper`.
- `cool_down`: two users, as two processes are what it takes to overwrite each
  other; two levels, the default and one other; two failures of any kind. Each
  of the two names may be missing, read-only or writable, in all nine ways.
- `ifaa`: three threads (one inside, one that waits for the monitor, one that
  reads without it), two deaths (an old and a new service).
- `als`: every content of areas of up to 2 by 2 pixels with no or one pixel of
  padding; bytes of two bits with sums of four, so that the largest sum is near the
  range, as the assumption demands. The code's 900 pixels stay far below 2^32.

Fairness. A thread that can take a step takes one in the end (weak fairness).
Where a thread competes for a mutex that others hold for a few instructions at
a time, strong fairness says it is not overtaken for ever: the watchdog for
`fpdown_mutex_lock`, callers and death notifications for `callback_mutex_lock`.
Time passes. The fingerprint HAL's thread takes every call that waits in the end
(binder serves them in order; strong fairness, as the thread is busy in
between). init restarts a service that died. In `CoolDown` a process that has
something to write writes it, and takes a broadcast in the end although its user
goes on picking levels (the main thread's queue is in order; strong fairness). In
`IfaaManager` threads run, the monitor is granted in the end (strong fairness),
deaths are reported and the system starts what is bound. Nothing obliges a
client, a finger or a destructor to act, and nothing obliges a condition variable
to wake by itself.

## 4. Proofs

| Module | Theorems | Inductive invariant |
|---|---|---|
| `UdfpsHelperProofs` | `TypeCorrect`, `OnlyTheRaceMissesAPress`, `NoOldPressIsCutShort` | `NapMeasuresThePress`: during a nap that began with this press, age plus rest of the nap is at least `ForceAfter` |
| `CallbackRegistryProofs` | `RegistryTypeCorrect`, `EntriesAlwaysReady`, `LinksAlwaysLive`, `DeadEntriesAlwaysHaveAReaper`, `LivingClientsAlwaysKept`, `RegistryImplementsRegistrations` | `RegistryInv`, `ObitInv` |
| `BiometricsFingerprintProofs` | `FingerprintTypeCorrect`, `NodesAlwaysForAReason`, `AuthenticationIsNeverEnrolment`, `ToldFingerIsAlwaysLit` | `HalInv`, `ToldInv` |
| `SensorsSubHalProofs` | of the sensor: `NoLostWakeUp`, `NoBlindPoll`, `SensorIsOneShot`; of the sub-HAL: `SubHalTypeCorrect`, `SubHalImplementsSensor`, `SensorPromisesInSubHal`, `EventsAlwaysHaveACallback` | `SensorInv`, `SubHalInv` |
| `FingerprintStackProofs` | `StackImplementsHal`, `ResultsAlwaysComeAfterTouchUp`, `StackTypeCorrect`, `HalSafetyHoldsInStack`, `StackRunsHelper`, `HelperSafetyHoldsInStack` | `StackInv`, `StackTypes`, and those of the parts |
| `CoolDownProofs` | `CoolDownTypeCorrect`, `NodeAlwaysFollowsSaved`, `ShownAlwaysApplied` | `CoolDownInv` |
| `IfaaManagerProofs` | `IfaaTypeCorrect`, `HalfMadeIsAlwaysInside`, `AlwaysOneBindPerProcess`, `AlwaysLinkedUnlessLate` | `IfaaInv` |
| `AreaCaptureProofs` | `ReplyIsTheMean` | `AreaInv` |

The proofs assume only the named assumptions of the constants. The properties
are not inductive as they stand. `RegistryInv` adds that a thread in `Make`
holds the mutex and its object is its own (`MakingInv`), that the objects of a
living client are linked to death (`LinkedInv`), and that a running notification
is about a dead client and an object made for it (`DeathInv`): without them one
cannot say that the entry a dead client has just got is noticed by the probe.
`SensorInv` adds what the constructor has done so far (`ConstructionInv`) and
that the thread polls only with its files open and sees no byte that is not
there (`PollInv`).
`HalInv` adds that the framework's state is that of the call it waits for, or a
death has marked both nodes (`CallerInv`); that `isEnrolling` is reset once
`authenticate` has passed its first line, and false without a vendor HAL
(`EnrolInv`); and what `postEnroll` and `onFingerUp` have turned off when the
reason for it ends with their return (`LightInv`, `PressInv`). It holds for any
`QueueCap`, `MaxDeaths` and either `IsUff`. `ToldInv` holds as long as no one has
died: the work of a client is in one place at a time (a call the vendor's HAL has
not heard of, its session, the one callback in the queue that ends it, or the
handler that passes this on: `SessionInv`), so the unconditional darkening of
`onAuthenticated` never meets an enrolment; and an enrolment keeps the panel lit
from the second line of `preEnroll` to `postEnroll` (`LitInv`), which is why
`onFingerDown` may leave the light alone then.

`StackInv` says of each result's handler how far it must be to have made its
`touchUp`, that nobody presses while the HAL has no live handle, and that a
`touchUp` which syshelper has served stays the last word until the HAL goes on:
without the last, the watchdog's thread or a crash might seem to undo it.
The proofs of the two parts are used in the stack, not repeated: it takes the
steps of `BiometricsFingerprint` (`StackImplementsHal`), and those of
`UdfpsHelper` or a fresh start of it (`StackRunsHelper`), so the parts' invariants,
from instances of their proof modules, hold in it across every crash and
restart. `StackTypes` adds what ties the parts together, as that a call being
served holds the mutex.

`CoolDownInv` adds that the local `level` of a process is what its user has saved
(`LocalInv`), which is why two processes and a kernel between the two halves of
`restore` do no harm, and that a list shows what is saved (`ShownInv`).
`IfaaInv` adds what the holder of the monitor has published and bound
(`MakeInv`), that a lost service which has still to be answered by a rebinding is
counted with the deaths (`BindInv`), and that the deaths still to be reported are
of processes that are gone (`LinkInv`). `SubHalInv` adds to `SensorInv` that
nothing else is called during `initialize` and that the sensor is armed only
while there is a callback.

`AreaInv` says that a captured buffer is the layout of the image. The step to the
reply needs three facts: the byte at `Offset` is the pixel's (`LaidOutAtOffset`,
arithmetic of quotient and remainder by the stride); the sum read is the sum
shown (equal functions); and it does not wrap (`SumIsBounded`: at most pixels
times the largest byte). `SumFunction` is a recursive function on the subsets of
the pixels, and the induction theorems of the library cannot be instantiated; the
lemmas `SumsAgree`, `SumsExist` and `SumIsBounded` take instead a smallest set for
which the claim fails (`SmallestSubset`, from the well-founded order of finite
sets by inclusion) and derive a contradiction. `RectangleFits` shows that the
30 by 30 pixels, the bytes and the `uint32_t` of the code meet `AreaAssumption`.

Refinements. `SensorIsOneShot` proves `Spec => Trigger!Spec`: the initial states
map to initial states and each action to a step of the abstract trigger or a
stutter. `SubHalImplementsSensor` proves `SubHalSpec => Spec` with the fairness
of the sensor, which `SensorPromisesInSubHal` draws on.
`RegistryImplementsRegistrations` proves `Spec => Log!Spec`; besides `RegistryInv`
it needs `ObitInv` (only the dead are reported dead), without which a refused
link could meet a living client. `StackImplementsHal` proves initial states and steps of
`ImplementsHal`; that the composition is also as fair as the HAL alone has to be
needs liveness and stays with TLC.

Only model-checked: the liveness properties (`LiftedOrMissed`, `NextCallLifts`,
`DeadClientsAreForgotten`, `FingerIsSeen`, `DisarmedThreadRests`,
`DisarmedSensorIsJoined`, `LeftoverIsCleared`, `AbandonedLightGoesOut`, `HandleComesBack`, `PressEnds`,
`BroadcastRestores`, `Reconnects`) and the fairness of `ImplementsHal`, which is a
matter of liveness too. Every invariant and action property of the runs is
proved.

## 5. What the models say about the code

- The watchdog of syshelper can miss a press: the notifiers do not hold the
  mutex the watchdog waits with. The status then stays down until the next call.
- A second press within three seconds is lifted by force up to three seconds early.
- A client that dies while it registers can abort the service.
- A death notification under way can use a `LinkedCallback` that
  `unregisterCallback` has freed.
- A sensor that is destroyed while it is armed may wait in `join` until the next
  touch: the byte of `~UdfpsSensor` may be read before `~Sensor` sets
  `mStopThread`. `NeverBlindPoll` and `DisarmedSensorIsJoined` leave this case out.
- A fingerprint HAL that dies leaves both nodes as they are and its successor
  writes none of them when it starts: the next touch or the next boot does. A
  framework that dies during an enrolment leaves `isEnrolling` set in the HAL
  until the next `authenticate` or `postEnroll`.
- An enrolment left without `postEnroll` keeps the panel lit, also into an
  authentication, which resets `isEnrolling` and not the light: a touch, a result
  or an error turns it off.
- A sensor whose files did not open, or whose poll failed once, is listed and
  can be armed, and never fires again; only its destruction works as ever.
- A HAL that is restarted by init after a crash of syshelper, before the service
  manager has heard of the crash, gets the dead service again and keeps it:
  nothing restarts it a second time, and all its touch commands fail silently.
- `chargespeed` shows a level as applied when its write failed, or when the node
  can only be read (`isSupported` asks for existence). The clear that a kernel
  makes after the receiver has run stays until the next broadcast. A switch of
  users sends no broadcast, so the level of the user who was started or plugged
  last stays in force.
- `ifaamanager` is half made for as long as `mContext` is not set; a thread that
  gets `INSTANCE` then meets null in `ensureNeedServiceAvailable`.
  `processCmdV2` does the same until the first connection. A `bindService` that
  fails is never tried again; each loss of the service adds a binding that
  nothing undoes; a death reported after the next connection leaves the new
  service without a recipient. A service that dies before it was connected is
  not bound again by the app.
- The loop of `getIDList` ends one short: the last id is always 0
  (`IFAAManagerImpl.java:187`). Seen while reading; there is no model of it.

## 6. Not modelled, and what is left

- `init/init_samurai.cpp`: a straight run before any other process, two names
  chosen by the content of a file.
- `rootdir`: the chip vendor's triggers and parameters for a USB gadget driver and
  daemons that are not in the repository. The lines that meet a modelled
  program are modelled with it (the reset of the nodes in `init.target.rc`, the
  `onrestart` of syshelper).
- Tools, configuration, overlays, sepolicy, audio tables, shims: code of the
  build host and data.
- Of the modelled programs: calls that only forward or answer (fingerprint
  `enumerate`, `remove`, `setActiveGroup` and so on; `getIDList`, `getEnabled`,
  `bytesToHexString`; `readCoolDown`, `debug`, the sensor list), logging, and the
  z-orders of `UdfpsExtension.cpp`, which are constants.

Left to do: the framework's touches
and deaths inside `FingerprintStack`, which only the size of the instance keeps
out; a restart of syshelper in one model of registry and watchdog, whose states
are disjoint today.
