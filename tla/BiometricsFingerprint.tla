------------------------ MODULE BiometricsFingerprint ------------------------
(***************************************************************************)
(* The fingerprint HAL (src/fingerprint/BiometricsFingerprint.cpp) between *)
(* the framework and the vendor's HAL, and the two nodes of the panel that *)
(* it writes: dimlayer_hbm lights the panel for an enrolment or a touch,   *)
(* notify_fppress tells it of the press.                                   *)
(*                                                                         *)
(* The service has one thread (configureRpcThreadpool(1, true)), so its    *)
(* handlers run one after the other; a handler is the list of its effects, *)
(* and the process may die between two of them.  The nodes are the         *)
(* kernel's: they keep their values when the HAL dies.                     *)
(*                                                                         *)
(* The framework is modelled by what it calls: its service thread and the  *)
(* touches of the user are two callers, each waiting for its reply.  The   *)
(* vendor's HAL calls back one way, so its calls queue up in order.        *)
(***************************************************************************)
EXTENDS Naturals, Sequences

CONSTANTS
    IsUff,        \* the sensor is under the film: persist.vendor.fingerprint.version
    QueueCap,     \* bound: callbacks of the vendor's HAL that wait
    MaxDeaths     \* bound: deaths of the HAL and of the framework

ASSUME BoundsAssumption == IsUff \in BOOLEAN /\ QueueCap \in Nat /\ MaxDeaths \in Nat

VARIABLES
    up,             \* the HAL runs
    hasOplus,       \* mOplusBiometricsFingerprint is not null
    isEnrolling,
    mClientCallback,\* it is that of the running framework
    call,           \* the handler that runs, or "none"
    line,           \* its next effect
    dimlayer_hbm,
    notify_fppress,
    framework,      \* "down", "booting" or "up"
    client,         \* what the framework is busy with
    challenge,      \* an enrolment was begun with preEnroll and not ended
    finger,         \* the user's touch, as far as the framework knows
    inbox,          \* the call each of the framework's threads waits for
    session,        \* what the vendor's HAL is busy with
    queue,          \* its callbacks that wait
    leftover,       \* history: nodes that a death may have left on
    deaths          \* how many there were

halVars == <<up, hasOplus, isEnrolling, mClientCallback>>
nodeVars == <<dimlayer_hbm, notify_fppress, leftover>>
frameworkVars == <<framework, client, challenge, finger>>
vendorVars == <<session, queue>>
vars == <<halVars, call, line, nodeVars, frameworkVars, inbox, vendorVars, deaths>>

ServiceCalls == {"setNotify", "preEnroll", "enroll", "postEnroll", "cancel", "authenticate"}
TouchCalls == {"onFingerDown", "onFingerUp"}
Callbacks == {"onEnrollResult", "onEnrolled", "onAuthenticated", "onRejected", "onError",
              "touchDownCmd", "touchUpCmd"}
Threads == {"service", "touch"}
Calls == [service |-> ServiceCalls, touch |-> TouchCalls]

\* The effects of each handler, in order.  "forward" is the same call of the
\* vendor's HAL, "notify" that of the framework's callback; onEnrolled is the
\* last onEnrollResult, onRejected an onAuthenticated with fingerId 0.
Program ==
    [setNotify       |-> <<"setCallback", "forward">>,
     preEnroll       |-> <<"enrolling", "lightOn", "forward">>,
     enroll          |-> <<"lightOn", "forward">>,
     postEnroll      |-> <<"notEnrolling", "lightOff", "forward">>,
     cancel          |-> <<"lightOffUnlessEnrolling", "forward">>,
     authenticate    |-> <<"notEnrolling", "forward">>,
     onFingerDown    |-> <<"lightOnUnlessEnrolling", "press", "forward">>,
     onFingerUp      |-> <<"release", "lightOffUnlessEnrolling", "forward">>,
     onEnrollResult  |-> <<"touchUp", "notify">>,
     onEnrolled      |-> <<"touchUp", "notify">>,
     onAuthenticated |-> <<"lightOff", "release", "touchUp", "notify">>,
     onRejected      |-> <<"release", "touchUp", "notify">>,
     onError         |-> <<"release", "lightOffUnlessEnrolling", "notify">>,
     touchDownCmd    |-> <<"touchDown">>,
     touchUpCmd      |-> <<"touchUp">>]

\* ensureOplusHal() and isUff().
MayForward == hasOplus /\ ~(IsUff /\ call \in TouchCalls)
ReturnsAtOnce(c) == ~hasOplus /\ c \in ServiceCalls \ {"setNotify"}

\* The effect that comes next, if the handler has one left.
Op == IF call = "none" \/ ReturnsAtOnce(call) \/ line > Len(Program[call])
        THEN "none" ELSE Program[call][line]

TypeOK ==
    /\ up \in BOOLEAN /\ hasOplus \in BOOLEAN
    /\ isEnrolling \in BOOLEAN
    /\ mClientCallback \in BOOLEAN
    /\ call \in ServiceCalls \cup TouchCalls \cup Callbacks \cup {"none"}
    /\ line \in 1..5
    /\ dimlayer_hbm \in BOOLEAN /\ notify_fppress \in BOOLEAN
    /\ framework \in {"down", "booting", "up"}
    /\ client \in {"none", "enroll", "authenticate"}
    /\ challenge \in BOOLEAN
    /\ finger \in {"up", "pressing", "down", "lifting"}
    /\ inbox \in [Threads -> ServiceCalls \cup TouchCalls \cup {"none"}]
    /\ \A t \in Threads : /\ inbox[t] \in Calls[t] \cup {"none"}
                          /\ call \in Calls[t] => inbox[t] = call
    /\ session \in {"none", "enroll", "authenticate"}
    /\ queue \in Seq(Callbacks)
    /\ leftover \subseteq {"hbm", "press"}
    /\ deaths \in 0..MaxDeaths

Init ==
    /\ up = FALSE
    /\ hasOplus = FALSE
    /\ isEnrolling = FALSE
    /\ mClientCallback = FALSE
    /\ call = "none" /\ line = 1
    /\ dimlayer_hbm = FALSE /\ notify_fppress = FALSE
    /\ framework = "up"
    /\ client = "none"
    /\ challenge = FALSE
    /\ finger = "up"
    /\ inbox = [t \in Threads |-> "none"]
    /\ session = "none"
    /\ queue = <<>>
    /\ leftover = {}
    /\ deaths = 0

-----------------------------------------------------------------------------
(* What each effect does                                                   *)

\* Seeded fault: isEnrolling is not reset.
NewEnrollingForEver == isEnrolling \/ Op = "enrolling"

NewEnrolling == Op = "enrolling"

\* Seeded fault: cancel and onFingerUp darken the panel during an enrolment.
NewDimlayerUnguarded ==
    Op = "lightOn" \/ (Op = "lightOnUnlessEnrolling" /\ (~isEnrolling \/ dimlayer_hbm))

\* Seeded fault: the test of isEnrolling is the wrong way round.
NewDimlayerInverted ==
    \/ Op = "lightOn"
    \/ Op = "lightOnUnlessEnrolling" /\ (isEnrolling \/ dimlayer_hbm)
    \/ Op = "lightOffUnlessEnrolling" /\ ~isEnrolling /\ dimlayer_hbm

\* Seeded fault: lifting the finger leaves the light on.
NewDimlayerStaying ==
    \/ Op = "lightOn"
    \/ Op = "lightOnUnlessEnrolling" /\ (~isEnrolling \/ dimlayer_hbm)
    \/ Op = "lightOffUnlessEnrolling" /\ dimlayer_hbm

\* The value of dimlayer_hbm after a write, which the two conditional ones
\* leave out during an enrolment.
NewDimlayer ==
    \/ Op = "lightOn"
    \/ Op = "lightOnUnlessEnrolling" /\ (~isEnrolling \/ dimlayer_hbm)
    \/ Op = "lightOffUnlessEnrolling" /\ isEnrolling /\ dimlayer_hbm

\* A node that a running framework's HAL turned off is no leftover.
LeftoverWithout(node, isOff) ==
    IF isOff /\ framework # "down" THEN leftover \ {node} ELSE leftover

SetEnrolling ==
    /\ Op \in {"enrolling", "notEnrolling"}
    /\ isEnrolling' = NewEnrolling
    /\ line' = line + 1
    /\ UNCHANGED <<up, hasOplus, mClientCallback, call, nodeVars, frameworkVars, inbox,
                   vendorVars, deaths>>

WriteDimlayer ==
    /\ Op \in {"lightOn", "lightOff", "lightOnUnlessEnrolling", "lightOffUnlessEnrolling"}
    /\ dimlayer_hbm' = NewDimlayer
    /\ leftover' = LeftoverWithout("hbm", ~NewDimlayer)
    /\ line' = line + 1
    /\ UNCHANGED <<halVars, call, notify_fppress, frameworkVars, inbox, vendorVars, deaths>>

WriteFpPress ==
    /\ Op \in {"press", "release"}
    /\ notify_fppress' = (Op = "press")
    /\ leftover' = LeftoverWithout("press", Op = "release")
    /\ line' = line + 1
    /\ UNCHANGED <<halVars, call, dimlayer_hbm, frameworkVars, inbox, vendorVars, deaths>>

\* syshelper's touchDown and touchUp: they return, whatever they do there.
CallHelper ==
    /\ Op \in {"touchDown", "touchUp"}
    /\ line' = line + 1
    /\ UNCHANGED <<halVars, call, nodeVars, frameworkVars, inbox, vendorVars, deaths>>

\* mClientCallback = clientCallback, that of a framework which may be dead.
SetCallback ==
    /\ Op = "setCallback"
    /\ mClientCallback' = (framework # "down")
    /\ line' = line + 1
    /\ UNCHANGED <<up, hasOplus, isEnrolling, call, nodeVars, frameworkVars, inbox,
                   vendorVars, deaths>>

\* The vendor's HAL begins a session, or ends it with an error.
Forward ==
    /\ Op = "forward"
    /\ IF ~MayForward THEN UNCHANGED vendorVars
       ELSE IF call \in {"enroll", "authenticate"}
         THEN session' = call /\ UNCHANGED queue
       ELSE IF call = "cancel" /\ session # "none"
         THEN session' = "none" /\ queue' = Append(queue, "onError")
       ELSE UNCHANGED vendorVars
    /\ line' = line + 1
    /\ UNCHANGED <<halVars, call, nodeVars, frameworkVars, inbox, deaths>>

\* The framework hears of the end of its client's work.
Notify ==
    /\ Op = "notify"
    /\ client' = IF mClientCallback /\ call \in {"onEnrolled", "onAuthenticated", "onError"}
                   THEN "none" ELSE client
    /\ line' = line + 1
    /\ UNCHANGED <<halVars, call, nodeVars, framework, challenge, finger, inbox,
                   vendorVars, deaths>>

-----------------------------------------------------------------------------
(* The HAL's thread takes a call and returns from it                       *)

Begin(c) ==
    /\ up
    /\ call = "none"
    /\ call' = c
    /\ line' = 1
    /\ UNCHANGED <<halVars, nodeVars, frameworkVars, session, deaths>>

\* Seeded fault: the caller does not wait for the handler.
TakeCallOneway(t) ==
    /\ inbox[t] # "none"
    /\ Begin(inbox[t])
    /\ inbox' = [inbox EXCEPT ![t] = "none"]
    /\ UNCHANGED queue

TakeCall(t) ==
    /\ inbox[t] # "none"
    /\ Begin(inbox[t])
    /\ UNCHANGED <<inbox, queue>>

TakeCallback ==
    /\ queue # <<>>
    /\ Begin(Head(queue))
    /\ queue' = Tail(queue)
    /\ UNCHANGED inbox

\* A handler is done, or gives up before it has done anything.  The thread of
\* the framework that called it, if it still lives, goes on.
Return ==
    /\ call # "none"
    /\ Op = "none"
    /\ call' = "none"
    /\ line' = 1
    /\ inbox' = [t \in Threads |-> IF call \in Calls[t] THEN "none" ELSE inbox[t]]
    /\ client' = IF call \in {"enroll", "authenticate"} /\ ~hasOplus THEN "none" ELSE client
    /\ challenge' = (challenge /\ call # "postEnroll")
    /\ finger' = CASE framework = "down" -> "up"
                   [] call = "onFingerDown" -> "down"
                   [] call = "onFingerUp" -> "up"
                   [] OTHER -> finger
    /\ UNCHANGED <<halVars, nodeVars, framework, vendorVars, deaths>>

-----------------------------------------------------------------------------
(* The framework                                                           *)

\* The service thread makes one call after the other, all but the first to a
\* HAL that has its callback.
ServiceCall(c) ==
    /\ up
    /\ framework # "down"
    /\ inbox["service"] = "none"
    /\ mClientCallback = (c # "setNotify")
    /\ CASE c = "setNotify" -> TRUE
         [] c = "preEnroll" -> client = "none" /\ ~challenge
         [] c = "postEnroll" -> client = "none" /\ challenge
         [] c = "enroll" -> client = "none" /\ challenge
         [] c = "authenticate" -> client = "none"
         [] c = "cancel" -> client # "none"
    /\ inbox' = [inbox EXCEPT !["service"] = c]
    /\ client' = IF c \in {"enroll", "authenticate"} THEN c ELSE client
    /\ challenge' = (challenge \/ c = "preEnroll")
    /\ UNCHANGED <<halVars, call, line, nodeVars, framework, finger, vendorVars, deaths>>

\* The user touches the sensor while a client wants it, and lifts the finger
\* at any time.
TouchCall(c) ==
    /\ up
    /\ framework # "down"
    /\ inbox["touch"] = "none"
    /\ \/ c = "onFingerDown" /\ finger = "up" /\ client # "none" /\ finger' = "pressing"
       \/ c = "onFingerUp" /\ finger = "down" /\ finger' = "lifting"
    /\ inbox' = [inbox EXCEPT !["touch"] = c]
    /\ UNCHANGED <<halVars, call, line, nodeVars, framework, client, challenge,
                   vendorVars, deaths>>

\* The system server dies; calls it has made are still served.
FrameworkDies ==
    /\ framework # "down"
    /\ deaths < MaxDeaths
    /\ deaths' = deaths + 1
    /\ framework' = "down"
    /\ client' = "none"
    /\ challenge' = FALSE
    /\ finger' = "up"
    /\ mClientCallback' = FALSE
    /\ leftover' = {"hbm", "press"}
    /\ UNCHANGED <<up, hasOplus, isEnrolling, call, line, dimlayer_hbm, notify_fppress,
                   inbox, vendorVars>>

\* It comes back long after the last of these calls.
FrameworkStarts ==
    /\ framework = "down"
    /\ call = "none"
    /\ \A t \in Threads : inbox[t] = "none"
    /\ framework' = "booting"
    /\ UNCHANGED <<halVars, call, line, nodeVars, client, challenge, finger, inbox,
                   vendorVars, deaths>>

\* sys.boot_completed=1: init clears the nodes, whatever the HAL does.
BootCompleted ==
    /\ framework = "booting"
    /\ framework' = "up"
    /\ dimlayer_hbm' = FALSE
    /\ notify_fppress' = FALSE
    /\ leftover' = {}
    /\ UNCHANGED <<halVars, call, line, client, challenge, finger, inbox, vendorVars, deaths>>

-----------------------------------------------------------------------------
(* The vendor's HAL and the life of this one                               *)

VendorPosts(c) ==
    /\ up /\ hasOplus
    /\ Len(queue) < QueueCap
    /\ CASE c \in {"onAuthenticated", "onRejected"} -> session = "authenticate"
         [] c \in {"onEnrollResult", "onEnrolled"} -> session = "enroll"
         [] c = "onError" -> session # "none"
         [] OTHER -> TRUE
    /\ session' = IF c \in {"onAuthenticated", "onEnrolled", "onError"} THEN "none" ELSE session
    /\ queue' = Append(queue, c)
    /\ UNCHANGED <<halVars, call, line, nodeVars, frameworkVars, inbox, deaths>>

\* The constructor gets the vendor's HAL and syshelper.  It writes no node.
\* init restarts fps_hal with this service: if that is the vendor's, it has no
\* session any more.
HalStarts ==
    /\ ~up
    /\ up' = TRUE
    /\ hasOplus' \in BOOLEAN
    /\ session' \in {session, "none"}
    /\ UNCHANGED <<isEnrolling, mClientCallback, call, line, nodeVars, frameworkVars, inbox,
                   queue, deaths>>

\* The HAL dies, by itself or because init restarts it with syshelper.  Calls
\* of it fail and the framework gives up what it was busy with.
HalDies ==
    /\ up
    /\ deaths < MaxDeaths
    /\ deaths' = deaths + 1
    /\ up' = FALSE
    /\ hasOplus' = FALSE
    /\ isEnrolling' = FALSE
    /\ mClientCallback' = FALSE
    /\ call' = "none" /\ line' = 1
    /\ inbox' = [t \in Threads |-> "none"]
    /\ queue' = <<>>
    /\ client' = "none"
    /\ finger' = "up"
    /\ leftover' = {"hbm", "press"}
    /\ UNCHANGED <<dimlayer_hbm, notify_fppress, framework, challenge, session>>

-----------------------------------------------------------------------------
RunHandler ==
    \/ SetEnrolling \/ WriteDimlayer \/ WriteFpPress \/ CallHelper
    \/ SetCallback \/ Forward \/ Notify \/ Return

Next ==
    \/ RunHandler
    \/ \E t \in Threads : TakeCall(t)
    \/ TakeCallback
    \/ \E c \in ServiceCalls : ServiceCall(c)
    \/ \E c \in TouchCalls : TouchCall(c)
    \/ \E c \in Callbacks : VendorPosts(c)
    \/ HalStarts \/ HalDies
    \/ FrameworkDies \/ FrameworkStarts \/ BootCompleted

\* A handler that has begun runs to its end: syshelper and the vendor's HAL
\* answer it.  Binder serves calls in the order they come, so each is taken in
\* the end.  No one has to call, to touch, to die or to start again.
Fairness ==
    /\ WF_vars(RunHandler)
    /\ \A t \in Threads : SF_vars(TakeCall(t))

Spec == Init /\ [][Next]_vars /\ Fairness

-----------------------------------------------------------------------------
(* Properties                                                              *)

\* The panel is lit for an enrolment or a touch and pressed for a touch, in
\* any order of calls and callbacks; only a death leaves a node on
\* (BiometricsFingerprint.cpp:78-120, 160-181, 203-229; what init.target.rc:164
\* clears when the system has booted).
NodesForAReason ==
    /\ dimlayer_hbm => challenge \/ finger # "up" \/ "hbm" \in leftover
    /\ notify_fppress => finger # "up" \/ "press" \in leftover

\* Until someone dies, the vendor's HAL is told of a finger only on a lit and
\* pressed panel, also when an enrolment is cancelled or ended meanwhile
\* (BiometricsFingerprint.cpp:160-170).
ToldFingerIsLit ==
    (deaths = 0 /\ call = "onFingerDown" /\ Op = "forward" /\ MayForward) =>
        dimlayer_hbm /\ notify_fppress

\* During an authentication touches light and darken the panel, although the
\* postEnroll before it may never have come (BiometricsFingerprint.cpp:148).
AuthenticationIsNoEnrolment ==
    (/\ client = "authenticate"
     /\ inbox["service"] # "authenticate") => ~isEnrolling

\* What a death of the HAL left on is turned off by the touches to come,
\* unless an enrolment has use for the light (BiometricsFingerprint.cpp:172-181).
LeftoverIsCleared ==
    ([]<>(call = "onFingerUp")) => (leftover # {} ~> (leftover = {} \/ challenge))

\* An authentication does not keep the light of an enrolment that was left
\* without postEnroll: touches to come turn it off, unless the HAL is told to
\* enrol again (BiometricsFingerprint.cpp:78-103, 144-151, 172-181).
AbandonedLightGoesOut ==
    ([]<>(call = "onFingerUp")) =>
        ((client = "authenticate" /\ dimlayer_hbm) ~>
            (~dimlayer_hbm \/ call \in {"preEnroll", "enroll"}))

=============================================================================
