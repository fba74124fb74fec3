--------------------- MODULE BiometricsFingerprintProofs ---------------------
(***************************************************************************)
(* The safety of the fingerprint HAL for any number of deaths and waiting  *)
(* callbacks, and for both kinds of sensor.                                *)
(***************************************************************************)
EXTENDS BiometricsFingerprint, TLAPS

\* Callers wait: what the HAL runs for them is what they have asked for, and
\* the framework's state is that of its calls unless it has died since.
CallerInv ==
    /\ framework = "down" => leftover = {"hbm", "press"}
    /\ inbox["service"] = "preEnroll" => client = "none"
    /\ inbox["service"] \in {"preEnroll", "enroll"} /\ framework # "down" => challenge
    /\ inbox["touch"] = "onFingerDown" /\ framework # "down" => finger # "up"

\* The flag of an enrolment that was left is reset before the authentication
\* that follows is over its first step.
EnrolInv ==
    /\ ~up => ~hasOplus /\ call = "none"
    /\ ~hasOplus => ~isEnrolling
    /\ AuthenticationIsNoEnrolment
    /\ call = "authenticate" /\ line > 1 => ~isEnrolling

\* What gives the light its reason, and what has turned it off when the reason
\* ends with the return of postEnroll or onFingerUp.
LightInv ==
    /\ dimlayer_hbm => (hasOplus /\ challenge) \/ finger # "up" \/ "hbm" \in leftover
    /\ dimlayer_hbm /\ isEnrolling => challenge \/ "hbm" \in leftover
    /\ call = "postEnroll" /\ hasOplus /\ line > 2 => ~dimlayer_hbm
    /\ call = "onFingerUp" /\ line > 2 /\ dimlayer_hbm => isEnrolling

PressInv ==
    /\ notify_fppress => finger # "up" \/ "press" \in leftover
    /\ call = "onFingerUp" /\ line > 1 => ~notify_fppress

HalInv == TypeOK /\ CallerInv /\ EnrolInv /\ LightInv /\ PressInv

-----------------------------------------------------------------------------
(* The handlers                                                            *)

\* Where in its program the HAL is when an effect comes next (the order of the
\* statements in BiometricsFingerprint.cpp:69-280).
LEMMA EffectPlaces ==
    ASSUME TypeOK, Op # "none"
    PROVE  /\ line \in 1..4
           /\ Op = "enrolling" => call = "preEnroll" /\ hasOplus
           /\ Op = "notEnrolling" => call \in {"postEnroll", "authenticate"}
           /\ Op = "lightOn" => call \in {"preEnroll", "enroll"} /\ hasOplus
           /\ Op = "lightOnUnlessEnrolling" => call = "onFingerDown"
           /\ Op = "lightOff" => call \in {"postEnroll", "onAuthenticated"}
           /\ Op = "lightOffUnlessEnrolling" => call \in {"cancel", "onFingerUp", "onError"}
           /\ Op = "press" => call = "onFingerDown"
           /\ Op = "release" => call \notin ServiceCalls
           /\ call = "postEnroll" => (line = 2 <=> Op = "lightOff") /\ hasOplus
           /\ call = "onFingerUp" => /\ line = 1 <=> Op = "release"
                                     /\ line = 2 <=> Op = "lightOffUnlessEnrolling"
           /\ call = "authenticate" => (line = 1 <=> Op = "notEnrolling")
<1>1. /\ call \in ServiceCalls \cup TouchCalls \cup Callbacks
      /\ line \in 1..5
  BY DEF TypeOK, Op
<1>2. /\ Op = Program[call][line]
      /\ line <= Len(Program[call])
      /\ call \in ServiceCalls \ {"setNotify"} => hasOplus
  BY <1>1 DEF Op, ReturnsAtOnce, TypeOK
<1>3. CASE call = "setNotify"
  <2>1. Program[call] = <<"setCallback", "forward">>
    BY <1>3 DEF Program
  <2>2. line \in 1..2
    BY <2>1, <1>1, <1>2
  <2>. QED  BY <2>1, <2>2, <1>1, <1>2, <1>3 DEF ServiceCalls
<1>4. CASE call = "preEnroll"
  <2>1. Program[call] = <<"enrolling", "lightOn", "forward">>
    BY <1>4 DEF Program
  <2>2. line \in 1..3
    BY <2>1, <1>1, <1>2
  <2>. QED  BY <2>1, <2>2, <1>1, <1>2, <1>4 DEF ServiceCalls
<1>5. CASE call = "enroll"
  <2>1. Program[call] = <<"lightOn", "forward">>
    BY <1>5 DEF Program
  <2>2. line \in 1..2
    BY <2>1, <1>1, <1>2
  <2>. QED  BY <2>1, <2>2, <1>1, <1>2, <1>5 DEF ServiceCalls
<1>6. CASE call = "postEnroll"
  <2>1. Program[call] = <<"notEnrolling", "lightOff", "forward">>
    BY <1>6 DEF Program
  <2>2. line \in 1..3
    BY <2>1, <1>1, <1>2
  <2>. QED  BY <2>1, <2>2, <1>1, <1>2, <1>6 DEF ServiceCalls
<1>7. CASE call = "cancel"
  <2>1. Program[call] = <<"lightOffUnlessEnrolling", "forward">>
    BY <1>7 DEF Program
  <2>2. line \in 1..2
    BY <2>1, <1>1, <1>2
  <2>. QED  BY <2>1, <2>2, <1>1, <1>2, <1>7 DEF ServiceCalls
<1>8. CASE call = "authenticate"
  <2>1. Program[call] = <<"notEnrolling", "forward">>
    BY <1>8 DEF Program
  <2>2. line \in 1..2
    BY <2>1, <1>1, <1>2
  <2>. QED  BY <2>1, <2>2, <1>1, <1>2, <1>8 DEF ServiceCalls
<1>9. CASE call = "onFingerDown"
  <2>1. Program[call] = <<"lightOnUnlessEnrolling", "press", "forward">>
    BY <1>9 DEF Program
  <2>2. line \in 1..3
    BY <2>1, <1>1, <1>2
  <2>. QED  BY <2>1, <2>2, <1>1, <1>2, <1>9 DEF ServiceCalls
<1>10. CASE call = "onFingerUp"
  <2>1. Program[call] = <<"release", "lightOffUnlessEnrolling", "forward">>
    BY <1>10 DEF Program
  <2>2. line \in 1..3
    BY <2>1, <1>1, <1>2
  <2>. QED  BY <2>1, <2>2, <1>1, <1>2, <1>10 DEF ServiceCalls
<1>11. CASE call \in {"onEnrollResult", "onEnrolled"}
  <2>1. Program[call] = <<"touchUp", "notify">>
    BY <1>11 DEF Program
  <2>2. line \in 1..2
    BY <2>1, <1>1, <1>2
  <2>. QED  BY <2>1, <2>2, <1>2, <1>11 DEF ServiceCalls
<1>12. CASE call = "onAuthenticated"
  <2>1. Program[call] = <<"lightOff", "release", "touchUp", "notify">>
    BY <1>12 DEF Program
  <2>2. line \in 1..4
    BY <2>1, <1>1, <1>2
  <2>. QED  BY <2>1, <2>2, <1>2, <1>12 DEF ServiceCalls
<1>13. CASE call = "onRejected"
  <2>1. Program[call] = <<"release", "touchUp", "notify">>
    BY <1>13 DEF Program
  <2>2. line \in 1..3
    BY <2>1, <1>1, <1>2
  <2>. QED  BY <2>1, <2>2, <1>2, <1>13 DEF ServiceCalls
<1>14. CASE call = "onError"
  <2>1. Program[call] = <<"release", "lightOffUnlessEnrolling", "notify">>
    BY <1>14 DEF Program
  <2>2. line \in 1..3
    BY <2>1, <1>1, <1>2
  <2>. QED  BY <2>1, <2>2, <1>2, <1>14 DEF ServiceCalls
<1>15. CASE call = "touchDownCmd"
  <2>1. Program[call] = <<"touchDown">>
    BY <1>15 DEF Program
  <2>2. line \in 1..1
    BY <2>1, <1>1, <1>2
  <2>. QED  BY <2>1, <2>2, <1>2, <1>15 DEF ServiceCalls
<1>16. CASE call = "touchUpCmd"
  <2>1. Program[call] = <<"touchUp">>
    BY <1>16 DEF Program
  <2>2. line \in 1..1
    BY <2>1, <1>1, <1>2
  <2>. QED  BY <2>1, <2>2, <1>2, <1>16 DEF ServiceCalls
<1>. QED
  BY <1>1, <1>3, <1>4, <1>5, <1>6, <1>7, <1>8, <1>9,
     <1>10, <1>11, <1>12, <1>13, <1>14, <1>15, <1>16
     DEF ServiceCalls, TouchCalls, Callbacks

\* How far a handler has come when it returns.
LEMMA ReturnPlaces ==
    ASSUME TypeOK, call # "none", Op = "none"
    PROVE  /\ call = "postEnroll" /\ hasOplus => line > 2
           /\ call = "onFingerUp" => line > 2
           /\ call = "authenticate" /\ hasOplus => line > 1
  BY DEF TypeOK, Op, ReturnsAtOnce, ServiceCalls, Program

\* No call of one thread is a call of the other or a callback.
LEMMA ThreadsDiffer ==
    /\ Threads = {"service", "touch"}
    /\ Calls["service"] = ServiceCalls /\ Calls["touch"] = TouchCalls
    /\ ServiceCalls \cap TouchCalls = {}
    /\ (ServiceCalls \cup TouchCalls) \cap Callbacks = {}
    /\ "none" \notin ServiceCalls \cup TouchCalls \cup Callbacks
  BY DEF Threads, Calls, ServiceCalls, TouchCalls, Callbacks

\* A thread whose call the HAL runs waits for it.
LEMMA CallersWait ==
    ASSUME TypeOK
    PROVE  /\ call \in ServiceCalls => inbox["service"] = call
           /\ call \in TouchCalls => inbox["touch"] = call
  BY ThreadsDiffer DEF TypeOK

\* The invariant is all these properties need.
LEMMA InvIsEnough == HalInv => TypeOK /\ NodesForAReason /\ AuthenticationIsNoEnrolment
  BY DEF HalInv, EnrolInv, LightInv, PressInv, NodesForAReason

LEMMA InitInv == Init => HalInv
<1>. SUFFICES ASSUME Init PROVE HalInv
  OBVIOUS
<1>1. TypeOK
  <2>1. /\ inbox \in [Threads -> ServiceCalls \cup TouchCalls \cup {"none"}]
        /\ \A t \in Threads : /\ inbox[t] \in Calls[t] \cup {"none"}
                              /\ call \in Calls[t] => inbox[t] = call
    BY ThreadsDiffer DEF Init
  <2>2. deaths \in 0..MaxDeaths /\ queue \in Seq(Callbacks)
    BY BoundsAssumption DEF Init, BoundsAssumption
  <2>3. line \in 1..5 /\ leftover \subseteq {"hbm", "press"}
    BY DEF Init
  <2>. QED  BY <2>1, <2>2, <2>3, Zenon DEF Init, TypeOK
<1>2. CallerInv /\ EnrolInv
  BY ThreadsDiffer DEF Init, CallerInv, EnrolInv, AuthenticationIsNoEnrolment
<1>3. LightInv /\ PressInv
  BY DEF Init, LightInv, PressInv
<1>. QED  BY <1>1, <1>2, <1>3 DEF HalInv

-----------------------------------------------------------------------------
(* The steps of the HAL's thread                                           *)

LEMMA SetEnrollingInv ==
    ASSUME HalInv, SetEnrolling
    PROVE  HalInv'
<1>. USE DEF HalInv
<1>0. /\ line \in 1..4
      /\ Op = "enrolling" => call = "preEnroll" /\ hasOplus
      /\ Op = "notEnrolling" => call \in {"postEnroll", "authenticate"}
      /\ call = "authenticate" => Op = "notEnrolling"
      /\ call = "postEnroll" => line # 2
      /\ call # "onFingerUp"
      /\ call = "preEnroll" => inbox["service"] = "preEnroll"
  BY EffectPlaces, CallersWait DEF SetEnrolling, ServiceCalls
<1>1. TypeOK'
  BY <1>0, ThreadsDiffer DEF TypeOK, SetEnrolling, NewEnrolling, frameworkVars, vendorVars, nodeVars
<1>2. CallerInv'
  BY DEF CallerInv, SetEnrolling, frameworkVars, nodeVars
<1>3. EnrolInv'
  BY <1>0 DEF EnrolInv, CallerInv, AuthenticationIsNoEnrolment, SetEnrolling, NewEnrolling,
              frameworkVars, nodeVars
<1>4. LightInv'
  <2>1. call = "postEnroll" /\ line' > 2 => line > 2
    BY <1>0 DEF SetEnrolling
  <2>2. isEnrolling' => challenge \/ "hbm" \in leftover
    BY <1>0 DEF SetEnrolling, NewEnrolling, CallerInv
  <2>. QED
    BY <1>0, <2>1, <2>2 DEF LightInv, SetEnrolling, frameworkVars, nodeVars
<1>5. PressInv'
  BY <1>0 DEF PressInv, SetEnrolling, frameworkVars, nodeVars
<1>. QED  BY <1>1, <1>2, <1>3, <1>4, <1>5

LEMMA WriteDimlayerInv ==
    ASSUME HalInv, WriteDimlayer
    PROVE  HalInv'
<1>. USE DEF HalInv
<1>0. /\ line \in 1..4
      /\ Op = "lightOn" => call \in {"preEnroll", "enroll"} /\ hasOplus
      /\ Op = "lightOnUnlessEnrolling" => call = "onFingerDown"
      /\ call = "postEnroll" => Op = "lightOff"
      /\ call = "onFingerUp" => Op = "lightOffUnlessEnrolling" /\ line = 2
      /\ call # "authenticate"
      /\ call \in ServiceCalls => inbox["service"] = call
      /\ call \in TouchCalls => inbox["touch"] = call
  BY EffectPlaces, CallersWait DEF WriteDimlayer
<1>1. TypeOK'
  BY <1>0, ThreadsDiffer
     DEF TypeOK, WriteDimlayer, NewDimlayer, LeftoverWithout, halVars, frameworkVars, vendorVars
<1>2. CallerInv'
  BY DEF CallerInv, WriteDimlayer, LeftoverWithout, frameworkVars
<1>3. EnrolInv'
  BY <1>0 DEF EnrolInv, AuthenticationIsNoEnrolment, WriteDimlayer, halVars, frameworkVars
<1>4. LightInv'
  BY <1>0 DEF LightInv, CallerInv, EnrolInv, WriteDimlayer, NewDimlayer, LeftoverWithout, halVars,
              frameworkVars, ServiceCalls, TouchCalls
<1>5. PressInv'
  BY <1>0 DEF PressInv, WriteDimlayer, LeftoverWithout, frameworkVars
<1>. QED  BY <1>1, <1>2, <1>3, <1>4, <1>5

LEMMA WriteFpPressInv ==
    ASSUME HalInv, WriteFpPress
    PROVE  HalInv'
<1>. USE DEF HalInv
<1>0. /\ line \in 1..4
      /\ Op = "press" => call = "onFingerDown"
      /\ call = "onFingerUp" => Op = "release"
      /\ call = "postEnroll" => line # 2
      /\ call = "onFingerUp" => line = 1
      /\ call # "authenticate"
      /\ call \in TouchCalls => inbox["touch"] = call
  BY EffectPlaces, CallersWait DEF WriteFpPress, ServiceCalls
<1>1. TypeOK'
  BY <1>0, ThreadsDiffer
     DEF TypeOK, WriteFpPress, LeftoverWithout, halVars, frameworkVars, vendorVars
<1>2. CallerInv'
  BY DEF CallerInv, WriteFpPress, LeftoverWithout, frameworkVars
<1>3. EnrolInv'
  BY <1>0 DEF EnrolInv, AuthenticationIsNoEnrolment, WriteFpPress, halVars, frameworkVars
<1>4. LightInv'
  BY <1>0 DEF LightInv, WriteFpPress, LeftoverWithout, halVars, frameworkVars
<1>5. PressInv'
  BY <1>0 DEF PressInv, CallerInv, WriteFpPress, LeftoverWithout, frameworkVars, TouchCalls
<1>. QED  BY <1>1, <1>2, <1>3, <1>4, <1>5

\* The other effects write no node and leave isEnrolling alone.
LEMMA QuietEffectInv ==
    ASSUME HalInv,
           Op \in {"touchDown", "touchUp", "setCallback", "forward", "notify"},
           line' = line + 1,
           UNCHANGED <<up, hasOplus, isEnrolling, call, nodeVars>>,
           UNCHANGED <<framework, challenge, finger, inbox, deaths>>,
           client' \in {client, "none"},
           mClientCallback' \in BOOLEAN,
           session' \in {"none", "enroll", "authenticate"},
           queue' \in Seq(Callbacks)
    PROVE  HalInv'
<1>. USE DEF HalInv
<1>0. /\ line \in 1..4
      /\ call = "postEnroll" => line # 2
      /\ call = "onFingerUp" => line \notin {1, 2}
      /\ call = "authenticate" => line # 1
  BY EffectPlaces
<1>1. TypeOK'
  <2>1. line' \in 1..5
    BY <1>0
  <2>2. client' \in {"none", "enroll", "authenticate"}
    BY DEF TypeOK
  <2>3. /\ up' = up /\ hasOplus' = hasOplus /\ isEnrolling' = isEnrolling /\ call' = call
        /\ dimlayer_hbm' = dimlayer_hbm /\ notify_fppress' = notify_fppress
        /\ leftover' = leftover /\ framework' = framework /\ challenge' = challenge
        /\ finger' = finger /\ inbox' = inbox /\ deaths' = deaths
    BY DEF nodeVars
  <2>. QED  BY <2>1, <2>2, <2>3 DEF TypeOK
<1>2. CallerInv'
  BY DEF CallerInv, nodeVars
<1>3. EnrolInv'
  <2>1. call = "authenticate" /\ line' > 1 => line > 1
    BY <1>0
  <2>. QED  BY <2>1 DEF EnrolInv, AuthenticationIsNoEnrolment
<1>4. LightInv'
  <2>1. /\ call = "postEnroll" /\ line' > 2 => line > 2
        /\ call = "onFingerUp" /\ line' > 2 => line > 2
    BY <1>0
  <2>. QED  BY <2>1 DEF LightInv, nodeVars
<1>5. PressInv'
  <2>1. call = "onFingerUp" /\ line' > 1 => line > 1
    BY <1>0
  <2>. QED  BY <2>1 DEF PressInv, nodeVars
<1>. QED  BY <1>1, <1>2, <1>3, <1>4, <1>5

LEMMA CallHelperInv ==
    ASSUME HalInv, CallHelper
    PROVE  HalInv'
  BY QuietEffectInv, Zenon DEF CallHelper, HalInv, TypeOK, halVars, frameworkVars, vendorVars

LEMMA SetCallbackInv ==
    ASSUME HalInv, SetCallback
    PROVE  HalInv'
  BY QuietEffectInv, Zenon DEF SetCallback, HalInv, TypeOK, frameworkVars, vendorVars

LEMMA ForwardInv ==
    ASSUME HalInv, Forward
    PROVE  HalInv'
<1>1. session' \in {"none", "enroll", "authenticate"}
  BY DEF Forward, vendorVars, HalInv, TypeOK
<1>2. queue' \in Seq(Callbacks)
  BY DEF Forward, vendorVars, HalInv, TypeOK, Callbacks
<1>. QED  BY <1>1, <1>2, QuietEffectInv DEF Forward, HalInv, TypeOK, halVars, frameworkVars

LEMMA NotifyInv ==
    ASSUME HalInv, Notify
    PROVE  HalInv'
<1>1. client' \in {client, "none"}
  BY DEF Notify
<1>. QED  BY <1>1, QuietEffectInv DEF Notify, HalInv, TypeOK, halVars, vendorVars

\* A handler returns: what it had to turn off is off.
LEMMA ReturnInv ==
    ASSUME HalInv, Return
    PROVE  HalInv'
<1>. USE DEF HalInv
<1>0. /\ call = "postEnroll" /\ hasOplus => line > 2
      /\ call = "onFingerUp" => line > 2
      /\ call = "onFingerUp" => line > 1
      /\ call = "authenticate" /\ hasOplus => line > 1
  BY ReturnPlaces DEF Return, TypeOK
<1>1. /\ inbox'["service"] \in {inbox["service"], "none"}
      /\ inbox'["touch"] \in {inbox["touch"], "none"}
      /\ inbox'["service"] = (IF call \in ServiceCalls THEN "none" ELSE inbox["service"])
      /\ call \in TouchCalls => inbox'["touch"] = "none"
      /\ inbox' \in [Threads -> ServiceCalls \cup TouchCalls \cup {"none"}]
  BY ThreadsDiffer DEF Return, TypeOK
<1>2. TypeOK'
  <2>1. /\ call' = "none" /\ line' \in 1..5
        /\ client' \in {"none", "enroll", "authenticate"}
        /\ finger' \in {"up", "pressing", "down", "lifting"}
        /\ challenge' \in BOOLEAN
    BY DEF Return, TypeOK
  <2>2. \A t \in Threads : /\ inbox'[t] \in Calls[t] \cup {"none"}
                           /\ call' \in Calls[t] => inbox'[t] = call'
    BY <1>1, <2>1, ThreadsDiffer DEF TypeOK
  <2>. QED  BY <1>1, <2>1, <2>2, Zenon DEF TypeOK, Return, halVars, nodeVars, vendorVars
<1>3. CallerInv'
  BY <1>1, CallersWait DEF CallerInv, Return, nodeVars, ServiceCalls, TouchCalls
<1>4. EnrolInv'
  <2>1. call = "authenticate" => ~isEnrolling
    BY <1>0 DEF EnrolInv
  <2>2. client' = "authenticate" /\ inbox'["service"] # "authenticate" => ~isEnrolling
    BY <2>1, <1>1, CallersWait DEF EnrolInv, AuthenticationIsNoEnrolment, Return
  <2>. QED  BY <2>2 DEF EnrolInv, AuthenticationIsNoEnrolment, Return, halVars
<1>5. LightInv'
  BY <1>0 DEF LightInv, EnrolInv, CallerInv, Return, halVars, nodeVars
<1>6. PressInv'
  BY <1>0 DEF PressInv, CallerInv, Return, nodeVars
<1>. QED  BY <1>2, <1>3, <1>4, <1>5, <1>6

\* A handler begins: it has turned nothing off yet.
LEMMA BeginInv ==
    ASSUME HalInv, NEW c \in ServiceCalls \cup TouchCalls \cup Callbacks, Begin(c),
           UNCHANGED inbox,
           \A t \in Threads : c \in Calls[t] => inbox[t] = c,
           queue' \in Seq(Callbacks)
    PROVE  HalInv'
<1>. USE DEF HalInv
<1>1. TypeOK'
  <2>1. call' = c /\ line' = 1 /\ line' \in 1..5
    BY DEF Begin
  <2>2. /\ up' = up /\ hasOplus' = hasOplus /\ isEnrolling' = isEnrolling
        /\ mClientCallback' = mClientCallback /\ dimlayer_hbm' = dimlayer_hbm
        /\ notify_fppress' = notify_fppress /\ leftover' = leftover
        /\ framework' = framework /\ client' = client /\ challenge' = challenge
        /\ finger' = finger /\ session' = session /\ deaths' = deaths
    BY DEF Begin, halVars, nodeVars, frameworkVars
  <2>. QED  BY <2>1, <2>2 DEF TypeOK
<1>2. CallerInv'
  BY DEF CallerInv, Begin, nodeVars, frameworkVars
<1>3. EnrolInv'
  <2>1. ~(line' > 1)
    BY DEF Begin
  <2>. QED
    BY <2>1 DEF EnrolInv, AuthenticationIsNoEnrolment, Begin, halVars, frameworkVars
<1>4. LightInv'
  <2>1. ~(line' > 2)
    BY DEF Begin
  <2>. QED  BY <2>1 DEF LightInv, Begin, halVars, nodeVars, frameworkVars
<1>5. PressInv'
  <2>1. ~(line' > 1)
    BY DEF Begin
  <2>. QED  BY <2>1 DEF PressInv, Begin, nodeVars, frameworkVars
<1>. QED  BY <1>1, <1>2, <1>3, <1>4, <1>5

LEMMA TakeCallInv ==
    ASSUME HalInv, NEW t \in Threads, TakeCall(t)
    PROVE  HalInv'
<1>1. /\ inbox[t] \in ServiceCalls \cup TouchCalls
      /\ \A u \in Threads : inbox[t] \in Calls[u] => inbox[u] = inbox[t]
  BY ThreadsDiffer DEF HalInv, TypeOK, TakeCall
<1>. QED  BY <1>1, BeginInv DEF TakeCall, HalInv, TypeOK

LEMMA TakeCallbackInv ==
    ASSUME HalInv, TakeCallback
    PROVE  HalInv'
<1>1. Head(queue) \in Callbacks /\ Tail(queue) \in Seq(Callbacks)
  BY DEF HalInv, TypeOK, TakeCallback
<1>2. \A t \in Threads : Head(queue) \notin Calls[t]
  BY <1>1, ThreadsDiffer
<1>. QED  BY <1>1, <1>2, BeginInv DEF TakeCallback

-----------------------------------------------------------------------------
(* The steps of the others                                                 *)

\* The framework's calls only add to its reasons for light and press.
LEMMA ServiceCallInv ==
    ASSUME HalInv, NEW c \in ServiceCalls, ServiceCall(c)
    PROVE  HalInv'
<1>. USE DEF HalInv
<1>1. /\ inbox'["service"] = c /\ inbox'["touch"] = inbox["touch"]
      /\ inbox' \in [Threads -> ServiceCalls \cup TouchCalls \cup {"none"}]
      /\ call \notin ServiceCalls
  BY ThreadsDiffer, CallersWait DEF ServiceCall, TypeOK
<1>2. TypeOK'
  <2>1. \A t \in Threads : /\ inbox'[t] \in Calls[t] \cup {"none"}
                           /\ call \in Calls[t] => inbox'[t] = call
    BY <1>1, ThreadsDiffer DEF TypeOK
  <2>2. client' \in {"none", "enroll", "authenticate"} /\ challenge' \in BOOLEAN
    BY DEF ServiceCall, TypeOK
  <2>. QED  BY <1>1, <2>1, <2>2, Zenon DEF TypeOK, ServiceCall, halVars, nodeVars, vendorVars
<1>3. CallerInv'
  BY <1>1 DEF CallerInv, ServiceCall, nodeVars
<1>4. EnrolInv'
  BY <1>1 DEF EnrolInv, AuthenticationIsNoEnrolment, ServiceCall, halVars, ServiceCalls
<1>5. LightInv' /\ PressInv'
  BY DEF LightInv, PressInv, ServiceCall, halVars, nodeVars
<1>. QED  BY <1>2, <1>3, <1>4, <1>5

LEMMA TouchCallInv ==
    ASSUME HalInv, NEW c \in TouchCalls, TouchCall(c)
    PROVE  HalInv'
<1>. USE DEF HalInv
<1>1. /\ inbox'["touch"] = c /\ inbox'["service"] = inbox["service"]
      /\ inbox' \in [Threads -> ServiceCalls \cup TouchCalls \cup {"none"}]
      /\ call \notin TouchCalls
      /\ finger' \in {"pressing", "lifting"}
  BY ThreadsDiffer, CallersWait DEF TouchCall, TypeOK
<1>2. TypeOK'
  <2>1. \A t \in Threads : /\ inbox'[t] \in Calls[t] \cup {"none"}
                           /\ call \in Calls[t] => inbox'[t] = call
    BY <1>1, ThreadsDiffer DEF TypeOK
  <2>2. finger' \in {"up", "pressing", "down", "lifting"}
    BY <1>1
  <2>3. /\ up' = up /\ hasOplus' = hasOplus /\ isEnrolling' = isEnrolling
        /\ mClientCallback' = mClientCallback /\ call' = call /\ line' = line
        /\ dimlayer_hbm' = dimlayer_hbm /\ notify_fppress' = notify_fppress
        /\ leftover' = leftover /\ framework' = framework /\ client' = client
        /\ challenge' = challenge /\ session' = session /\ queue' = queue
        /\ deaths' = deaths
    BY DEF TouchCall, halVars, nodeVars, vendorVars
  <2>. QED  BY <1>1, <2>1, <2>2, <2>3 DEF TypeOK
<1>3. CallerInv' /\ EnrolInv'
  BY <1>1 DEF CallerInv, EnrolInv, AuthenticationIsNoEnrolment, TouchCall, halVars, nodeVars
<1>4. LightInv' /\ PressInv'
  BY <1>1 DEF LightInv, PressInv, TouchCall, halVars, nodeVars
<1>. QED  BY <1>2, <1>3, <1>4

\* A death takes every reason away and marks what it may have left on.
LEMMA FrameworkDiesInv ==
    ASSUME HalInv, FrameworkDies
    PROVE  HalInv'
<1>. USE DEF HalInv
<1>1. TypeOK'
  <2>1. deaths' \in 0..MaxDeaths
    BY BoundsAssumption DEF BoundsAssumption, FrameworkDies, TypeOK
  <2>2. /\ framework' \in {"down", "booting", "up"} /\ client' \in {"none", "enroll", "authenticate"}
        /\ challenge' \in BOOLEAN /\ finger' \in {"up", "pressing", "down", "lifting"}
        /\ mClientCallback' \in BOOLEAN /\ leftover' \subseteq {"hbm", "press"}
    BY DEF FrameworkDies
  <2>. QED  BY <2>1, <2>2, Zenon DEF TypeOK, FrameworkDies, vendorVars
<1>2. CallerInv' /\ EnrolInv'
  BY DEF CallerInv, EnrolInv, AuthenticationIsNoEnrolment, FrameworkDies
<1>3. LightInv' /\ PressInv'
  BY DEF LightInv, PressInv, FrameworkDies
<1>. QED  BY <1>1, <1>2, <1>3

LEMMA FrameworkStartsInv ==
    ASSUME HalInv, FrameworkStarts
    PROVE  HalInv'
<1>. USE DEF HalInv
<1>1. TypeOK'
  <2>1. framework' \in {"down", "booting", "up"}
    BY DEF FrameworkStarts
  <2>2. /\ up' = up /\ hasOplus' = hasOplus /\ isEnrolling' = isEnrolling
        /\ mClientCallback' = mClientCallback /\ call' = call /\ line' = line
        /\ dimlayer_hbm' = dimlayer_hbm /\ notify_fppress' = notify_fppress
        /\ leftover' = leftover /\ client' = client /\ challenge' = challenge
        /\ finger' = finger /\ inbox' = inbox /\ session' = session
        /\ queue' = queue /\ deaths' = deaths
    BY DEF FrameworkStarts, halVars, nodeVars, vendorVars
  <2>. QED  BY <2>1, <2>2 DEF TypeOK
<1>2. CallerInv' /\ EnrolInv'
  BY ThreadsDiffer
     DEF CallerInv, EnrolInv, AuthenticationIsNoEnrolment, FrameworkStarts, halVars, nodeVars
<1>3. LightInv' /\ PressInv'
  BY DEF LightInv, PressInv, FrameworkStarts, halVars, nodeVars
<1>. QED  BY <1>1, <1>2, <1>3

LEMMA BootCompletedInv ==
    ASSUME HalInv, BootCompleted
    PROVE  HalInv'
<1>. USE DEF HalInv
<1>1. TypeOK'
  <2>1. /\ framework' \in {"down", "booting", "up"} /\ dimlayer_hbm' \in BOOLEAN
        /\ notify_fppress' \in BOOLEAN /\ leftover' \subseteq {"hbm", "press"}
    BY DEF BootCompleted
  <2>2. /\ up' = up /\ hasOplus' = hasOplus /\ isEnrolling' = isEnrolling
        /\ mClientCallback' = mClientCallback /\ call' = call /\ line' = line
        /\ client' = client /\ challenge' = challenge /\ finger' = finger
        /\ inbox' = inbox /\ session' = session /\ queue' = queue
        /\ deaths' = deaths
    BY DEF BootCompleted, halVars, vendorVars
  <2>. QED  BY <2>1, <2>2 DEF TypeOK
<1>2. CallerInv' /\ EnrolInv'
  BY DEF CallerInv, EnrolInv, AuthenticationIsNoEnrolment, BootCompleted, halVars
<1>3. LightInv' /\ PressInv'
  BY DEF LightInv, PressInv, BootCompleted, halVars
<1>. QED  BY <1>1, <1>2, <1>3

LEMMA VendorPostsInv ==
    ASSUME HalInv, NEW c \in Callbacks, VendorPosts(c)
    PROVE  HalInv'
<1>. USE DEF HalInv
<1>1. TypeOK'
  <2>1. session' \in {"none", "enroll", "authenticate"} /\ queue' \in Seq(Callbacks)
    BY DEF VendorPosts, TypeOK
  <2>2. /\ up' = up /\ hasOplus' = hasOplus /\ isEnrolling' = isEnrolling
        /\ mClientCallback' = mClientCallback /\ call' = call /\ line' = line
        /\ dimlayer_hbm' = dimlayer_hbm /\ notify_fppress' = notify_fppress
        /\ leftover' = leftover /\ framework' = framework /\ client' = client
        /\ challenge' = challenge /\ finger' = finger /\ inbox' = inbox
        /\ deaths' = deaths
    BY DEF VendorPosts, halVars, nodeVars, frameworkVars
  <2>. QED  BY <2>1, <2>2 DEF TypeOK
<1>2. CallerInv' /\ EnrolInv'
  BY DEF CallerInv, EnrolInv, AuthenticationIsNoEnrolment, VendorPosts, halVars, nodeVars,
         frameworkVars
<1>3. LightInv' /\ PressInv'
  BY DEF LightInv, PressInv, VendorPosts, halVars, nodeVars, frameworkVars
<1>. QED  BY <1>1, <1>2, <1>3

LEMMA HalStartsInv ==
    ASSUME HalInv, HalStarts
    PROVE  HalInv'
<1>. USE DEF HalInv
<1>1. TypeOK'
  <2>1. /\ up' \in BOOLEAN /\ hasOplus' \in BOOLEAN
        /\ session' \in {"none", "enroll", "authenticate"}
    BY DEF HalStarts, TypeOK
  <2>2. /\ isEnrolling' = isEnrolling /\ mClientCallback' = mClientCallback
        /\ call' = call /\ line' = line /\ dimlayer_hbm' = dimlayer_hbm
        /\ notify_fppress' = notify_fppress /\ leftover' = leftover
        /\ framework' = framework /\ client' = client /\ challenge' = challenge
        /\ finger' = finger /\ inbox' = inbox /\ queue' = queue
        /\ deaths' = deaths
    BY DEF HalStarts, nodeVars, frameworkVars
  <2>. QED  BY <2>1, <2>2 DEF TypeOK
<1>2. CallerInv' /\ EnrolInv'
  BY DEF CallerInv, EnrolInv, AuthenticationIsNoEnrolment, HalStarts, nodeVars, frameworkVars
<1>3. PressInv'
  BY DEF PressInv, HalStarts, nodeVars, frameworkVars
<1>4. LightInv'
  BY DEF LightInv, EnrolInv, HalStarts, nodeVars, frameworkVars
<1>. QED  BY <1>1, <1>2, <1>3, <1>4

LEMMA HalDiesInv ==
    ASSUME HalInv, HalDies
    PROVE  HalInv'
<1>. USE DEF HalInv
<1>1. inbox' \in [Threads -> ServiceCalls \cup TouchCalls \cup {"none"}]
      /\ inbox'["service"] = "none" /\ inbox'["touch"] = "none"
      /\ \A t \in Threads : inbox'[t] = "none"
  BY ThreadsDiffer DEF HalDies
<1>2. TypeOK'
  <2>1. deaths' \in 0..MaxDeaths
    BY BoundsAssumption DEF BoundsAssumption, HalDies, TypeOK
  <2>2. /\ up' \in BOOLEAN /\ hasOplus' \in BOOLEAN /\ isEnrolling' \in BOOLEAN
        /\ mClientCallback' \in BOOLEAN /\ call' = "none" /\ client' \in {"none", "enroll", "authenticate"}
        /\ finger' \in {"up", "pressing", "down", "lifting"}
        /\ leftover' \subseteq {"hbm", "press"}
    BY DEF HalDies
  <2>3. line' \in 1..5 /\ queue' \in Seq(Callbacks)
    BY DEF HalDies
  <2>4. \A t \in Threads : call' \notin Calls[t]
    BY <2>2, ThreadsDiffer
  <2>. QED  BY <1>1, <2>1, <2>2, <2>3, <2>4, Zenon DEF TypeOK, HalDies
<1>3. CallerInv' /\ EnrolInv'
  BY <1>1 DEF CallerInv, EnrolInv, AuthenticationIsNoEnrolment, HalDies
<1>4. LightInv' /\ PressInv'
  BY DEF LightInv, PressInv, HalDies
<1>. QED  BY <1>2, <1>3, <1>4

-----------------------------------------------------------------------------
(* The theorems                                                            *)

\* Every step of anyone keeps the invariant.
LEMMA NextInv == HalInv /\ [Next]_vars => HalInv'
<1>. SUFFICES ASSUME HalInv, [Next]_vars PROVE HalInv'
  OBVIOUS
<1>1. CASE RunHandler
  BY <1>1, SetEnrollingInv, WriteDimlayerInv, WriteFpPressInv, CallHelperInv, SetCallbackInv,
     ForwardInv, NotifyInv, ReturnInv DEF RunHandler
<1>2. CASE (\E t \in Threads : TakeCall(t)) \/ TakeCallback
  BY <1>2, TakeCallInv, TakeCallbackInv
<1>3. CASE (\E c \in ServiceCalls : ServiceCall(c)) \/ (\E c \in TouchCalls : TouchCall(c))
  BY <1>3, ServiceCallInv, TouchCallInv
<1>4. CASE \E c \in Callbacks : VendorPosts(c)
  BY <1>4, VendorPostsInv
<1>5. CASE HalStarts \/ HalDies
  BY <1>5, HalStartsInv, HalDiesInv
<1>6. CASE FrameworkDies \/ FrameworkStarts \/ BootCompleted
  BY <1>6, FrameworkDiesInv, FrameworkStartsInv, BootCompletedInv
<1>7. CASE UNCHANGED vars
  BY <1>7 DEF vars, halVars, nodeVars, frameworkVars, vendorVars, HalInv, TypeOK, CallerInv,
              EnrolInv, LightInv, PressInv, AuthenticationIsNoEnrolment
<1>. QED  BY <1>1, <1>2, <1>3, <1>4, <1>5, <1>6, <1>7 DEF Next

LEMMA HalInvHolds == Spec => []HalInv
<1>. QED  BY InitInv, NextInv, PTL DEF Spec

\* The types of the HAL, its callers and the nodes: each caller waits for the
\* handler the HAL runs for it (service.cpp:34).
THEOREM FingerprintTypeCorrect == Spec => []TypeOK
<1>. QED  BY HalInvHolds, InvIsEnough, PTL

\* The panel is lit and pressed only for an enrolment, for a touch or by a
\* death, however many there are (BiometricsFingerprint.cpp:78-120, 160-229).
THEOREM NodesAlwaysForAReason == Spec => []NodesForAReason
<1>. QED  BY HalInvHolds, InvIsEnough, PTL

\* An authentication never runs with the flag of an enrolment that was left
\* (BiometricsFingerprint.cpp:148).
THEOREM AuthenticationIsNeverEnrolment == Spec => []AuthenticationIsNoEnrolment
<1>. QED  BY HalInvHolds, InvIsEnough, PTL

-----------------------------------------------------------------------------
(* A finger the vendor's HAL is told of is lit: whoever turns the panel off *)
(* does so before the touch or after it, because the work of a client is in *)
(* one place at a time and an enrolment keeps the light on.                 *)

\* The framework has called for a client and the vendor's HAL has not heard of
\* it.
Awaited == /\ inbox["service"] \in {"enroll", "authenticate"}
           /\ ~(call = inbox["service"] /\ line > 2)

\* The callbacks that end a client's work, and queues that hold one.
Final == {"onEnrolled", "onAuthenticated", "onError"}
Ends(q) == \E i \in 1..Len(q) : q[i] \in Final
EndsOnce(q) == \A i, j \in 1..Len(q) : q[i] \in Final /\ q[j] \in Final => i = j
Authenticates(q) == \E i \in 1..Len(q) : q[i] = "onAuthenticated"

\* The end of a client's work that the HAL passes on.
Ending == \/ call = "onEnrolled" /\ line < 3
          \/ call = "onAuthenticated" /\ line < 5
          \/ call = "onError" /\ line < 4

\* The work of a client is in one place at a time: it is awaited, it is the
\* vendor's session, or its end is queued or being passed on.
SessionInv ==
    /\ Awaited => client = inbox["service"] /\ session = "none" /\ ~Ends(queue) /\ ~Ending
    /\ session # "none" => client = session /\ ~Ends(queue) /\ ~Ending
    /\ Ends(queue) => client # "none" /\ EndsOnce(queue) /\ ~Ending
    /\ Ending => client # "none"
    /\ Authenticates(queue) => client = "authenticate"
    /\ call = "onAuthenticated" /\ Ending => client = "authenticate"
    /\ ~hasOplus => session = "none" /\ queue = <<>> /\ call \notin Callbacks

\* The panel is lit throughout an enrolment and from the first line of
\* onFingerDown on.
LitInv ==
    /\ framework = "up"
    /\ isEnrolling /\ ~dimlayer_hbm => call = "preEnroll" /\ line = 2
    /\ call = "postEnroll" /\ line > 1 => ~isEnrolling
    /\ call = "onFingerDown" /\ line > 1 => dimlayer_hbm
    /\ call = "onFingerDown" /\ line > 2 => notify_fppress

ToldInv == deaths = 0 => SessionInv /\ LitInv

-----------------------------------------------------------------------------
(* Queues and programs                                                     *)

\* What a callback that is posted changes.
LEMMA AppendEnds ==
    ASSUME NEW q \in Seq(Callbacks), NEW c \in Callbacks
    PROVE  /\ Ends(Append(q, c)) <=> Ends(q) \/ c \in Final
           /\ ~Ends(q) => EndsOnce(Append(q, c))
           /\ EndsOnce(q) /\ c \notin Final => EndsOnce(Append(q, c))
           /\ Authenticates(Append(q, c)) <=> Authenticates(q) \/ c = "onAuthenticated"
<1>1. /\ Len(q) \in Nat /\ Len(Append(q, c)) = Len(q) + 1
      /\ \A i \in 1..Len(q) : Append(q, c)[i] = q[i]
      /\ Append(q, c)[Len(q) + 1] = c
  OBVIOUS
<1>2. Ends(Append(q, c)) <=> Ends(q) \/ c \in Final
  BY <1>1 DEF Ends
<1>3. ~Ends(q) => EndsOnce(Append(q, c))
  BY <1>1 DEF Ends, EndsOnce
<1>4. EndsOnce(q) /\ c \notin Final => EndsOnce(Append(q, c))
  BY <1>1 DEF EndsOnce
<1>5. Authenticates(Append(q, c)) <=> Authenticates(q) \/ c = "onAuthenticated"
  BY <1>1 DEF Authenticates
<1>. QED  BY <1>2, <1>3, <1>4, <1>5

\* What a callback that is taken leaves.
LEMMA TailEnds ==
    ASSUME NEW q \in Seq(Callbacks), q # <<>>
    PROVE  /\ Ends(Tail(q)) => Ends(q)
           /\ Head(q) \in Final => Ends(q)
           /\ EndsOnce(q) => EndsOnce(Tail(q))
           /\ EndsOnce(q) /\ Head(q) \in Final => ~Ends(Tail(q))
           /\ Authenticates(Tail(q)) \/ Head(q) = "onAuthenticated" => Authenticates(q)
<1>1. /\ Len(q) \in Nat \ {0} /\ Len(Tail(q)) = Len(q) - 1
      /\ \A i \in 1..Len(Tail(q)) : Tail(q)[i] = q[i + 1] /\ i + 1 \in 1..Len(q)
      /\ Head(q) = q[1] /\ 1 \in 1..Len(q)
  OBVIOUS
<1>2. (Ends(Tail(q)) => Ends(q)) /\ (Head(q) \in Final => Ends(q))
  BY <1>1 DEF Ends
<1>3. EndsOnce(q) => EndsOnce(Tail(q))
  BY <1>1 DEF EndsOnce
<1>4. EndsOnce(q) /\ Head(q) \in Final => ~Ends(Tail(q))
  <2>. SUFFICES ASSUME EndsOnce(q), Head(q) \in Final,
                       NEW i \in 1..Len(Tail(q)), Tail(q)[i] \in Final
                PROVE  FALSE
    BY DEF Ends
  <2>1. q[1] \in Final /\ q[i + 1] \in Final /\ i + 1 \in 1..Len(q) /\ 1 \in 1..Len(q)
    BY <1>1
  <2>. QED  BY <2>1 DEF EndsOnce
<1>5. Authenticates(Tail(q)) \/ Head(q) = "onAuthenticated" => Authenticates(q)
  BY <1>1 DEF Authenticates
<1>. QED  BY <1>2, <1>3, <1>4, <1>5

\* The order of the effects in the handlers that these invariants are about.
LEMMA EffectOrder ==
    ASSUME TypeOK, Op # "none"
    PROVE  /\ call = "preEnroll" => /\ line = 1 <=> Op = "enrolling"
                                    /\ line = 2 <=> Op = "lightOn"
           /\ call = "postEnroll" => (line = 1 <=> Op = "notEnrolling")
           /\ call \in {"enroll", "authenticate"} => line <= 2 /\ (line = 2 <=> Op = "forward")
           /\ call = "onFingerDown" => /\ line = 1 <=> Op = "lightOnUnlessEnrolling"
                                       /\ line = 2 <=> Op = "press"
                                       /\ line = 3 <=> Op = "forward"
                                       /\ line <= 3
           /\ call = "onEnrolled" => line <= 2 /\ (line = 2 <=> Op = "notify")
           /\ call = "onAuthenticated" => line <= 4 /\ (line = 4 <=> Op = "notify")
           /\ call = "onError" => line <= 3 /\ (line = 3 <=> Op = "notify")
<1>1. line \in 1..5 /\ Op = Program[call][line] /\ line <= Len(Program[call])
  BY DEF TypeOK, Op
<1>2. CASE call \in {"preEnroll", "postEnroll"}
  <2>1. /\ call = "preEnroll" => Program[call] = <<"enrolling", "lightOn", "forward">>
        /\ call = "postEnroll" => Program[call] = <<"notEnrolling", "lightOff", "forward">>
    BY DEF Program
  <2>2. line \in 1..3
    BY <2>1, <1>1, <1>2
  <2>. QED  BY <2>1, <2>2, <1>1, <1>2
<1>3. CASE call \in {"enroll", "authenticate"}
  <2>1. /\ call = "enroll" => Program[call] = <<"lightOn", "forward">>
        /\ call = "authenticate" => Program[call] = <<"notEnrolling", "forward">>
    BY DEF Program
  <2>2. line \in 1..2
    BY <2>1, <1>1, <1>3
  <2>. QED  BY <2>1, <2>2, <1>1, <1>3
<1>4. CASE call = "onFingerDown"
  <2>1. Program[call] = <<"lightOnUnlessEnrolling", "press", "forward">>
    BY <1>4 DEF Program
  <2>2. line \in 1..3
    BY <2>1, <1>1
  <2>. QED  BY <2>1, <2>2, <1>1, <1>4
<1>5. CASE call = "onEnrolled"
  <2>1. Program[call] = <<"touchUp", "notify">>
    BY <1>5 DEF Program
  <2>2. line \in 1..2
    BY <2>1, <1>1
  <2>. QED  BY <2>1, <2>2, <1>1, <1>5
<1>6. CASE call = "onAuthenticated"
  <2>1. Program[call] = <<"lightOff", "release", "touchUp", "notify">>
    BY <1>6 DEF Program
  <2>2. line \in 1..4
    BY <2>1, <1>1
  <2>. QED  BY <2>1, <2>2, <1>1, <1>6
<1>7. CASE call = "onError"
  <2>1. Program[call] = <<"release", "lightOffUnlessEnrolling", "notify">>
    BY <1>7 DEF Program
  <2>2. line \in 1..3
    BY <2>1, <1>1
  <2>. QED  BY <2>1, <2>2, <1>1, <1>7
<1>. QED  BY <1>2, <1>3, <1>4, <1>5, <1>6, <1>7

\* Calls are passed on to the vendor's HAL, and only callbacks to the framework.
LEMMA ForwardOrNotify ==
    ASSUME TypeOK
    PROVE  /\ Op = "forward" => call \in ServiceCalls \cup TouchCalls
           /\ Op = "notify" => call \in Callbacks
<1>1. Op # "none" => /\ line \in 1..5 /\ Op = Program[call][line] /\ line <= Len(Program[call])
                     /\ call \in ServiceCalls \cup TouchCalls \cup Callbacks
  BY DEF TypeOK, Op
<1>2. ASSUME NEW c \in Callbacks, NEW i \in 1..Len(Program[c])
      PROVE  Program[c][i] # "forward"
  <2>1. CASE c \in {"onEnrollResult", "onEnrolled", "touchDownCmd", "touchUpCmd"}
    <3>1. Program[c] \in {<<"touchUp", "notify">>, <<"touchDown">>, <<"touchUp">>}
      BY <2>1 DEF Program
    <3>. QED  BY <3>1
  <2>2. CASE c = "onAuthenticated"
    <3>1. Program[c] = <<"lightOff", "release", "touchUp", "notify">>
      BY <2>2 DEF Program
    <3>. QED  BY <3>1
  <2>3. CASE c \in {"onRejected", "onError"}
    <3>1. Program[c] \in {<<"release", "touchUp", "notify">>,
                          <<"release", "lightOffUnlessEnrolling", "notify">>}
      BY <2>3 DEF Program
    <3>. QED  BY <3>1
  <2>. QED  BY <2>1, <2>2, <2>3 DEF Callbacks
<1>3. ASSUME NEW c \in ServiceCalls \cup TouchCalls, NEW i \in 1..Len(Program[c])
      PROVE  Program[c][i] # "notify"
  <2>1. CASE c \in {"setNotify", "enroll", "cancel", "authenticate"}
    <3>1. Program[c] \in {<<"setCallback", "forward">>, <<"lightOn", "forward">>,
                          <<"lightOffUnlessEnrolling", "forward">>, <<"notEnrolling", "forward">>}
      BY <2>1 DEF Program
    <3>. QED  BY <3>1
  <2>2. CASE c \in {"preEnroll", "postEnroll"}
    <3>1. Program[c] \in {<<"enrolling", "lightOn", "forward">>,
                          <<"notEnrolling", "lightOff", "forward">>}
      BY <2>2 DEF Program
    <3>. QED  BY <3>1
  <2>3. CASE c \in TouchCalls
    <3>1. Program[c] \in {<<"lightOnUnlessEnrolling", "press", "forward">>,
                          <<"release", "lightOffUnlessEnrolling", "forward">>}
      BY <2>3 DEF Program, TouchCalls
    <3>. QED  BY <3>1
  <2>. QED  BY <2>1, <2>2, <2>3 DEF ServiceCalls
<1>4. ASSUME Op # "none" PROVE line \in 1..Len(Program[call])
  <2>1. Len(Program[call]) \in Nat
    BY <1>1, <1>4 DEF Program, ServiceCalls, TouchCalls, Callbacks
  <2>. QED  BY <1>1, <1>4, <2>1
<1>5. Op = "forward" => call \notin Callbacks
  BY <1>1, <1>2, <1>4
<1>6. Op = "notify" => call \notin ServiceCalls \cup TouchCalls
  BY <1>1, <1>3, <1>4
<1>. QED  BY <1>1, <1>5, <1>6

\* A callback that ends a client's work has been passed on when it returns.
LEMMA EndingReturns == ASSUME TypeOK, Op = "none" PROVE ~Ending
<1>1. /\ call = "onEnrolled" => line > 2
      /\ call = "onAuthenticated" => line > 4
      /\ call = "onError" => line > 3
  BY DEF TypeOK, Op, ReturnsAtOnce, ServiceCalls, Program
<1>. QED  BY <1>1 DEF Ending, TypeOK

-----------------------------------------------------------------------------
(* The steps until someone dies                                            *)

\* Effects that write no flag and no node, and leave the vendor's HAL and the
\* client alone.
LEMMA ToldQuiet ==
    ASSUME HalInv, SessionInv, LitInv, Op \in {"touchDown", "touchUp", "setCallback"},
           line' = line + 1,
           UNCHANGED <<hasOplus, isEnrolling, call, nodeVars, frameworkVars, inbox, vendorVars>>
    PROVE  SessionInv' /\ LitInv'
<1>0. /\ line \in 1..5
      /\ call \in Final => Ending /\ Ending'
      /\ call \in {"preEnroll", "postEnroll"} => line # 1
      /\ call # "onFingerDown" \/ line > 2
      /\ call \notin {"enroll", "authenticate"} \/ line < 2
      /\ call = "preEnroll" => line # 2
  BY EffectOrder DEF HalInv, TypeOK, Ending, Final
<1>1. Awaited' <=> Awaited
  BY <1>0 DEF Awaited
<1>2. Ending' <=> Ending
  BY <1>0 DEF Ending, Final
<1>3. SessionInv'
  BY <1>1, <1>2, <1>0 DEF SessionInv, frameworkVars, vendorVars
<1>4. LitInv'
  BY <1>0 DEF LitInv, nodeVars, frameworkVars
<1>. QED  BY <1>3, <1>4

\* The flag is set only by preEnroll, which lights the panel next.
LEMMA ToldSetEnrolling ==
    ASSUME HalInv, SessionInv, LitInv, SetEnrolling
    PROVE  SessionInv' /\ LitInv'
<1>0. /\ line \in 1..5
      /\ call \notin Final
      /\ Op = "enrolling" => call = "preEnroll" /\ line = 1
      /\ Op = "notEnrolling" => call \in {"postEnroll", "authenticate"} /\ line = 1
      /\ Op \in {"enrolling", "notEnrolling"}
      /\ call \notin {"onFingerDown"}
  BY EffectOrder, EffectPlaces DEF HalInv, TypeOK, SetEnrolling, Final
<1>1. (Awaited' <=> Awaited) /\ ~Ending /\ ~Ending'
  BY <1>0 DEF Awaited, Ending, Final, SetEnrolling
<1>2. SessionInv'
  BY <1>1 DEF SessionInv, SetEnrolling, frameworkVars, vendorVars
<1>3. LitInv'
  <2>1. (isEnrolling' <=> Op = "enrolling") /\ line' = line + 1
    BY Zenon DEF SetEnrolling, NewEnrolling
  <2>2. isEnrolling' => call = "preEnroll" /\ line' = 2
    BY <1>0, <2>1
  <2>3. UNCHANGED <<call, dimlayer_hbm, notify_fppress, framework>>
    BY DEF SetEnrolling, nodeVars, frameworkVars
  <2>4. call = "postEnroll" => ~isEnrolling'
    BY <2>2
  <2>. QED  BY <1>0, <2>2, <2>3, <2>4 DEF LitInv
<1>. QED  BY <1>2, <1>3

\* The unconditional darkening is that of a handler without an enrolment: that
\* of postEnroll, which has reset the flag, or of an authentication.
LEMMA ToldWriteDimlayer ==
    ASSUME HalInv, SessionInv, LitInv, WriteDimlayer
    PROVE  SessionInv' /\ LitInv'
<1>0. /\ line \in 1..5
      /\ call = "preEnroll" => Op = "lightOn" /\ line = 2
      /\ call = "postEnroll" => line > 1
      /\ call \in {"enroll", "authenticate"} => line < 2
      /\ Op = "lightOnUnlessEnrolling" => call = "onFingerDown"
      /\ call = "onFingerDown" => line = 1 /\ Op = "lightOnUnlessEnrolling"
      /\ Op = "lightOff" => call \in {"postEnroll", "onAuthenticated"}
      /\ call \in Final => Ending /\ Ending'
  BY EffectOrder, EffectPlaces DEF HalInv, TypeOK, WriteDimlayer, Ending, Final
<1>1. (Awaited' <=> Awaited) /\ (Ending' <=> Ending)
  BY <1>0 DEF Awaited, Ending, Final, WriteDimlayer
<1>2. SessionInv'
  BY <1>1 DEF SessionInv, WriteDimlayer, halVars, frameworkVars, vendorVars
<1>3. Op = "lightOff" => ~isEnrolling
  <2>1. CASE call = "postEnroll"
    BY <1>0, <2>1 DEF LitInv
  <2>2. CASE call = "onAuthenticated"
    BY <1>0, <2>2 DEF SessionInv, Awaited, Final, HalInv, EnrolInv, AuthenticationIsNoEnrolment
  <2>. QED  BY <1>0, <2>1, <2>2
<1>4. isEnrolling => dimlayer_hbm'
  <2>1. isEnrolling => dimlayer_hbm \/ Op = "lightOn"
    BY <1>0 DEF LitInv
  <2>. QED  BY <2>1, <1>3 DEF WriteDimlayer, NewDimlayer
<1>5. call = "onFingerDown" => dimlayer_hbm'
  BY <1>0, <1>4 DEF WriteDimlayer, NewDimlayer
<1>6. LitInv'
  BY <1>0, <1>4, <1>5 DEF LitInv, WriteDimlayer, halVars, frameworkVars
<1>. QED  BY <1>2, <1>6

LEMMA ToldWriteFpPress ==
    ASSUME HalInv, SessionInv, LitInv, WriteFpPress
    PROVE  SessionInv' /\ LitInv'
<1>0. /\ line \in 1..5
      /\ call = "onFingerDown" => line = 2 /\ Op = "press"
      /\ call \notin {"preEnroll", "postEnroll", "enroll", "authenticate"}
      /\ call \in Final => Ending /\ Ending'
  BY EffectOrder, EffectPlaces DEF HalInv, TypeOK, WriteFpPress, Ending, Final, ServiceCalls
<1>1. (Awaited' <=> Awaited) /\ (Ending' <=> Ending)
  BY <1>0 DEF Awaited, Ending, Final, WriteFpPress
<1>2. SessionInv'
  BY <1>1 DEF SessionInv, WriteFpPress, halVars, frameworkVars, vendorVars
<1>3. LitInv'
  <2>1. (notify_fppress' <=> Op = "press") /\ line' = line + 1
    BY Zenon DEF WriteFpPress
  <2>2. call = "onFingerDown" => notify_fppress' /\ line > 1
    BY <1>0, <2>1
  <2>3. UNCHANGED <<call, isEnrolling, dimlayer_hbm, framework>>
    BY DEF WriteFpPress, halVars, frameworkVars
  <2>. QED  BY <1>0, <2>2, <2>3 DEF LitInv
<1>. QED  BY <1>2, <1>3

\* A call for a client becomes the session, cancel turns it into an error.
LEMMA ToldForward ==
    ASSUME HalInv, SessionInv, LitInv, Forward
    PROVE  SessionInv' /\ LitInv'
<1>0. /\ line \in 1..5 /\ queue \in Seq(Callbacks) /\ "onError" \in Callbacks
      /\ call \notin Callbacks /\ "onError" \in Final
      /\ call = "preEnroll" => line # 2
      /\ call = "postEnroll" => line # 1
      /\ call \in {"enroll", "authenticate"} => line = 2
      /\ call = "onFingerDown" => line > 2
      /\ call \in ServiceCalls => inbox["service"] = call
  BY EffectOrder, CallersWait, ForwardOrNotify, ThreadsDiffer
     DEF HalInv, TypeOK, Forward, Final, Callbacks
<1>1. ~Ending /\ ~Ending'
  BY <1>0 DEF Ending, Callbacks, Forward
<1>2. SessionInv'
  <2>1. CASE call \in {"enroll", "authenticate"}
    <3>1. Awaited /\ ~Awaited' /\ queue' = queue
      BY <1>0, <2>1 DEF Awaited, Forward, ServiceCalls, vendorVars
    <3>. QED
      BY <3>1, <1>0, <1>1, <2>1 DEF SessionInv, Awaited, Forward, MayForward, frameworkVars, halVars, vendorVars,
         ServiceCalls
  <2>2. CASE call = "cancel" /\ MayForward /\ session # "none"
    <3>1. /\ session' = "none" /\ queue' = Append(queue, "onError") /\ hasOplus /\ hasOplus'
          /\ ~Awaited /\ ~Awaited' /\ client' = client
      BY <2>2, <1>0 DEF Forward, MayForward, Awaited, ServiceCalls, halVars, frameworkVars
    <3>2. Ends(queue') /\ EndsOnce(queue') /\ ~Ends(queue)
          /\ (Authenticates(queue') => Authenticates(queue))
      BY <3>1, <1>0, <2>2, AppendEnds DEF SessionInv
    <3>. QED  BY <3>1, <3>2, <1>1, <2>2 DEF SessionInv, Forward
  <2>3. CASE /\ call \notin {"enroll", "authenticate"}
             /\ ~(call = "cancel" /\ MayForward /\ session # "none")
    <3>1. UNCHANGED <<session, queue, hasOplus, client, call>> /\ (Awaited' <=> Awaited)
      BY <2>3 DEF Forward, vendorVars, halVars, frameworkVars, Awaited
    <3>. QED  BY <3>1, <1>1, <1>0 DEF SessionInv, Forward
  <2>. QED  BY <2>1, <2>2, <2>3
<1>3. LitInv'
  BY <1>0 DEF LitInv, Forward, halVars, nodeVars, frameworkVars
<1>. QED  BY <1>2, <1>3

\* The end of the work reaches the framework, and nothing of it is left.
LEMMA ToldNotify ==
    ASSUME HalInv, SessionInv, LitInv, Notify
    PROVE  SessionInv' /\ LitInv'
<1>0. /\ line \in 1..5
      /\ call \in Callbacks
      /\ call \in Final => Ending /\ ~Ending'
  BY EffectOrder, ForwardOrNotify DEF HalInv, TypeOK, Notify, Ending, Final
<1>1. ~Ending' /\ (Awaited' <=> Awaited)
  BY <1>0 DEF Ending, Final, Notify, Awaited, Callbacks
<1>2. SessionInv'
  <2>1. CASE call \in Final
    <3>1. ~Awaited /\ session = "none" /\ ~Ends(queue) /\ ~Authenticates(queue)
      BY <2>1, <1>0 DEF SessionInv, Ends, Authenticates, Final
    <3>. QED  BY <3>1, <1>0, <1>1, <2>1 DEF SessionInv, Notify, halVars, vendorVars
  <2>2. CASE call \notin Final
    <3>1. client' = client
      BY <2>2 DEF Notify, Final
    <3>. QED  BY <3>1, <1>0, <1>1, <2>2 DEF SessionInv, Notify, halVars, vendorVars, Ending, Final
  <2>. QED  BY <2>1, <2>2
<1>3. LitInv'
  BY <1>0 DEF LitInv, Notify, halVars, nodeVars, Callbacks
<1>. QED  BY <1>2, <1>3

LEMMA ToldReturn ==
    ASSUME HalInv, SessionInv, LitInv, Return
    PROVE  SessionInv' /\ LitInv'
<1>0. /\ ~Ending /\ ~Ending'
      /\ call' = "none"
      /\ inbox'["service"] = (IF call \in ServiceCalls THEN "none" ELSE inbox["service"])
      /\ call \in ServiceCalls => inbox["service"] = call
  BY EndingReturns, CallersWait, ThreadsDiffer DEF HalInv, TypeOK, Return, Ending
<1>1. Awaited' => Awaited /\ call \notin ServiceCalls /\ inbox'["service"] = inbox["service"]
  BY <1>0 DEF Awaited, ServiceCalls
<1>2. SessionInv'
  <2>1. CASE call \in {"enroll", "authenticate"} /\ ~hasOplus
    <3>1. session = "none" /\ queue = <<>> /\ ~Awaited'
      BY <2>1, <1>1 DEF SessionInv, ServiceCalls
    <3>2. ~Ends(queue) /\ ~Authenticates(queue)
      BY <3>1 DEF Ends, Authenticates
    <3>. QED  BY <3>1, <3>2, <1>0, <2>1 DEF SessionInv, Return, halVars, vendorVars, Callbacks
  <2>2. CASE ~(call \in {"enroll", "authenticate"} /\ ~hasOplus)
    <3>1. client' = client
      BY <2>2 DEF Return
    <3>. QED  BY <3>1, <1>0, <1>1 DEF SessionInv, Return, halVars, vendorVars, Callbacks
  <2>. QED  BY <2>1, <2>2
<1>3. LitInv'
  <2>1. call = "preEnroll" /\ line = 2 => ~isEnrolling
    BY DEF HalInv, EnrolInv, TypeOK, Return, Op, ReturnsAtOnce, Program
  <2>. QED  BY <2>1, <1>0 DEF LitInv, Return, halVars, nodeVars
<1>. QED  BY <1>2, <1>3

LEMMA ToldTakeCall ==
    ASSUME HalInv, SessionInv, LitInv, NEW t \in Threads, TakeCall(t)
    PROVE  SessionInv' /\ LitInv'
<1>0. /\ call = "none" /\ call' \in ServiceCalls \cup TouchCalls /\ line' = 1
      /\ call' \notin Callbacks
      /\ UNCHANGED <<inbox, queue, session, client, hasOplus, isEnrolling, dimlayer_hbm, framework>>
      /\ ~(line' > 2) /\ ~(line' > 1)
  BY ThreadsDiffer DEF HalInv, TypeOK, TakeCall, Begin, halVars, nodeVars, frameworkVars
<1>1. ~Ending /\ ~Ending' /\ (Awaited' <=> Awaited)
  BY <1>0, ThreadsDiffer DEF Ending, Awaited, Callbacks
<1>2. SessionInv'
  BY <1>0, <1>1 DEF SessionInv
<1>3. LitInv'
  BY <1>0 DEF LitInv
<1>. QED  BY <1>2, <1>3

\* The end of the work leaves the queue and is being passed on.
LEMMA ToldTakeCallback ==
    ASSUME HalInv, SessionInv, LitInv, TakeCallback
    PROVE  SessionInv' /\ LitInv'
<1>0. /\ call = "none" /\ call' = Head(queue) /\ line' = 1
      /\ queue \in Seq(Callbacks) /\ queue # <<>> /\ queue' = Tail(queue)
      /\ call' \in Callbacks /\ hasOplus
      /\ UNCHANGED <<inbox, session, client, hasOplus, isEnrolling, dimlayer_hbm, framework>>
  BY DEF HalInv, TypeOK, TakeCallback, Begin, halVars, nodeVars, frameworkVars, SessionInv
<1>1. ~Ending /\ (Ending' <=> Head(queue) \in Final) /\ (Awaited' <=> Awaited)
  BY <1>0 DEF Ending, Awaited, Callbacks, Final
<1>2. /\ Ends(queue') => Ends(queue)
      /\ Head(queue) \in Final => Ends(queue)
      /\ EndsOnce(queue) => EndsOnce(queue')
      /\ EndsOnce(queue) /\ Head(queue) \in Final => ~Ends(queue')
      /\ Authenticates(queue') \/ Head(queue) = "onAuthenticated" => Authenticates(queue)
  BY <1>0, TailEnds
<1>3. SessionInv'
  BY <1>0, <1>1, <1>2 DEF SessionInv
<1>4. LitInv'
  BY <1>0 DEF LitInv, Callbacks
<1>. QED  BY <1>3, <1>4

\* A client that is let in finds no trace of the one before.
LEMMA ToldServiceCall ==
    ASSUME HalInv, SessionInv, LitInv, NEW c \in ServiceCalls, ServiceCall(c)
    PROVE  SessionInv' /\ LitInv'
<1>0. /\ inbox["service"] = "none" /\ inbox'["service"] = c /\ ~Awaited /\ call \notin ServiceCalls
      /\ UNCHANGED <<call, line, queue, session, hasOplus, isEnrolling, dimlayer_hbm,
                     notify_fppress, framework>>
  BY ThreadsDiffer, CallersWait
     DEF HalInv, TypeOK, ServiceCall, Awaited, halVars, nodeVars, vendorVars
<1>1. Ending' <=> Ending
  BY <1>0 DEF Ending
<1>2. CASE c \in {"enroll", "authenticate"}
  <2>1. client = "none" /\ client' = c
    BY <1>2 DEF ServiceCall
  <2>2. session = "none" /\ ~Ends(queue) /\ ~Ending /\ ~Authenticates(queue)
    BY <2>1 DEF SessionInv, HalInv, TypeOK
  <2>3. SessionInv'
    BY <1>0, <1>1, <1>2, <2>1, <2>2 DEF SessionInv, Awaited, ServiceCalls
  <2>. QED  BY <1>0, <2>3 DEF LitInv
<1>3. CASE c \notin {"enroll", "authenticate"}
  <2>1. client' = client /\ ~Awaited'
    BY <1>0, <1>3 DEF ServiceCall, Awaited
  <2>2. SessionInv'
    BY <1>0, <1>1, <2>1 DEF SessionInv
  <2>. QED  BY <1>0, <2>2 DEF LitInv
<1>. QED  BY <1>2, <1>3

\* The session ends with the callback that tells of it.
LEMMA ToldVendorPosts ==
    ASSUME HalInv, SessionInv, LitInv, NEW c \in Callbacks, VendorPosts(c)
    PROVE  SessionInv' /\ LitInv'
<1>0. /\ queue \in Seq(Callbacks) /\ queue' = Append(queue, c) /\ hasOplus /\ hasOplus'
      /\ UNCHANGED <<inbox, call, line, client, isEnrolling, dimlayer_hbm, notify_fppress,
                     framework>>
      /\ c \in Final => session # "none" /\ session' = "none"
      /\ c = "onAuthenticated" => session = "authenticate"
      /\ c \notin Final => session' = session
  BY DEF HalInv, TypeOK, VendorPosts, halVars, nodeVars, frameworkVars, Final
<1>1. (Awaited' <=> Awaited) /\ (Ending' <=> Ending)
  BY <1>0 DEF Awaited, Ending
<1>2. /\ Ends(queue') <=> Ends(queue) \/ c \in Final
      /\ ~Ends(queue) => EndsOnce(queue')
      /\ EndsOnce(queue) /\ c \notin Final => EndsOnce(queue')
      /\ Authenticates(queue') <=> Authenticates(queue) \/ c = "onAuthenticated"
  BY <1>0, AppendEnds
<1>3. SessionInv'
  BY <1>0, <1>1, <1>2 DEF SessionInv
<1>. QED  BY <1>0, <1>3 DEF LitInv

LEMMA ToldTouchCall ==
    ASSUME HalInv, SessionInv, LitInv, NEW c \in TouchCalls, TouchCall(c)
    PROVE  SessionInv' /\ LitInv'
<1>1. /\ inbox'["service"] = inbox["service"]
      /\ UNCHANGED <<call, line, client, session, queue, hasOplus, isEnrolling, dimlayer_hbm,
                     notify_fppress, framework>>
  BY ThreadsDiffer DEF HalInv, TypeOK, TouchCall, halVars, nodeVars, vendorVars
<1>2. (Awaited' <=> Awaited) /\ (Ending' <=> Ending)
  BY <1>1 DEF Awaited, Ending
<1>3. SessionInv'
  BY <1>1, <1>2 DEF SessionInv
<1>. QED  BY <1>1, <1>3 DEF LitInv

\* A HAL that starts finds no session: its framework has asked for none yet.
LEMMA ToldHalStarts ==
    ASSUME HalInv, SessionInv, LitInv, HalStarts
    PROVE  SessionInv' /\ LitInv'
<1>1. ~hasOplus /\ call = "none" /\ session = "none" /\ queue = <<>>
  BY DEF HalStarts, HalInv, EnrolInv, SessionInv
<1>2. /\ UNCHANGED <<inbox, call, line, client, queue, isEnrolling, dimlayer_hbm,
                     notify_fppress, framework>>
      /\ session' = "none"
  BY <1>1 DEF HalStarts, nodeVars, frameworkVars
<1>3. ~Ending' /\ ~Ends(queue') /\ ~Authenticates(queue') /\ (Awaited' <=> Awaited)
  BY <1>1, <1>2 DEF Ending, Ends, Authenticates, Awaited
<1>4. SessionInv'
  BY <1>1, <1>2, <1>3 DEF SessionInv, Callbacks
<1>. QED  BY <1>1, <1>2, <1>4 DEF LitInv

LEMMA ToldInit == Init => ToldInv
<1>. SUFFICES ASSUME Init PROVE SessionInv /\ LitInv
  BY DEF ToldInv
<1>1. ~Awaited /\ ~Ending /\ ~Ends(queue) /\ ~Authenticates(queue)
  BY ThreadsDiffer DEF Init, Awaited, Ending, Ends, Authenticates
<1>. QED  BY <1>1 DEF Init, SessionInv, LitInv, Callbacks

\* Every step but a death keeps the two invariants.
LEMMA ToldNext == HalInv /\ ToldInv /\ [Next]_vars => ToldInv'
<1>. SUFFICES ASSUME HalInv, ToldInv, [Next]_vars, deaths' = 0
              PROVE  SessionInv' /\ LitInv'
  BY DEF ToldInv
<1>1. CASE HalDies \/ FrameworkDies
  BY <1>1 DEF HalDies, FrameworkDies, HalInv, TypeOK
<1>2. CASE ~(HalDies \/ FrameworkDies)
  <2>1. deaths = 0
    BY <1>2 DEF Next, RunHandler, SetEnrolling, WriteDimlayer, WriteFpPress, CallHelper,
       SetCallback, Forward, Notify, Return, TakeCall, TakeCallback, Begin, ServiceCall,
       TouchCall, VendorPosts, HalStarts, FrameworkStarts, BootCompleted, vars
  <2>2. SessionInv /\ LitInv
    BY <2>1 DEF ToldInv
  <2>3. CASE RunHandler
    <3>1. CASE CallHelper \/ SetCallback
      BY <3>1, <2>2, ToldQuiet DEF CallHelper, SetCallback, halVars
    <3>. QED
      BY <2>2, <2>3, <3>1, ToldSetEnrolling, ToldWriteDimlayer, ToldWriteFpPress, ToldForward,
         ToldNotify, ToldReturn DEF RunHandler
  <2>4. CASE (\E t \in Threads : TakeCall(t)) \/ TakeCallback
    BY <2>2, <2>4, ToldTakeCall, ToldTakeCallback
  <2>5. CASE (\E c \in ServiceCalls : ServiceCall(c)) \/ (\E c \in TouchCalls : TouchCall(c))
    BY <2>2, <2>5, ToldServiceCall, ToldTouchCall
  <2>6. CASE (\E c \in Callbacks : VendorPosts(c)) \/ HalStarts
    BY <2>2, <2>6, ToldVendorPosts, ToldHalStarts
  <2>7. CASE FrameworkStarts \/ BootCompleted
    BY <2>2, <2>7 DEF FrameworkStarts, BootCompleted, LitInv
  <2>8. CASE UNCHANGED vars
    BY <2>2, <2>8 DEF vars, halVars, nodeVars, frameworkVars, vendorVars, SessionInv, LitInv,
       Awaited, Ending
  <2>. QED  BY <1>2, <2>3, <2>4, <2>5, <2>6, <2>7, <2>8 DEF Next
<1>. QED  BY <1>1, <1>2

\* Until someone dies, the vendor's HAL is told of a finger only on a lit and
\* pressed panel, whatever is enrolled, cancelled or ended meanwhile
\* (BiometricsFingerprint.cpp:160-170).
THEOREM ToldFingerIsAlwaysLit == Spec => []ToldFingerIsLit
<1>1. HalInv /\ ToldInv => ToldFingerIsLit
  <2>. SUFFICES ASSUME HalInv, ToldInv, deaths = 0, call = "onFingerDown", Op = "forward"
                PROVE  dimlayer_hbm /\ notify_fppress
    BY DEF ToldFingerIsLit
  <2>1. line = 3 /\ LitInv
    BY EffectOrder DEF HalInv, ToldInv
  <2>. QED  BY <2>1 DEF LitInv
<1>. QED  BY <1>1, HalInvHolds, ToldInit, ToldNext, PTL DEF Spec

==============================================================================
