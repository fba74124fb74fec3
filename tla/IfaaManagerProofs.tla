-------------------------- MODULE IfaaManagerProofs --------------------------
(***************************************************************************)
(* Proofs about the IFAA manager, for any number of threads and of deaths  *)
(* of the service.                                                         *)
(***************************************************************************)
EXTENDS IfaaManager, TLAPS

\* Before its first bindService nothing has happened to the connection, and
\* only the thread that makes the instance can issue it.
MakeInv ==
    /\ factory \/ mContext => INSTANCE_
    /\ ~INSTANCE_ => binds = 0
    /\ \A t \in Threads :
         /\ pc[t] \in {"published", "bind", "leave", "got", "using"} => INSTANCE_
         /\ pc[t] = "published" => ~mContext
         /\ pc[t] \in {"published", "bind"} => binds = 0
    /\ HalfMadeOnlyInside

\* A death that OnServiceDisconnected has still to answer.
Owed == IF active # 0 /\ ~Lives(active) THEN 1 ELSE 0

BindInv ==
    /\ active # 0 \/ bound \/ alive => binds > 0
    /\ alive => gen > 0
    /\ binds # 0 => binds + Owed <= 1 + deaths

LinkInv ==
    /\ active # 0 => active = mService
    /\ main = "link" => active # 0
    /\ \A g \in dying : ~Lives(g)
    /\ LinkedUnlessLate

IfaaInv == TypeOK /\ MakeInv /\ BindInv /\ LinkInv

USE IfaaAssumption DEF IfaaAssumption

-----------------------------------------------------------------------------
LEMMA InitEstablishes == Init => IfaaInv
<1> SUFFICES ASSUME Init PROVE IfaaInv
  OBVIOUS
<1>1. TypeOK
  <2>1. deaths \in 0..MaxDeaths
    BY DEF Init
  <2>2. /\ pc \in [Threads -> Pcs]
        /\ \A t \in Threads : pc[t] \in Inside <=> monitor = t
    BY DEF Init, Pcs, Inside
  <2>3. linked \subseteq 1..gen /\ dying \subseteq 1..gen /\ gen \in Nat
    BY DEF Init
  <2>4. /\ factory \in BOOLEAN /\ INSTANCE_ \in BOOLEAN /\ mContext \in BOOLEAN
        /\ alive \in BOOLEAN /\ bound \in BOOLEAN
        /\ bindFailed \in BOOLEAN /\ lateDied \in BOOLEAN
    BY DEF Init
  <2>5. /\ mService \in 0..gen /\ active \in 0..gen /\ binds \in Nat
        /\ main \in {"idle", "link"} /\ monitor \in Threads \cup {None}
    BY DEF Init
  <2> QED
    BY <2>1, <2>2, <2>3, <2>4, <2>5 DEF TypeOK
<1>2. MakeInv
  <2>1. \A t \in Threads : pc[t] = "idle"
    BY DEF Init
  <2> QED
    BY <2>1 DEF Init, MakeInv, HalfMadeOnlyInside
<1>3. BindInv /\ LinkInv
  BY DEF Init, BindInv, LinkInv, LinkedUnlessLate
<1> QED
  BY <1>1, <1>2, <1>3 DEF IfaaInv

\* The steps of a caller that bind nothing.
CallerStep(t) ==
    \/ GetIFAAManager(t) \/ FirstCheck(t) \/ EnterMonitor(t) \/ SecondCheck(t)
    \/ SetContext(t) \/ LeaveMonitor(t) \/ ReturnInstance(t) \/ Use(t)

LEMMA CallerPreserves ==
    ASSUME IfaaInv, NEW t \in Threads, CallerStep(t)
    PROVE  IfaaInv'
<1> USE DEF IfaaInv
<1>1. UNCHANGED <<mService, deathVars, active, main, serviceVars, bindVars>>
  BY DEF CallerStep, GetIFAAManager, FirstCheck, EnterMonitor, SecondCheck, SetContext,
         LeaveMonitor, ReturnInstance, Use
<1>2. TypeOK'
  <2>1. /\ factory' \in BOOLEAN /\ INSTANCE_' \in BOOLEAN /\ mContext' \in BOOLEAN
        /\ monitor' \in Threads \cup {None}
    BY DEF CallerStep, GetIFAAManager, FirstCheck, EnterMonitor, SecondCheck, SetContext,
           LeaveMonitor, ReturnInstance, Use, fieldVars, TypeOK
  <2>2. pc' \in [Threads -> Pcs]
    BY DEF CallerStep, GetIFAAManager, FirstCheck, EnterMonitor, SecondCheck, SetContext,
           LeaveMonitor, ReturnInstance, Use, Goto, TypeOK, Pcs, Inside
  <2>3. \A s \in Threads : pc'[s] \in Inside <=> monitor' = s
    BY DEF CallerStep, GetIFAAManager, FirstCheck, EnterMonitor, SecondCheck, SetContext,
           LeaveMonitor, ReturnInstance, Use, Goto, TypeOK, Inside
  <2> QED
    BY <1>1, <2>1, <2>2, <2>3 DEF TypeOK, deathVars, serviceVars, bindVars
<1>3. MakeInv'
  <2>1. binds' = binds
    BY <1>1 DEF bindVars
  <2>2. CASE GetIFAAManager(t) \/ FirstCheck(t)
    BY <2>1, <2>2
    DEF GetIFAAManager, FirstCheck, Goto, fieldVars, MakeInv, HalfMadeOnlyInside, TypeOK, Inside
  <2>3. CASE EnterMonitor(t) \/ SecondCheck(t)
    BY <2>1, <2>3
    DEF EnterMonitor, SecondCheck, Goto, fieldVars, MakeInv, HalfMadeOnlyInside, TypeOK, Inside
  <2>4. CASE SetContext(t) \/ LeaveMonitor(t)
    BY <2>1, <2>4
    DEF SetContext, LeaveMonitor, Goto, fieldVars, MakeInv, HalfMadeOnlyInside, TypeOK, Inside
  <2>5. CASE ReturnInstance(t) \/ Use(t)
    BY <2>1, <2>5
    DEF ReturnInstance, Use, Goto, fieldVars, MakeInv, HalfMadeOnlyInside, TypeOK, Inside
  <2> QED
    BY <2>2, <2>3, <2>4, <2>5 DEF CallerStep
<1>4. BindInv' /\ LinkInv'
  BY <1>1 DEF BindInv, Owed, Lives, LinkInv, LinkedUnlessLate, deathVars, serviceVars, bindVars
<1> QED
  BY <1>2, <1>3, <1>4

LEMMA BindPreserves ==
    ASSUME IfaaInv, NEW t \in Threads, Bind(t)
    PROVE  IfaaInv'
<1> USE DEF IfaaInv
<1>1. /\ UNCHANGED <<fieldVars, monitor, mService, deathVars, active, main, serviceVars>>
      /\ pc[t] = "bind"
      /\ pc' = [pc EXCEPT ![t] = "leave"]
      /\ binds' = binds + 1
      /\ bound' \in BOOLEAN /\ bindFailed' \in BOOLEAN
  BY DEF Bind, Goto, initService, TypeOK
<1>2. TypeOK'
  BY <1>1 DEF TypeOK, Pcs, Inside, fieldVars, deathVars, serviceVars
<1>3. binds = 0 /\ active = 0
  BY <1>1 DEF MakeInv, BindInv, TypeOK
<1>4. MakeInv'
  BY <1>1 DEF MakeInv, HalfMadeOnlyInside, TypeOK, Inside, fieldVars
<1>5. BindInv'
  BY <1>1, <1>3 DEF BindInv, Owed, TypeOK, serviceVars
<1>6. LinkInv'
  BY <1>1 DEF LinkInv, LinkedUnlessLate, Lives, deathVars, serviceVars
<1> QED
  BY <1>2, <1>4, <1>5, <1>6

LEMMA MainThreadPreserves ==
    ASSUME IfaaInv, MainThread
    PROVE  IfaaInv'
<1> USE DEF IfaaInv
<1>1. UNCHANGED <<fieldVars, monitor, pc, dying, serviceVars>>
  BY DEF MainThread, OnServiceConnected, LinkToDeath, OnServiceDisconnected, deathVars
<1>2. CASE OnServiceConnected
  <2>1. /\ active = 0 /\ alive /\ active' = gen /\ mService' = gen /\ main' = "link"
        /\ lateDied' = FALSE
        /\ UNCHANGED <<linked, bindVars>>
    BY <1>2 DEF OnServiceConnected
  <2>2. TypeOK'
    <3>1. lateDied' \in BOOLEAN
      BY <2>1
    <3>2. active' \in 0..gen /\ mService' \in 0..gen
      BY <2>1 DEF TypeOK
    <3> QED
      BY <1>1, <2>1, <3>1, <3>2 DEF TypeOK, fieldVars, serviceVars, bindVars
  <2>3. MakeInv'
    BY <1>1, <2>1 DEF MakeInv, HalfMadeOnlyInside, fieldVars, bindVars
  <2>4. BindInv'
    BY <1>1, <2>1 DEF BindInv, Owed, Lives, TypeOK, serviceVars, bindVars
  <2>5. LinkInv'
    <3>1. active' # 0
      BY <2>1 DEF BindInv, TypeOK
    <3> QED
      BY <1>1, <2>1, <3>1 DEF LinkInv, LinkedUnlessLate, Lives, TypeOK, serviceVars
  <2> QED
    BY <2>2, <2>3, <2>4, <2>5
<1>3. CASE LinkToDeath
  <2>1. /\ main = "link" /\ main' = "idle"
        /\ linked' = linked \cup (IF Lives(mService) THEN {mService} ELSE {})
        /\ UNCHANGED <<mService, lateDied, active, bindVars>>
    BY <1>3 DEF LinkToDeath
  <2>2. mService # 0 /\ active = mService
    BY <2>1 DEF LinkInv
  <2>3. TypeOK'
    BY <1>1, <2>1, <2>2 DEF TypeOK, fieldVars, serviceVars, bindVars
  <2>4. MakeInv' /\ BindInv'
    BY <1>1, <2>1
    DEF MakeInv, HalfMadeOnlyInside, BindInv, Owed, Lives, fieldVars, serviceVars, bindVars
  <2>5. LinkInv'
    BY <1>1, <2>1, <2>2 DEF LinkInv, LinkedUnlessLate, Lives, serviceVars
  <2> QED
    BY <2>3, <2>4, <2>5
<1>4. CASE OnServiceDisconnected
  <2>1. /\ active # 0 /\ ~Lives(active) /\ active' = 0 /\ main = "idle"
        /\ UNCHANGED <<mService, deathVars, main>>
        /\ \/ UNCHANGED bindVars
           \/ /\ binds' = binds + 1 
              /\ bound' \in BOOLEAN /\ bindFailed' \in BOOLEAN
              /\ bound' = (bound \/ ~bindFailed')
    BY <1>4 DEF OnServiceDisconnected, initService, TypeOK
  <2>2. binds > 0 /\ binds + 1 <= 1 + deaths
    BY <2>1 DEF BindInv, Owed, TypeOK
  <2>3. TypeOK'
    BY <1>1, <2>1 DEF TypeOK, fieldVars, serviceVars, bindVars, deathVars
  <2>4. MakeInv'
    BY <1>1, <2>1, <2>2 DEF MakeInv, HalfMadeOnlyInside, TypeOK, fieldVars, bindVars
  <2>5. BindInv'
    BY <1>1, <2>1, <2>2 DEF BindInv, Owed, TypeOK, serviceVars, bindVars
  <2>6. LinkInv'
    BY <1>1, <2>1 DEF LinkInv, LinkedUnlessLate, Lives, serviceVars, deathVars
  <2> QED
    BY <2>3, <2>4, <2>5, <2>6
<1> QED
  BY <1>2, <1>3, <1>4 DEF MainThread

LEMMA BinderDiedPreserves ==
    ASSUME IfaaInv, NEW g \in dying, BinderDied(g)
    PROVE  IfaaInv'
<1> USE DEF IfaaInv
<1>1. /\ UNCHANGED <<fieldVars, monitor, pc, mService, active, main, serviceVars, bindVars>>
      /\ dying' = dying \ {g}
      /\ linked' = linked \ {mService}
      /\ lateDied' = (lateDied \/ mService # g)
  BY DEF BinderDied
<1>2. TypeOK'
  BY <1>1 DEF TypeOK, fieldVars, serviceVars, bindVars
<1>3. MakeInv' /\ BindInv'
  BY <1>1
  DEF MakeInv, HalfMadeOnlyInside, BindInv, Owed, Lives, fieldVars, serviceVars, bindVars
<1>4. LinkInv'
  BY <1>1 DEF LinkInv, LinkedUnlessLate, Lives, TypeOK, serviceVars
<1> QED
  BY <1>2, <1>3, <1>4

LEMMA ServicePreserves ==
    ASSUME IfaaInv, ServiceStarts \/ ServiceDies
    PROVE  IfaaInv'
<1> USE DEF IfaaInv
<1>1. UNCHANGED <<fieldVars, monitor, pc, mService, lateDied, active, main, bindFailed, binds>>
  BY DEF ServiceStarts, ServiceDies, bindVars, deathVars
<1>2. MakeInv'
  BY <1>1 DEF MakeInv, HalfMadeOnlyInside, fieldVars
<1>3. CASE ServiceStarts
  <2>1. /\ bound /\ ~alive /\ alive' = TRUE /\ gen' = gen + 1
        /\ UNCHANGED <<deathVars, deaths, bound>>
    BY <1>3 DEF ServiceStarts, bindVars
  <2>2. TypeOK'
    BY <1>1, <2>1 DEF TypeOK, fieldVars, deathVars
  <2>3. active # gen' /\ \A g \in dying : g # gen'
    BY <2>1 DEF TypeOK
  <2>4. BindInv'
    BY <1>1, <2>1, <2>3 DEF BindInv, Owed, Lives, TypeOK
  <2>5. LinkInv'
    BY <1>1, <2>1, <2>3 DEF LinkInv, LinkedUnlessLate, Lives, deathVars
  <2> QED
    BY <1>2, <2>2, <2>4, <2>5
<1>4. CASE ServiceDies
  <2>1. /\ alive /\ ~alive' /\ deaths' = deaths + 1 /\ gen' = gen
        /\ bound' \in {bound, FALSE}
        /\ dying' = dying \cup (linked \cap {gen})
        /\ linked' = linked \ {gen}
        /\ deaths < MaxDeaths
    BY <1>4 DEF ServiceDies
  <2>2. TypeOK'
    <3>1. alive' \in BOOLEAN /\ bound' \in BOOLEAN
      BY <1>4 DEF ServiceDies, TypeOK
    <3>2. /\ linked' \subseteq 1..gen /\ dying' \subseteq 1..gen
          /\ deaths' \in 0..MaxDeaths
      BY <2>1 DEF TypeOK
    <3> QED
      BY <1>1, <2>1, <3>1, <3>2 DEF TypeOK, fieldVars
  <2>3. BindInv'
    BY <1>1, <2>1 DEF BindInv, Owed, Lives, TypeOK
  <2>4. LinkInv'
    BY <1>1, <2>1 DEF LinkInv, LinkedUnlessLate, Lives
  <2> QED
    BY <1>2, <2>2, <2>3, <2>4
<1> QED
  BY <1>3, <1>4

LEMMA StepPreserves == IfaaInv /\ [Next]_vars => IfaaInv'
<1> SUFFICES ASSUME IfaaInv, [Next]_vars PROVE IfaaInv'
  OBVIOUS
<1>1. CASE UNCHANGED vars
  <2>1. TypeOK' /\ MakeInv'
    BY <1>1 DEF IfaaInv, TypeOK, MakeInv, HalfMadeOnlyInside,
                vars, fieldVars, bindVars, serviceVars, deathVars
  <2>2. BindInv' /\ LinkInv'
    BY <1>1 DEF IfaaInv, BindInv, Owed, Lives, LinkInv, LinkedUnlessLate,
                vars, fieldVars, bindVars, serviceVars, deathVars
  <2> QED
    BY <2>1, <2>2 DEF IfaaInv
<1>2. CASE Next
  BY <1>2, CallerPreserves, BindPreserves, MainThreadPreserves, BinderDiedPreserves,
     ServicePreserves
  DEF Next, ThreadStep, CallerStep
<1> QED
  BY <1>1, <1>2

LEMMA IfaaInvHolds == Spec => []IfaaInv
BY InitEstablishes, StepPreserves, PTL DEF Spec

-----------------------------------------------------------------------------
\* The monitor is held by exactly the thread that is in the synchronized
\* block (IFAAManagerImpl.java:75-88).
THEOREM IfaaTypeCorrect == Spec => []TypeOK
BY IfaaInvHolds, PTL DEF IfaaInv

\* An instance without its context is seen only while it is being made
\* (IFAAManagerImpl.java:75-88).
THEOREM HalfMadeIsAlwaysInside == Spec => []HalfMadeOnlyInside
BY IfaaInvHolds, PTL DEF IfaaInv, MakeInv

\* One bindService for the instance and one for each death
\* (IFAAManagerImpl.java:67-88).
THEOREM AlwaysOneBindPerProcess == Spec => []OneBindPerProcess
<1>1. IfaaInv => OneBindPerProcess
  BY DEF IfaaInv, BindInv, Owed, OneBindPerProcess, TypeOK
<1> QED
  BY <1>1, IfaaInvHolds, PTL

\* Only a late binderDied unlinks the recipient from a living service
\* (IFAAManagerImpl.java:224-231).
THEOREM AlwaysLinkedUnlessLate == Spec => []LinkedUnlessLate
BY IfaaInvHolds, PTL DEF IfaaInv, LinkInv

=============================================================================
