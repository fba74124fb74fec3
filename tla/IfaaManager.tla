----------------------------- MODULE IfaaManager -----------------------------
(***************************************************************************)
(* The IFAA manager inside an app: the factory and the singleton it makes  *)
(* under double-checked locking, the connection to the IFAA service, and   *)
(* the recipient of the service's deaths.                                  *)
(*                                                                         *)
(* Callers are any threads of the app.  The connection's callbacks run on  *)
(* the main thread, binderDied on a binder thread.  Successive processes   *)
(* of the service are numbered.  A read or write of a static field is one  *)
(* step, and no thread sees it before an earlier one.                      *)
(*                                                                         *)
(* The dispatcher in front of the callbacks is the platform's: it reports  *)
(* each connection once, and its loss before the next.                     *)
(***************************************************************************)
EXTENDS Naturals

CONSTANTS
    Threads,     \* that ask for the manager
    None,        \* no thread
    MaxDeaths    \* bound: deaths of the service's process

ASSUME IfaaAssumption == None \notin Threads /\ MaxDeaths \in Nat

VARIABLES
    factory,      \* IFAAManager of the factory is set
    INSTANCE_,    \* INSTANCE is set
    mContext,     \* is set
    monitor,      \* the holder of the class's monitor
    pc,           \* what each thread is doing
    mService,     \* the service's process it refers to, or 0
    linked,       \* processes whose death mDeathRecipient is linked to
    dying,        \* deaths that binderDied has still to be called for
    active,       \* the process that the dispatcher has reported, or 0
    main,         \* the main thread: "idle", or in onServiceConnected
    gen, alive,   \* the service's last process
    bound,        \* the system keeps a binding, for which it runs the service
    bindFailed,   \* the last bindService returned false
    binds,        \* how often bindService was called
    deaths,       \* how often the service died
    lateDied      \* an older process's binderDied came after this connection

fieldVars == <<factory, INSTANCE_, mContext>>
bindVars == <<bound, bindFailed, binds>>
serviceVars == <<gen, alive, deaths>>
deathVars == <<linked, dying, lateDied>>
vars == <<fieldVars, monitor, pc, mService, deathVars, active, main, serviceVars, bindVars>>

Inside == {"second", "published", "bind", "leave"}
Pcs == {"idle", "first", "enter", "got", "using"} \cup Inside

TypeOK ==
    /\ factory \in BOOLEAN /\ INSTANCE_ \in BOOLEAN /\ mContext \in BOOLEAN
    /\ monitor \in Threads \cup {None}
    /\ pc \in [Threads -> Pcs]
    /\ \A t \in Threads : pc[t] \in Inside <=> monitor = t
    /\ gen \in Nat
    /\ mService \in 0..gen
    /\ linked \subseteq 1..gen
    /\ dying \subseteq 1..gen
    /\ active \in 0..gen
    /\ main \in {"idle", "link"}
    /\ alive \in BOOLEAN /\ bound \in BOOLEAN
    /\ bindFailed \in BOOLEAN /\ lateDied \in BOOLEAN
    /\ binds \in Nat
    /\ deaths \in 0..MaxDeaths

Init ==
    /\ factory = FALSE /\ INSTANCE_ = FALSE /\ mContext = FALSE
    /\ monitor = None
    /\ pc = [t \in Threads |-> "idle"]
    /\ mService = 0 /\ active = 0 /\ main = "idle"
    /\ linked = {} /\ dying = {} /\ lateDied = FALSE
    /\ gen = 0 /\ alive = FALSE /\ deaths = 0
    /\ bound = FALSE /\ bindFailed = FALSE /\ binds = 0

Lives(g) == alive /\ g = gen

-----------------------------------------------------------------------------
(* The factory and the singleton                                           *)

Goto(t, where) == pc' = [pc EXCEPT ![t] = where]

\* getIFAAManager reads its own field first.
GetIFAAManager(t) ==
    /\ pc[t] = "idle"
    /\ Goto(t, IF factory THEN "using" ELSE "first")
    /\ UNCHANGED <<fieldVars, monitor, mService, deathVars, active, main, serviceVars, bindVars>>

FirstCheck(t) ==
    /\ pc[t] = "first"
    /\ Goto(t, IF INSTANCE_ THEN "got" ELSE "enter")
    /\ UNCHANGED <<fieldVars, monitor, mService, deathVars, active, main, serviceVars, bindVars>>

\* Seeded fault: getInstance is not synchronized.
EnterUnlocked(t) ==
    /\ pc[t] = "enter"
    /\ Goto(t, "second")
    /\ UNCHANGED <<fieldVars, monitor, mService, deathVars, active, main, serviceVars, bindVars>>

EnterMonitor(t) ==
    /\ pc[t] = "enter"
    /\ monitor = None
    /\ monitor' = t
    /\ Goto(t, "second")
    /\ UNCHANGED <<fieldVars, mService, deathVars, active, main, serviceVars, bindVars>>

\* Seeded fault: the second check is missing.
NoSecondCheck(t) ==
    /\ pc[t] = "second"
    /\ INSTANCE_' = TRUE
    /\ Goto(t, "published")
    /\ UNCHANGED <<factory, mContext, monitor, mService, deathVars, active, main, serviceVars,
                   bindVars>>

\* Seeded fault: only the publication is synchronized.
PublishAndLeave(t) ==
    /\ pc[t] = "second"
    /\ INSTANCE_' = TRUE
    /\ monitor' = None
    /\ Goto(t, IF INSTANCE_ THEN "got" ELSE "published")
    /\ UNCHANGED <<factory, mContext, mService, deathVars, active, main, serviceVars, bindVars>>

\* The instance is published before it has its context.
SecondCheck(t) ==
    /\ pc[t] = "second"
    /\ INSTANCE_' = TRUE
    /\ Goto(t, IF INSTANCE_ THEN "leave" ELSE "published")
    /\ UNCHANGED <<factory, mContext, monitor, mService, deathVars, active, main, serviceVars,
                   bindVars>>

SetContext(t) ==
    /\ pc[t] = "published"
    /\ mContext' = TRUE
    /\ Goto(t, "bind")
    /\ UNCHANGED <<factory, INSTANCE_, monitor, mService, deathVars, active, main, serviceVars,
                   bindVars>>

\* initService ignores what bindService returns.
initService ==
    /\ binds' = binds + 1
    /\ bindFailed' \in BOOLEAN
    /\ bound' = (bound \/ ~bindFailed')

Bind(t) ==
    /\ pc[t] = "bind"
    /\ initService
    /\ Goto(t, "leave")
    /\ UNCHANGED <<fieldVars, monitor, mService, deathVars, active, main, serviceVars>>

LeaveMonitor(t) ==
    /\ pc[t] = "leave"
    /\ monitor' = None
    /\ Goto(t, "got")
    /\ UNCHANGED <<fieldVars, mService, deathVars, active, main, serviceVars, bindVars>>

\* The factory keeps what getInstance returned.
ReturnInstance(t) ==
    /\ pc[t] = "got"
    /\ factory' = TRUE
    /\ Goto(t, "using")
    /\ UNCHANGED <<INSTANCE_, mContext, monitor, mService, deathVars, active, main, serviceVars,
                   bindVars>>

\* A call of the manager, which reads mContext; or it meets null and throws.
Use(t) ==
    /\ pc[t] = "using"
    /\ Goto(t, "idle")
    /\ UNCHANGED <<fieldVars, monitor, mService, deathVars, active, main, serviceVars, bindVars>>

-----------------------------------------------------------------------------
(* The connection and the death recipient                                  *)

OnServiceConnected ==
    /\ main = "idle"
    /\ active = 0
    /\ alive
    /\ active' = gen
    /\ mService' = gen
    /\ lateDied' = FALSE
    /\ main' = "link"
    /\ UNCHANGED <<fieldVars, monitor, pc, linked, dying, serviceVars, bindVars>>

\* Seeded fault: the recipient is linked to the first service only.
LinkToFirst ==
    /\ main = "link"
    /\ main' = "idle"
    /\ linked' = linked \cup (IF Lives(mService) /\ mService = 1 THEN {mService} ELSE {})
    /\ UNCHANGED <<fieldVars, monitor, pc, mService, dying, lateDied, active, serviceVars,
                   bindVars>>

\* The rest of onServiceConnected; a dead service cannot be linked to.
LinkToDeath ==
    /\ main = "link"
    /\ main' = "idle"
    /\ linked' = linked \cup (IF Lives(mService) THEN {mService} ELSE {})
    /\ UNCHANGED <<fieldVars, monitor, pc, mService, dying, lateDied, active, serviceVars,
                   bindVars>>

\* Seeded fault: nothing is bound again.
OnServiceDisconnectedIdle ==
    /\ main = "idle"
    /\ active # 0 /\ ~Lives(active)
    /\ active' = 0
    /\ UNCHANGED <<fieldVars, monitor, pc, mService, deathVars, main, serviceVars, bindVars>>

\* mService keeps the dead service until the next one is connected.
OnServiceDisconnected ==
    /\ main = "idle"
    /\ active # 0 /\ ~Lives(active)
    /\ active' = 0
    /\ IF mContext THEN initService ELSE UNCHANGED bindVars
    /\ UNCHANGED <<fieldVars, monitor, pc, mService, deathVars, main, serviceVars>>

\* binderDied unlinks from whatever mService is by now.
BinderDied(g) ==
    /\ g \in dying
    /\ dying' = dying \ {g}
    /\ linked' = linked \ {mService}
    /\ lateDied' = (lateDied \/ mService # g)
    /\ UNCHANGED <<fieldVars, monitor, pc, mService, active, main, serviceVars, bindVars>>

-----------------------------------------------------------------------------
(* The system                                                              *)

ServiceStarts ==
    /\ bound /\ ~alive
    /\ alive' = TRUE
    /\ gen' = gen + 1
    /\ UNCHANGED <<fieldVars, monitor, pc, mService, deathVars, active, main, deaths, bindVars>>

\* The system may keep the binding, or give up a service that has crashed.
ServiceDies ==
    /\ alive
    /\ deaths < MaxDeaths
    /\ deaths' = deaths + 1
    /\ alive' = FALSE
    /\ bound' \in {bound, FALSE}
    /\ dying' = dying \cup (linked \cap {gen})
    /\ linked' = linked \ {gen}
    /\ UNCHANGED <<fieldVars, monitor, pc, mService, lateDied, active, main, gen, bindFailed,
                   binds>>

ThreadStep(t) ==
    \/ FirstCheck(t) \/ SecondCheck(t) \/ SetContext(t) \/ Bind(t)
    \/ LeaveMonitor(t) \/ ReturnInstance(t) \/ Use(t)

MainThread == OnServiceConnected \/ LinkToDeath \/ OnServiceDisconnected

Next ==
    \/ \E t \in Threads : GetIFAAManager(t) \/ EnterMonitor(t) \/ ThreadStep(t)
    \/ MainThread
    \/ \E g \in dying : BinderDied(g)
    \/ ServiceStarts
    \/ ServiceDies

\* Threads run, deaths are reported, and the system starts what is bound.
\* Nobody has to ask for the manager, and no service has to die.
Fairness ==
    /\ \A t \in Threads : WF_vars(ThreadStep(t)) /\ SF_vars(EnterMonitor(t))
    /\ WF_vars(MainThread)
    /\ WF_vars(ServiceStarts)
    /\ WF_vars(\E g \in dying : BinderDied(g))

Spec == Init /\ [][Next]_vars /\ Fairness

-----------------------------------------------------------------------------
(* Properties                                                              *)

\* An instance without its context, on which getEnabled and getIDList throw,
\* is seen only while the thread that makes it is between two lines of
\* the synchronized block (IFAAManagerImpl.java:75-88, 92).
HalfMadeOnlyInside ==
    INSTANCE_ /\ ~mContext => \E t \in Threads : monitor = t /\ pc[t] = "published"

\* However many threads ask at once, the service is bound once, and once more
\* for each of its processes that died (IFAAManagerImpl.java:67-88).
OneBindPerProcess == binds <= 1 + deaths

\* The recipient stays linked to a living service that was connected, unless
\* the death of an older one was reported too late (IFAAManagerImpl.java:57-64,
\* 224-231).
LinkedUnlessLate ==
    (active # 0 /\ Lives(active) /\ main = "idle") => active \in linked \/ lateDied

\* When the service dies no more, mService refers to its living process in the
\* end, unless bindService failed, after which nothing tries again
\* (IFAAManagerImpl.java:47-73).
Reconnects ==
    (deaths = MaxDeaths /\ (bound \/ active # 0)) ~>
        (bindFailed \/ (alive /\ mService = gen))

=============================================================================
