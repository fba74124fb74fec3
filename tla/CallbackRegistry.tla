--------------------------- MODULE CallbackRegistry ---------------------------
(***************************************************************************)
(* The callback registry of the syshelper service: registerCallback and    *)
(* unregisterCallback of src/syshelper/UdfpsHelper.cpp, and the life of a  *)
(* LinkedCallback (src/syshelper/LinkedCallback.cpp), the cookie of a      *)
(* death notification.                                                     *)
(*                                                                         *)
(* Binder threads run the two calls; a client may die at any time, also    *)
(* while one of its calls still runs here.  The binder runtime then        *)
(* notifies the links of the dead client one after the other, on a thread  *)
(* of its own.  AIBinder_unlinkToDeath stops a notification that has not   *)
(* begun and does not wait for one that has.                               *)
(***************************************************************************)
EXTENDS Naturals, FiniteSets

CONSTANTS
    Threads,    \* binder threads that run registerCallback, unregisterCallback
    Clients,    \* client processes, one callback binder each
    Objs,       \* bound: LinkedCallback objects of one life of the service
    None        \* no thread, client or object

ASSUME NoneAssumption == None \notin Threads \cup Clients \cup Objs

VARIABLES
    callbacks_,          \* the registered LinkedCallbacks
    callback_mutex_lock, \* its holder
    stage,               \* life of each LinkedCallback
    owner,               \* the client each one was made for
    pc,                  \* where each binder thread is
    who,                 \* the client each thread's call is about
    mine,                \* the LinkedCallback a thread is making
    links,               \* the cookies linked to death
    alive,               \* the living clients
    obitSent,            \* clients whose death notifications have begun
    deathPc,             \* where the notification of each client's death is
    cookie,              \* the cookie it is about
    up                   \* the service process runs

objVars == <<callbacks_, callback_mutex_lock, stage, owner>>
callVars == <<pc, who, mine>>
deathVars == <<deathPc, cookie>>
vars == <<objVars, callVars, deathVars, links, alive, obitSent, up>>

Stages == {"none", "linked", "service", "ready", "freed"}
Pcs == {"idle", "regLock", "service", "callback", "emplace", "probe", "unregLock"}
DeathPcs == {"none", "wrapped", "enter", "lock"}

\* The steps of Make, which hold the mutex.
Making == {"service", "callback", "emplace"}
\* The steps of registerCallback from which on a dead client is noticed.
Probing == Making \cup {"probe", "unregLock"}

EntriesOf(c) == {o \in callbacks_ : owner[o] = c}

TypeOK ==
    /\ callbacks_ \subseteq Objs
    /\ callback_mutex_lock \in Threads \cup {None}
    /\ stage \in [Objs -> Stages]
    /\ owner \in [Objs -> Clients \cup {None}]
    /\ pc \in [Threads -> Pcs]
    /\ who \in [Threads -> Clients \cup {None}]
    /\ mine \in [Threads -> Objs \cup {None}]
    /\ links \subseteq Objs
    /\ alive \subseteq Clients
    /\ obitSent \subseteq Clients
    /\ deathPc \in [Clients -> DeathPcs]
    /\ cookie \in [Clients -> Objs \cup {None}]
    /\ up \in BOOLEAN

\* A service process that has just started.
FreshProcess(cb, lock, st, ow, p, w, m, l, d, k) ==
    /\ cb = {}
    /\ lock = None
    /\ st = [o \in Objs |-> "none"]
    /\ ow = [o \in Objs |-> None]
    /\ p = [t \in Threads |-> "idle"]
    /\ w = [t \in Threads |-> None]
    /\ m = [t \in Threads |-> None]
    /\ l = {}
    /\ d = [c \in Clients |-> "none"]
    /\ k = [c \in Clients |-> None]

Init ==
    /\ FreshProcess(callbacks_, callback_mutex_lock, stage, owner,
                    pc, who, mine, links, deathPc, cookie)
    /\ alive = Clients
    /\ obitSent = {}
    /\ up = TRUE

\* The process aborts: every thread and object of it is gone.
Crash ==
    /\ FreshProcess(callbacks_', callback_mutex_lock', stage', owner',
                    pc', who', mine', links', deathPc', cookie')
    /\ up' = FALSE
    /\ UNCHANGED <<alive, obitSent>>

\* init starts the service again.
Restart ==
    /\ ~up
    /\ up' = TRUE
    /\ obitSent' = {}
    /\ UNCHANGED <<objVars, callVars, deathVars, links, alive>>

\* A call is over and its locals with it.
Return(t) ==
    /\ pc' = [pc EXCEPT ![t] = "idle"]
    /\ who' = [who EXCEPT ![t] = None]
    /\ mine' = [mine EXCEPT ![t] = None]

-----------------------------------------------------------------------------
(* registerCallback                                                        *)

RegisterCall(t, c) ==
    /\ up
    /\ pc[t] = "idle"
    /\ c \in alive
    /\ pc' = [pc EXCEPT ![t] = "regLock"]
    /\ who' = [who EXCEPT ![t] = c]
    /\ UNCHANGED <<objVars, mine, deathVars, links, alive, obitSent, up>>

\* Any object that was not made yet: which one makes no difference.
FreshObj == CHOOSE o \in Objs : stage[o] = "none"

\* new LinkedCallback, and AIBinder_linkToDeath with it as the cookie.
LinkToDeath(t, o) ==
    /\ stage[o] = "none"
    /\ o = FreshObj
    /\ stage' = [stage EXCEPT ![o] = "linked"]
    /\ owner' = [owner EXCEPT ![o] = who[t]]
    /\ mine' = [mine EXCEPT ![t] = o]
    /\ links' = links \cup {o}
    /\ callback_mutex_lock' = t
    /\ pc' = [pc EXCEPT ![t] = "service"]
    /\ UNCHANGED <<callbacks_, who, deathVars, alive, obitSent, up>>

\* Seeded fault: registerCallback does not look at what Make returned.
MakeUnchecked(t) ==
    /\ pc[t] = "regLock"
    /\ callback_mutex_lock = None
    /\ IF who[t] \in obitSent
         THEN /\ callback_mutex_lock' = t
              /\ pc' = [pc EXCEPT ![t] = "emplace"]
              /\ UNCHANGED <<callbacks_, stage, owner, who, mine, links,
                             deathVars, alive, obitSent, up>>
         ELSE \E o \in Objs : LinkToDeath(t, o)

\* Make: the new object is linked to death before it is filled in.  A binder
\* that has reported its death refuses the link, and the call returns
\* EX_ILLEGAL_STATE.
Make(t) ==
    /\ pc[t] = "regLock"
    /\ callback_mutex_lock = None
    /\ IF who[t] \in obitSent
         THEN /\ Return(t)
              /\ UNCHANGED <<objVars, deathVars, links, alive, obitSent, up>>
         ELSE \E o \in Objs : LinkToDeath(t, o)

\* Seeded fault: the object goes into callbacks_ without its callback.
SetServiceOnly(t) ==
    /\ pc[t] = "service"
    /\ stage' = [stage EXCEPT ![mine[t]] = "service"]
    /\ pc' = [pc EXCEPT ![t] = "emplace"]
    /\ UNCHANGED <<callbacks_, callback_mutex_lock, owner, who, mine,
                   deathVars, links, alive, obitSent, up>>

\* ret->service_ = service
SetService(t) ==
    /\ pc[t] = "service"
    /\ stage' = [stage EXCEPT ![mine[t]] = "service"]
    /\ pc' = [pc EXCEPT ![t] = "callback"]
    /\ UNCHANGED <<callbacks_, callback_mutex_lock, owner, who, mine,
                   deathVars, links, alive, obitSent, up>>

\* ret->callback_ = std::move(callback)
SetCallback(t) ==
    /\ pc[t] = "callback"
    /\ stage' = [stage EXCEPT ![mine[t]] = "ready"]
    /\ pc' = [pc EXCEPT ![t] = "emplace"]
    /\ UNCHANGED <<callbacks_, callback_mutex_lock, owner, who, mine,
                   deathVars, links, alive, obitSent, up>>

\* callbacks_.emplace_back, and the end of the locked block.
Emplace(t) ==
    /\ pc[t] = "emplace"
    /\ callbacks_' = callbacks_ \cup {mine[t]}
    /\ callback_mutex_lock' = None
    /\ mine' = [mine EXCEPT ![t] = None]
    /\ pc' = [pc EXCEPT ![t] = "probe"]
    /\ UNCHANGED <<stage, owner, who, deathVars, links, alive, obitSent, up>>

\* Seeded fault: a dead callback is logged and kept.
ProbeKeeping(t) ==
    /\ pc[t] = "probe"
    /\ Return(t)
    /\ UNCHANGED <<objVars, deathVars, links, alive, obitSent, up>>

\* The first notification, outside the lock; STATUS_DEAD_OBJECT leads to
\* unregisterCallback.
Probe(t) ==
    /\ pc[t] = "probe"
    /\ IF who[t] \in alive
         THEN Return(t)
         ELSE pc' = [pc EXCEPT ![t] = "unregLock"] /\ UNCHANGED <<who, mine>>
    /\ UNCHANGED <<objVars, deathVars, links, alive, obitSent, up>>

-----------------------------------------------------------------------------
(* unregisterCallback                                                      *)

UnregisterCall(t, c) ==
    /\ up
    /\ pc[t] = "idle"
    /\ c \in alive
    /\ pc' = [pc EXCEPT ![t] = "unregLock"]
    /\ who' = [who EXCEPT ![t] = c]
    /\ UNCHANGED <<objVars, mine, deathVars, links, alive, obitSent, up>>

\* Seeded fault: ~LinkedCallback does not unlink.
RemoveAllLinked(c) ==
    /\ callback_mutex_lock = None
    /\ callbacks_' = callbacks_ \ EntriesOf(c)
    /\ stage' = [o \in Objs |-> IF o \in EntriesOf(c) THEN "freed" ELSE stage[o]]
    /\ UNCHANGED <<callback_mutex_lock, owner, links>>

\* Seeded fault: the comparison of binders is inverted.
RemoveAllOthers(c) ==
    /\ callback_mutex_lock = None
    /\ callbacks_' = EntriesOf(c)
    /\ stage' = [o \in Objs |-> IF o \in callbacks_ \ EntriesOf(c) THEN "freed" ELSE stage[o]]
    /\ links' = links \ (callbacks_ \ EntriesOf(c))
    /\ UNCHANGED <<callback_mutex_lock, owner>>

\* Everything done under the lock: the entries whose binder is that of c are
\* erased; ~LinkedCallback unlinks each.  The result (OK, or
\* EX_ILLEGAL_ARGUMENT when there was none) changes no state.
RemoveAll(c) ==
    /\ callback_mutex_lock = None
    /\ callbacks_' = callbacks_ \ EntriesOf(c)
    /\ stage' = [o \in Objs |-> IF o \in EntriesOf(c) THEN "freed" ELSE stage[o]]
    /\ links' = links \ EntriesOf(c)
    /\ UNCHANGED <<callback_mutex_lock, owner>>

Unregister(t) ==
    /\ pc[t] = "unregLock"
    /\ RemoveAll(who[t])
    /\ Return(t)
    /\ UNCHANGED <<deathVars, alive, obitSent, up>>

-----------------------------------------------------------------------------
(* Death of a client and its notification                                  *)

ClientDies(c) ==
    /\ c \in alive
    /\ alive' = alive \ {c}
    /\ UNCHANGED <<objVars, callVars, deathVars, links, obitSent, up>>

\* The runtime takes one link of a dead client and calls
\* OnCallbackDiedWrapped with its cookie.
Deliver(c) ==
    /\ c \notin alive
    /\ deathPc[c] = "none"
    /\ \E o \in links :
         /\ owner[o] = c
         /\ links' = links \ {o}
         /\ cookie' = [cookie EXCEPT ![c] = o]
    /\ obitSent' = obitSent \cup {c}
    /\ deathPc' = [deathPc EXCEPT ![c] = "wrapped"]
    /\ UNCHANGED <<objVars, callVars, alive, up>>

DeathGoes(c, next) ==
    /\ deathPc' = [deathPc EXCEPT ![c] = next]
    /\ cookie' = [cookie EXCEPT ![c] = IF next = "none" THEN None ELSE @]
    /\ UNCHANGED <<callVars, alive, obitSent, up>>

\* service(): CHECK_NE(nullptr, service_sp) aborts before service_ is set.
\* On a freed cookie anything may come of it.
DeathService(c) ==
    /\ deathPc[c] = "wrapped"
    /\ \/ /\ stage[cookie[c]] \in {"linked", "freed"}
          /\ Crash
       \/ /\ stage[cookie[c]] \in {"service", "ready", "freed"}
          /\ DeathGoes(c, "enter")
          /\ UNCHANGED <<objVars, links>>

\* Seeded fault: OnCallbackDied leaves the entry in place.
DeathEnterIdle(c) ==
    /\ deathPc[c] = "enter"
    /\ DeathGoes(c, "none")
    /\ UNCHANGED <<objVars, links>>

\* unregisterCallback(callback_): a null callback_ returns EX_NULL_POINTER.
DeathEnter(c) ==
    /\ deathPc[c] = "enter"
    /\ \/ /\ stage[cookie[c]] = "freed"
          /\ Crash
       \/ /\ stage[cookie[c]] \in {"service", "freed"}
          /\ DeathGoes(c, "none")
          /\ UNCHANGED <<objVars, links>>
       \/ /\ stage[cookie[c]] \in {"ready", "freed"}
          /\ DeathGoes(c, "lock")
          /\ UNCHANGED <<objVars, links>>

\* The rest of unregisterCallback, which reads callback_ again under the lock.
DeathRemove(c) ==
    /\ deathPc[c] = "lock"
    /\ callback_mutex_lock = None
    /\ \/ /\ stage[cookie[c]] = "freed"
          /\ Crash
       \/ /\ stage[cookie[c]] \in {"ready", "freed"}
          /\ RemoveAll(c)
          /\ DeathGoes(c, "none")

-----------------------------------------------------------------------------
ThreadStep(t) == Make(t) \/ SetService(t) \/ SetCallback(t) \/ Emplace(t)
                 \/ Probe(t) \/ Unregister(t)

DeathStep(c) == Deliver(c) \/ DeathService(c) \/ DeathEnter(c) \/ DeathRemove(c)

Next ==
    \/ \E t \in Threads, c \in Clients : RegisterCall(t, c) \/ UnregisterCall(t, c)
    \/ \E t \in Threads : ThreadStep(t)
    \/ \E c \in Clients : ClientDies(c) \/ DeathStep(c)
    \/ Restart

\* Threads go on; the mutex is held for a few instructions, so a thread that
\* waits for it gets it in the end.  No client has to call or to die.
Fairness ==
    /\ \A t \in Threads : SF_vars(ThreadStep(t))
    /\ \A c \in Clients : SF_vars(DeathStep(c))
    /\ WF_vars(Restart)

Spec == Init /\ [][Next]_vars /\ Fairness

-----------------------------------------------------------------------------
(* Properties                                                              *)

\* Who walks callbacks_ under the lock finds only finished LinkedCallbacks:
\* callback() of an entry is never null and never of a freed object
\* (UdfpsHelper.cpp:115-120, 139-144).
EntriesAreReady == \A o \in callbacks_ : stage[o] = "ready"

\* A notification that has yet to begin has a living object for its cookie:
\* the part of LinkedCallback.h:40-41 that does hold.
LinksAreLive == \A o \in links : stage[o] \in {"linked", "service", "ready"}

\* An entry is on its way out: its notification is still to come, or one of
\* the same client runs on a finished object, or a thread that registers the
\* client's callback has its probe ahead of it or unregisters it.
HasReaper(o) ==
    \/ o \in links
    \/ deathPc[owner[o]] # "none" /\ stage[cookie[owner[o]]] = "ready"
    \/ \E t \in Threads : who[t] = owner[o] /\ pc[t] \in Probing

\* Every entry of a dead client is on its way out.  The probe of
\* UdfpsHelper.cpp:123-126 is what covers a death that came when the
\* LinkedCallback was half made (LinkedCallback.cpp:29-37).
DeadEntriesHaveAReaper ==
    \A o \in callbacks_ : owner[o] \notin alive => HasReaper(o)

\* A step takes no entry from client c, ends the service, or is the end of
\* c's own unregisterCallback.
Keeps(c) ==
    \/ EntriesOf(c) \subseteq callbacks_'
    \/ ~up'
    \/ \E t \in Threads : pc[t] = "unregLock" /\ who[t] = c /\ pc'[t] = "idle"

\* A living client loses its entries only to its own unregisterCallback, or
\* with the service (UdfpsHelper.cpp:139-144).
LivingClientsAreKept == [][\A c \in alive : Keeps(c)]_vars

\* How far a call is for its client: registering takes effect at the end of
\* the locked block.
Phase(p) == CASE p = "idle" -> "idle"
              [] p = "regLock" \/ p \in Making -> "registering"
              [] p = "probe" -> "registered"
              [] p = "unregLock" -> "unregistering"

Registered == {<<o, owner[o]>> : o \in callbacks_}
CallPhases == [t \in Threads |-> Phase(pc[t])]

Log == INSTANCE Registrations WITH
    registered <- Registered, phase <- CallPhases, Tokens <- Objs

\* Every call takes effect at one instant, on the entries of its own client,
\* whatever other calls, deaths and notifications it meets
\* (UdfpsHelper.cpp:107-150).
ImplementsRegistrations == Log!Spec

\* Once a client is dead its entries leave callbacks_ for good, whatever
\* calls of it were under way (UdfpsHelper.cpp:107-150).
DeadClientsAreForgotten ==
    \A c \in Clients : (c \notin alive) ~> [](EntriesOf(c) = {})

\* CHECK_NE(nullptr, service_sp) of LinkedCallback.cpp:57 holds whenever it
\* is evaluated.
ServiceIsSet ==
    \A c \in Clients : deathPc[c] = "wrapped" => stage[cookie[c]] # "linked"

\* "it is always safe to reinterpret_cast the cookie back to the
\* LinkedCallback object" (LinkedCallback.h:40-41).
CookieIsSafe ==
    \A c \in Clients : deathPc[c] = "wrapped" => stage[cookie[c]] # "freed"

=============================================================================
