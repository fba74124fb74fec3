------------------------ MODULE CallbackRegistryProofs ------------------------
(***************************************************************************)
(* Proofs about the callback registry, for any number of binder threads,   *)
(* clients and LinkedCallbacks.                                            *)
(***************************************************************************)
EXTENDS CallbackRegistry, TLAPS

\* A thread in Make holds the mutex; the object it makes is its own.
MakingInv ==
    \A t \in Threads :
       /\ pc[t] # "idle" => who[t] \in Clients
       /\ pc[t] \in Making =>
            /\ callback_mutex_lock = t
            /\ mine[t] \in Objs \ callbacks_
            /\ owner[mine[t]] = who[t]
       /\ pc[t] = "service" => stage[mine[t]] = "linked"
       /\ pc[t] = "callback" => stage[mine[t]] = "service"
       /\ pc[t] = "emplace" => stage[mine[t]] = "ready"

\* Every object has an owner; while that lives the object is linked to death.
LinkedInv ==
    \A o \in Objs :
       /\ stage[o] # "none" => owner[o] \in Clients
       /\ stage[o] \in {"linked", "service", "ready"} /\ owner[o] \in alive => o \in links

\* A notification under way is about a dead client and an object made for it.
DeathInv ==
    \A c \in Clients :
       deathPc[c] # "none" =>
          /\ c \notin alive
          /\ cookie[c] \in Objs
          /\ owner[cookie[c]] = c
          /\ stage[cookie[c]] # "none"

RegistryInv ==
    /\ TypeOK
    /\ MakingInv
    /\ EntriesAreReady
    /\ LinksAreLive
    /\ LinkedInv
    /\ DeathInv
    /\ DeadEntriesHaveAReaper

USE NoneAssumption DEF NoneAssumption

-----------------------------------------------------------------------------
\* A process that starts anew has nothing to lose.
LEMMA CrashStep ==
    ASSUME RegistryInv, Crash
    PROVE  RegistryInv'
<1>1. TypeOK'
  BY DEF RegistryInv, TypeOK, Stages, Pcs, DeathPcs, Crash, FreshProcess
<1>2. MakingInv'
  BY DEF RegistryInv, TypeOK, MakingInv, Making, Crash, FreshProcess
<1>3. EntriesAreReady'
  BY DEF RegistryInv, EntriesAreReady, Crash, FreshProcess
<1>4. LinksAreLive'
  BY DEF RegistryInv, LinksAreLive, Crash, FreshProcess
<1>5. LinkedInv'
  BY DEF RegistryInv, LinkedInv, Crash, FreshProcess
<1>6. DeathInv'
  BY DEF RegistryInv, DeathInv, Crash, FreshProcess
<1>7. DeadEntriesHaveAReaper'
  BY DEF RegistryInv, DeadEntriesHaveAReaper, HasReaper, Crash, FreshProcess
<1> QED
  BY <1>1, <1>2, <1>3, <1>4, <1>5, <1>6, <1>7 DEF RegistryInv

\* registerCallback begins.
LEMMA RegisterCallStep ==
    ASSUME RegistryInv, NEW t \in Threads, NEW c \in Clients, RegisterCall(t, c)
    PROVE  RegistryInv'
<1>1. TypeOK'
  BY DEF RegistryInv, TypeOK, Pcs, RegisterCall, objVars, deathVars
<1>2. MakingInv'
  BY DEF RegistryInv, TypeOK, MakingInv, Making, RegisterCall, objVars, deathVars
<1>3. EntriesAreReady'
  BY DEF RegistryInv, EntriesAreReady, RegisterCall, objVars, deathVars
<1>4. LinksAreLive'
  BY DEF RegistryInv, LinksAreLive, RegisterCall, objVars, deathVars
<1>5. LinkedInv'
  BY DEF RegistryInv, LinkedInv, RegisterCall, objVars, deathVars
<1>6. DeathInv'
  BY DEF RegistryInv, DeathInv, RegisterCall, objVars, deathVars
<1>7. DeadEntriesHaveAReaper'
  BY DEF RegistryInv, TypeOK, DeadEntriesHaveAReaper, HasReaper, Making, Probing, RegisterCall,
         objVars, deathVars
<1> QED
  BY <1>1, <1>2, <1>3, <1>4, <1>5, <1>6, <1>7 DEF RegistryInv

\* unregisterCallback begins.
LEMMA UnregisterCallStep ==
    ASSUME RegistryInv, NEW t \in Threads, NEW c \in Clients, UnregisterCall(t, c)
    PROVE  RegistryInv'
<1>1. TypeOK'
  BY DEF RegistryInv, TypeOK, Pcs, UnregisterCall, objVars, deathVars
<1>2. MakingInv'
  BY DEF RegistryInv, TypeOK, MakingInv, Making, UnregisterCall, objVars, deathVars
<1>3. EntriesAreReady'
  BY DEF RegistryInv, EntriesAreReady, UnregisterCall, objVars, deathVars
<1>4. LinksAreLive'
  BY DEF RegistryInv, LinksAreLive, UnregisterCall, objVars, deathVars
<1>5. LinkedInv'
  BY DEF RegistryInv, LinkedInv, UnregisterCall, objVars, deathVars
<1>6. DeathInv'
  BY DEF RegistryInv, DeathInv, UnregisterCall, objVars, deathVars
<1>7. DeadEntriesHaveAReaper'
  BY DEF RegistryInv, TypeOK, DeadEntriesHaveAReaper, HasReaper, Making, Probing,
         UnregisterCall, objVars, deathVars
<1> QED
  BY <1>1, <1>2, <1>3, <1>4, <1>5, <1>6, <1>7 DEF RegistryInv

\* Make links a new object.
LEMMA LinkToDeathStep ==
    ASSUME RegistryInv, NEW t \in Threads, NEW o \in Objs,
           callback_mutex_lock = None, pc[t] = "regLock", LinkToDeath(t, o)
    PROVE  RegistryInv'
<1>1. TypeOK'
  BY DEF RegistryInv, TypeOK, Pcs, Stages, LinkToDeath, deathVars
<1>2. MakingInv'
  BY DEF RegistryInv, TypeOK, MakingInv, EntriesAreReady, Making, LinkToDeath, deathVars
<1>3. EntriesAreReady'
  BY DEF RegistryInv, EntriesAreReady, LinkToDeath, deathVars
<1>4. LinksAreLive'
  BY DEF RegistryInv, TypeOK, LinksAreLive, LinkToDeath, deathVars
<1>5. LinkedInv'
  BY DEF RegistryInv, TypeOK, MakingInv, LinkedInv, LinkToDeath, deathVars
<1>6. DeathInv'
  BY DEF RegistryInv, DeathInv, LinkToDeath, deathVars
<1>7. DeadEntriesHaveAReaper'
  BY DEF RegistryInv, TypeOK, DeadEntriesHaveAReaper, HasReaper, Making, Probing, LinkToDeath,
         deathVars
<1> QED
  BY <1>1, <1>2, <1>3, <1>4, <1>5, <1>6, <1>7 DEF RegistryInv

\* Make sets service_.
LEMMA SetServiceStep ==
    ASSUME RegistryInv, NEW t \in Threads, SetService(t)
    PROVE  RegistryInv'
<1>1. TypeOK'
  BY DEF RegistryInv, TypeOK, Pcs, Stages, SetService, deathVars
<1>2. MakingInv'
  BY DEF RegistryInv, TypeOK, MakingInv, Making, SetService, deathVars
<1>3. EntriesAreReady'
  BY DEF RegistryInv, TypeOK, MakingInv, EntriesAreReady, Making, SetService, deathVars
<1>4. LinksAreLive'
  BY DEF RegistryInv, LinksAreLive, SetService, deathVars
<1>5. LinkedInv'
  BY DEF RegistryInv, TypeOK, MakingInv, LinkedInv, Making, SetService, deathVars
<1>6. DeathInv'
  BY DEF RegistryInv, DeathInv, SetService, deathVars
<1>7. DeadEntriesHaveAReaper'
  BY DEF RegistryInv, TypeOK, MakingInv, DeadEntriesHaveAReaper, HasReaper, Making, Probing,
         SetService, deathVars
<1> QED
  BY <1>1, <1>2, <1>3, <1>4, <1>5, <1>6, <1>7 DEF RegistryInv

\* Make sets callback_.
LEMMA SetCallbackStep ==
    ASSUME RegistryInv, NEW t \in Threads, SetCallback(t)
    PROVE  RegistryInv'
<1>1. TypeOK'
  BY DEF RegistryInv, TypeOK, Pcs, Stages, SetCallback, deathVars
<1>2. MakingInv'
  BY DEF RegistryInv, TypeOK, MakingInv, Making, SetCallback, deathVars
<1>3. EntriesAreReady'
  BY DEF RegistryInv, EntriesAreReady, SetCallback, deathVars
<1>4. LinksAreLive'
  BY DEF RegistryInv, LinksAreLive, SetCallback, deathVars
<1>5. LinkedInv'
  BY DEF RegistryInv, TypeOK, MakingInv, LinkedInv, Making, SetCallback, deathVars
<1>6. DeathInv'
  BY DEF RegistryInv, DeathInv, SetCallback, deathVars
<1>7. DeadEntriesHaveAReaper'
  BY DEF RegistryInv, TypeOK, DeadEntriesHaveAReaper, HasReaper, Making, Probing, SetCallback,
         deathVars
<1> QED
  BY <1>1, <1>2, <1>3, <1>4, <1>5, <1>6, <1>7 DEF RegistryInv

\* The finished object is registered.
LEMMA EmplaceStep ==
    ASSUME RegistryInv, NEW t \in Threads, Emplace(t)
    PROVE  RegistryInv'
<1>1. TypeOK'
  BY DEF RegistryInv, TypeOK, MakingInv, Making, Stages, Pcs, Emplace, deathVars
<1>2. MakingInv'
  BY DEF RegistryInv, TypeOK, MakingInv, Making, Emplace, deathVars
<1>3. EntriesAreReady'
  BY DEF RegistryInv, TypeOK, MakingInv, EntriesAreReady, Making, Emplace, deathVars
<1>4. LinksAreLive'
  BY DEF RegistryInv, LinksAreLive, Emplace, deathVars
<1>5. LinkedInv'
  BY DEF RegistryInv, LinkedInv, Emplace, deathVars
<1>6. DeathInv'
  BY DEF RegistryInv, DeathInv, Emplace, deathVars
<1>7. DeadEntriesHaveAReaper'
  BY DEF RegistryInv, TypeOK, MakingInv, DeadEntriesHaveAReaper, HasReaper, Making, Probing,
         Emplace, deathVars
<1> QED
  BY <1>1, <1>2, <1>3, <1>4, <1>5, <1>6, <1>7 DEF RegistryInv

\* The probe ends the call of a living client and unregisters a dead one.
LEMMA ProbeStep ==
    ASSUME RegistryInv, NEW t \in Threads, Probe(t)
    PROVE  RegistryInv'
<1>1. TypeOK'
  BY DEF RegistryInv, TypeOK, Pcs, Probe, Return, objVars, deathVars
<1>2. MakingInv'
  BY DEF RegistryInv, TypeOK, MakingInv, Making, Probe, Return, objVars, deathVars
<1>3. EntriesAreReady'
  BY DEF RegistryInv, EntriesAreReady, Probe, Return, objVars, deathVars
<1>4. LinksAreLive'
  BY DEF RegistryInv, LinksAreLive, Probe, Return, objVars, deathVars
<1>5. LinkedInv'
  BY DEF RegistryInv, LinkedInv, Probe, Return, objVars, deathVars
<1>6. DeathInv'
  BY DEF RegistryInv, DeathInv, Probe, Return, objVars, deathVars
<1>7. DeadEntriesHaveAReaper'
  BY DEF RegistryInv, TypeOK, DeadEntriesHaveAReaper, HasReaper, Probing, Probe, Return,
         objVars, deathVars
<1> QED
  BY <1>1, <1>2, <1>3, <1>4, <1>5, <1>6, <1>7 DEF RegistryInv

\* unregisterCallback erases the entries of its client.
LEMMA UnregisterStep ==
    ASSUME RegistryInv, NEW t \in Threads, Unregister(t)
    PROVE  RegistryInv'
<1>1. TypeOK'
  BY DEF RegistryInv, TypeOK, Pcs, Stages, Unregister, RemoveAll, EntriesOf, Return, deathVars
<1>2. MakingInv'
  BY DEF RegistryInv, TypeOK, MakingInv, Making, Unregister, RemoveAll, EntriesOf, Return,
         deathVars
<1>3. EntriesAreReady'
  BY DEF RegistryInv, TypeOK, EntriesAreReady, Unregister, RemoveAll, EntriesOf, Return,
         deathVars
<1>4. LinksAreLive'
  BY DEF RegistryInv, TypeOK, LinksAreLive, Unregister, RemoveAll, EntriesOf, Return, deathVars
<1>5. LinkedInv'
  BY DEF RegistryInv, EntriesAreReady, LinkedInv, Unregister, RemoveAll, EntriesOf, deathVars
<1>6. DeathInv'
  BY DEF RegistryInv, DeathInv, Unregister, RemoveAll, EntriesOf, Return, deathVars
<1>7. DeadEntriesHaveAReaper'
  <2> SUFFICES ASSUME NEW o \in callbacks_', owner'[o] \notin alive'
               PROVE  HasReaper(o)'
    BY DEF DeadEntriesHaveAReaper
  <2>1. /\ o \in callbacks_
       /\ owner[o] \notin alive
       /\ owner' = owner
       /\ owner[o] # who[t]
    BY DEF Unregister, RemoveAll, EntriesOf, Return, deathVars
  <2>2. HasReaper(o)
    BY <2>1 DEF RegistryInv, DeadEntriesHaveAReaper
  <2>3. CASE o \in links
    BY <2>1, <2>3 DEF Unregister, RemoveAll, EntriesOf, Return, deathVars, HasReaper
  <2>4. CASE deathPc[owner[o]] # "none" /\ stage[cookie[owner[o]]] = "ready"
    <3>1. owner[o] \in Clients
      BY <2>1 DEF RegistryInv, TypeOK, EntriesAreReady, LinkedInv
    <3>2. cookie[owner[o]] \in Objs /\ owner[cookie[owner[o]]] = owner[o]
      BY <3>1, <2>4 DEF RegistryInv, DeathInv
    <3>3. deathPc'[owner[o]] # "none" /\ stage'[cookie'[owner[o]]] = "ready"
      BY <2>1, <2>4, <3>1, <3>2 DEF Unregister, RemoveAll, EntriesOf, deathVars, RegistryInv,
                                    TypeOK
    <3> QED
      BY <2>1, <3>3 DEF HasReaper
  <2>5. CASE \E u \in Threads : who[u] = owner[o] /\ pc[u] \in Probing
    BY <2>1, <2>5 DEF Unregister, RemoveAll, EntriesOf, Return, deathVars, HasReaper,
                      RegistryInv, TypeOK, Probing, Making
  <2> QED
    BY <2>2, <2>3, <2>4, <2>5 DEF HasReaper
<1> QED
  BY <1>1, <1>2, <1>3, <1>4, <1>5, <1>6, <1>7 DEF RegistryInv

\* A client dies; its entries still have their links.
LEMMA ClientDiesStep ==
    ASSUME RegistryInv, NEW c \in Clients, ClientDies(c)
    PROVE  RegistryInv'
<1>1. TypeOK'
  BY DEF RegistryInv, TypeOK, ClientDies, objVars, callVars, deathVars
<1>2. MakingInv'
  BY DEF RegistryInv, TypeOK, MakingInv, Making, ClientDies, objVars, callVars, deathVars
<1>3. EntriesAreReady'
  BY DEF RegistryInv, EntriesAreReady, ClientDies, objVars, callVars, deathVars
<1>4. LinksAreLive'
  BY DEF RegistryInv, LinksAreLive, ClientDies, objVars, callVars, deathVars
<1>5. LinkedInv'
  BY DEF RegistryInv, LinkedInv, ClientDies, objVars, callVars, deathVars
<1>6. DeathInv'
  BY DEF RegistryInv, DeathInv, ClientDies, objVars, callVars, deathVars
<1>7. DeadEntriesHaveAReaper'
  <2> SUFFICES ASSUME NEW o \in callbacks_', owner'[o] \notin alive'
               PROVE  HasReaper(o)'
    BY DEF DeadEntriesHaveAReaper
  <2>1. o \in callbacks_
    BY DEF ClientDies, objVars
  <2>2. CASE owner[o] \in alive
    BY <2>1, <2>2 DEF RegistryInv, TypeOK, EntriesAreReady, LinkedInv, HasReaper, ClientDies
  <2>3. CASE owner[o] \notin alive
    BY <2>1, <2>3 DEF RegistryInv, DeadEntriesHaveAReaper, HasReaper, ClientDies,
                      objVars, callVars, deathVars
  <2> QED
    BY <2>2, <2>3
<1> QED
  BY <1>1, <1>2, <1>3, <1>4, <1>5, <1>6, <1>7 DEF RegistryInv

\* A notification begins.
LEMMA DeliverStep ==
    ASSUME RegistryInv, NEW c \in Clients, Deliver(c)
    PROVE  RegistryInv'
<1>1. TypeOK'
  BY DEF RegistryInv, TypeOK, DeathPcs, Deliver, objVars, callVars
<1>2. MakingInv'
  BY DEF RegistryInv, TypeOK, MakingInv, Making, Deliver, objVars, callVars
<1>3. EntriesAreReady'
  BY DEF RegistryInv, EntriesAreReady, Deliver, objVars, callVars
<1>4. LinksAreLive'
  BY DEF RegistryInv, LinksAreLive, Deliver, objVars, callVars
<1>5. LinkedInv'
  BY DEF RegistryInv, LinkedInv, Deliver, objVars, callVars
<1>6. DeathInv'
  BY DEF RegistryInv, TypeOK, LinksAreLive, DeathInv, Deliver, objVars, callVars
<1>7. DeadEntriesHaveAReaper'
  BY DEF RegistryInv, TypeOK, EntriesAreReady, DeadEntriesHaveAReaper, HasReaper, Deliver,
         objVars, callVars
<1> QED
  BY <1>1, <1>2, <1>3, <1>4, <1>5, <1>6, <1>7 DEF RegistryInv

\* OnCallbackDied gets past service(), or the process aborts.
LEMMA DeathServiceStep ==
    ASSUME RegistryInv, NEW c \in Clients, DeathService(c)
    PROVE  RegistryInv'
<1>1. CASE Crash
  BY <1>1, CrashStep
<1>2. CASE ~Crash
  <2>1. TypeOK'
    BY <1>2 DEF RegistryInv, TypeOK, DeathPcs, DeathService, DeathGoes, objVars, callVars
  <2>2. MakingInv'
    BY <1>2 DEF RegistryInv, TypeOK, MakingInv, Making, DeathService, DeathGoes, objVars,
                callVars
  <2>3. EntriesAreReady'
    BY <1>2 DEF RegistryInv, EntriesAreReady, DeathService, DeathGoes, objVars, callVars
  <2>4. LinksAreLive'
    BY <1>2 DEF RegistryInv, LinksAreLive, DeathService, DeathGoes, objVars, callVars
  <2>5. LinkedInv'
    BY <1>2 DEF RegistryInv, LinkedInv, DeathService, DeathGoes, objVars, callVars
  <2>6. DeathInv'
    BY <1>2 DEF RegistryInv, TypeOK, DeathInv, DeathService, DeathGoes, objVars, callVars
  <2>7. DeadEntriesHaveAReaper'
    <3> SUFFICES ASSUME NEW o \in callbacks_', owner'[o] \notin alive'
                 PROVE  HasReaper(o)'
      BY DEF DeadEntriesHaveAReaper
    <3>1. /\ o \in callbacks_
         /\ owner[o] \notin alive
         /\ owner' = owner
      BY <1>2 DEF DeathService, DeathGoes, objVars, callVars
    <3>2. HasReaper(o)
      BY <3>1 DEF RegistryInv, DeadEntriesHaveAReaper
    <3>3. CASE o \in links
      BY <1>2, <3>1, <3>3 DEF DeathService, DeathGoes, objVars, callVars, HasReaper
    <3>4. CASE deathPc[owner[o]] # "none" /\ stage[cookie[owner[o]]] = "ready"
      <4>1. owner[o] \in Clients
        BY <3>1 DEF RegistryInv, TypeOK, EntriesAreReady, LinkedInv
      <4>2. cookie[owner[o]] \in Objs /\ owner[cookie[owner[o]]] = owner[o]
        BY <4>1, <3>4 DEF RegistryInv, DeathInv
      <4>3. deathPc'[owner[o]] # "none" /\ stage'[cookie'[owner[o]]] = "ready"
        BY <1>2, <3>1, <3>4, <4>1, <4>2 DEF DeathService, DeathGoes, objVars, RegistryInv,
                                            TypeOK
      <4> QED
        BY <3>1, <4>3 DEF HasReaper
    <3>5. CASE \E u \in Threads : who[u] = owner[o] /\ pc[u] \in Probing
      BY <1>2, <3>1, <3>5 DEF DeathService, DeathGoes, objVars, callVars, HasReaper,
                              RegistryInv, TypeOK, Probing, Making
    <3> QED
      BY <3>2, <3>3, <3>4, <3>5 DEF HasReaper
  <2> QED
    BY <2>1, <2>2, <2>3, <2>4, <2>5, <2>6, <2>7 DEF RegistryInv
<1> QED
  BY <1>1, <1>2

\* OnCallbackDied enters unregisterCallback, or finds no callback.
LEMMA DeathEnterStep ==
    ASSUME RegistryInv, NEW c \in Clients, DeathEnter(c)
    PROVE  RegistryInv'
<1>1. CASE Crash
  BY <1>1, CrashStep
<1>2. CASE ~Crash
  <2>1. TypeOK'
    BY <1>2 DEF RegistryInv, TypeOK, DeathPcs, DeathEnter, DeathGoes, objVars, callVars
  <2>2. MakingInv'
    BY <1>2 DEF RegistryInv, TypeOK, MakingInv, Making, DeathEnter, DeathGoes, objVars,
                callVars
  <2>3. EntriesAreReady'
    BY <1>2 DEF RegistryInv, EntriesAreReady, DeathEnter, DeathGoes, objVars, callVars
  <2>4. LinksAreLive'
    BY <1>2 DEF RegistryInv, LinksAreLive, DeathEnter, DeathGoes, objVars, callVars
  <2>5. LinkedInv'
    BY <1>2 DEF RegistryInv, LinkedInv, DeathEnter, DeathGoes, objVars, callVars
  <2>6. DeathInv'
    BY <1>2 DEF RegistryInv, TypeOK, DeathInv, DeathEnter, DeathGoes, objVars, callVars
  <2>7. DeadEntriesHaveAReaper'
    <3> SUFFICES ASSUME NEW o \in callbacks_', owner'[o] \notin alive'
                 PROVE  HasReaper(o)'
      BY DEF DeadEntriesHaveAReaper
    <3>1. /\ o \in callbacks_
         /\ owner[o] \notin alive
         /\ owner' = owner
      BY <1>2 DEF DeathEnter, DeathGoes, objVars, callVars
    <3>2. HasReaper(o)
      BY <3>1 DEF RegistryInv, DeadEntriesHaveAReaper
    <3>3. CASE o \in links
      BY <1>2, <3>1, <3>3 DEF DeathEnter, DeathGoes, objVars, callVars, HasReaper
    <3>4. CASE deathPc[owner[o]] # "none" /\ stage[cookie[owner[o]]] = "ready"
      <4>1. owner[o] \in Clients
        BY <3>1 DEF RegistryInv, TypeOK, EntriesAreReady, LinkedInv
      <4>2. cookie[owner[o]] \in Objs /\ owner[cookie[owner[o]]] = owner[o]
        BY <4>1, <3>4 DEF RegistryInv, DeathInv
      <4>3. deathPc'[owner[o]] # "none" /\ stage'[cookie'[owner[o]]] = "ready"
        BY <1>2, <3>1, <3>4, <4>1, <4>2 DEF DeathEnter, DeathGoes, objVars, RegistryInv, TypeOK
      <4> QED
        BY <3>1, <4>3 DEF HasReaper
    <3>5. CASE \E u \in Threads : who[u] = owner[o] /\ pc[u] \in Probing
      BY <1>2, <3>1, <3>5 DEF DeathEnter, DeathGoes, objVars, callVars, HasReaper, RegistryInv,
                              TypeOK, Probing, Making
    <3> QED
      BY <3>2, <3>3, <3>4, <3>5 DEF HasReaper
  <2> QED
    BY <2>1, <2>2, <2>3, <2>4, <2>5, <2>6, <2>7 DEF RegistryInv
<1> QED
  BY <1>1, <1>2

\* OnCallbackDied erases the entries of the dead client.
LEMMA DeathRemoveStep ==
    ASSUME RegistryInv, NEW c \in Clients, DeathRemove(c)
    PROVE  RegistryInv'
<1>1. CASE Crash
  BY <1>1, CrashStep
<1>2. CASE ~Crash
  <2>1. TypeOK'
    BY <1>2 DEF RegistryInv, TypeOK, Stages, Pcs, DeathPcs, DeathRemove, DeathGoes, RemoveAll,
                EntriesOf, callVars
  <2>2. MakingInv'
    BY <1>2 DEF RegistryInv, TypeOK, MakingInv, Making, DeathRemove, DeathGoes, RemoveAll,
                EntriesOf, callVars
  <2>3. EntriesAreReady'
    BY <1>2 DEF RegistryInv, TypeOK, EntriesAreReady, DeathRemove, DeathGoes, RemoveAll,
                EntriesOf, callVars
  <2>4. LinksAreLive'
    BY <1>2 DEF RegistryInv, TypeOK, LinksAreLive, DeathRemove, DeathGoes, RemoveAll,
                EntriesOf, callVars
  <2>5. LinkedInv'
    BY <1>2 DEF RegistryInv, LinkedInv, DeathRemove, DeathGoes, RemoveAll, EntriesOf, callVars
  <2>6. DeathInv'
    BY <1>2 DEF RegistryInv, TypeOK, DeathInv, DeathRemove, DeathGoes, RemoveAll, EntriesOf,
                callVars
  <2>7. DeadEntriesHaveAReaper'
    <3> SUFFICES ASSUME NEW o \in callbacks_', owner'[o] \notin alive'
                 PROVE  HasReaper(o)'
      BY DEF DeadEntriesHaveAReaper
    <3>1. /\ o \in callbacks_
         /\ owner[o] \notin alive
         /\ owner' = owner
         /\ owner[o] # c
      BY <1>2 DEF DeathRemove, DeathGoes, RemoveAll, EntriesOf, callVars
    <3>2. HasReaper(o)
      BY <3>1 DEF RegistryInv, DeadEntriesHaveAReaper
    <3>3. CASE o \in links
      BY <1>2, <3>1, <3>3 DEF DeathRemove, DeathGoes, RemoveAll, EntriesOf, callVars, HasReaper
    <3>4. CASE deathPc[owner[o]] # "none" /\ stage[cookie[owner[o]]] = "ready"
      <4>1. owner[o] \in Clients
        BY <3>1 DEF RegistryInv, TypeOK, EntriesAreReady, LinkedInv
      <4>2. cookie[owner[o]] \in Objs /\ owner[cookie[owner[o]]] = owner[o]
        BY <4>1, <3>4 DEF RegistryInv, DeathInv
      <4>3. deathPc'[owner[o]] # "none" /\ stage'[cookie'[owner[o]]] = "ready"
        BY <1>2, <3>1, <3>4, <4>1, <4>2 DEF DeathRemove, DeathGoes, RemoveAll, EntriesOf,
                                            RegistryInv, TypeOK
      <4> QED
        BY <3>1, <4>3 DEF HasReaper
    <3>5. CASE \E u \in Threads : who[u] = owner[o] /\ pc[u] \in Probing
      BY <1>2, <3>1, <3>5 DEF DeathRemove, DeathGoes, RemoveAll, EntriesOf, callVars,
                              HasReaper, RegistryInv, TypeOK, Probing, Making
    <3> QED
      BY <3>2, <3>3, <3>4, <3>5 DEF HasReaper
  <2> QED
    BY <2>1, <2>2, <2>3, <2>4, <2>5, <2>6, <2>7 DEF RegistryInv
<1> QED
  BY <1>1, <1>2

\* Every step keeps the inductive invariant.
LEMMA RegistryStep == RegistryInv /\ [Next]_vars => RegistryInv'
<1> SUFFICES ASSUME RegistryInv, [Next]_vars
             PROVE  RegistryInv'
  OBVIOUS
<1>1. ASSUME NEW t \in Threads, Make(t) PROVE RegistryInv'
  <2>1. CASE who[t] \in obitSent
    <3>1. /\ Return(t)
          /\ UNCHANGED <<objVars, deathVars, links, alive, obitSent, up>>
          /\ pc[t] = "regLock"
      BY <1>1, <2>1 DEF Make
    <3>2. DeadEntriesHaveAReaper'
      BY <3>1 DEF RegistryInv, TypeOK, DeadEntriesHaveAReaper, HasReaper, Probing, Making,
                  Return, objVars, deathVars
    <3>3. TypeOK' /\ MakingInv'
      BY <3>1 DEF RegistryInv, TypeOK, MakingInv, Making, Pcs, Return, objVars, deathVars
    <3> QED
      BY <3>1, <3>2, <3>3 DEF RegistryInv, EntriesAreReady, LinksAreLive, LinkedInv, DeathInv,
                              objVars, deathVars
  <2>2. CASE who[t] \notin obitSent
    BY <1>1, <2>2, LinkToDeathStep DEF Make
  <2> QED
    BY <2>1, <2>2
<1>2. ASSUME NEW t \in Threads, ThreadStep(t) PROVE RegistryInv'
  BY <1>1, <1>2, SetServiceStep, SetCallbackStep, EmplaceStep, ProbeStep, UnregisterStep
     DEF ThreadStep
<1>3. ASSUME NEW c \in Clients, DeathStep(c) PROVE RegistryInv'
  BY <1>3, DeliverStep, DeathServiceStep, DeathEnterStep, DeathRemoveStep DEF DeathStep
<1>4. CASE Restart
  BY <1>4 DEF Restart, RegistryInv, TypeOK, MakingInv, EntriesAreReady, LinksAreLive,
              LinkedInv,
              DeathInv, DeadEntriesHaveAReaper, HasReaper, objVars, callVars, deathVars
<1>5. CASE UNCHANGED vars
  BY <1>5 DEF vars, RegistryInv, TypeOK, MakingInv, EntriesAreReady, LinksAreLive, LinkedInv,
              DeathInv, DeadEntriesHaveAReaper, HasReaper, objVars, callVars, deathVars
<1> QED
  BY <1>2, <1>3, <1>4, <1>5, RegisterCallStep, UnregisterCallStep, ClientDiesStep DEF Next

\* The inductive invariant holds throughout.
LEMMA RegistryInvHolds == Spec => []RegistryInv
<1>1. Init => RegistryInv
  BY DEF Init, FreshProcess, RegistryInv, TypeOK, MakingInv, EntriesAreReady, LinksAreLive,
         LinkedInv, DeathInv, DeadEntriesHaveAReaper, Stages, Pcs, DeathPcs, Making
<1> QED
  BY <1>1, RegistryStep, PTL DEF Spec

-----------------------------------------------------------------------------
\* Every variable keeps its type: one holder of the mutex, known objects
\* only in callbacks_ (UdfpsHelper.h:39-40).
THEOREM RegistryTypeCorrect == Spec => []TypeOK
<1>1. RegistryInv => TypeOK
  BY DEF RegistryInv
<1> QED
  BY <1>1, RegistryInvHolds, PTL

\* Whoever walks callbacks_ finds finished objects only: callback() of an
\* entry is neither null nor of a freed object (UdfpsHelper.cpp:115-120).
THEOREM EntriesAlwaysReady == Spec => []EntriesAreReady
<1>1. RegistryInv => EntriesAreReady
  BY DEF RegistryInv
<1> QED
  BY <1>1, RegistryInvHolds, PTL

\* No notification begins with the cookie of a freed object
\* (LinkedCallback.cpp:43-53).
THEOREM LinksAlwaysLive == Spec => []LinksAreLive
<1>1. RegistryInv => LinksAreLive
  BY DEF RegistryInv
<1> QED
  BY <1>1, RegistryInvHolds, PTL

\* An entry of a dead client is always on its way out, whenever the client
\* died (UdfpsHelper.cpp:107-150, LinkedCallback.cpp:29-63).
THEOREM DeadEntriesAlwaysHaveAReaper == Spec => []DeadEntriesHaveAReaper
<1>1. RegistryInv => DeadEntriesHaveAReaper
  BY DEF RegistryInv
<1> QED
  BY <1>1, RegistryInvHolds, PTL

\* A living client loses its entries only to its own unregisterCallback or
\* with the service (UdfpsHelper.cpp:139-144): the comparison of binders and
\* the notification of another client's death leave them alone.
THEOREM LivingClientsAlwaysKept == Spec => LivingClientsAreKept
<1>1. RegistryInv /\ [Next]_vars => [\A c \in alive : Keeps(c)]_vars
  <2> SUFFICES ASSUME RegistryInv, Next, NEW c \in alive
               PROVE  Keeps(c)
    OBVIOUS
  <2>1. ASSUME NEW t \in Threads, Unregister(t) PROVE Keeps(c)
    <3>1. CASE who[t] = c
      BY <2>1, <3>1 DEF Keeps, Unregister, Return, RegistryInv, TypeOK
    <3>2. CASE who[t] # c
      BY <2>1, <3>2 DEF Keeps, Unregister, RemoveAll, EntriesOf
    <3> QED
      BY <3>1, <3>2
  <2>2. ASSUME NEW d \in Clients, DeathRemove(d) PROVE Keeps(c)
    <3>1. d # c
      BY <2>2 DEF DeathRemove, RegistryInv, DeathInv
    <3> QED
      BY <2>2, <3>1 DEF Keeps, DeathRemove, RemoveAll, EntriesOf, Crash
  <2>3. ASSUME Crash PROVE Keeps(c)
    BY <2>3 DEF Keeps, Crash
  <2>4. ASSUME callbacks_ \subseteq callbacks_' PROVE Keeps(c)
    BY <2>4 DEF Keeps, EntriesOf
  <2>5. ASSUME NEW t \in Threads, ThreadStep(t), ~Unregister(t)
        PROVE  callbacks_ \subseteq callbacks_'
    BY <2>5 DEF ThreadStep, Make, LinkToDeath, SetService, SetCallback, Emplace, Probe, objVars
  <2>6. ASSUME NEW d \in Clients, DeathStep(d), ~DeathRemove(d), ~Crash
        PROVE  callbacks_ \subseteq callbacks_'
    BY <2>6 DEF DeathStep, Deliver, DeathService, DeathEnter, objVars
  <2>7. ASSUME \/ \E t \in Threads, d \in Clients : RegisterCall(t, d) \/ UnregisterCall(t, d)
               \/ \E d \in Clients : ClientDies(d)
               \/ Restart
        PROVE  callbacks_ \subseteq callbacks_'
    BY <2>7 DEF RegisterCall, UnregisterCall, ClientDies, Restart, objVars
  <2> QED
    BY <2>1, <2>2, <2>3, <2>4, <2>5, <2>6, <2>7 DEF Next
<1> QED
  BY <1>1, RegistryInvHolds, PTL DEF Spec, LivingClientsAreKept

-----------------------------------------------------------------------------
(* The registry implements Registrations                                   *)

\* Whose death has been reported is dead.
ObitInv == obitSent \cap alive = {}

LEMMA ObitStep == ObitInv /\ [Next]_vars => ObitInv'
  BY DEF ObitInv, Next, RegisterCall, UnregisterCall, ThreadStep, Make, LinkToDeath, SetService,
     SetCallback, Emplace, Probe, Unregister, ClientDies, DeathStep, Deliver, DeathService,
     DeathEnter, DeathRemove, DeathGoes, Crash, Restart, vars, deathVars

LEMMA ObitInvHolds == Spec => []ObitInv
<1>1. Init => ObitInv
  BY DEF Init, ObitInv
<1>. QED  BY <1>1, ObitStep, PTL DEF Spec

LEMMA PhaseValues ==
    /\ Phase("idle") = "idle"
    /\ \A p \in Making \cup {"regLock"} : Phase(p) = "registering"
    /\ Phase("probe") = "registered"
    /\ Phase("unregLock") = "unregistering"
  BY DEF Phase, Making

\* A thread that moves on moves its call alone.
LEMMA PhaseMoves ==
    ASSUME TypeOK, NEW t \in Threads, NEW p, pc' = [pc EXCEPT ![t] = p]
    PROVE  CallPhases' = [CallPhases EXCEPT ![t] = Phase(p)]
  BY DEF CallPhases, TypeOK

\* Within a phase it does not.
LEMMA PhaseStays ==
    ASSUME TypeOK, NEW t \in Threads, NEW p, pc' = [pc EXCEPT ![t] = p],
           Phase(p) = Phase(pc[t])
    PROVE  CallPhases' = CallPhases
  BY DEF CallPhases, TypeOK

LEMMA PhaseOf == \A t \in Threads : CallPhases[t] = Phase(pc[t])
  BY DEF CallPhases

LEMMA SameRegistered ==
    ASSUME callbacks_' = callbacks_, \A o \in callbacks_ : owner'[o] = owner[o]
    PROVE  Registered' = Registered
  BY DEF Registered

\* Erasing the entries of a client in callbacks_ erases them for it.
LEMMA RemovesEntries ==
    ASSUME NEW c, RemoveAll(c)
    PROVE  Registered' = Registered \ Log!EntriesOf(c)
  BY DEF RemoveAll, EntriesOf, Registered, Log!EntriesOf

LEMMA CrashIsAbort ==
    ASSUME RegistryInv, Crash, NEW c \in Clients, c \notin alive
    PROVE  Log!Abort
<1>1. Registered' = {}
  BY DEF Crash, FreshProcess, Registered
<1>2. CallPhases' = [t \in Threads |-> "idle"]
  BY PhaseValues DEF Crash, FreshProcess, CallPhases
<1>. QED  BY <1>1, <1>2 DEF Crash, FreshProcess, Log!Abort

LEMMA CallIsCall ==
    ASSUME RegistryInv, NEW t \in Threads, NEW c \in Clients,
           RegisterCall(t, c) \/ UnregisterCall(t, c)
    PROVE  Log!Next
<1>1. Registered' = Registered
  BY SameRegistered DEF RegisterCall, UnregisterCall, objVars
<1>2. CASE RegisterCall(t, c)
  <2>1. CallPhases' = [CallPhases EXCEPT ![t] = "registering"] /\ CallPhases[t] = "idle"
    <3>1. CallPhases[t] = "idle"
      BY <1>2, PhaseOf, PhaseValues DEF RegisterCall, RegistryInv
    <3>2. TypeOK /\ pc' = [pc EXCEPT ![t] = "regLock"]
      BY <1>2 DEF RegisterCall, RegistryInv
    <3>3. CallPhases' = [CallPhases EXCEPT ![t] = "registering"]
      BY <3>2, PhaseMoves, PhaseValues
    <3>. QED  BY <3>1, <3>3
  <2>2. Log!Call(t, c, "registering")
    BY <1>1, <1>2, <2>1 DEF RegisterCall, Log!Call
  <2>. QED  BY <2>2 DEF Log!Next
<1>3. CASE UnregisterCall(t, c)
  <2>1. CallPhases' = [CallPhases EXCEPT ![t] = "unregistering"] /\ CallPhases[t] = "idle"
    <3>1. CallPhases[t] = "idle"
      BY <1>3, PhaseOf, PhaseValues DEF UnregisterCall, RegistryInv
    <3>2. TypeOK /\ pc' = [pc EXCEPT ![t] = "unregLock"]
      BY <1>3 DEF UnregisterCall, RegistryInv
    <3>3. CallPhases' = [CallPhases EXCEPT ![t] = "unregistering"]
      BY <3>2, PhaseMoves, PhaseValues
    <3>. QED  BY <3>1, <3>3
  <2>2. Log!Call(t, c, "unregistering")
    BY <1>1, <1>3, <2>1 DEF UnregisterCall, Log!Call
  <2>. QED  BY <2>2 DEF Log!Next
<1>. QED  BY <1>2, <1>3

LEMMA MakeIsRefuseOrStutter ==
    ASSUME RegistryInv, ObitInv, NEW t \in Threads, Make(t)
    PROVE  Log!Next \/ UNCHANGED Log!vars
<1>1. CASE who[t] \in obitSent
  <2>1. Return(t) /\ UNCHANGED <<objVars, alive, up>> /\ who[t] \notin alive
    BY <1>1 DEF Make, ObitInv
  <2>2. CallPhases' = [CallPhases EXCEPT ![t] = "idle"] /\ CallPhases[t] = "registering"
    <3>1. CallPhases[t] = "registering"
      BY <2>1, PhaseOf, PhaseValues DEF Make, Return, RegistryInv
    <3>2. TypeOK /\ pc' = [pc EXCEPT ![t] = "idle"]
      BY <2>1 DEF Make, Return, RegistryInv
    <3>3. CallPhases' = [CallPhases EXCEPT ![t] = "idle"]
      BY <3>2, PhaseMoves, PhaseValues
    <3>. QED  BY <3>1, <3>3
  <2>3. Registered' = Registered
    BY <2>1, SameRegistered DEF objVars
  <2>4. Log!Refuse(t)
    BY <2>1, <2>2, <2>3 DEF Return, Log!Refuse, Log!Return
  <2>. QED  BY <2>4 DEF Log!Next
<1>2. CASE who[t] \notin obitSent
  <2>1. PICK o \in Objs : LinkToDeath(t, o)
    BY <1>2 DEF Make
  <2>2. o \notin callbacks_ /\ \A e \in callbacks_ : owner'[e] = owner[e]
    BY <2>1 DEF LinkToDeath, RegistryInv, TypeOK, EntriesAreReady
  <2>3. Registered' = Registered
    BY <2>1, <2>2, SameRegistered DEF LinkToDeath
  <2>4. Phase("service") = Phase(pc[t])
    BY PhaseValues DEF Make, Making
  <2>5. CallPhases' = CallPhases
    BY <2>1, <2>4, PhaseStays DEF LinkToDeath, RegistryInv
  <2>. QED  BY <2>1, <2>3, <2>5 DEF LinkToDeath, Log!vars
<1>. QED  BY <1>1, <1>2

LEMMA FillingStutters ==
    ASSUME RegistryInv, NEW t \in Threads, SetService(t) \/ SetCallback(t)
    PROVE  UNCHANGED Log!vars
<1>1. Registered' = Registered
  BY SameRegistered DEF SetService, SetCallback
<1>2. CallPhases' = CallPhases
  <2>1. Phase("service") = Phase("callback") /\ Phase("callback") = Phase("emplace")
    BY PhaseValues DEF Making
  <2>. QED  BY <2>1, PhaseStays DEF SetService, SetCallback, RegistryInv
<1>. QED  BY <1>1, <1>2 DEF SetService, SetCallback, Log!vars

LEMMA EmplaceIsRegister ==
    ASSUME RegistryInv, NEW t \in Threads, Emplace(t)
    PROVE  Log!Register(t)
<1>. DEFINE o == mine[t]
<1>1. o \in Objs \ callbacks_ /\ owner[o] = who[t]
  BY DEF Emplace, RegistryInv, MakingInv, Making
<1>2. CallPhases' = [CallPhases EXCEPT ![t] = "registered"] /\ CallPhases[t] = "registering"
  <2>1. CallPhases[t] = "registering"
    BY PhaseOf, PhaseValues DEF Emplace, RegistryInv, Making
  <2>2. TypeOK /\ pc' = [pc EXCEPT ![t] = "probe"]
    BY DEF Emplace, RegistryInv
  <2>3. CallPhases' = [CallPhases EXCEPT ![t] = "registered"]
    BY <2>2, PhaseMoves, PhaseValues
  <2>. QED  BY <2>1, <2>3
<1>3. callbacks_' = callbacks_ \cup {o} /\ owner' = owner
  BY DEF Emplace
<1>. HIDE DEF o
<1>4. Registered' = Registered \cup {<<o, who[t]>>}
  BY <1>1, <1>3 DEF Registered
<1>5. \A e \in Registered : e[1] # o
  BY <1>1 DEF Registered
<1>. QED  BY <1>1, <1>2, <1>4, <1>5 DEF Emplace, Log!Register

LEMMA ProbeIsConfirmOrWithdraw ==
    ASSUME RegistryInv, NEW t \in Threads, Probe(t)
    PROVE  Log!Confirm(t) \/ Log!Withdraw(t)
<1>1. Registered' = Registered
  BY SameRegistered DEF Probe, objVars
<1>2. CallPhases[t] = "registered"
  BY PhaseOf, PhaseValues DEF Probe
<1>3. CASE who[t] \in alive
  <2>1. CallPhases' = [CallPhases EXCEPT ![t] = "idle"]
    BY <1>3, PhaseMoves, PhaseValues DEF Probe, Return, RegistryInv
  <2>. QED  BY <1>1, <1>2, <1>3, <2>1 DEF Probe, Return, Log!Confirm, Log!Return
<1>4. CASE who[t] \notin alive
  <2>1. CallPhases' = [CallPhases EXCEPT ![t] = "unregistering"]
    BY <1>4, PhaseMoves, PhaseValues DEF Probe, RegistryInv
  <2>. QED  BY <1>1, <1>2, <1>4, <2>1 DEF Probe, Log!Withdraw
<1>. QED  BY <1>3, <1>4

LEMMA UnregisterIsUnregister ==
    ASSUME RegistryInv, NEW t \in Threads, Unregister(t)
    PROVE  Log!Unregister(t)
<1>1. Registered' = Registered \ Log!EntriesOf(who[t])
  BY RemovesEntries DEF Unregister
<1>2. CallPhases' = [CallPhases EXCEPT ![t] = "idle"] /\ CallPhases[t] = "unregistering"
  <2>1. CallPhases[t] = "unregistering"
    BY PhaseOf, PhaseValues DEF Unregister, Return, RegistryInv
  <2>2. TypeOK /\ pc' = [pc EXCEPT ![t] = "idle"]
    BY DEF Unregister, Return, RegistryInv
  <2>3. CallPhases' = [CallPhases EXCEPT ![t] = "idle"]
    BY <2>2, PhaseMoves, PhaseValues
  <2>. QED  BY <2>1, <2>3
<1>. QED  BY <1>1, <1>2 DEF Unregister, Return, Log!Unregister, Log!Return

\* A notification forgets its client, ends the service, or changes nothing
\* that a client could notice.
LEMMA DeathStepRefines ==
    ASSUME RegistryInv, NEW c \in Clients, DeathStep(c)
    PROVE  Log!Next \/ UNCHANGED Log!vars
<1>1. c \notin alive
  BY DEF DeathStep, Deliver, DeathService, DeathEnter, DeathRemove, RegistryInv, DeathInv
<1>2. CASE Crash
  BY <1>1, <1>2, CrashIsAbort DEF Log!Next
<1>3. ASSUME UNCHANGED <<callVars, alive, up>>, RemoveAll(c)
      PROVE  Log!Next
  <2>1. Registered' = Registered \ Log!EntriesOf(c)
    BY <1>3, RemovesEntries
  <2>2. CallPhases' = CallPhases
    BY <1>3 DEF callVars, CallPhases
  <2>3. Log!Forget(c)
    BY <1>1, <1>3, <2>1, <2>2 DEF callVars, Log!Forget
  <2>. QED  BY <2>3 DEF Log!Next
<1>4. ASSUME UNCHANGED <<objVars, callVars, alive, up>>
      PROVE  UNCHANGED Log!vars
  <2>1. Registered' = Registered /\ CallPhases' = CallPhases
    BY <1>4 DEF objVars, callVars, Registered, CallPhases
  <2>. QED  BY <1>4, <2>1 DEF callVars, Log!vars
<1>5. CASE DeathRemove(c) /\ ~Crash
  BY <1>3, <1>5 DEF DeathRemove, DeathGoes
<1>6. CASE (Deliver(c) \/ DeathService(c) \/ DeathEnter(c)) /\ ~Crash
  BY <1>4, <1>6 DEF Deliver, DeathService, DeathEnter, DeathGoes
<1>. QED  BY <1>2, <1>5, <1>6 DEF DeathStep

LEMMA RegistryStepRefines ==
    ASSUME RegistryInv, ObitInv, [Next]_vars
    PROVE  [Log!Next]_(Log!vars)
<1>1. ASSUME NEW t \in Threads, NEW c \in Clients, RegisterCall(t, c) \/ UnregisterCall(t, c)
      PROVE  Log!Next
  BY <1>1, CallIsCall
<1>2. ASSUME NEW t \in Threads, ThreadStep(t)
      PROVE  Log!Next \/ UNCHANGED Log!vars
  <2>1. CASE Make(t) \/ SetService(t) \/ SetCallback(t)
    BY <2>1, MakeIsRefuseOrStutter, FillingStutters
  <2>2. CASE Emplace(t) \/ Probe(t) \/ Unregister(t)
    BY <2>2, EmplaceIsRegister, ProbeIsConfirmOrWithdraw, UnregisterIsUnregister DEF Log!Next
  <2>. QED  BY <1>2, <2>1, <2>2 DEF ThreadStep
<1>3. ASSUME NEW c \in Clients, ClientDies(c)
      PROVE  Log!Next
  <2>1. Registered' = Registered /\ CallPhases' = CallPhases
    BY <1>3 DEF ClientDies, objVars, callVars, Registered, CallPhases
  <2>2. Log!Die(c)
    BY <1>3, <2>1 DEF ClientDies, callVars, Log!Die
  <2>. QED  BY <2>2 DEF Log!Next
<1>4. CASE Restart
  <2>1. Registered' = Registered /\ CallPhases' = CallPhases
    BY <1>4 DEF Restart, objVars, callVars, Registered, CallPhases
  <2>2. Log!Restart
    BY <1>4, <2>1 DEF Restart, callVars, Log!Restart
  <2>. QED  BY <2>2 DEF Log!Next
<1>5. CASE UNCHANGED vars
  <2>1. Registered' = Registered /\ CallPhases' = CallPhases
    BY <1>5 DEF vars, objVars, callVars, Registered, CallPhases
  <2>. QED  BY <1>5, <2>1 DEF vars, callVars, Log!vars
<1>. QED  BY <1>1, <1>2, <1>3, <1>4, <1>5, DeathStepRefines DEF Next

\* For its clients the registry is one set that calls, deaths and the end of
\* the service change one at a time (UdfpsHelper.cpp:107-150).
THEOREM RegistryImplementsRegistrations == Spec => ImplementsRegistrations
<1>1. Init => Log!Init
  BY PhaseValues DEF Init, FreshProcess, Registered, CallPhases, Log!Init
<1>. QED
  BY <1>1, RegistryStepRefines, RegistryInvHolds, ObitInvHolds, PTL
     DEF Spec, ImplementsRegistrations, Log!Spec
=============================================================================
