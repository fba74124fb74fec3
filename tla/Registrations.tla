---------------------------- MODULE Registrations ----------------------------
(***************************************************************************)
(* What syshelper's registry promises its clients.  A call takes effect at *)
(* one instant between its beginning and its return: a registration adds   *)
(* one entry of its caller, or none when the caller is dead, and the end   *)
(* of one removes all entries of that client and no other.  A living       *)
(* client loses an entry only to its own call, or with the service, and    *)
(* the service ends only after a client died.                              *)
(***************************************************************************)
CONSTANTS Threads, Clients, Tokens, None

VARIABLES
    registered,  \* the entries: a token and the client it belongs to
    phase,       \* of each thread's call: before or after it took effect
    who,         \* its client
    alive,       \* the living clients
    up           \* the service runs

vars == <<registered, phase, who, alive, up>>

Phases == {"idle", "registering", "registered", "unregistering"}

TypeOK ==
    /\ registered \subseteq Tokens \X Clients
    /\ phase \in [Threads -> Phases]
    /\ who \in [Threads -> Clients \cup {None}]
    /\ alive \subseteq Clients
    /\ up \in BOOLEAN

Init ==
    /\ registered = {}
    /\ phase = [t \in Threads |-> "idle"]
    /\ who = [t \in Threads |-> None]
    /\ alive = Clients
    /\ up = TRUE

EntriesOf(c) == {e \in registered : e[2] = c}

Call(t, c, op) ==
    /\ up /\ c \in alive
    /\ phase[t] = "idle"
    /\ phase' = [phase EXCEPT ![t] = op]
    /\ who' = [who EXCEPT ![t] = c]
    /\ UNCHANGED <<registered, alive, up>>

Return(t) ==
    /\ phase' = [phase EXCEPT ![t] = "idle"]
    /\ who' = [who EXCEPT ![t] = None]
    /\ UNCHANGED <<alive, up>>

Register(t) ==
    /\ phase[t] = "registering"
    /\ phase' = [phase EXCEPT ![t] = "registered"]
    /\ \E o \in Tokens : /\ \A e \in registered : e[1] # o
                         /\ registered' = registered \cup {<<o, who[t]>>}
    /\ UNCHANGED <<who, alive, up>>

\* Only a dead client is refused.
Refuse(t) ==
    /\ phase[t] = "registering" /\ who[t] \notin alive
    /\ Return(t)
    /\ UNCHANGED registered

Confirm(t) ==
    /\ phase[t] = "registered" /\ who[t] \in alive
    /\ Return(t)
    /\ UNCHANGED registered

\* A client that died while it registered is unregistered.
Withdraw(t) ==
    /\ phase[t] = "registered" /\ who[t] \notin alive
    /\ phase' = [phase EXCEPT ![t] = "unregistering"]
    /\ UNCHANGED <<registered, who, alive, up>>

Unregister(t) ==
    /\ phase[t] = "unregistering"
    /\ registered' = registered \ EntriesOf(who[t])
    /\ Return(t)

Die(c) ==
    /\ c \in alive
    /\ alive' = alive \ {c}
    /\ UNCHANGED <<registered, phase, who, up>>

\* The service forgets a dead client.
Forget(c) ==
    /\ c \notin alive
    /\ registered' = registered \ EntriesOf(c)
    /\ UNCHANGED <<phase, who, alive, up>>

Abort ==
    /\ \E c \in Clients : c \notin alive
    /\ registered' = {}
    /\ phase' = [t \in Threads |-> "idle"]
    /\ who' = [t \in Threads |-> None]
    /\ up' = FALSE
    /\ UNCHANGED alive

Restart == ~up /\ up' = TRUE /\ UNCHANGED <<registered, phase, who, alive>>

Next ==
    \/ \E t \in Threads, c \in Clients, op \in {"registering", "unregistering"} : Call(t, c, op)
    \/ \E t \in Threads : Register(t) \/ Refuse(t) \/ Confirm(t) \/ Withdraw(t) \/ Unregister(t)
    \/ \E c \in Clients : Die(c) \/ Forget(c)
    \/ Abort
    \/ Restart

Spec == Init /\ [][Next]_vars
=============================================================================
