CONSTANTS
    t1 = t1
    t2 = t2
    c1 = c1
    c2 = c2
    o1 = o1
    o2 = o2
    o3 = o3
    None = None
    Threads <- MCThreads
    Clients <- MCClients
    Objs <- MCObjs
SPECIFICATION Spec
CHECK_DEADLOCK FALSE
INVARIANTS
    TypeOK
    EntriesAreReady
    LinksAreLive
    DeadEntriesHaveAReaper
PROPERTIES
    ImplementsRegistrations
    DeadClientsAreForgotten
