CONSTANTS
    t1 = t1
    t2 = t2
    t3 = t3
    None = None
    Threads <- MCThreads
    MaxDeaths <- MCMaxDeaths
SPECIFICATION Spec
INVARIANTS
    TypeOK
    HalfMadeOnlyInside
    OneBindPerProcess
    LinkedUnlessLate
PROPERTIES
    Reconnects
