CONSTANTS
    b1 = b1
    b2 = b2
    watchdog = watchdog
    NoThread = NoThread
    Run = watchdog
    Callers <- MCCallers
    ForceAfter <- MCForceAfter
    MaxHeld <- MCMaxHeld
SPECIFICATION Spec
INVARIANTS
    TypeOK
    StuckOnlyByRace
    ForcedPressWasHeld
PROPERTIES
    LiftedOrMissed
    NextCallLifts
