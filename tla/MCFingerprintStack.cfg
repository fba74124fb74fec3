CONSTANTS
    IsUff = FALSE
    Run = Run
    NoThread = NoThread
    Binder = Binder
    Inputs <- MCInputs
    QueueCap <- MCQueueCap
    MaxDeaths <- MCMaxDeaths
    MaxCrashes <- MCMaxCrashes
    ForceAfter <- MCForceAfter
    MaxHeld <- MCMaxHeld
SPECIFICATION Spec
INVARIANTS
    TypeOK
    ResultsComeAfterTouchUp
PROPERTIES
    ImplementsHal
    HandleComesBack
    PressEnds
