CONSTANTS
    IsUff = FALSE
    QueueCap <- MCQueueCap
    MaxDeaths <- MCMaxDeaths
SPECIFICATION Spec
INVARIANTS
    TypeOK
    NodesForAReason
    ToldFingerIsLit
    AuthenticationIsNoEnrolment
PROPERTIES
    LeftoverIsCleared
    AbandonedLightGoesOut
