CONSTANTS
    owner = owner
    guest = guest
    Users <- MCUsers
    Levels <- MCLevels
    MaxFaults <- MCMaxFaults
SPECIFICATION Spec
INVARIANTS
    TypeOK
    NodeFollowsSaved
    ShownIsApplied
PROPERTIES
    BroadcastRestores
