SPECIFICATION Spec
CONSTANTS
    Robots <- MCRobots
    Capacity = 3
    Modes <- AllModes
    Visitors = TRUE
    Nobody = Nobody
INVARIANTS
    TypeOK
    CommittedWithinCapacity
    TokensMatchStages
    WaitersMatchStages
    SlotsMatchStages
    ArrivalFindsRoom
PROPERTIES
    GrantsFollowTheQueue
    ContractSpec
