SPECIFICATION DynamicSpec
CONSTANTS
    Robots <- MCRobots
    Capacity = 1
    Modes <- NoModes
    Visitors = FALSE
    Nobody = Nobody
    Near = 1
    Mid = 2
    Far = 3
    Service = 1
    HardLimit = 3
    WeightLimit <- MCWeightLimit
    BlockStreak <- MCBlockStreak
    Drought <- MCDrought
INVARIANTS
    DynamicTypeOK
    HardLimitHolds
    LedgersAgree
PROPERTIES
    DispatchOrderKept
    PassesOnlyTheRefused
