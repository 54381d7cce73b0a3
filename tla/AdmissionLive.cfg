SPECIFICATION FairSpec
CONSTANTS
    Robots <- FewRobots
    Capacity = 1
    Modes <- LiveModes
    Visitors = TRUE
    Nobody = Nobody
PROPERTIES
    WaiterServed
    StationKeepsServing
