SPECIFICATION FloorSpec
CONSTANTS
    Robots = {1, 2, 3}
    Pods = {1, 2, 3}
    Last = 3
    Cells <- Grid
    Adjacent <- Square
    Home <- Shelves
    InDemand <- FewerPods
    Entry <- TopRight
    Exit <- BottomRight
    Capacity = 2
    Inside = inside
    Nothing = nothing
INVARIANTS PlanningTypeOK OneRobotPerCell AuditPasses
PROPERTIES NoSwaps
