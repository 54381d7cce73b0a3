SPECIFICATION FairSerialSpec
CONSTANTS
    r1 = r1
    r2 = r2
    a = a
    b = b
    Fleet <- TwoRobots
    MaxList = 3
    Robots <- Errands
    Skus <- TwoSkus
    Orders <- MCOrders
    Pods <- MCPods
    Demands <- MCDemands
    Stock <- MCStock
    Slots <- MCSlots
    Home <- MCHome
    Distance <- MCDistance
    Policies <- MCPolicies
    Nothing = Nothing
INVARIANTS
    AllOrNothing
    SlotsNotShared
PROPERTIES
    ServedUnlessSoldOut
