SPECIFICATION Spec
CONSTANTS
    r1 = r1
    r2 = r2
    a = a
    b = b
    Robots <- TwoRobots
    Skus <- TwoSkus
    Orders <- MCOrders
    Pods <- MCPods
    Demands <- FewDemands
    Stock <- MCStock
    Slots <- MCSlots
    Home <- MCHome
    Distance <- MCDistance
    Policies <- GreedyNearest
    Nothing = Nothing
SYMMETRY Symmetry
INVARIANTS
    SlotsNotShared
