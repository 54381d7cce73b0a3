SPECIFICATION Spec
CONSTANTS
    r1 = r1
    r2 = r2
    a = a
    b = b
    Robots <- TwoRobots
    Skus <- TwoSkus
    Orders <- MCOrders
    Pods <- MCPods
    Demands <- MCDemands
    Stock <- MCStock
    Slots <- MCSlots
    Home <- MCHome
    Distance <- MCDistance
    Policies <- GreedyHome
    Nothing = Nothing
SYMMETRY Symmetry
INVARIANTS
    TakesOnlyWhatIsDemanded
