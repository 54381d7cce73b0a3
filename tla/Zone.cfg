SPECIFICATION FairSpec
CONSTANTS
    Robots <- MCRobots
    Sites <- EdgeSites
    Explicit <- ShippedZones
    Nobody = Nobody
    Nowhere = Nowhere
INVARIANTS
    TypeOK
    SlotsMatchFloor
    OneRobotPerCell
    LayoutIsPassable
PROPERTIES
    FirstInQueueIsNext
    LineSpec
    Served
