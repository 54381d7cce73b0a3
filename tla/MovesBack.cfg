SPECIFICATION Spec
CONSTANTS
    Robots <- TwoRobots
    Sites <- NoSites
    Explicit <- LeftZone
    Nobody = Nobody
    Nowhere = Nowhere
PROPERTIES
    NeverMovesBackward
