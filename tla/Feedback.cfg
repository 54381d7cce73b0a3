SPECIFICATION DrainingSpec

CONSTANTS
    Robots <- Two
    Capacity = 1
    Modes <- TokenContracts
    Visitors = TRUE
    Nobody = Nobody
    Profiles = {"v2", "v3"}
    Caution <- CautionLimits
    Brake <- BrakeLimits
    Early <- EarlyLimits
    LockedExit = 4
    Recovery <- RecoveryNeeds
    Grace = 1

INVARIANT FeedbackTypeOK
PROPERTY AlarmsAreReal BrakeLifts
