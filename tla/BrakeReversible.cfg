SPECIFICATION FairFeedbackSpec

CONSTANTS
    Robots <- Two
    Capacity = 1
    Modes <- CommittedOnly
    Visitors = FALSE
    Nobody = Nobody
    Profiles = {"v1"}
    Caution <- CautionLimits
    Brake <- BrakeLimits
    Early <- EarlyLimits
    LockedExit = 4
    Recovery <- RecoveryNeeds
    Grace = 1

PROPERTY BrakeIsReversible
