SPECIFICATION FairSpec
CONSTANTS
    Percents = {0, 1}
    HasGauge = FALSE
    ConfirmReadings = 4
INVARIANT LockoutNeedsZeroSample
PROPERTY EmptyBatteryLocks
