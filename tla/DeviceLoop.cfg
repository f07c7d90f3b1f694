SPECIFICATION FairSpec
INVARIANTS OnlyFreshHoldsSleep OtherReleasesAreQuiet
PROPERTIES OneShotPerHold LeftAloneItSleeps
