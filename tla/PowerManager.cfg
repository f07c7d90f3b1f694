SPECIFICATION FairSpec
CONSTANTS
    Tasks = {main, render, other}
    MainTask = main
INVARIANTS FlagMatchesClock OneLockOwnsTheMode
PROPERTY SlownessIsRepaired
