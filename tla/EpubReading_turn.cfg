SPECIFICATION FairSpec
CONSTANTS
    Specs = {S, T}
    None = None
    MaxPages = 3
    Margin = 1
    Ahead = 1
    MaxFaults = 1
    MaxPeeks = 0
INVARIANTS TurnLeavesAtTheEnd
