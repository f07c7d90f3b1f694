SPECIFICATION FairSpec
CONSTANTS
    Specs = {S, T}
    None = None
    MaxPages = 3
    Margin = 1
    Ahead = 1
    MaxFaults = 2
    MaxPeeks = 1
INVARIANTS TypeOK CommittedIsWhole HtmlIsWhole PagesCanBeRead
PROPERTIES NeverFewerPages EventuallyShown
