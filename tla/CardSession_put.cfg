SPECIFICATION Spec
CONSTANTS
    Finished1 = r
    Paths = {a, r}
    Books = {x, y}
    MaxRecent = 2
    MaxFaults = 1
    Nothing = Nothing
    Torn = Torn
    ReadFolder <- Read
    Clients = {c1}
    NoClient = NoClient
PROPERTIES
    FailedPutKeepsTheBook
