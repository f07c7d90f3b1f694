SPECIFICATION FairSpec
CONSTANTS
    Sleep = Sleep
    Usb = {}
    Plain = {a, b}
    NoActivity = NoActivity
    Activities <- MCActivities
    SleepActivity = Sleep
    ExclusiveActivities = {}
    MaxCalls = 1
PROPERTIES
    UpdateServed
    RestoredIsRendered
    WaiterWakes
