SPECIFICATION Spec
CONSTANTS
    Sleep = Sleep
    Usb = {u}
    Plain = {a, b}
    NoActivity = NoActivity
    Activities <- MCActivities
    SleepActivity = Sleep
    ExclusiveActivities = {u}
    MaxCalls = 2
SYMMETRY ScreenSymmetry
INVARIANTS
    TypeOK
    PendingIsExecutable
    HandlerGetsItsResult
    WaitSlotFree
PROPERTIES
    RenderedActivityStays ExclusiveKeepsControl
    ImplementsNavigation
