SPECIFICATION Spec
CONSTANTS
    Sleep = Sleep
    Usb = {}
    Plain = {a, b}
    NoActivity = NoActivity
    Activities <- MCActivities
    SleepActivity = Sleep
    ExclusiveActivities = {}
    MaxCalls = 2
INVARIANT
    WaitEndsAfterOwnRender
