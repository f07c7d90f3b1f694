SPECIFICATION SessionSpec
CONSTANTS
    Ssids = {home, work, cafe}
    Open = {cafe}
    MaxNetworks = 2
    NoSsid = NoSsid
    LastPosition = 2
INVARIANTS SessionTypeOK ReportsItsNetwork ListMatchesStore NoPositionIsLost
PROPERTIES AutoConnectEnds SmartNeverRegresses
