SPECIFICATION Spec
CONSTANTS
    a = a
    b = b
    p = p
    q = q
    Missing = Missing
    Torn = Torn
    Hosts <- MCHosts
    Procs <- MCProcs
    Home <- Together
    MinEntries = 1
    WindowLen = 1
    Threshold = 1
    HistoryMax = 1
    Leaves <- MCLeaves
    MaxTime = 2
    MaxDeaths = 0
PROPERTIES NoWriteIsLost
CHECK_DEADLOCK FALSE
