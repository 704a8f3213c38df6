SPECIFICATION FairSpec
CONSTANTS
    a = a
    b = b
    p = p
    q = q
    Missing = Missing
    Torn = Torn
    Hosts <- MCHosts
    Procs <- MCProcs
    Home <- OnePerHost
    MinEntries = 1
    WindowLen = 1
    Threshold = 1
    HistoryMax = 1
    Leaves <- MCLeaves
    MaxTime = 3
    MaxDeaths = 1
INVARIANTS TypeOK DocumentsWellFormed NeverTorn
PROPERTIES NoWriteIsLost Converges
CHECK_DEADLOCK FALSE
