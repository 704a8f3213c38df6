CONSTANTS
    p1 = p1
    p2 = p2
    Procs <- MCProcs
    Events <- MCEvents
    KeyOf <- MCKeyOf
    Valid <- MCValid
    Units <- MCUnits
    AggregateOf <- MCAggregateOf
    VersionOf <- MCVersionOf
    SkewOf <- MCSkewOf
    MaxSkew = 5
    Mcp <- MCMcp
    Reserved = {"c"}
    MaxCalls = 2
SPECIFICATION Spec
PROPERTIES AbortMeansAbsent
CHECK_DEADLOCK FALSE
