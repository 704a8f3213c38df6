SPECIFICATION FairSpec
CONSTANTS
    p1 = p1
    p2 = p2
    Procs <- MCProcs
    Events <- MCEvents
    KeyOf <- MCKeyOf
    Valid <- MCValid
    Units <- MCUnits
    AggregateOf <- MCAggregateOf
    VersionOf <- MCVersionOf
    SkewOf <- MCSkewOf
    MaxSkew = 5
    Mcp <- MCMcp
    Reserved = {"c"}
    MaxCalls = 3
INVARIANTS TypeOK KeysUnique VerifyIsTail ViewsAgree PollerMissesNothing OfflineMergeIsSafe
PROPERTIES AtomicSpec LockIsReleased
\* When every call has returned, nobody has to call again.
CHECK_DEADLOCK FALSE
