SPECIFICATION FairSpec
CONSTANTS
    op = op
    cron = cron
    Missing = Missing
    Torn = Torn
    Tasks <- MCTasks
    Procs <- MCProcs
    Calls <- MCCalls
    Fixtures <- MCFixtures
    ClaimTargets <- MCClaimTargets
    AuthKinds <- MCAuthKinds
    Finance <- MCFinance
    OldStores <- MCOldStores
    MaxCalls = 3
    MaxDeaths = 1
INVARIANTS TypeOK StoredPairAgrees ApprovedFlowRan
PROPERTIES DecidedStays PulseSettles
