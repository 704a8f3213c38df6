CONSTANTS
    Tasks <- MCTasks
    Fixtures <- MCFixtures
    ClaimTargets = {1}
    Capacity = 3
    MaxManuals = 2
    MaxLoads = 2
SPECIFICATION FairSpec
INVARIANTS TypeOK NoHiddenGate CacheFresh DecisionsAgree
PROPERTIES CommandsSurvive BoardSpec DigitalWorkClears
