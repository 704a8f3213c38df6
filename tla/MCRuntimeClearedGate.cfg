CONSTANTS
    Tasks <- MCTasks
    Fixtures <- MCFixtures
    ClaimTargets = {1, 2, 3}
    Capacity = 3
    MaxManuals = 1
    MaxLoads = 1
SPECIFICATION Spec
INVARIANTS ClearedOnlyByDecision
