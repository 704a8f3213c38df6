CONSTANTS
    Tasks <- MCTasks
    Fixtures <- MCFixtures
    ClaimTargets = {}
    Capacity = 3
    MaxManuals = 1
    MaxLoads = 2
SPECIFICATION Spec
INVARIANTS SurfacedGateIsPending
