SPECIFICATION Spec
CONSTANTS
    dc = dc
    web = web
    u1 = u1
    u2 = u2
    d1 = d1
    Machine <- Pair
    DependsOn <- PairDeps
    After <- PairAfter
    Steps <- PairSteps
    FirstBoot = {dc}
    Up = {u1, u2}
    Down = {d1}
    Mishaps = {"start", "script", "timeout", "step", "stop"}
    MaxCrashes = 1
SYMMETRY Ups
INVARIANTS
    StartOrder
    ProvisionOrder
    UpComplete
    
    OneFirstBoot
    DownOrder
