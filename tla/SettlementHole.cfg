SPECIFICATION Spec
CONSTANTS
    qTrue = qTrue
    qWrong = qWrong
    qLost = qLost
    Point = {c1}
    Quarter = {qTrue, qWrong, qLost}
    MaxDelay = 1
    MaxLag = 1
    Delay <- LateAtFirst
    Lag <- TwoCorrected
    Wrong <- OneWrong
    Lost <- OneLost
    PreliminaryWindow = 1
    AllocationWindow = 3
    Patience = 2
    FirstRun = 1
    LastRun = 4
INVARIANTS NoSilentHole
