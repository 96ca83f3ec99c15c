SPECIFICATION Spec
CONSTANTS
    qTrue = qTrue
    qWrong = qWrong
    qLost = qLost
    Point = {c1}
    Quarter = {qTrue, qWrong, qLost}
    MaxDelay = 1
    MaxLag = 1
    Delay <- LateAtFirst
    Lag <- TwoCorrected
    Wrong <- OneWrong
    Lost <- OneLost
    PreliminaryWindow = 1
    AllocationWindow = 2
    Patience = 1
    FirstRun = 1
    LastRun = 4
INVARIANTS TypeOK WinnerIsTrue NoFalseAlarm BuiltIsFull
PROPERTIES PreliminaryFixed
