SPECIFICATION SimulationSpec
CONSTANTS
    Parameter = {T2M, GL}
    Temperature = T2M
    Radiation = GL
    Hour <- FourDays
    HoursPerDay = 2
    Value = {0, 1, 2, 3}
    Source <- RevisedTemperatures
    MayLack <- FewHours
    Window = 2
    MaxWindow = 1
    Morning = 1
    FirstRun = 4
    LastRun = 4
    MaxStored = 3
    Missing = missing
    Scale = 2
    HeatingLimit = 3
    HeatingBounds <- Bounds
    Memory = 1
    LookBackDays = 1
    RunDay = {4}
    Never = never
INVARIANTS FrozenShows LatestIsLastSaid ReadyIsFrozen ReplayIsPossible
PROPERTIES FrozenAnswerFixed FrozenReachReplays
CHECK_DEADLOCK FALSE
