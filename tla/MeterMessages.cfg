SPECIFICATION Spec
CONSTANTS
    Point = {1, 2}
    Other = {8}
    CommunityKey = 9
    Quarter = {1, 2, 3}
    MaxDelay = 1
    MaxLag = 1
    Delay <- Delays
    Lag <- Lags
    Wrong <- Wrongs
    Lost <- Losts
    FirstRun = 1
    LastRun = 2
    Midnight <- Midnights
    Used <- Uses
    Made <- Plant
    Estimate <- Estimates
    Swaps <- Exchanges
    Letters = 2
    ValidFrom <- Opening
    YearLength = 2
    Morning = 1
    IntervalsPerDay = {1, 2, 3}
    MaxPoint = 10
    MaxCommunity = 20
    Column = 100
    Earliest = 0
    FutureTolerance = 2
    Null = null
    Malformed = malformed
    Stray <- Strays
INVARIANTS TypeOK SimulatedIsAccepted MeterMatchesRegistry GivenWasMade
