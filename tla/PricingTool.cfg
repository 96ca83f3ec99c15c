SPECIFICATION FairSpec
CONSTANTS
    Requests = 3
    Analyst = analyst
    Outsider = outsider
    Ask <- Asks
    RoleOf <- Roles
    Roleless = roleless
    PerHour <- Ceilings
    HourLength = 2
    DayLength = 2
    LastMoment = 2
    MaxResets = 1
    Free = free
    None = none
INVARIANTS TypeOK RollingCeiling FiguresOfTheDay ComputedOnce NoRowNoAnswer RefusedLeavesNoSession
PROPERTY EveryRequestAnswered
CHECK_DEADLOCK FALSE
