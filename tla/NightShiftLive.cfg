SPECIFICATION FairSpec
CONSTANTS
    r1 = r1
    r2 = r2
    Run = {r1, r2}
    Page = 2
    AgentCap = 1
    DayLength = 3
    LookBack = 3
    MaxTime = 2
    MaxCount = 0
    Never = never
PROPERTIES FailuresAreHandled
