SPECIFICATION Spec
CONSTANTS
    r1 = r1
    r2 = r2
    Run = {r1, r2}
    Page = 1
    AgentCap = 1
    DayLength = 3
    LookBack = 3
    MaxTime = 3
    MaxCount = 2
    Never = never
INVARIANTS TypeOK NoRepeatedMail OneRunAtRisk
PROPERTIES NothingSkipped RecordedClearIsFinal
SYMMETRY Symmetry
