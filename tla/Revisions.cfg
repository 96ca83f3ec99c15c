SPECIFICATION Spec
CONSTANTS
    MaxPoints = 4
    MaxMembers = 2
    Unreadable = unreadable
    Refused = refused
    None = none
    Feed = {"imbalance", "load", "day_ahead", "profile"}
    Day = {1, 2, 4}
    RichDays = {2, 4}
    DayLength = 2
    ProfileYear = 2
    Value = {1, 2}
    Body <- Bodies
    Window = 2
    Retries = 1
    FinalAfter = 2
    FirstRun = 3
    LastRun = 4
    MaxRows = 2
INVARIANTS ReadAsStated WinnerIsLastSaid EveryDayAccountedFor SuccessSeesFinal
CHECK_DEADLOCK FALSE
