SPECIFICATION EditingSpec
CONSTANTS
    Forms = {"details", "note"}
    Own = "own"
    Planned = "other"
    Fields = {"own", "other"}
    Values = {0, 1}
    Savers = {"editor", "planner"}
    Start = 0
    MaxVersion = 3
    MaxUnderWay = 2
    Nothing = Nothing
INVARIANT StaleWritesConflict
CHECK_DEADLOCK FALSE
