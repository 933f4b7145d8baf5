SPECIFICATION MCSpec
CONSTANTS
    Nothing = Nothing
    Closed = Closed
    None = None
    Fields = {"zone", "theme"}
    Values = {0, 1}
    Savers = {"form", "header", "automatic", "editor", "planner"}
    Forms = {"schedule", "note", "status", "move", "details"}
    Own = "zone"
    Planned = "theme"
    Start = 0
    Detected = 1
    MaxVersion = 3
    MaxUnderWay = 2
    Rounds = {"next", "last"}
    Past = {"last"}
    Texts = {0, 1}
    LastVersion = 3
    MaxCalls = 1
    Jobs = {"engineer", "designer"}
    Partial = "address"
    MaxAdds = 2
    CanReset = TRUE
INVARIANTS OnlyOwnEdits SavesKnownItems AdviceIsForEntered ScrollFollows
PROPERTIES ChosenZoneKept EnteredKept
CHECK_DEADLOCK FALSE
