SPECIFICATION RoundsSpec
CONSTANTS
    Rounds = {1, 2}
    Hours = {1}
    Labels = {"old"}
    Schedulers = {c1, c2}
    LastRound = 2
    LastLabel = 1
    Lagging = FALSE
INVARIANT ContextExact
CHECK_DEADLOCK FALSE
