SPECIFICATION MCSpec
CONSTANTS
    Requests = {q1, q2}
    Subjects = {ann}
    MaxGen = 5
    MaxTokens = 2
    None = None
    NoDate = NoDate
    Absent = Absent
INVARIANTS ScopeFenced LateRefusalHarmless PresentedOnce
PROPERTIES EveryRequestSettles DeskResolves ListSettles
CHECK_DEADLOCK FALSE
