SPECIFICATION MCSpec
CONSTANTS
    Seekers = {r1, r2}
    Keys = {k1, k2}
    Parts = 1
    Ttl = 1
    Retention = 0
    DayLength = 2
    Budgets <- FewBudgets
    MaxTime = 1
    MaxVersion = 2
    MaxLate = 1
    Nobody = Nobody
    Calls = {r1, r2}
    Reviewers = {o1}
    MaxResends = 2
    Missing = Missing
    Tracked = {k1, k2}
    Editors = {r1, r2}
    LastVersion = 4
    Rounds = {1, 2}
    Hours = {1}
    Labels = {"old", "new"}
    Schedulers = {r1, r2}
    LastRound = 2
    LastLabel = 3
    Lagging = FALSE
INVARIANTS
    CompleteMeansAbsent
    ErasedFirst
    FinalizedForEver
    SettledUnlessResent
    OneDemoPerKey
    DemoAnswersTrue
    CountersExact
PROPERTIES
    WithinBudget
    NeverRepeated
    LabelsKept
SYMMETRY Interchangeable
CHECK_DEADLOCK FALSE
