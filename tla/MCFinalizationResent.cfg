SPECIFICATION FinalizationSpec
CONSTANTS
    Calls = {r1, r2}
    Reviewers = {o1}
    MaxResends = 1
INVARIANT PendingMeansSettled
SYMMETRY Interchangeable
