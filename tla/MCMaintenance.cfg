SPECIFICATION MCSpec
CONSTANTS
    Kind = "LOCAL"
    Apps <- TwoApps
    Children = {}
    Names = {n1}
    Missing = Missing
    Bootstrappers = {b1}
    MaxTries = 1
    Writers = {w1}
    MaxApplications = 2
    Erasers = {e1}
    Owner = Owner
    MaxItems = 2
    PageSize = 2
    MaxAttempts = 1
    MaxFailures = 0
    Exporters = {}
    Operators = {f1, f2}
    Tracked = {k1, k2}
    Editors = {}
    LastVersion = 2
    Rounds = {1, 2}
    Hours = {1, 2}
    Labels = {"old"}
    Schedulers = {}
    LastRound = 2
    LastLabel = 1
    Lagging = FALSE
INVARIANTS
    ManifestExact
    RepairsAll
SYMMETRY Interchangeable
