SPECIFICATION FreshSpec
CONSTANTS
    Kind = "PERSISTENT"
    Apps <- OneApp
    Children = {note}
    Names = {n1, n2}
    Missing = Missing
    Bootstrappers = {b1, b2}
    MaxTries = 2
    Writers = {w1}
    MaxApplications = 1
    Erasers = {e1}
    Owner = Owner
    MaxItems = 2
    PageSize = 2
    MaxAttempts = 1
    MaxFailures = 0
    Exporters = {x1}
    Operators = {}
INVARIANTS
    ReadyTogether ExportComplete
PROPERTIES
    PreferencesKept
SYMMETRY Interchangeable
