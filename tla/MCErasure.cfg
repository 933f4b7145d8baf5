SPECIFICATION FairSpec
CONSTANTS
    Kind = "PERSISTENT"
    Apps <- OneApp
    Children = {note}
    Names = {n1}
    Missing = Missing
    Bootstrappers = {b1}
    MaxTries = 1
    Writers = {w1}
    MaxApplications = 1
    Erasers = {e1, e2}
    Owner = Owner
    MaxItems = 2
    PageSize = 2
    MaxAttempts = 2
    MaxFailures = 1
    Exporters = {}
    Operators = {}
INVARIANTS
    InventoryCoversData
    ErasureAnswersTruly
PROPERTIES
    LifecyclePromise
    ErasureCompletes
