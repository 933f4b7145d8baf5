SPECIFICATION Spec
CONSTANTS
    Kind = "LOCAL"
    Apps <- OneApp
    Children = {}
    Names = {n1}
    Missing = Missing
    Bootstrappers = {b1}
    MaxTries = 1
    Writers = {w1}
    MaxApplications = 1
    Erasers = {e1}
    Owner = Owner
    MaxItems = 2
    PageSize = 2
    MaxAttempts = 1
    MaxFailures = 0
    Exporters = {}
    Operators = {f1}
PROPERTIES
    ManifestKept
SYMMETRY Interchangeable
