SPECIFICATION MCSpec
CONSTANTS
    Tabs = {t1, t2}
    MaxInstances = 3
    MaxEpoch = 2
    MaxRotation = 1
    Nobody = Nobody
    Builds = {"hosted"}
    Subjects = {ann, ben}
    Offers = {{"cognito", "signup", "manage"}}
    Wants = {"export", "delete"}
    MaxGen = 5
    MaxNames = 3
    None = None
SYMMETRY TabSymmetry
INVARIANTS HeldIsShown SensitiveOnce DeletionNoticed OneTabPerFamily LogoutReachesAll ReloadFindsNewest
