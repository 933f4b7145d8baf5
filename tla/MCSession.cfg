SPECIFICATION FairSpec
CONSTANTS
    Builds = {"hosted", "local"}
    Subjects = {ann}
    Offers = {{"demo", "cognito"}}
    Wants = {}
    MaxGen = 5
    MaxNames = 2
    None = None
INVARIANT NoOrphanDemo
PROPERTIES AccessPromise Settles
