SPECIFICATION Spec
CONSTANTS
    r1 = r1
    r2 = r2
    Packages <- TwoPackages
    Private = {}
    Dependencies <- AppOnLib
    GroupOf <- Independent
    MinimumStrategy = "patch"
    Runners = {r1, r2}
    Configs <- ConcurrentConfigs
    FreshClone = TRUE
    DevCommits <- LibAndApp
    FirstVersion <- One
    ManifestVersion <- Zero
    InitiallyTagged = TRUE
    ReadDeniable = TRUE
    MaxDevCommits = 2
    MaxFaults = 1
    MaxRuns = 1
CHECK_DEADLOCK FALSE
INVARIANTS
    PushedTagsAreReleased
    PushedTagsOnMain
    SuccessLeavesNothingDue
PROPERTY
    ImplementsRelease
