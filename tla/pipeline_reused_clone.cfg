SPECIFICATION Spec
CONSTANTS
    r1 = r1
    r2 = r2
    Packages <- TwoPackages
    Private = {}
    Dependencies <- AppOnLib
    GroupOf <- Independent
    MinimumStrategy = "none"
    Runners = {r1}
    Configs <- TagsOnlyConfigs
    FreshClone = FALSE
    DevCommits <- LibAndApp
    FirstVersion <- One
    ManifestVersion <- Zero
    InitiallyTagged = TRUE
    ReadDeniable = FALSE
    MaxDevCommits = 2
    MaxFaults = 1
    MaxRuns = 3
CHECK_DEADLOCK FALSE
INVARIANT
    PushedTagsAreReleased
