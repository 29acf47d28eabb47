SPECIFICATION FairSpec
CONSTANTS
    r1 = r1
    r2 = r2
    Packages <- FourPackages
    Private = {"docs"}
    Dependencies <- Chain
    GroupOf <- LibWithCli
    MinimumStrategy = "none"
    Runners = {r1}
    Configs <- SerialConfigs
    FreshClone = TRUE
    DevCommits <- EveryLevel
    FirstVersion <- One
    ManifestVersion <- Zero
    InitiallyTagged = TRUE
    ReadDeniable = FALSE
    MaxDevCommits = 2
    MaxFaults = 1
    MaxRuns = 5
CHECK_DEADLOCK FALSE
INVARIANTS
    TypeOK
    TaggedCommitsAreShipped
    SuccessIsComplete
    ReleasesHaveACause
    VersionsAreNew
PROPERTIES
    EveryChangeShips
    DryRunIsPure
    LatestNeverRegresses
