SPECIFICATION Spec
CONSTANTS
    Packages <- ThreePackages
    Private = {}
    Dependencies <- AppOnLib
    GroupOf <- LibWithCli
    MinimumStrategy = "none"
    FirstVersions <- Registries
    Tagged = TRUE
    CommitKinds <- AnyLevel
    MaxCommits = 3
    MaxRuns = 4
    MaxFaults = 1
CHECK_DEADLOCK FALSE
INVARIANTS
    PreviewAnnouncesStable
    PreviewsAreNew
    ReleasesAreNew
