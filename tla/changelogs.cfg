SPECIFICATION Spec
CONSTANTS
    r1 = r1
    r2 = r2
    Packages <- TwoPackages
    Root = "root"
    TagOf <- OneTagEach
    Runners = {r1, r2}
    Configs <- MCConfigs
    Changesets <- LibWithApp
    Existing <- AllFiles
    Unmarked = {}
    FreshClone = FALSE
    Overlap = TRUE
    MaxRuns = 3
    MaxFaults = 1
CHECK_DEADLOCK FALSE
INVARIANTS
    EntriesSurvive
    EntriesAreOfReleases
    SuccessIsLogged
    AnnouncedIsAvailable
