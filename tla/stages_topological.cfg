SPECIFICATION Spec
CONSTANTS
    core = core
    util = util
    lib = lib
    app = app
    Workspaces <- FourWorkspaces
    Dependencies <- AppOnCoreAndUtil
    Topological = TRUE
    Level <- FourLevels
    Depth = 2
    Jobs = 2
    MaxConcurrentWrites = 0
    DryRun = FALSE
    Scripts <- BuildScripts
    Unregistered <- UtilUnregistered
INVARIANTS
    TypeOK
    UploadsFollowEveryPreScript
    NoRunaway
    NoDanglingDependency
    ResolvedMeansEverything
    CleanupMissedOnlyBehindFailure
PROPERTIES
    ImplementsContract
    Settles
