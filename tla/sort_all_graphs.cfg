SPECIFICATION EitherSpec
CONSTANTS
    root = root
    core = core
    util = util
    app = app
    Workspaces <- ThreeWorkspaces
    Manifests <- AllGraphs
    Idents <- WorkspaceNames
    TopLevel = root
    NeedsOfAll <- AllNeeds
INVARIANTS
    TypeOK
    SortIsTopological
    CyclesAreReported
    GroupsAreTight
    DependentsAreExact
PROPERTIES
    Terminates
    DependentsEnd
