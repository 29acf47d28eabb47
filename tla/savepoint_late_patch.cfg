SPECIFICATION Spec
CONSTANTS
    root = root
    lib = lib
    app = app
    Workspaces <- AllWorkspaces
    Targets <- Published
    Configs <- AllConfigs
INVARIANT
    DamageIsRecoverable
