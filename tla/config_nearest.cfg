SPECIFICATION Spec
CONSTANTS
    Options <- Forwarded
    Presets <- Resolvable
CHECK_DEADLOCK FALSE
INVARIANTS
    NearestSourceWins
