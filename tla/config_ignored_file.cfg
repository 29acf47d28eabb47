SPECIFICATION Spec
CONSTANTS
    Options <- Forwarded
    Presets <- AllPresets
CHECK_DEADLOCK FALSE
INVARIANTS
    NearestSourceWins
