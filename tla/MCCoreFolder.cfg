SPECIFICATION Spec
CONSTANTS
    NDEBUG = TRUE
    Processes <- EqualDirty
INVARIANTS
    EveryResultHasItsFile
