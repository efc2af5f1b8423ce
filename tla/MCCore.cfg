SPECIFICATION Spec
CONSTANTS
    NDEBUG = TRUE
    Processes <- MCProcesses
INVARIANTS
    TypeOK
    CsvHoldsTheHits
    FolderHoldsTheHits
    FormattedKeepsEveryFile
    CleanedHoldsSurvivors
    JobAsAsked
