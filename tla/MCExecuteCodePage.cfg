SPECIFICATION FairSpec
CONSTANTS
    Cycles = {0, 7}
    OtherSignals = {"SIGBUS"}
    MaxFaults = 2
INVARIANTS
    Inv
    KilledOnlyByUncaught
    DebugFaultsStayVisible
PROPERTIES
    CallReturns
    Refinement
