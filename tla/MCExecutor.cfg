SPECIFICATION FairSpec
CONSTANTS
    Tests <- MCTests
    NumRuns = 2
    ResetAmount = 2
    Cycles = {4, 7}
    CutOff = 4
    CaughtSignals = {"SIGILL"}
    OtherSignals = {"SIGBUS"}
    MaxTests = 2
INVARIANTS
    Inv
    RunsOwnCode
    DifferenceIsExact
    OutcomeMatchesRuns
PROPERTIES
    TestReturns
