SPECIFICATION Spec
CONSTANTS
    SourceLists <- MCSourceLists
    Lists <- MCLists
    Tail16 <- MCTail16
    Arguments <- MCArguments
    Sleeps = {"busy-sleep"}
    Differences = {60}
    MaxHits = 2
    MaxInvocations = 2
INVARIANTS
    TypeOK
    TestedAsNamed
    ConfirmedTwice
    ReportsOneSearch
    ConfirmKeepsEveryLine
