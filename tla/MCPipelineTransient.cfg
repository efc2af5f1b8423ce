SPECIFICATION Spec
CONSTANTS
    SourceLists <- MCSourceLists
    Lists <- MCLists
    Tail16 <- MCTail16
    Arguments <- MCArguments
    Sleeps = {"busy-sleep"}
    Differences = {60}
    MaxHits = 1
    MaxInvocations = 1
INVARIANT
    TriggerArchitectural
