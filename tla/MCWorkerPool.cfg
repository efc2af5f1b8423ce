SPECIFICATION FairSpec
CONSTANTS
    Workers = {w1, w2}
    Nodes <- MCNodes
    Kinds = {"assembles", "rejected", "crashes", "delimiter"}
    Generators <- MCGenerators
    PipeCapacity = 1
INVARIANTS
    TypeOK
    InOnePlace
    FileMatches
PROPERTIES
    MainEnds
    StopsUnlessFull
CHECK_DEADLOCK FALSE
