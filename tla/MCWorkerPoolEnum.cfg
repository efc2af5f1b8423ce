SPECIFICATION Spec
CONSTANTS
    Workers = {w1, w2}
    Nodes <- MCNodesShift
    Kinds = {"assembles", "rejected", "crashes", "delimiter"}
    Generators <- MCGenerators
    PipeCapacity = 1
INVARIANT
    EveryEnumValue
CHECK_DEADLOCK FALSE
