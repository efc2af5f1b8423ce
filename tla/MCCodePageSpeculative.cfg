SPECIFICATION Spec
CONSTANTS
    PageSize = 512
    Shapes <- SpeculativeShapes
INVARIANTS
    TransientPageRuns
