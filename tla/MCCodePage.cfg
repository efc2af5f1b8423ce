SPECIFICATION Spec
CONSTANTS
    PageSize = 512
    Shapes <- MCShapes
INVARIANTS
    TypeOK
    GuardRetIntact
    ReturnsRestored
    ReturnsElapsedTime
PROPERTIES
    TimerCoversMeasurement
