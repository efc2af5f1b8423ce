SPECIFICATION Spec
CONSTANTS
    MaxLines = 4
    Inputs <- MCInputs
    Programs <- MCPrograms
INVARIANTS
    TypeOK
    StrongestOfEachPair
    AssertionsHold
    CopiesInOrder
PROPERTIES
    NeverTwoOfAKind
