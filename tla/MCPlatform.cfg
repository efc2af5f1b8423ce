SPECIFICATION Spec
CONSTANTS
    Cpus = {cpu0, cpu1}
    Cpu0 = cpu0
    Processes = {osiris1, osiris2}
    None = None
    FirstPmcr <- MCFirstPmcr
SYMMETRY Symmetry
INVARIANTS
    Inv
    MeasuresOneCounter
    FlushedWhereRun
    NothingLeftBehind
