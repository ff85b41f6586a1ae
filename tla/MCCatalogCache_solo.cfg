CONSTANTS
    Procs = {p1, p2}
    F = 3
    Mirrors = 2
    Concurrent = FALSE
    Absent = Absent
SYMMETRY Symmetry
SPECIFICATION Spec
INVARIANTS
    TypeOK
    CompleteMeansWhole
    LoadedWhole
