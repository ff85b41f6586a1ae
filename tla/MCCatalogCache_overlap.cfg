CONSTANTS
    Procs = {p1, p2}
    F = 3
    Mirrors = 2
    Concurrent = TRUE
    Absent = Absent
SYMMETRY Symmetry
SPECIFICATION Spec
INVARIANTS
    SkipFindsCatalog
