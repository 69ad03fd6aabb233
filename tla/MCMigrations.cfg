SPECIFICATION MigrationSpec
CONSTANTS
    Procs = {p1, p2}
    MaxVersion = 3
    Releases = {2, 3}
    Floor = 2
    Nil = Nil
    MaxWrites = 1
    MaxMishaps = 1
SYMMETRY Symmetry
INVARIANTS
    RollbackPoint
    SnapshotsAreWhole
PROPERTIES
    ServedIsComplete
