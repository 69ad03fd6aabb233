SPECIFICATION SyncSpec
CONSTANTS
    Hrefs = {h1, h2}
    Cards = {c1, c2, c3}
    Nil = Nil
    MaxPerSync = 1
    MaxChanges = 1
    MaxEdits = 1
    MaxForms = 1
INVARIANTS
    OverwritesAreRecorded
    TokenTellsNoLie
SYMMETRY InstanceSymmetry
