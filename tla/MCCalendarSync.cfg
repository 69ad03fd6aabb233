SPECIFICATION CalendarFairSpec
CONSTANTS
    Uids = {u1, u2}
    Paths = {p1, p2}
    Contents = {c1, c2, c3}
    Nil = Nil
    Deleted = Deleted
    MaxRemote = 1
    MaxEdits = 2
    MaxFails = 1
INVARIANTS
    EditsWait
PROPERTIES
    EditsArePushed
