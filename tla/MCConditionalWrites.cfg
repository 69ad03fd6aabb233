SPECIFICATION Spec
CONSTANTS
    Requests = {r1, r2, r3}
    Bodies = {b1, b2}
    Marks = {m1, m2}
    NoMatch = NoMatch
    AnyMatch = AnyMatch
PROPERTIES
    NoLostUpdate
    IfMatchHonoured
    AtomicSpec
SYMMETRY InstanceSymmetry
CHECK_DEADLOCK FALSE
