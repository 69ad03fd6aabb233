SPECIFICATION GraphSpec
CONSTANTS
    Contacts = {ann, bob, cleo}
    Notes = {n1}
    Edges = {e1, e2}
    Types = {friend}
    InverseOf <- InstanceInverse
    Slots = {r1, r2}
    New = New
    Gone = Gone
    NoContact = NoContact
INVARIANTS
    EdgesAreFacts
    NothingRefersToTheDeleted
PROPERTIES
    MergeLosesNothing
    NotesStayDeleted
SYMMETRY InstanceSymmetry
CHECK_DEADLOCK FALSE
