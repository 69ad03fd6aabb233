SPECIFICATION Spec
CONSTANTS
    Sessions = {s1}
    Jobs = {j1, j2}
    Nobody = Nobody
    MaxPerUser = 1
    c1 = c1
    c2 = c2
    note = note
    Contacts = {c1, c2}
    Matched = c1
    Photos = {c1}
    Edges = {edge}
    Notes = {note}
    Activities = {activity}
    Groups = {group}
    Ends <- MCEnds
    Fallible = {c1}
INVARIANTS
    ImportedOnce
    NoOrphans
    NoContactIsDropped
PROPERTIES
    ImportSettles
