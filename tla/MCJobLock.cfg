SPECIFICATION FairSpec
CONSTANTS
    Instances = {i1, i2}
    Triggers = {initial, scheduled}
    NoRow = NoRow
    Nobody = Nobody
    Window = 3
    LockTimeout = 2
INVARIANTS
    InstancesExclude
PROPERTIES
    WindowRespected
    JobKeepsStarting
