SPECIFICATION Spec
CONSTANTS
    p1 = p1
    p2 = p2
    i1 = i1
    i2 = i2
    Processes = {p1, p2}
    Identities = {i1, i2}
    Absent = Absent
    Partial = Partial
    Faults = {"kill", "io_error"}
    Runtime = "ours"
    OtherRuntime = "other"
    Releases = {"v1", "v2"}
    Deployments = {"d1"}
    MaxLifetime = 1
    MaxTime = 2
    MaxSigned = 1
SYMMETRY Symmetry
INVARIANTS
    IdentityTypeOK
    IssuedIsStored
    GrantAuthorized
PROPERTIES
    AnchorSettled
CHECK_DEADLOCK FALSE
