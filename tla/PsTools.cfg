CONSTANTS
    Procs = {p1, p2}
    Watched = {p2}
    Buffer = 2
    Careless = {}
SPECIFICATION Spec
INVARIANTS DeviceExact ModuleHeld ListedOnce LeftOpenReported
PROPERTY ExitEnds
