CONSTANTS
    Tasks = {a, b}
    Ticks = 2
    Careless = {}
SPECIFICATION Spec
INVARIANTS TypeOK SamplesInBuffer FreedOnce FilesOfReserved ModuleOutlivesUse
