CONSTANTS
    t1 = t1
    t2 = t2
    t3 = t3
    NoTask = null
    Tasks = {t1, t2}
    Leaders = {t1, t2}
    Mortal = {}
    Online0 = {0, 1, 2, 3}
    Requests <- AnyCPU
    Policies = {"FFD", "BFD", "WFD", "LST"}
    TASK_SCHEDULING_LENGTH = 2
    AnyRevise = FALSE
    Faults = {"energy"}
SPECIFICATION Spec
INVARIANTS OpensOnlyWhenNeeded RowsExact
