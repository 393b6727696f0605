CONSTANTS
    t1 = t1
    t2 = t2
    t3 = t3
    NoTask = null
    Tasks = {t1, t2, t3}
    Leaders = {t1, t2, t3}
    Mortal = {t1}
    Online0 = {0}
    Requests <- OneCPU
    Policies = {}
    TASK_SCHEDULING_LENGTH = 3
    AnyRevise = FALSE
    Faults = {"up", "down", "affinity"}
SPECIFICATION Spec
INVARIANTS TypeOK BooksBalance RowsExact ReservedOnline Schedulable RejectsOnlyMisfits FreqCovers
