CONSTANTS
    Tasks = {a, b}
    Other = other
    Budgets = {1}
    Reserved0 = {a}
    RemoteP = {a}
    Ops = {"set", "setFails", "wait"}
    Inherited = {0, 2}
    AccCap = 3
    a = a
    b = b
    other = other
SPECIFICATION Spec
INVARIANTS TypeOK SleepHasWaker ChargedOnCpu PeriodTimerAlive
