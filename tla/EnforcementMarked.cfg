CONSTANTS
    Tasks = {a, b}
    Other = other
    Budgets = {1}
    Reserved0 = {a}
    RemoteP = {a}
    Ops = {"revise", "cancel", "cancelFails", "exit", "wait"}
    Inherited = {0}
    AccCap = 2
    a = a
    b = b
    other = other
SPECIFICATION Spec
INVARIANTS SleepMarked
CHECK_DEADLOCK FALSE
