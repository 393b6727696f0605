CONSTANTS
    Tasks = {a}
    Other = other
    Budgets = {1}
    Reserved0 = {a}
    RemoteP = {a}
    Ops = {"cancel"}
    Inherited = {0}
    AccCap = 3
    a = a
    other = other
SPECIFICATION FairSpec
PROPERTIES SuspensionEnds
CHECK_DEADLOCK FALSE
