CONSTANTS
    Tasks = {a, b}
    Other = other
    Budgets = {1, 2}
    Reserved0 = {a}
    RemoteP = {a}
    Ops = {"set", "setFails"}
    Inherited = {0}
    AccCap = 4
    a = a
    b = b
    other = other
SPECIFICATION FairSpec
INVARIANTS SuspendJustified OverrunSuspended SuspendedStaysOff
PROPERTIES SuspensionEnds ImplementsReservation
