CONSTANTS
    Tasks = {a, b}
    Writers = {w}
    Freqs = {340, 1200}
    Inherit = FALSE
    MaxTicks = 3
SPECIFICATION Spec
SYMMETRY TaskSymmetry
INVARIANTS TotalExact EnergyEarned
