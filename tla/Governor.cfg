CONSTANTS
    N = 3
    Freqs = {1, 2}
    Calls = {"set", "cancel"}
    Overlap = FALSE
SPECIFICATION Spec
INVARIANTS CountExact FreqCurrent
