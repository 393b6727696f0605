CONSTANTS
    EXP_DIGIT = 3
    FRAC_DIGIT = 4
SPECIFICATION Spec
INVARIANTS SumNear ProductNear RefusesOnlyRange
