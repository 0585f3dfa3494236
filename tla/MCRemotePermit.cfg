\* One overrun: a wait is given up, or the boot reset repeated, while the other side still runs.
SPECIFICATION Spec
CONSTANTS
    Generations = {g1, g2}
    NoGeneration = NoGeneration
    FSYNC = "reliable"
    OVERRUNS = 1
SYMMETRY Symmetry
VIEW Relevant
INVARIANT
    SilentWhileResetPending
    ShownTogether
