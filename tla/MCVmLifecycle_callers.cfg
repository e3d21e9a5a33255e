SPECIFICATION Spec
CONSTANTS
    s1 = s1
    s2 = s2
    t1 = t1
    None = None
    Starter = {s1, s2}
    Stopper = {t1}
    Kind = "vm"
    MaxRuns = 2
    MaxAborts = 1
    MaxResets = 1
    Mishaps = {"early", "death", "sleep"}
SYMMETRY Callers
INVARIANTS
    OneEmulator
    Watched
    
\* A lab may be left stopped, and the runs are bounded.
CHECK_DEADLOCK FALSE
