SPECIFICATION FairSpec
CONSTANTS
    s1 = s1
    s2 = s2
    t1 = t1
    None = None
    Starter = {s1}
    Stopper = {t1}
    Kind = "container"
    MaxRuns = 2
    MaxAborts = 0
    MaxResets = 0
    Mishaps = {"early", "refused", "death"}
INVARIANTS
    NotWedged
    
PROPERTIES
    BootSettles
    StopStops
\* A lab may be left stopped, and the runs are bounded.
CHECK_DEADLOCK FALSE
