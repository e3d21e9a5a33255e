SPECIFICATION Spec
CONSTANTS
    m1 = m1
    m2 = m2
    m3 = m3
    Machine = {m1, m2, m3}
SYMMETRY Names
INVARIANTS
    Ordered
    Closed
    Least
    RefusesKnots
PROPERTIES
    Progresses
