SPECIFICATION Spec
CONSTANTS
    p1 = p1
    p2 = p2
    f1 = f1
    f2 = f2
    dir = dir
    huge = huge
    s1 = s1
    Path <- OnePath
    Data = {dir}
    Dirs = {dir}
    Big = {}
    Stamp = {s1}
    Floor = 20
    None = None
    Vouched = Vouched
    Unhashed = Unhashed
    NoDigest = NoDigest
    Standing = {p1}
    MaxEdits = 2
    MaxFaults = 0
    MaxRewinds = 1
    MaxAnswers = 0
    ConcurrentCommands = FALSE
PROPERTIES
    RewoundStaysOff
