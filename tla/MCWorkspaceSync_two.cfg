SPECIFICATION Spec
CONSTANTS
    p1 = p1
    p2 = p2
    f1 = f1
    f2 = f2
    dir = dir
    huge = huge
    s1 = s1
    Path <- TwoPaths
    Data = {f1, f2}
    Dirs = {}
    Big = {}
    Stamp = {s1}
    Floor = 1
    None = None
    Vouched = Vouched
    Unhashed = Unhashed
    NoDigest = NoDigest
    Standing = {}
    MaxEdits = 2
    MaxFaults = 0
    MaxRewinds = 0
    MaxAnswers = 1
    ConcurrentCommands = FALSE
SYMMETRY PathsAndFiles
VIEW Undated
PROPERTIES
    HaltFreezes
