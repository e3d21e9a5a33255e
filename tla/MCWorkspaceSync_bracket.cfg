SPECIFICATION Spec
CONSTANTS
    p1 = p1
    p2 = p2
    f1 = f1
    f2 = f2
    dir = dir
    huge = huge
    s1 = s1
    Path <- OnePath
    Data = {f1, f2}
    Dirs = {}
    Big = {}
    Stamp = {s1}
    Floor = 20
    None = None
    Vouched = Vouched
    Unhashed = Unhashed
    NoDigest = NoDigest
    Standing = {}
    MaxEdits = 2
    MaxFaults = 1
    MaxRewinds = 1
    MaxAnswers = 0
    ConcurrentCommands = FALSE
SYMMETRY Files
INVARIANTS
    TypeOK
    LedgerTruth
    QuietInStep
    HaltOnRecord
    RewindNoted
PROPERTIES
    NoUnseenLoss
    RewoundStaysOff
