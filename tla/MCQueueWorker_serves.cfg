SPECIFICATION FairSpec
CONSTANTS
    NumQueues = 1
    Size <- Sizes
    IndexMod = 4
INVARIANTS NoLostKick NoLostRequest NoLostCompletion StillIsClean OwnKicks
PROPERTIES Serves
