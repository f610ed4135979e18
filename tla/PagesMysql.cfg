SPECIFICATION Spec
CONSTANTS
    MaxTrans = 4
    MaxSize = 2
    Trans <- MCTrans
    Sizes <- MCSizes
    Repository = "mysql"
    MaxFaults = 1
INVARIANTS
    TypeOK
    PageFits
    NoneTwice
    WalkSeesAll
    NoEmptyPage
