CONSTANTS
    Keys <- MCKeys
    Vals <- MCVals
    MaxSize = 5
SPECIFICATION FairSpec
INVARIANTS TypeOK Sorted IndexInBounds
PROPERTIES IsAMap CallsReturn
