CONSTANTS
    s1 = s1
    s2 = s2
    x = x
    y = y
    b1 = b1
    b2 = b2
    b3 = b3
    Unset = Unset
    Null = Null
    Stacks <- MCStacks
    Values <- MCValues
    Blocks <- MCBlocks
    MaxStackSize = 3
    Lengths <- MCLengths
VIEW View
SPECIFICATION StackSpecification
INVARIANTS StackTypeOK OneOwner OnlyCopiesOverrun
PROPERTIES OnlyMovesAndCopiesLeak IsAStack
CHECK_DEADLOCK FALSE
