SPECIFICATION FairSpec
CONSTANTS
    N = 4
    Unroutable = {1, 3}
INVARIANTS TypeOK NoLeak OneWinner ErrorMeansNone NeverBlocks
PROPERTIES EventuallyQuiet HangCostsNothing
CHECK_DEADLOCK FALSE
