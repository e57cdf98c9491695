SPECIFICATION FetchSpec
CONSTANTS
    fa = fa
    fb = fb
    Branches <- OneBranch
PROPERTIES MergesStaged
CHECK_DEADLOCK FALSE
