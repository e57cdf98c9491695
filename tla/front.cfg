SPECIFICATION FairSpec
CONSTANTS
    b1 = b1
    b2 = b2
    r1 = r1
    i1 = i1
    i2 = i2
    Builds = {b1, b2}
    Parallel = {r1}
    Inline = {i1, i2}
    Nobody = Nobody
    Aims <- MCAims
CHECK_DEADLOCK FALSE
INVARIANTS
    ShownTrue
    OneAtATime
PROPERTY EachFreed
