\* Five maps; liveness, so without symmetry.
SPECIFICATION FairSpec
CONSTANTS
    m1 = m1
    m2 = m2
    m3 = m3
    Map = {m1, m2, m3, m4, m5}
    NoMap = NoMap
    Lists <- MCLists
    Drafts = TRUE
    Full = 3
    Step = 2
INVARIANTS
    TypeOK
    CanDraw
PROPERTIES
    DrawEnds
