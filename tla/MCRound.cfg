\* Matches of five, everything may happen.
SPECIFICATION Spec
CONSTANTS
    Peer = {p1, p2, p3, p4, p5}
    NoPeer = NoPeer
    Demonize = TRUE
    Forced = TRUE
    Early = FALSE
    RoundSecs = 4
    SuddenSecs = 2
    DeathSecs = 2
    SortSize = 4
SYMMETRY Symmetry
INVARIANTS
    OneFate
    SortFits
    NoLimbo
    SuddenDecides
PROPERTIES
    DemonsAreHalf
    KeepsPromise
