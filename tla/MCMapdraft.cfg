\* Drafts of three over four maps; liveness, so without symmetry.
SPECIFICATION FairSpec
CONSTANTS
    Slots = 3
    Map = {m1, m2, m3, m4}
    NoMap = NoMap
    PickTime = 2
    Afkers = {2, 3}
INVARIANTS
    TurnPresent
    EqualTurns
PROPERTIES
    TurnPasses
    DraftEnds
