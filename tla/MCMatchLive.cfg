\* Progress of a lobby of three; liveness, so without symmetry.
SPECIFICATION FairSpec
CONSTANTS
    Id = {p1, p2, p3}
    NoPeer = NoPeer
    Cap = 3
    VoteSecs = 4
    PickSecs = 1
    SecMod = 7
    Ops = FALSE
    Console = FALSE
    Drafts = FALSE
    Afkers = {p3}
PROPERTIES
    PhasesEnd
