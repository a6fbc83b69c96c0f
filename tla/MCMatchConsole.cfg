\* Safety of a lobby of three with the host at the console.
SPECIFICATION Spec
CONSTANTS
    Id = {p1, p2, p3}
    NoPeer = NoPeer
    Cap = 3
    VoteSecs = 4
    PickSecs = 1
    SecMod = 7
    Ops = FALSE
    Console = TRUE
    Drafts = FALSE
    Afkers = {}
SYMMETRY Symmetry
INVARIANTS
    ExePresent
