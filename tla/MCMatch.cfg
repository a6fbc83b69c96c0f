\* Safety of a lobby of three with operators.
SPECIFICATION Spec
CONSTANTS
    Id = {p1, p2, p3}
    NoPeer = NoPeer
    Cap = 3
    VoteSecs = 5
    PickSecs = 2
    SecMod = 7
    Ops = TRUE
    Console = FALSE
    Drafts = TRUE
    Afkers = {p1, p2, p3}
SYMMETRY Symmetry
INVARIANTS
    TypeOK
    ExePresent
    AfkNeverPlays
    ListsLive
    ResultsFit
    ForcedPresent
    SomebodyAwaited
PROPERTY
    RosterGrowsInLobby
    KeepsPromise
