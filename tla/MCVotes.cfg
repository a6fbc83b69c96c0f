\* Three ids; liveness, so without symmetry.
SPECIFICATION FairSpec
CONSTANTS
    Slots = 3
    Gens <- Connections
    Ops = {1}
    Afkers = {2}
    Window = 2
    Pause = 3
INVARIANTS
    VotesFit
    OneVoteEach
PROPERTIES
    KickHits
    VoteEnds
