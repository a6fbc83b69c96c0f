\* A match of an exe and two survivors over two shards, which both must be
\* off the ground to open the big ring, and another entity that may be
\* collected as a third.
SPECIFICATION RavineSpec
CONSTANTS
    Peer = {p1, p2, p3}
    NoPeer = NoPeer
    Demonize = TRUE
    Forced = TRUE
    Early = FALSE
    RoundSecs = 3
    SuddenSecs = 2
    DeathSecs = 1
    SortSize = 2
    Shard = {h1, h2}
    Extra = {x1}
    Needed = 2
    ShowSecs = 2
    OpenSecs = 1
    Slot = {r1}
    RingEvery = 1
    Spawner = {n1, n2}
    Slug = {g1, g2}
SYMMETRY Symmetry
INVARIANTS
    ShardsKept
    RingFollows
    NothingStuck
