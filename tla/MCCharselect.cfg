\* Four peers and as many characters.
SPECIFICATION Spec
CONSTANTS
    Peer = {p1, p2, p3, p4}
    NoPeer = NoPeer
    Cap = 4
    Char = {tails, c2, c3, c4}
    NoChar = NoChar
    Tails = tails
    Afkers = {p1, p2, p3, p4}
    Console = TRUE
SYMMETRY Symmetry
INVARIANTS
    NoGhost
    SomeFree
    Unique
PROPERTIES
    NobodyAwaited
