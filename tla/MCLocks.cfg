\* Two lobbies, the console and the API.  Threads may wait for one another for
\* good, which the invariant is about.
SPECIFICATION Spec
CONSTANTS
    Lobbies = 2
    Reentrant = FALSE
INVARIANTS
    CircleNeedsCommand
CHECK_DEADLOCK FALSE
