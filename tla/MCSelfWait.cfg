\* A worker that answers .ban, .kick or .exe takes the lock it holds.
SPECIFICATION Spec
CONSTANTS
    Lobbies = 2
    Reentrant = FALSE
INVARIANTS
    NoSelfWait
CHECK_DEADLOCK FALSE
