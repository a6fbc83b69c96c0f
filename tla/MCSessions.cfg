\* Two workers admit and drop three clients behind one address.
SPECIFICATION Spec
CONSTANTS
    c1 = c1
    c2 = c2
    c3 = c3
    a = a
    u = u
    w = w
    Conn = {c1, c2, c3}
    Lobby = {l1, l2}
    Nowhere = Nowhere
    NoConn = NoConn
    Key = {a, u, w}
    AddrOf <- Address
    UdidOf <- Device
    Cap = 2
    Faults = FALSE
SYMMETRY Symmetry
VIEW View
INVARIANTS
    BookBalances
    SoleInLobby
    ListedConnected
PROPERTY
    KeepsPromise
