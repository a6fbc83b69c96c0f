--------------------------- MODULE CharselectProofs ------------------------
(***************************************************************************)
(* Theorems about Charselect, for every number of peers and characters.    *)
(***************************************************************************)
EXTENDS Charselect, FiniteSetTheorems, TLAPS

(* The type invariant in two halves: strayed is a Boolean, the rest are    *)
(* sets and functions.                                                     *)
TypeFlag == strayed \in BOOLEAN

TypeData ==
    /\ phase \in {"LOBBY", "CHARSELECT", "GAME"}
    /\ peers \subseteq Peer
    /\ inGame \subseteq peers /\ afk \subseteq peers
    /\ armed \subseteq peers /\ refused \subseteq armed
    /\ char \in [Peer -> Char \cup {NoChar}]
    /\ exe \in Peer \cup {NoPeer}
    /\ avail \subseteq Char

LEMMA TypeHalves == TypeOK <=> TypeFlag /\ TypeData
  BY DEF TypeOK, TypeFlag, TypeData

LEMMA FlagNext == TypeFlag /\ [Next]_vars => TypeFlag'
<1> SUFFICES ASSUME TypeFlag, [Next]_vars PROVE strayed' \in BOOLEAN
  BY DEF TypeFlag
<1>1. ASSUME NEW p \in Peer, LeaveCharselect(p) \/ ToggleAfk(p)
      PROVE  strayed' \in BOOLEAN
  <2>1. strayed' = (strayed \/ (p \in afk /\ char[p] # NoChar))
           \/ strayed' = (strayed \/ (phase = "CHARSELECT" /\ p \in inGame))
    BY <1>1, Zenon DEF LeaveCharselect, Release, ToggleAfk
  <2>2. QED
    BY <2>1, Zenon DEF TypeFlag
<1>2. CASE \E x \in Peer : Draw(x)
  BY <1>2, Zenon DEF Draw
<1>3. CASE UNCHANGED strayed
  BY <1>3, Zenon DEF TypeFlag
<1>4. QED
  BY <1>1, <1>2, <1>3, Zenon
     DEF Next, vars, Leave, Join, LeaveQuietly, RequestExe, Request, BackToLobby

(* What charselect_check_state does: the match, the lobby, or neither.     *)
LEMMA CheckStateCases ==
    ASSUME NEW P, NEW C, NEW A, CheckState(P, C, A)
    PROVE  \/ /\ phase' = "GAME" /\ inGame' = Players(P) /\ exe' = exe
              /\ \A p \in Players(P) : HasPicked(p, C, A)
           \/ LobbyInit(P)
           \/ inGame' = inGame \cap P /\ phase' = phase /\ exe' = exe
  BY Zenon DEF CheckState

LEMMA DataNext == TypeData /\ [Next]_vars => TypeData'
<1> SUFFICES ASSUME TypeData, [Next]_vars PROVE TypeData'
  OBVIOUS
<1> USE CharAssumption DEF TypeData
<1>1. ASSUME NEW p \in Peer, Join(p) PROVE TypeData'
  BY <1>1 DEF Join
<1>2. ASSUME NEW p \in Peer, LeaveQuietly(p) PROVE TypeData'
  BY <1>2 DEF LeaveQuietly, Gone, LobbyInit
<1>3. ASSUME NEW p \in Peer, LeaveCharselect(p) PROVE TypeData'
  <2>1. \/ LobbyInit(peers \ {p})
        \/ CheckState(peers \ {p}, char, armed)
    BY <1>3 DEF LeaveCharselect
  <2>2. /\ phase' \in {"LOBBY", "CHARSELECT", "GAME"}
        /\ inGame' \subseteq peers \ {p} /\ exe' \in Peer \cup {NoPeer}
    BY <2>1, CheckStateCases DEF LobbyInit, Players
  <2>3. QED
    BY <1>3, <2>2 DEF LeaveCharselect, Gone, Release
<1>4. ASSUME NEW p \in Peer, ToggleAfk(p) PROVE TypeData'
  BY <1>4 DEF ToggleAfk
<1>5. ASSUME NEW x \in Peer, Draw(x) PROVE TypeData'
  BY <1>5 DEF Draw
<1>6. ASSUME NEW x \in Peer, RequestExe(x) PROVE TypeData'
  <2>1. /\ phase' \in {"LOBBY", "CHARSELECT", "GAME"}
        /\ inGame' \subseteq peers /\ exe' \in Peer \cup {NoPeer}
    BY <1>6, CheckStateCases DEF RequestExe, LobbyInit, Players
  <2>2. QED
    BY <1>6, <2>1 DEF RequestExe, Players
<1>7. ASSUME NEW p \in Peer, NEW c \in Char, Request(p, c) PROVE TypeData'
  <2>1. /\ phase' \in {"LOBBY", "CHARSELECT", "GAME"}
        /\ inGame' \subseteq peers /\ exe' \in Peer \cup {NoPeer}
    BY <1>7, CheckStateCases DEF Request, LobbyInit, Players
  <2>2. QED
    BY <1>7, <2>1 DEF Request
<1>8. CASE BackToLobby
  BY <1>8 DEF BackToLobby, LobbyInit
<1>9. CASE UNCHANGED vars
  BY <1>9 DEF vars
<1>10. QED
  BY <1>1, <1>2, <1>3, <1>4, <1>5, <1>6, <1>7, <1>8, <1>9 DEF Next, Leave

(* Every variable keeps its type.                                          *)
THEOREM CharTypes == Spec => []TypeOK
<1>1. Init => TypeOK
  BY CharAssumption DEF Init, TypeOK
<1>2. TypeOK /\ [Next]_vars => TypeOK'
  <2>1. TypeOK' <=> TypeFlag' /\ TypeData'
    BY Zenon DEF TypeOK, TypeFlag, TypeData
  <2>2. QED
    BY <2>1, TypeHalves, FlagNext, DataNext, Zenon
<1>3. QED
  BY <1>1, <1>2, PTL DEF Spec

----------------------------------------------------------------------------
(* During a select the exe takes part and has no survivor's character.     *)
ExeOK ==
    phase = "CHARSELECT" => exe \in Players(peers) /\ char[exe] = NoChar

LEMMA ExeNext == TypeData /\ ExeOK /\ [Next]_vars => ExeOK'
<1> SUFFICES ASSUME TypeData, ExeOK, [Next]_vars, phase' = "CHARSELECT"
             PROVE  exe' \in Players(peers)' /\ char'[exe'] = NoChar
  BY DEF ExeOK
<1> USE CharAssumption DEF TypeData, ExeOK, Players
<1>1. ASSUME NEW p \in Peer, Join(p)
      PROVE  exe' \in Players(peers)' /\ char'[exe'] = NoChar
  BY <1>1 DEF Join
<1>2. ASSUME NEW p \in Peer, LeaveQuietly(p)
      PROVE  exe' \in Players(peers)' /\ char'[exe'] = NoChar
  BY <1>2 DEF LeaveQuietly, Gone, LobbyInit
<1>3. ASSUME NEW p \in Peer, LeaveCharselect(p)
      PROVE  exe' \in Players(peers)' /\ char'[exe'] = NoChar
  <2>1. phase = "CHARSELECT" /\ p # exe /\ CheckState(peers \ {p}, char, armed)
    BY <1>3 DEF LeaveCharselect, LobbyInit
  <2>2. inGame' = inGame \cap (peers \ {p}) /\ exe' = exe
    BY <2>1, CheckStateCases DEF LobbyInit
  <2>3. QED
    BY <1>3, <2>1, <2>2 DEF LeaveCharselect, Gone
<1>4. ASSUME NEW p \in Peer, ToggleAfk(p)
      PROVE  exe' \in Players(peers)' /\ char'[exe'] = NoChar
  BY <1>4 DEF ToggleAfk
<1>5. ASSUME NEW x \in Peer, Draw(x)
      PROVE  exe' \in Players(peers)' /\ char'[exe'] = NoChar
  BY <1>5 DEF Draw
<1>6. ASSUME NEW x \in Peer, RequestExe(x)
      PROVE  exe' \in Players(peers)' /\ char'[exe'] = NoChar
  <2>1. inGame' = inGame \cap peers /\ exe' = exe
    BY <1>6, CheckStateCases DEF RequestExe, LobbyInit
  <2>2. QED
    BY <1>6, <2>1 DEF RequestExe
<1>7. ASSUME NEW p \in Peer, NEW c \in Char, Request(p, c)
      PROVE  exe' \in Players(peers)' /\ char'[exe'] = NoChar
  <2>1. inGame' = inGame \cap peers /\ exe' = exe
    BY <1>7, CheckStateCases DEF Request, LobbyInit
  <2>2. QED
    BY <1>7, <2>1 DEF Request
<1>8. CASE BackToLobby
  BY <1>8 DEF BackToLobby, LobbyInit
<1>9. CASE UNCHANGED vars
  BY <1>9 DEF vars
<1>10. QED
  BY <1>1, <1>2, <1>3, <1>4, <1>5, <1>6, <1>7, <1>8, <1>9 DEF Next, Leave

LEMMA NoGhostNext == TypeData /\ NoGhost /\ [Next]_vars => NoGhost'
<1> SUFFICES ASSUME TypeData, NoGhost, [Next]_vars, phase' = "CHARSELECT",
                    NEW c \in Char, c \notin avail'
             PROVE  \E q \in Survivors' : char'[q] = c
  BY DEF NoGhost
<1>1. CASE \E x \in Peer : Draw(x)
  BY <1>1 DEF Draw
<1>2. ASSUME phase = "CHARSELECT", c \notin avail
      PROVE  \E q \in Survivors : char[q] = c
  BY <1>2 DEF NoGhost
<1> USE CharAssumption DEF TypeData, Survivors, Players
<1>3. ASSUME NEW p \in Peer, Join(p)
      PROVE  \E q \in Survivors' : char'[q] = c
  BY <1>2, <1>3 DEF Join
<1>4. ASSUME NEW p \in Peer, LeaveQuietly(p)
      PROVE  \E q \in Survivors' : char'[q] = c
  BY <1>2, <1>4 DEF LeaveQuietly, Gone, LobbyInit
<1>5. ASSUME NEW p \in Peer, LeaveCharselect(p)
      PROVE  \E q \in Survivors' : char'[q] = c
  <2>1. phase = "CHARSELECT" /\ p # exe /\ CheckState(peers \ {p}, char, armed)
    BY <1>5 DEF LeaveCharselect, LobbyInit
  <2>2. inGame' = inGame \cap (peers \ {p}) /\ exe' = exe
    BY <2>1, CheckStateCases DEF LobbyInit
  <2>3. c \notin avail /\ char[p] # c
    BY <1>5 DEF LeaveCharselect, Release
  <2>4. QED
    BY <1>2, <1>5, <2>1, <2>2, <2>3 DEF LeaveCharselect, Gone
<1>6. ASSUME NEW p \in Peer, ToggleAfk(p)
      PROVE  \E q \in Survivors' : char'[q] = c
  BY <1>2, <1>6 DEF ToggleAfk
<1>7. ASSUME NEW x \in Peer, RequestExe(x)
      PROVE  \E q \in Survivors' : char'[q] = c
  <2>1. inGame' = inGame \cap peers /\ exe' = exe
    BY <1>7, CheckStateCases DEF RequestExe, LobbyInit
  <2>2. QED
    BY <1>2, <1>7, <2>1 DEF RequestExe
<1>8. ASSUME NEW p \in Peer, NEW d \in Char, Request(p, d)
      PROVE  \E q \in Survivors' : char'[q] = c
  <2>1. inGame' = inGame \cap peers /\ exe' = exe
    BY <1>8, CheckStateCases DEF Request, LobbyInit
  <2>2. CASE c = d /\ d \in avail
    BY <1>8, <2>1, <2>2 DEF Request
  <2>3. CASE ~(c = d /\ d \in avail)
    <3>1. PICK q \in Survivors : char[q] = c
      BY <1>2, <1>8, <2>3 DEF Request
    <3>2. char'[q] = c
      BY <1>8, <3>1 DEF Request
    <3>3. QED
      BY <1>8, <2>1, <3>1, <3>2 DEF Request
  <2>4. QED
    BY <2>2, <2>3
<1>9. CASE BackToLobby
  BY <1>9 DEF BackToLobby, LobbyInit
<1>10. CASE UNCHANGED vars
  BY <1>2, <1>10 DEF vars
<1>11. QED
  BY <1>1, <1>3, <1>4, <1>5, <1>6, <1>7, <1>8, <1>9, <1>10 DEF Next, Leave

(* A character that is refused is held by a survivor.                      *)
THEOREM NothingBlocked == Spec => []NoGhost
<1>1. Init => NoGhost
  BY DEF Init, NoGhost
<1>2. TypeOK /\ NoGhost /\ [Next]_vars => NoGhost'
  BY NoGhostNext, TypeHalves
<1>3. QED
  BY <1>1, <1>2, CharTypes, PTL DEF Spec

----------------------------------------------------------------------------
(* The list never has more peers than it has room for.                     *)
PeersFit == Cardinality(peers) <= Cap

LEMMA PeersFitNext == TypeData /\ PeersFit /\ [Next]_vars => PeersFit'
<1> SUFFICES ASSUME TypeData, PeersFit, [Next]_vars PROVE Cardinality(peers') <= Cap
  BY DEF PeersFit
<1>1. IsFiniteSet(peers) /\ Cardinality(peers) \in Nat /\ Cap \in Nat
  BY FS_Subset, FS_CardinalityType, CharAssumption DEF TypeData
<1>2. ASSUME NEW p \in Peer, Join(p) PROVE Cardinality(peers') <= Cap
  <2>1. Cardinality(peers') = Cardinality(peers) + 1
    BY <1>1, <1>2, FS_AddElement DEF Join
  <2>2. Cardinality(peers) < Cap
    BY <1>2 DEF Join
  <2>3. QED
    BY <1>1, <2>1, <2>2
<1>3. ASSUME NEW p \in Peer, peers' = peers \ {p} PROVE Cardinality(peers') <= Cap
  <2>1. Cardinality(peers') \in Nat /\ Cardinality(peers') <= Cardinality(peers)
    BY <1>1, <1>3, FS_Subset, FS_CardinalityType
  <2>2. QED
    BY <1>1, <2>1 DEF PeersFit
<1>4. CASE UNCHANGED peers
  BY <1>4 DEF PeersFit
<1>5. QED
  BY <1>2, <1>3, <1>4
     DEF Next, vars, Leave, LeaveQuietly, LeaveCharselect, Gone, ToggleAfk, Draw,
         RequestExe, Request, BackToLobby

(* If every character of C has a holder in S there are as many holders as  *)
(* characters at least.                                                    *)
LEMMA EnoughHolders ==
    ASSUME NEW C, NEW S, IsFiniteSet(S), NEW f,
           \A c \in C : \E q \in S : f[q] = c
    PROVE  IsFiniteSet(C) /\ Cardinality(C) <= Cardinality(S)
<1> DEFINE g == [c \in C |-> CHOOSE q \in S : f[q] = c]
<1>1. \A c \in C : g[c] \in S /\ f[g[c]] = c
  OBVIOUS
<1>2. g \in Injection(C, S)
  BY <1>1 DEF Injection, IsInjective
<1>3. QED
  BY <1>2, FS_Injection

(* A player who has still to choose finds a free character: with as many   *)
(* characters as the lobby has room for peers nobody is left without.      *)
THEOREM NobodyStuck == Spec => []SomeFree
<1>1. TypeOK /\ NoGhost /\ PeersFit => SomeFree
  <2> SUFFICES ASSUME TypeOK, NoGhost, PeersFit, phase = "CHARSELECT",
                      NEW p \in Survivors, char[p] = NoChar, avail = {}
               PROVE  FALSE
    BY DEF SomeFree
  <2> DEFINE S == peers \ {p}
  <2>1. IsFiniteSet(peers) /\ p \in peers
    BY FS_Subset, CharAssumption DEF TypeOK, Survivors, Players
  <2>2. /\ IsFiniteSet(S)
        /\ Cardinality(S) = Cardinality(peers) - 1
        /\ Cardinality(peers) \in Nat
    BY <2>1, FS_RemoveElement, FS_CardinalityType
  <2>3. \A c \in Char : \E q \in S : char[q] = c
    BY CharAssumption DEF NoGhost, Survivors, Players
  <2>4. Cardinality(Char) <= Cardinality(S)
    BY <2>2, <2>3, EnoughHolders
  <2>5. Cardinality(Char) \in Nat
    BY CharAssumption, FS_CardinalityType
  <2>6. QED
    BY <2>2, <2>4, <2>5, CharAssumption DEF PeersFit
<1>2. Init => PeersFit
  BY FS_EmptySet, CharAssumption DEF Init, PeersFit
<1>3. TypeOK /\ PeersFit /\ [Next]_vars => PeersFit'
  BY PeersFitNext, TypeHalves
<1>4. QED
  BY <1>1, <1>2, <1>3, CharTypes, NothingBlocked, PTL DEF Spec

----------------------------------------------------------------------------
(* Nobody has strayed into the select: what the survivors hold is theirs   *)
(* alone and not on offer, and no survivor is taken for an exe.            *)
Held ==
    phase = "CHARSELECT" =>
        \A p \in Survivors : p \notin armed /\ char[p] \notin avail

Apart ==
    \A p, q \in Survivors : p # q /\ char[p] = char[q] => char[p] = NoChar

Clean == phase # "LOBBY" /\ ~strayed => Held /\ Apart

(* Only a draw forgets that somebody has strayed.                          *)
LEMMA Unstrayed ==
    [Next]_vars /\ ~strayed' => ~strayed \/ \E x \in Peer : Draw(x)
  BY Zenon
     DEF Next, vars, Join, Leave, LeaveQuietly, LeaveCharselect, Release, ToggleAfk,
         RequestExe, Request, BackToLobby

(* A step that leaves the survivors' characters and the offer alone.       *)
LEMMA Shrink ==
    ASSUME TypeData, Held, Apart,
           phase' = phase \/ phase' = "GAME", phase # "LOBBY",
           Survivors' \subseteq Survivors,
           \A q \in Survivors' : char'[q] = char[q] /\ (q \in armed' => q \in armed),
           avail' = avail
    PROVE  Held' /\ Apart'
<1>1. Held'
  BY DEF Held
<1>2. Apart'
  BY DEF Apart
<1>3. QED
  BY <1>1, <1>2

LEMMA CleanNext == TypeData /\ ExeOK /\ Clean /\ [Next]_vars => Clean'
<1> SUFFICES ASSUME TypeData, ExeOK, Clean, [Next]_vars, phase' # "LOBBY", ~strayed'
             PROVE  Held' /\ Apart'
  BY DEF Clean
<1>1. ASSUME NEW x \in Peer, Draw(x) PROVE Held' /\ Apart'
  BY <1>1, CharAssumption DEF Draw, Held, Apart, Survivors, Players, TypeData
<1>2. ASSUME ~ \E x \in Peer : Draw(x), phase # "LOBBY" PROVE Held /\ Apart
  BY <1>2, Unstrayed DEF Clean
<1>3. SUFFICES ASSUME ~ \E x \in Peer : Draw(x) PROVE Held' /\ Apart'
  BY <1>1
<1> USE CharAssumption
<1>4. ASSUME NEW p \in Peer, Join(p) PROVE Held' /\ Apart'
  <2>1. phase # "LOBBY" /\ phase' = phase /\ avail' = avail
    BY <1>4 DEF Join
  <2>2. Survivors' \subseteq Survivors
    BY <1>4, <2>1 DEF Join, Survivors, Players, TypeData
  <2>3. \A q \in Survivors' : char'[q] = char[q] /\ (q \in armed' => q \in armed)
    BY <1>4, <2>2 DEF Join, Survivors, Players, TypeData
  <2>4. QED
    BY <1>2, <1>3, <2>1, <2>2, <2>3, Shrink
<1>5. ASSUME NEW p \in Peer, LeaveQuietly(p) PROVE Held' /\ Apart'
  <2>1. phase # "LOBBY" /\ phase' = phase /\ avail' = avail /\ exe' = exe
    BY <1>5 DEF LeaveQuietly, LobbyInit
  <2>2. /\ peers' = peers \ {p} /\ afk' = afk \ {p}
        /\ inGame' = inGame \ {p} /\ armed' = armed \ {p}
        /\ char' = [char EXCEPT ![p] = NoChar]
    BY <1>5 DEF LeaveQuietly, Gone, LobbyInit
  <2>3. Survivors' \subseteq Survivors
    BY <2>1, <2>2 DEF Survivors, Players
  <2>4. \A q \in Survivors' : char'[q] = char[q] /\ (q \in armed' => q \in armed)
    BY <2>2, <2>3 DEF Survivors, Players, TypeData
  <2>5. QED
    BY <1>2, <1>3, <2>1, <2>3, <2>4, Shrink
<1>6. ASSUME NEW p \in Peer, LeaveCharselect(p) PROVE Held' /\ Apart'
  <2>1. phase = "CHARSELECT" /\ p # exe /\ CheckState(peers \ {p}, char, armed)
    BY <1>6 DEF LeaveCharselect, LobbyInit
  <2>2. /\ inGame' \subseteq inGame \cap (peers \ {p}) /\ exe' = exe
        /\ phase' = phase \/ phase' = "GAME"
    BY <2>1, CheckStateCases DEF LobbyInit, Players
  <2>3. /\ peers' = peers \ {p} /\ afk' = afk \ {p} /\ armed' = armed \ {p}
        /\ char' = [char EXCEPT ![p] = NoChar]
        /\ avail' = IF char[p] = NoChar THEN avail ELSE avail \cup {char[p]}
    BY <1>6 DEF LeaveCharselect, Gone, Release
  <2>4. p \in inGame /\ p \in peers /\ ~(p \in afk /\ char[p] # NoChar)
    BY <1>6, Zenon DEF LeaveCharselect, Gone, Release
  <2>5. Survivors' \subseteq Survivors /\ p \notin Survivors'
    BY <2>2, <2>3 DEF Survivors, Players
  <2>6. \A q \in Survivors' : char'[q] = char[q] /\ (q \in armed' => q \in armed)
    BY <2>3, <2>5 DEF Survivors, Players, TypeData
  <2>7. Held /\ Apart
    BY <1>2, <1>3, <2>1
  <2>8. CASE char[p] = NoChar
    BY <2>1, <2>2, <2>3, <2>5, <2>6, <2>7, <2>8, Shrink
  <2>9. CASE char[p] # NoChar
    <3>1. p \in Survivors
      BY <2>1, <2>4, <2>9 DEF Survivors, Players
    <3>2. \A q \in Survivors' : char[q] # char[p]
      BY <2>5, <2>7, <2>9, <3>1 DEF Apart
    <3>3. Held'
      BY <2>1, <2>3, <2>5, <2>6, <2>7, <3>2 DEF Held
    <3>4. Apart'
      BY <2>5, <2>6, <2>7 DEF Apart
    <3>5. QED
      BY <3>3, <3>4
  <2>10. QED
    BY <2>8, <2>9
<1>7. ASSUME NEW p \in Peer, ToggleAfk(p) PROVE Held' /\ Apart'
  <2>1. /\ phase # "LOBBY" /\ phase' = phase /\ avail' = avail /\ char' = char
        /\ peers' = peers /\ inGame' = inGame /\ exe' = exe /\ armed' = armed
        /\ phase = "GAME" => p \notin inGame
    BY <1>7 DEF ToggleAfk
  <2>2. phase = "CHARSELECT" => p \notin inGame
    BY <1>7, Zenon DEF ToggleAfk
  <2>3. p \notin inGame
    BY <2>1, <2>2 DEF TypeData
  <2>4. Survivors' \subseteq Survivors
    BY <1>7, <2>1, <2>3 DEF ToggleAfk, Survivors, Players
  <2>5. QED
    BY <1>2, <1>3, <2>1, <2>4, Shrink
<1>8. ASSUME NEW p \in Peer, RequestExe(p) PROVE Held' /\ Apart'
  <2>1. /\ phase = "CHARSELECT" /\ avail' = avail /\ char' = char
        /\ peers' = peers /\ afk' = afk /\ armed' = armed \cup {exe}
    BY <1>8 DEF RequestExe
  <2>2. /\ inGame' \subseteq inGame /\ exe' = exe
        /\ phase' = phase \/ phase' = "GAME"
    BY <1>8, CheckStateCases DEF RequestExe, LobbyInit, Players
  <2>3. Survivors' \subseteq Survivors
    BY <2>1, <2>2 DEF Survivors, Players
  <2>4. \A q \in Survivors' : q \in armed' => q \in armed
    BY <2>1, <2>2 DEF Survivors
  <2>5. QED
    BY <1>2, <1>3, <2>1, <2>2, <2>3, <2>4, Shrink
<1>9. ASSUME NEW p \in Peer, NEW c \in Char, Request(p, c) PROVE Held' /\ Apart'
  <2>1. /\ phase = "CHARSELECT" /\ armed' = armed /\ peers' = peers /\ afk' = afk
        /\ p \in Survivors
    BY <1>9 DEF Request, Survivors
  <2>2. /\ inGame' \subseteq inGame /\ exe' = exe
        /\ phase' = phase \/ phase' = "GAME"
    BY <1>9, CheckStateCases DEF Request, LobbyInit, Players
  <2>3. Survivors' \subseteq Survivors
    BY <2>1, <2>2 DEF Survivors, Players
  <2>4. Held /\ Apart
    BY <1>2, <1>3, <2>1
  <2>5. CASE c \notin avail
    <3>1. char' = char /\ avail' = avail
      BY <1>9, <2>5 DEF Request
    <3>2. QED
      BY <2>1, <2>2, <2>3, <2>4, <3>1, Shrink
  <2>6. CASE c \in avail
    <3>1. char' = [char EXCEPT ![p] = c] /\ avail' = avail \ {c}
      BY <1>9, <2>6 DEF Request
    <3>2. \A q \in Survivors : char[q] # c
      BY <2>1, <2>4, <2>6 DEF Held
    <3>3. \A q \in Survivors' : q \in Peer /\ q \in Survivors
      BY <2>3 DEF Survivors, Players, TypeData
    <3>4. Held'
      BY <2>1, <2>4, <3>1, <3>3 DEF Held, TypeData
    <3>5. Apart'
      BY <2>4, <3>1, <3>2, <3>3 DEF Apart, TypeData
    <3>6. QED
      BY <3>4, <3>5
  <2>7. QED
    BY <2>5, <2>6
<1>10. CASE BackToLobby
  BY <1>10 DEF BackToLobby, LobbyInit
<1>11. CASE UNCHANGED vars
  <2>1. /\ Survivors' = Survivors /\ char' = char /\ armed' = armed
        /\ avail' = avail /\ phase' = phase /\ phase # "LOBBY"
    BY <1>11 DEF vars, Survivors, Players
  <2>2. QED
    BY <1>2, <1>3, <2>1, Shrink
<1>12. QED
  BY <1>3, <1>4, <1>5, <1>6, <1>7, <1>8, <1>9, <1>10, <1>11 DEF Next, Leave

LEMMA AlwaysClean == Spec => [](TypeData /\ ExeOK /\ Clean)
<1>1. Init => ExeOK /\ Clean
  BY DEF Init, ExeOK, Clean
<1>2. TypeOK /\ ExeOK /\ Clean /\ [Next]_vars => ExeOK' /\ Clean'
  BY ExeNext, CleanNext, TypeHalves
<1>3. TypeOK => TypeData
  BY TypeHalves
<1>4. QED
  BY <1>1, <1>2, <1>3, CharTypes, PTL DEF Spec

(* Characters are unique, unless somebody strayed into the select.         *)
THEOREM CharactersUnique == Spec => []Unique
<1>1. Clean => Unique
  BY DEF Clean, Unique, Apart
<1>2. QED
  BY <1>1, AlwaysClean, PTL

(* A match begins with an exe who has sent a choice, one there is or one   *)
(* that was refused before, and, unless somebody strayed into the select,  *)
(* with a character for every survivor.                                    *)
THEOREM MatchAwaitsNobody == Spec => NobodyAwaited
<1>1. TypeData /\ ExeOK /\ Clean /\ [Next]_vars
      => [phase = "CHARSELECT" /\ phase' = "GAME" =>
            /\ exe \in Players(peers)' /\ exe \in (armed' \ refused') \cup refused
            /\ ~strayed' => \A p \in Survivors' : char'[p] # NoChar]_vars
  <2> SUFFICES ASSUME TypeData, ExeOK, Clean, Next,
                      phase = "CHARSELECT", phase' = "GAME"
               PROVE  /\ exe \in Players(peers)' /\ exe \in (armed' \ refused') \cup refused
                      /\ ~strayed' => \A p \in Survivors' : char'[p] # NoChar
    OBVIOUS
  <2> DEFINE Starts(P, C, A) ==
               /\ inGame' = Players(P) /\ exe' = exe
               /\ \A p \in Players(P) : HasPicked(p, C, A)
  <2>1. ~strayed' => Held
    BY Unstrayed DEF Draw, Clean
  <2>2. ASSUME NEW p \in Peer, LeaveCharselect(p)
        PROVE  /\ exe \in Players(peers)' /\ exe \in (armed' \ refused') \cup refused
               /\ ~strayed' => \A q \in Survivors' : char'[q] # NoChar
    <3>1. p # exe /\ CheckState(peers \ {p}, char, armed)
      BY <2>2 DEF LeaveCharselect, LobbyInit
    <3>2. Starts(peers \ {p}, char, armed)
      BY <3>1, CheckStateCases DEF LobbyInit
    <3>3. /\ peers' = peers \ {p} /\ afk' = afk \ {p}
          /\ armed' = armed \ {p} /\ refused' = refused \ {p}
          /\ \A q \in Peer \ {p} : char'[q] = char[q]
      BY <2>2 DEF LeaveCharselect, Gone, TypeData
    <3>4. QED
      BY <2>1, <3>1, <3>2, <3>3
         DEF HasPicked, Held, Survivors, Players, ExeOK, TypeData
  <2>3. ASSUME NEW p \in Peer, RequestExe(p)
        PROVE  /\ exe \in Players(peers)' /\ exe \in (armed' \ refused') \cup refused
               /\ ~strayed' => \A q \in Survivors' : char'[q] # NoChar
    <3>1. Starts(peers, char, armed') /\ refused' = refused \ {exe}
      BY <2>3, CheckStateCases DEF RequestExe, LobbyInit
    <3>2. /\ peers' = peers /\ afk' = afk /\ char' = char
          /\ armed' = armed \cup {exe}
      BY <2>3 DEF RequestExe
    <3>3. QED
      BY <2>1, <3>1, <3>2 DEF HasPicked, Held, Survivors, Players, ExeOK, TypeData
  <2>4. ASSUME NEW p \in Peer, NEW c \in Char, Request(p, c)
        PROVE  /\ exe \in Players(peers)' /\ exe \in (armed' \ refused') \cup refused
               /\ ~strayed' => \A q \in Survivors' : char'[q] # NoChar
    <3>1. Starts(peers, char', armed)
      BY <2>4, CheckStateCases DEF Request, LobbyInit
    <3>2. /\ peers' = peers /\ afk' = afk /\ p # exe
          /\ armed' = armed /\ refused' = refused
          /\ \A q \in Peer \ {p} : char'[q] = char[q]
      BY <2>4 DEF Request, TypeData
    <3>3. QED
      BY <2>1, <3>1, <3>2 DEF HasPicked, Held, Survivors, Players, ExeOK, TypeData
  <2>5. QED
    BY <2>2, <2>3, <2>4
       DEF Next, Leave, Join, LeaveQuietly, LobbyInit, ToggleAfk, Draw, BackToLobby
<1>2. QED
  BY <1>1, AlwaysClean, PTL DEF Spec, NobodyAwaited
=============================================================================
