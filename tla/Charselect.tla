----------------------------- MODULE Charselect ----------------------------
(***************************************************************************)
(* The characters of a lobby (CharSelect.c).  Who has which character is   *)
(* kept twice: surv_char in every peer, and avail in the lobby.  The two   *)
(* are set up for the players who are not afk when the exe is drawn; a     *)
(* peer who is afk at that moment keeps the character of an earlier match, *)
(* or Tails, as which a zeroed PeerData reads.                             *)
(*                                                                         *)
(* The phases before the select count as the lobby, the ones after it as   *)
(* the match.  Who is drawn is any player; module Match has the draw's     *)
(* other ends.                                                             *)
(***************************************************************************)
EXTENDS Naturals, FiniteSets

CONSTANTS
    Peer,        \* peer ids (ENet slots)
    NoPeer,      \* nobody is the exe
    Cap,         \* capacity of Server.peers (7)
    Char,        \* the survivors' characters, CH_TAILS to CH_JOKER
    NoChar,      \* CH_NONE
    Tails,       \* CH_TAILS, which is zero
    Afkers,      \* the peers that use .afk
    Console      \* TRUE: the host uses the console's .map in any phase

ASSUME CharAssumption ==
    /\ IsFiniteSet(Peer) /\ NoPeer \notin Peer
    /\ IsFiniteSet(Char) /\ NoChar \notin Char /\ Tails \in Char
    /\ Cap \in Nat /\ Cardinality(Char) >= Cap  \* seven and seven
    /\ Afkers \subseteq Peer
    /\ Console \in BOOLEAN

VARIABLES
    phase,       \* "LOBBY", "CHARSELECT" or "GAME"
    peers,       \* Server.peers
    inGame,      \* peers with in_game
    afk,         \* peers with afk
    char,        \* surv_char of every peer
    armed,       \* peers with exe_char other than EX_NONE
    refused,     \* those of armed whose exe_char is none of the exe's characters
    exe,         \* lobby.exe
    avail,       \* lobby.avail
    strayed      \* history: a kept character has come into this select

vars == <<phase, peers, inGame, afk, char, armed, refused, exe, avail, strayed>>

----------------------------------------------------------------------------
(* Server_ingame over the list P.                                          *)
Players(P) == (P \cap inGame) \ afk

HasPicked(p, C, A) == C[p] # NoChar \/ p \in A

LobbyInit(P) ==
    /\ phase' = "LOBBY"
    /\ inGame' = P
    /\ exe' = NoPeer

(* Mutant of CheckState: the exe is not waited for.                        *)
CheckStateSurvivors(P, C, A) ==
    IF \A p \in Players(P) \ {exe} : HasPicked(p, C, A)
    THEN IF Cardinality(Players(P)) > 1
         THEN phase' = "GAME" /\ inGame' = Players(P) /\ UNCHANGED exe
         ELSE LobbyInit(P)
    ELSE inGame' = inGame \cap P /\ UNCHANGED <<phase, exe>>

(* charselect_check_state || lobby_init for the list P, the characters C   *)
(* and the exe's A: game_init makes the afk peers spectators.              *)
CheckState(P, C, A) ==
    IF \A p \in Players(P) : HasPicked(p, C, A)
    THEN IF Cardinality(Players(P)) > 1
         THEN phase' = "GAME" /\ inGame' = Players(P) /\ UNCHANGED exe
         ELSE LobbyInit(P)
    ELSE inGame' = inGame \cap P /\ UNCHANGED <<phase, exe>>

Init ==
    /\ phase = "LOBBY"
    /\ peers = {} /\ inGame = {} /\ afk = {}
    /\ char = [p \in Peer |-> NoChar] /\ armed = {} /\ refused = {}
    /\ exe = NoPeer
    /\ avail = Char
    /\ strayed = FALSE

(* A newcomer, who plays if the lobby itself is open.                      *)
Join(p) ==
    /\ p \notin peers
    /\ Cardinality(peers) < Cap
    /\ peers' = peers \cup {p}
    /\ char' = [char EXCEPT ![p] = Tails]
    /\ armed' = armed \cup {p}
    /\ inGame' \in IF phase = "LOBBY" THEN {inGame, inGame \cup {p}} ELSE {inGame}
    /\ UNCHANGED <<phase, afk, refused, exe, avail, strayed>>

(* The list without p.                                                     *)
Gone(p) ==
    /\ p \in peers
    /\ peers' = peers \ {p}
    /\ afk' = afk \ {p}
    /\ char' = [char EXCEPT ![p] = NoChar]
    /\ armed' = armed \ {p} /\ refused' = refused \ {p}

(* Before the select, after it, or as a spectator; too few may be left.    *)
LeaveQuietly(p) ==
    /\ Gone(p)
    /\ phase # "CHARSELECT" \/ p \notin inGame
    /\ \/ inGame' = inGame \ {p} /\ UNCHANGED <<phase, exe>>
       \/ p \in inGame /\ LobbyInit(peers \ {p})
    /\ UNCHANGED <<avail, strayed>>

(* Mutant of Release: nothing is given back.                               *)
ReleaseNothing(p) == UNCHANGED <<avail, strayed>>

(* The leaver's character is free again, whoever else has it.              *)
Release(p) ==
    /\ avail' = IF char[p] = NoChar THEN avail ELSE avail \cup {char[p]}
    /\ strayed' = (strayed \/ (p \in afk /\ char[p] # NoChar))

(* charselect_state_left                                                   *)
LeaveCharselect(p) ==
    /\ phase = "CHARSELECT" /\ p \in inGame
    /\ Gone(p)
    /\ Release(p)
    /\ IF Cardinality(Players(peers \ {p})) <= 1 \/ p = exe
       THEN LobbyInit(peers \ {p})
       ELSE CheckState(peers \ {p}, char, armed)

Leave(p) == LeaveQuietly(p) \/ LeaveCharselect(p)

(* .afk                                                                    *)
ToggleAfk(p) ==
    /\ p \in peers \cap Afkers
    /\ ~(phase = "GAME" /\ p \in inGame)
    /\ ~(phase = "CHARSELECT" /\ p \notin afk)
    /\ afk' = IF p \in afk THEN afk \ {p} ELSE afk \cup {p}
    /\ strayed' = (strayed \/ (phase = "CHARSELECT" /\ p \in inGame))
    /\ UNCHANGED <<phase, peers, inGame, char, armed, refused, exe, avail>>

(* Mutant of Draw: what was taken stays taken.                             *)
DrawKeepsTaken(x) ==
    /\ phase = "LOBBY" \/ Console
    /\ x \in Players(peers)
    /\ phase' = "CHARSELECT"
    /\ exe' = x
    /\ char' = [p \in Peer |-> IF p \in Players(peers) THEN NoChar ELSE char[p]]
    /\ armed' = armed \ Players(peers) /\ refused' = refused \ Players(peers)
    /\ strayed' = FALSE
    /\ UNCHANGED <<peers, inGame, afk, avail>>

(* charselect_init when the draw lands on x: the players' characters are   *)
(* reset, and all of them are free.                                        *)
Draw(x) ==
    /\ phase = "LOBBY" \/ Console
    /\ x \in Players(peers)
    /\ phase' = "CHARSELECT"
    /\ exe' = x
    /\ char' = [p \in Peer |-> IF p \in Players(peers) THEN NoChar ELSE char[p]]
    /\ armed' = armed \ Players(peers) /\ refused' = refused \ Players(peers)
    /\ avail' = Char
    /\ strayed' = FALSE
    /\ UNCHANGED <<peers, inGame, afk>>

(* CLIENT_REQUEST_EXECHARACTER.  A character out of range is stored before *)
(* it is refused; then the state is not checked, and neither is it if the  *)
(* answer cannot be sent.                                                  *)
RequestExe(p) ==
    /\ phase = "CHARSELECT"
    /\ p \in Players(peers) /\ p = exe
    /\ armed' = armed \cup {p}
    /\ \/ /\ refused' = refused \ {p}
          /\ CheckState(peers, char, armed') \/ UNCHANGED <<phase, inGame, exe>>
       \/ /\ refused' = refused \cup {p}
          /\ UNCHANGED <<phase, inGame, exe>>
    /\ UNCHANGED <<peers, afk, char, avail, strayed>>

(* Mutant of Request: the character stays on offer.                        *)
RequestShared(p, c) ==
    /\ phase = "CHARSELECT"
    /\ p \in Players(peers) /\ p # exe /\ char[p] = NoChar
    /\ c \in avail
    /\ char' = [char EXCEPT ![p] = c]
    /\ CheckState(peers, char', armed)
    /\ UNCHANGED <<peers, afk, armed, refused, avail, strayed>>

(* CLIENT_REQUEST_CHARACTER; a character that is taken is refused, and the *)
(* state is checked all the same.                                          *)
Request(p, c) ==
    /\ phase = "CHARSELECT"
    /\ p \in Players(peers) /\ p # exe /\ char[p] = NoChar
    /\ IF c \in avail
       THEN avail' = avail \ {c} /\ char' = [char EXCEPT ![p] = c]
       ELSE UNCHANGED <<avail, char>>
    /\ CheckState(peers, char', armed)
    /\ UNCHANGED <<peers, afk, armed, refused, strayed>>

(* lobby_init, from a vote that is off or a match that is over.            *)
BackToLobby ==
    /\ phase # "CHARSELECT" /\ peers # {}
    /\ LobbyInit(peers)
    /\ UNCHANGED <<peers, afk, char, armed, refused, avail, strayed>>

Next ==
    \/ \E p \in Peer : Join(p) \/ Leave(p) \/ ToggleAfk(p)
    \/ \E x \in Peer : Draw(x) \/ RequestExe(x)
    \/ \E p \in Peer, c \in Char : Request(p, c)
    \/ BackToLobby

Spec == Init /\ [][Next]_vars

----------------------------------------------------------------------------
(* Type invariant.                                                         *)
TypeOK ==
    /\ phase \in {"LOBBY", "CHARSELECT", "GAME"}
    /\ peers \subseteq Peer
    /\ inGame \subseteq peers /\ afk \subseteq peers
    /\ armed \subseteq peers /\ refused \subseteq armed
    /\ char \in [Peer -> Char \cup {NoChar}]
    /\ exe \in Peer \cup {NoPeer}
    /\ avail \subseteq Char
    /\ strayed \in BOOLEAN

Survivors == Players(peers) \ {exe}

(* A character that is refused to a player is held by another survivor:    *)
(* nobody's leaving keeps a character blocked.                             *)
NoGhost ==
    phase = "CHARSELECT" =>
        \A c \in Char \ avail : \E p \in Survivors : char[p] = c

(* A player who has still to choose finds a character to choose, although  *)
(* every packet may ask for any of them.                                   *)
SomeFree ==
    phase = "CHARSELECT" =>
        \A p \in Survivors : char[p] = NoChar => avail # {}

(* No two survivors have the same character, in the select and in the      *)
(* match, unless a peer who was afk when the exe was drawn came back or    *)
(* left during the select.                                                 *)
Unique ==
    phase # "LOBBY" /\ ~strayed =>
        \A p, q \in Survivors : p # q /\ char[p] = char[q] => char[p] = NoChar

(* A match begins only when nobody is awaited any more.  Every survivor    *)
(* holds a character, with the same exception.  The exe is there and has   *)
(* sent a choice: a character there is, or one that was refused before.  A *)
(* request that is refused starts no match itself; but the next survivor's *)
(* request, or a survivor's leave, does, with the refused exe.             *)
NobodyAwaited ==
    [][phase = "CHARSELECT" /\ phase' = "GAME" =>
        /\ exe \in Players(peers)'
        /\ exe \in (armed' \ refused') \cup refused
        /\ ~strayed' => \A p \in Survivors' : char'[p] # NoChar]_vars

(* The match starts once every regular player has picked: its exe has a    *)
(* character there is.                                                     *)
ExeChosen ==
    [][phase = "CHARSELECT" /\ phase' = "GAME" => exe \notin refused']_vars

(* The match starts once every regular player has picked: nobody plays a   *)
(* survivor without a character.                                           *)
RegularsPicked ==
    [][phase = "CHARSELECT" /\ phase' = "GAME" =>
        \A p \in Survivors' : char'[p] # NoChar]_vars
=============================================================================
