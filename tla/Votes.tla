-------------------------------- MODULE Votes --------------------------------
(***************************************************************************)
(* The votes of the chat: .vk and its answer call a vote to kick, .vp one  *)
(* for practice, .mapdraft one for a draft; .yes (or calling again) is a   *)
(* vote.  One vote runs at a time, in the lobby, until it is full or its   *)
(* time is up.  Peers come, go and toggle .afk meanwhile, and an id goes   *)
(* to the next who connects, so a person is an id and a connection number. *)
(* Everything happens under the lobby's lock; who is being disconnected is *)
(* heard no more.  A tick stands for ten seconds, the delay before         *)
(* practice for one tick.  What a vote leaves behind when it is over (its  *)
(* type and votes, can_vote, kick_target) is read by nobody before the     *)
(* next one sets it anew, and is forgotten here.                           *)
(***************************************************************************)
EXTENDS Naturals, Sequences, FiniteSets

CONSTANTS
    Slots,      \* ids of a lobby (7)
    Gens,       \* bound: connections of every id
    Ops,        \* bound: ids an operator may have
    Afkers,     \* bound: ids that may use .afk
    Window,     \* ticks a vote runs (20 s)
    Pause       \* ticks until somebody may call another one (30 s)

ASSUME VotesAssumption ==
    /\ Slots \in Nat \ {0} /\ Gens \in [1..Slots -> Nat]
    /\ Ops \subseteq 1..Slots /\ Afkers \subseteq 1..Slots
    /\ Window \in Nat \ {0} /\ Pause \in Nat \ {0}

VARIABLES
    here,       \* ids on the list of peers
    gen,        \* connections an id has had: tells persons apart
    afk, op,    \* ids with the flag
    canVote,    \* v->can_vote
    cool,       \* v->vote_cooldown
    closing,    \* v->disconnecting, set by a vote
    vote,       \* lobby.vote
    target,     \* lobby.kick_target
    prac,       \* lobby.prac_countdown
    draft,      \* lobby.mapdraft
    inLobby,    \* state = ST_LOBBY
    called      \* gen when the last vote was called, and whom it names

peerVars == <<here, gen, afk, op>>
lobbyVars == <<prac, draft, inLobby>>
vars == <<peerVars, canVote, cool, closing, vote, target, lobbyVars, called>>

Id == 1..Slots
Types == {"kick", "practice", "draft"}
Nobody == [id |-> 0, gen |-> 0]
Person(i) == [id |-> i, gen |-> gen[i]]

NoVote == [type |-> "kick", ongoing |-> FALSE, votes |-> << >>,
           total |-> 0, left |-> 0]
NoCall == [gens |-> [i \in Id |-> 0], whom |-> Nobody]

Init ==
    /\ here = {} /\ afk = {} /\ op = {} /\ canVote = {} /\ closing = {}
    /\ gen = [i \in Id |-> 0]
    /\ cool = [i \in Id |-> 0]
    /\ vote = NoVote /\ target = Nobody
    /\ prac = 0 /\ draft = FALSE /\ inLobby = TRUE
    /\ called = NoCall

----------------------------------------------------------------------------
(* vote_init: who may vote; afk peers may, but do not raise the total.     *)
MayVote(id) == here \ {id}
Total(id) == Cardinality(MayVote(id) \ afk)

(* vote_add: the vote with the id added.                                   *)
HasVoted(w, i) == \E n \in 1..Len(w.votes) : w.votes[n] = i
Add(w, i) == IF HasVoted(w, i) THEN w ELSE [w EXCEPT !.votes = Append(@, i)]

(* Mutant of Full: the last vote is waited for once more.                  *)
FullLate(w) == Len(w.votes) > w.total

(* VOTE_FULL of vote_add, and vote_check.                                  *)
Full(w) == Len(w.votes) >= w.total
Carried(w) == 2 * Len(w.votes) > w.total

(* A peer that is heard, in the lobby.                                     *)
Speaks(i) == inLobby /\ i \in here \ closing

Forget == /\ vote' = NoVote /\ canVote' = {} /\ target' = Nobody
          /\ called' = NoCall

(* lobby_check_vote: a vote to kick disconnects whoever has the id of the  *)
(* target now.                                                             *)
Decide(w) ==
    /\ Forget
    /\ closing' = IF Carried(w) /\ w.type = "kick"
                  THEN closing \cup ({target.id} \cap here) ELSE closing
    /\ prac' = IF Carried(w) /\ w.type = "practice" THEN 1 ELSE prac
    /\ draft' = (draft \/ (Carried(w) /\ w.type = "draft"))

(* A vote is called, by somebody who has not called one lately, if two may *)
(* vote: the caller's vote counts at once, be he afk or the target.        *)
Call(i, type, id) ==
    /\ Speaks(i)
    /\ cool[i] = 0
    /\ Total(id) > 1
    /\ canVote' = MayVote(id)
    /\ called' = [gens |-> gen,
                  whom |-> IF id = 0 THEN Nobody ELSE Person(id)]
    /\ vote' = [type |-> type, ongoing |-> TRUE, votes |-> <<i>>,
                total |-> Total(id), left |-> Window]
    /\ cool' = [cool EXCEPT ![i] = Pause]

----------------------------------------------------------------------------
(* .yes; also .vp and the answer to .vk while a vote is going on, with the *)
(* id of the last target, whatever the vote is about.                      *)
SayYes(i) ==
    /\ Speaks(i) /\ vote.ongoing
    /\ i \in canVote \ afk
    /\ LET w == Add(vote, i) IN
       IF ~HasVoted(vote, i) /\ Full(w)
       THEN Decide(w)
       ELSE /\ vote' = w
            /\ UNCHANGED <<canVote, target, called, closing, prac, draft>>
    /\ UNCHANGED <<peerVars, cool, inLobby>>

(* Mutant of CallMapdraft: a vote that is going on is called anew.         *)
CallMapdraftAnew(i) ==
    /\ ~draft /\ i \notin op
    /\ Call(i, "draft", 0)
    /\ UNCHANGED <<peerVars, closing, target, lobbyVars>>

(* .mapdraft of somebody who is no operator, and of an operator.           *)
CallMapdraft(i) ==
    /\ ~draft /\ i \notin op
    /\ ~vote.ongoing
    /\ Call(i, "draft", 0)
    /\ UNCHANGED <<peerVars, closing, target, lobbyVars>>

ArmMapdraft(i) ==
    /\ Speaks(i)
    /\ ~draft /\ i \in op
    /\ draft' = TRUE
    /\ UNCHANGED <<peerVars, canVote, cool, closing, vote, target, prac,
                   inLobby, called>>

(* .vp                                                                     *)
CallPractice(i) ==
    /\ ~vote.ongoing
    /\ Call(i, "practice", 0)
    /\ UNCHANGED <<peerVars, closing, target, lobbyVars>>

(* Mutant of ChooseKick: the target is noted before anything is checked.   *)
ChooseKickFirst(i, id) ==
    /\ Speaks(i)
    /\ id \in here \ op
    /\ target' = Person(id)
    /\ IF vote.ongoing THEN UNCHANGED <<canVote, cool, vote, called>>
                       ELSE Call(i, "kick", id)
    /\ UNCHANGED <<peerVars, closing, lobbyVars>>

(* The answer to .vk while no vote is going on.                            *)
ChooseKick(i, id) ==
    /\ ~vote.ongoing
    /\ id \in here \ op
    /\ target' = Person(id)
    /\ Call(i, "kick", id)
    /\ UNCHANGED <<peerVars, closing, lobbyVars>>

----------------------------------------------------------------------------
(* .afk: in the lobby, or elsewhere, where it is not refused.              *)
ToggleAfk(i) ==
    /\ i \in here \ closing /\ i \in Afkers
    /\ afk' = IF i \in afk THEN afk \ {i} ELSE afk \cup {i}
    /\ UNCHANGED <<here, gen, op, canVote, cool, closing, vote, target,
                   lobbyVars, called>>

(* Mutant of Join: the flag of whoever had the id before is left alone.    *)
JoinMayVote(i) ==
    /\ i \notin here /\ gen[i] < Gens[i]
    /\ here' = here \cup {i}
    /\ gen' = [gen EXCEPT ![i] = @ + 1]
    /\ op' \in {op, op \cup ({i} \cap Ops)}
    /\ cool' = [cool EXCEPT ![i] = 0]
    /\ UNCHANGED <<afk, canVote, closing, vote, target, lobbyVars, called>>

(* A connection gets a free id and a PeerData of zeros.                    *)
Join(i) ==
    /\ i \notin here /\ gen[i] < Gens[i]
    /\ here' = here \cup {i}
    /\ gen' = [gen EXCEPT ![i] = @ + 1]
    /\ op' \in {op, op \cup ({i} \cap Ops)}
    /\ cool' = [cool EXCEPT ![i] = 0]
    /\ canVote' = canVote \ {i}
    /\ UNCHANGED <<afk, closing, vote, target, lobbyVars, called>>

(* A peer goes; a vote keeps his vote and its total.                       *)
Leave(i) ==
    /\ i \in here
    /\ here' = here \ {i}
    /\ afk' = afk \ {i} /\ op' = op \ {i} /\ closing' = closing \ {i}
    /\ UNCHANGED <<gen, canVote, cool, vote, target, lobbyVars, called>>

(* The lobby is left: for practice, by an operator's .map or the countdown *)
(* of a match; or by that of a draft, which ends the vote.                 *)
Depart ==
    /\ inLobby' = FALSE
    /\ UNCHANGED <<vote, canVote, target, called, prac, draft>>
DepartToDraft ==
    /\ draft
    /\ inLobby' = FALSE /\ draft' = FALSE /\ prac' = 0
    /\ Forget

Go ==
    /\ inLobby
    /\ Depart \/ DepartToDraft
    /\ UNCHANGED <<peerVars, cool, closing>>

(* lobby_init, at once when what the lobby was left for fails to start;    *)
(* or mapdraft_finish.                                                     *)
Return ==
    /\ ~inLobby
    /\ inLobby' = TRUE /\ prac' = 0
    /\ Forget
    /\ UNCHANGED <<peerVars, cool, closing, draft>>

(* lobby_state_tick                                                        *)
Tick ==
    /\ inLobby
    /\ cool' = [i \in Id |-> IF i \in here /\ cool[i] > 0 THEN cool[i] - 1
                                                          ELSE cool[i]]
    /\ IF prac > 0
       THEN /\ prac' = 0 /\ inLobby' = FALSE
            /\ UNCHANGED <<vote, canVote, target, called, closing, draft>>
       ELSE LET w == [vote EXCEPT !.left = @ - 1] IN
            /\ UNCHANGED inLobby
            /\ IF vote.ongoing /\ w.left = 0
               THEN Decide(w)
               ELSE /\ vote' = IF vote.ongoing THEN w ELSE vote
                    /\ UNCHANGED <<canVote, target, called, closing, prac, draft>>
    /\ UNCHANGED peerVars

Peers ==
    \E i \in Id :
       \/ SayYes(i) \/ CallMapdraft(i) \/ ArmMapdraft(i) \/ CallPractice(i)
       \/ \E id \in Id : ChooseKick(i, id)
       \/ ToggleAfk(i) \/ Join(i) \/ Leave(i)

Next == Peers \/ Go \/ Return \/ Tick

Spec == Init /\ [][Next]_vars

(* The worker ticks, and every phase of a match ends.                      *)
FairSpec == Spec /\ WF_vars(Tick) /\ WF_vars(Return)

----------------------------------------------------------------------------
(* Type invariant.                                                         *)
TypeOK ==
    /\ here \subseteq Id /\ afk \subseteq Id /\ op \subseteq Id
    /\ canVote \subseteq Id /\ closing \subseteq here
    /\ gen \in [Id -> Nat]
    /\ cool \in [Id -> 0..Pause]
    /\ vote \in [type : Types, ongoing : BOOLEAN, votes : Seq(Id),
                 total : Nat, left : 0..Window]
    /\ target \in [id : 0..Slots, gen : Nat]
    /\ prac \in 0..1 /\ draft \in BOOLEAN /\ inLobby \in BOOLEAN
    /\ called \in [gens : [Id -> Nat], whom : [id : 0..Slots, gen : Nat]]

(* A vote that goes on lacks at least one vote, so that there is room for  *)
(* it in the array: though who is afk at the call may vote without being   *)
(* counted, it never runs past its total unnoticed.                        *)
VotesFit ==
    vote.ongoing => Len(vote.votes) < vote.total /\ vote.total <= Slots

(* Nobody votes twice, and only who was there at the call: not by leaving  *)
(* and coming back, nor with the id of somebody who left.                  *)
OneVoteEach ==
    /\ \A m, n \in 1..Len(vote.votes) : vote.votes[m] = vote.votes[n] => m = n
    /\ \A i \in here \cap canVote : gen[i] = called.gens[i]

(* Whom a vote throws out is the one it was called against; if he has left *)
(* it may be the next with his id, nobody else.  Nobody joined in against  *)
(* himself.                                                                *)
KickHits ==
    [][\A i \in closing' \ closing :
          /\ i = called.whom.id
          /\ called.whom = Person(i) \/ gen[i] > called.whom.gen
          /\ \A n \in 2..Len(vote.votes) : vote.votes[n] # i]_vars

(* A vote ends, however it is joined, left or called meanwhile.            *)
VoteEnds == vote.ongoing ~> ~vote.ongoing
=============================================================================
