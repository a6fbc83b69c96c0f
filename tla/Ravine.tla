------------------------------- MODULE Ravine -------------------------------
(***************************************************************************)
(* A match on the map Ravine Mist: module Round, whose handlers call the   *)
(* map's, with the entities the two keep on one list: shards, rings, slugs *)
(* and their spawners.  The big ring opens in the last seconds, and only   *)
(* while enough shards are off the ground; whoever dies or leaves drops    *)
(* what he carries, so it may close again.                                 *)
(*                                                                         *)
(* The packets name an entity by its id, and game_despawn takes whatever   *)
(* has that id off the list: a packet about a ring or a slug may take a    *)
(* shard or a spawner, and any entity may be collected as a shard.         *)
(*                                                                         *)
(* A shard keeps its identity here when it is despawned on one place and   *)
(* spawned on another.  Where entities are, and what a slug is worth, is   *)
(* left out; a spawner's timers may or may not have run out.               *)
(***************************************************************************)
EXTENDS Round

CONSTANTS
    Shard,      \* the shards (7)
    Extra,      \* bound: entities of another kind collected as shards
    Needed,     \* how many must be off the ground to open the big ring (6)
    ShowSecs,   \* TICKSPERSEC: the big ring is shown (60)
    OpenSecs,   \* TICKSPERSEC - 10: and may open (50)
    Slot,       \* places of rings: ring_count of the map (27)
    RingEvery,  \* game.ring_coff: seconds between two rings
    Spawner,    \* spawners of slugs (11)
    Slug        \* ids of slugs; more than spawners, as dead ones' are not reused

ASSUME RavineAssumption ==
    /\ IsFiniteSet(Shard) /\ IsFiniteSet(Extra) /\ Shard \cap Extra = {}
    /\ Needed \in Nat
    /\ OpenSecs \in Nat /\ ShowSecs \in Nat
    /\ OpenSecs < ShowSecs /\ ShowSecs < RoundSecs
    /\ RingEvery \in Nat \ {0}

VARIABLES
    ground,     \* shard entities
    carried,    \* plr.data[0] of every peer: the shards he has
    made,       \* history: those of Extra that have been collected
    lost,       \* history: shards taken off the list, but not collected
    bring,      \* game.bring_state
    unseen,     \* history: a shard was lost since bring_state was last set
    rings,      \* game.rings: the slots that are taken
    lying,      \* number of ring entities of every slot
    slugs,      \* slug entities
    spawners,   \* spawner entities
    home        \* the slug of every spawner: a set of one, or none; of a
                \* spawner off the list, the slug that has lost it

shards == <<ground, carried, made, lost>>
bigRing == <<bring, unseen>>
shardVars == <<shards, bigRing>>
ringVars == <<rings, lying>>
slugVars == <<slugs, spawners, home>>
mapVars == <<shardVars, ringVars, slugVars>>
ravineVars == <<vars, mapVars>>

(* 7 - game_find("shard", 7): how many are off the ground.                 *)
Off(g) ==
    IF Cardinality(g) < Cardinality(Shard)
    THEN Cardinality(Shard) - Cardinality(g) ELSE 0

----------------------------------------------------------------------------
(* Mutant of Drop: the counter stays.                                      *)
DropKeeps(p) ==
    /\ ground' = ground \cup carried[p]
    /\ UNCHANGED <<carried, made, lost>>

(* rmz_spawnshards                                                         *)
Drop(p) ==
    /\ ground' = ground \cup carried[p]
    /\ carried' = [carried EXCEPT ![p] = {}]
    /\ UNCHANGED <<made, lost>>

(* rmz_checkstate                                                          *)
CheckState ==
    /\ bring' = CASE timeSec > OpenSecs -> bring
                  [] timeSec <= OpenSecs /\ Off(ground') >= Needed -> "ACTIVATED"
                  [] timeSec <= OpenSecs /\ Off(ground') < Needed -> "DEACTIVATED"
    /\ unseen' = FALSE

(* rmz_tick, which only ever opens the big ring                            *)
MapTick ==
    /\ bring' = CASE timeSec' <= OpenSecs /\ Off(ground) >= Needed -> "ACTIVATED"
                  [] timeSec' <= ShowSecs /\ bring = "NONE"
                     /\ ~(timeSec' <= OpenSecs /\ Off(ground) >= Needed) -> "DEACTIVATED"
                  [] OTHER -> bring
    /\ unseen' = FALSE

(* A list with nothing on it: game_init; game_uninit frees what it had.    *)
NoEntities ==
    /\ ground' = {} /\ carried' = [p \in Peer |-> {}]
    /\ made' = {} /\ lost' = {}
    /\ bring' = "NONE" /\ unseen' = FALSE
    /\ rings' = {} /\ lying' = [s \in Slot |-> 0]
    /\ slugs' = {} /\ spawners' = {} /\ home' = [s \in Spawner |-> {}]

(* rmz_init                                                                *)
Populate ==
    /\ ground' = Shard
    /\ spawners' = Spawner
    /\ UNCHANGED <<carried, made, lost, bigRing, ringVars, slugs, home>>

RavineInit ==
    /\ Init
    /\ ground = {} /\ carried = [p \in Peer |-> {}]
    /\ made = {} /\ lost = {}
    /\ bring = "NONE" /\ unseen = FALSE
    /\ rings = {} /\ lying = [s \in Slot |-> 0]
    /\ slugs = {} /\ spawners = {} /\ home = [s \in Spawner |-> {}]

MapGameInit(P, x) == GameInit(P, x) /\ NoEntities

MapStart == Start /\ Populate

----------------------------------------------------------------------------
(* Mutant of DespawnRing: the slot stays taken.                            *)
DespawnRingKeeps(s) ==
    /\ lying[s] > 0
    /\ lying' = [lying EXCEPT ![s] = @ - 1]
    /\ UNCHANGED <<rings, slugVars>>

(* game_despawn of a ring: ring_uninit frees the slot.                     *)
DespawnRing(s) ==
    /\ lying[s] > 0
    /\ lying' = [lying EXCEPT ![s] = @ - 1]
    /\ rings' = rings \ {s}
    /\ UNCHANGED slugVars

(* game_despawn of a slug: slug_uninit frees its spawner, if there is one. *)
DespawnSlug(id) ==
    /\ id \in slugs
    /\ slugs' = slugs \ {id}
    /\ home' = [s \in Spawner |-> home[s] \ {id}]
    /\ UNCHANGED <<spawners, ringVars>>

(* game_despawn of a spawner, which has no uninit: no slug comes from it   *)
(* any more, and its last one stays.                                       *)
DespawnSpawner(s) ==
    /\ s \in spawners
    /\ spawners' = spawners \ {s}
    /\ UNCHANGED <<slugs, home, ringVars>>

(* game_despawn of an entity that is not a shard: one of the map's, or one *)
(* that a character put there.                                             *)
DespawnOther ==
    \/ \E s \in Slot : DespawnRing(s)
    \/ \E id \in Slug : DespawnSlug(id)
    \/ \E s \in Spawner : DespawnSpawner(s)
    \/ UNCHANGED <<ringVars, slugVars>>

(* game_despawn of any entity by a packet that is not about shards: the    *)
(* map does not look at the big ring.                                      *)
Despawn ==
    \/ DespawnOther /\ UNCHANGED shardVars
    \/ /\ \E s \in ground : ground' = ground \ {s} /\ lost' = lost \cup {s}
       /\ unseen' = TRUE
       /\ UNCHANGED <<carried, made, bring, ringVars, slugVars>>

(* CLIENT_RMZSHARD_COLLECT of a shard that is there: of two who collect it *)
(* the second finds nothing.                                               *)
Collect(p, s) ==
    /\ started /\ ending = "none"
    /\ p \in players /\ s \in ground
    /\ ground' = ground \ {s}
    /\ carried' = [carried EXCEPT ![p] = @ \cup {s}]
    /\ CheckState
    /\ UNCHANGED <<vars, made, lost, ringVars, slugVars>>

(* CLIENT_RMZSHARD_COLLECT of another entity, which counts as a shard from *)
(* then on.                                                                *)
CollectOther(p, x) ==
    /\ started /\ ending = "none"
    /\ p \in players /\ x \in Extra \ made
    /\ DespawnOther
    /\ made' = made \cup {x}
    /\ carried' = [carried EXCEPT ![p] = @ \cup {x}]
    /\ UNCHANGED ground /\ CheckState
    /\ UNCHANGED <<vars, lost>>

(* CLIENT_PLAYER_DEATH_STATE: the map's handler after the match's, unless  *)
(* that one has ended the match.                                           *)
MapDie(p) ==
    /\ Die(p)
    /\ IF started /\ ending' = "none"
       THEN Drop(p) /\ CheckState
       ELSE UNCHANGED shardVars
    /\ UNCHANGED <<ringVars, slugVars>>

MapUndie(p) ==
    /\ Undie(p)
    /\ UNCHANGED shards
    /\ IF started /\ ending' = "none" THEN CheckState ELSE UNCHANGED bigRing
    /\ UNCHANGED <<ringVars, slugVars>>

(* The same packet from somebody who is dead or has escaped: the match's   *)
(* handler stops there, the map's does not.                                *)
DieTwice(p) ==
    /\ started /\ ending = "none"
    /\ p \in Survivors \cap (dead \cup escaped)
    /\ p \notin demonized
    /\ Drop(p)
    /\ CheckState
    /\ UNCHANGED <<vars, ringVars, slugVars>>

(* Mutant of MapLeave: the shards fall, the big ring is not looked at.     *)
MapLeaveUnchecked(p) ==
    /\ Leave(p)
    /\ IF stage' = "LOBBY" THEN NoEntities
       ELSE /\ IF started' /\ ~started
               THEN Populate
               ELSE Drop(p) /\ UNCHANGED <<bigRing, ringVars, slugVars>>

(* game_state_left: rmz_left, if the match is on; or the match starts with *)
(* the leave, or is called off.                                            *)
MapLeave(p) ==
    /\ Leave(p)
    /\ \/ /\ stage' = "LOBBY"
          /\ NoEntities
       \/ /\ stage' = "GAME" /\ ending = "none" /\ started
          /\ Drop(p) /\ CheckState
          /\ UNCHANGED <<ringVars, slugVars>>
       \/ /\ stage' = "GAME" /\ ~started
          /\ IF started' THEN Populate ELSE UNCHANGED mapVars
       \/ /\ stage' = "GAME" /\ ending # "none" /\ started
          /\ carried' = [carried EXCEPT ![p] = {}]      \* gone with him
          /\ UNCHANGED <<ground, made, lost, bigRing, ringVars, slugVars>>

(* Packets and commands the map takes no notice of.                        *)
Unheard ==
    /\ \/ \E p \in Peer : Escape(p) \/ Revive(p)
       \/ ForceEnd
    /\ UNCHANGED mapVars

----------------------------------------------------------------------------
(* ring_init: a free slot, if there is one.                                *)
SpawnRing ==
    \/ rings = Slot /\ UNCHANGED ringVars
    \/ \E s \in Slot \ rings :
          /\ rings' = rings \cup {s}
          /\ lying' = [lying EXCEPT ![s] = @ + 1]

(* The tick on which time_sec drops.                                       *)
MapSecond ==
    /\ Second
    /\ IF timeSec' % RingEvery = 0 THEN SpawnRing ELSE UNCHANGED ringVars
    /\ MapTick
    /\ UNCHANGED <<shards, slugVars>>

(* The tick on which a corpse's timer drops.                               *)
MapDeathSecond(p) ==
    /\ DeathSecond(p)
    /\ MapTick
    /\ UNCHANGED <<shards, ringVars, slugVars>>

(* slugspawn_tick with the timers run out.                                 *)
SpawnSlug(s) ==
    /\ s \in spawners /\ home[s] = {}
    /\ \E id \in Slug \ slugs :
          /\ slugs' = slugs \cup {id}
          /\ home' = [home EXCEPT ![s] = {id}]
    /\ UNCHANGED spawners

(* Any other tick.                                                         *)
MapOtherTick ==
    /\ started /\ ending = "none"
    /\ (\E s \in Spawner : SpawnSlug(s)) \/ UNCHANGED slugVars
    /\ UNCHANGED vars
    /\ MapTick
    /\ UNCHANGED <<shards, ringVars>>

(* CLIENT_RMZSLIME_HIT                                                     *)
HitSlug ==
    /\ started /\ ending = "none" /\ players # {}
    /\ Despawn
    /\ UNCHANGED vars

(* CLIENT_RING_COLLECTED, CLIENT_BRING_COLLECTED and                       *)
(* CLIENT_EXELLER_TELEPORT_CLONE, also after the end.                      *)
CollectRing ==
    /\ started /\ players # {}
    /\ Despawn
    /\ UNCHANGED vars

MapEndTick == EndTick /\ NoEntities

----------------------------------------------------------------------------
RavineNext ==
    \/ \E P \in SUBSET Peer, x \in Peer : MapGameInit(P, x)
    \/ MapStart
    \/ \E p \in Peer : \/ \E s \in Shard \cup Extra : Collect(p, s)
                       \/ \E x \in Extra : CollectOther(p, x)
    \/ \E p \in Peer : \/ MapDie(p) \/ MapUndie(p) \/ DieTwice(p)
                       \/ MapLeave(p) \/ MapDeathSecond(p)
    \/ Unheard
    \/ MapSecond
    \/ MapOtherTick
    \/ HitSlug
    \/ CollectRing
    \/ MapEndTick

RavineSpec == RavineInit /\ [][RavineNext]_ravineVars

----------------------------------------------------------------------------
(* The books of the shards balance until a match is decided, through       *)
(* collections, deaths, escapes and leaves: whatever was a shard or was    *)
(* collected as one lies on the ground, is carried by one player who is on *)
(* the server, or was taken off the list by a packet about something else, *)
(* and only one of these.  So with packets that name what they are about   *)
(* no shard is lost and none appears.                                      *)
ShardsKept ==
    started /\ ending = "none" =>
        /\ Shard \cup made = ground \cup lost \cup UNION {carried[p] : p \in players}
        /\ ground \cap lost = {}
        /\ \A p \in players : carried[p] \cap (ground \cup lost) = {}
        /\ \A p, q \in players : p # q => carried[p] \cap carried[q] = {}

(* The big ring is only open while it may be: in the last OpenSecs, and    *)
(* with Needed shards off the ground.  And it is open whenever it may be,  *)
(* following every collection, death and leave at once; after a packet     *)
(* that took a shard off the list unseen it is the next tick that opens    *)
(* it.  An entity that was collected as a shard and dropped counts too: it *)
(* lies on the ground, and may close the big ring.                         *)
RingFollows ==
    started /\ ending = "none" =>
        LET MayOpen == timeSec <= OpenSecs /\ Off(ground) >= Needed
        IN /\ bring = "ACTIVATED" => MayOpen
           /\ MayOpen => bring = "ACTIVATED" \/ unseen

(* Whatever packets name, no slot and no spawner is blocked for the rest   *)
(* of the match: a slot is taken while its one ring lies there, a spawner  *)
(* waits for a slug that lives, and every slug came from one spawner,      *)
(* which has no other; so the map's entities other than shards are two per *)
(* spawner and one per slot at most.                                       *)
NothingStuck ==
    /\ \A s \in Slot : lying[s] = IF s \in rings THEN 1 ELSE 0
    /\ slugs = UNION {home[s] : s \in Spawner}
    /\ \A s, t \in Spawner : s # t => home[s] \cap home[t] = {}
    /\ \A s \in Spawner : \A x, y \in home[s] : x = y
=============================================================================
