# Verification of the match server

TLA+ models, TLC runs and TLAPS proofs for the server in `src/`: a C program on
ENet that hosts lobbies of an asymmetric chase game, in which one player, the
*exe*, hunts the others, the *survivors*. The repository has no design
document; what the code promises is in its comments, in its assertions and in
its chat messages, and that is what the models are compared with.

1. [Inventory](#inventory) of the system and of what can go wrong in it
2. [Modules](#modules) and how they correspond to the code
3. [Runs](#runs), their bounds, and what they show
4. [Fairness](#fairness)
5. [Proofs](#proofs)
6. [Where the code departs from what it says](#where-the-code-departs-from-what-it-says)
7. [What is not modelled, and limits](#what-is-not-modelled-and-limits)
8. [Plan](#plan)

## Inventory

### Threads and locks

`Main.c` starts up to `server_count` lobbies (`Server`, at most five). Each has
one **worker** (`server_worker`, Server.c:341-515) that handles ENet's events
(CONNECT, RECEIVE, DISCONNECT) and runs 60 ticks a second, every one of them
under the lobby's `state_lock`. Beside the workers run a **console** thread, the
threads of the **admin HTTP API**, **news** threads and, on the desktop and on
Android, the **SDL interface**. They reach into lobbies through the `host_*`
functions (which take the lock) or, for `.map`, `.return`, `.exe none`, `.force*`
and the panel's buttons, by calling the state functions directly (which do not).

A peer's id is its ENet slot plus one (Server.c:386): **ids are handed out again**
as soon as a connection is gone. Peers are on a list of capacity seven
(`Server.peers`). A peer that the server drops stays on the list until ENet
reports its disconnection.

### Components

| Component (source) | State it keeps | Operations | What makes it correct |
|---|---|---|---|
| **Lobby life cycle** (Server.c, Lobby.c, Mapvote.c, CharSelect.c, Game.c, Results.c) | `state`, `peers` and their flags (`in_game`, `afk`, `ready`, `voted`, characters, `disconnecting`), `countdown_sec`, the exe and the forced exe, `mapdraft`, `mapdraft_map`, the match's lists, `started`, `end` | joining, leaving in every phase, ready, `.afk`, vote, pick, the packets of a match, every phase's tick, the operators' and the host's commands | no phase goes on without its exe, no match with one player; a start or an end is never lost; lists live as long as the match; the sorted array has room; every phase but the lobby ends |
| **Map draft** (Mapdraft.c) | the pool, the order, whose turn (an index), the timer | start, ban, timeout, leave, finish | the index is never stale, turns go round, the draft ends |
| **Map vote** (Mapvote.c, ui/MapList.c) | enabled maps, pick rates, last map, the three offers | draw, vote, choose, the host's list | the draw terminates and offers three maps that are new |
| **Character select** (CharSelect.c) | `avail[]`, `exe_char`, `surv_char`, `exe_chance` | weighted draw, picks, leaves, timeout | characters unique, the match starts when nobody is awaited any more |
| **Fates in a match** (Game.c, Player.c) | flags and timers of a player, `time_sec`, `sudden_death`, `ending` | death, un-death, revival, escape, leave, the ticks | one fate each, the verdict falls in time and is right, half of the survivors at most become demons |
| **Entities of a match** (DyList.c, entities/) | a list with capacity, ids, ring slots | spawn, collect, tick, despawn | ids unique, slots returned |
| **Results** (Results.c) | copies of who left, the sorted array, the MVP | init, send, tick, uninit | array in bounds, order total |
| **Chat votes** (Vote.c, Lobby.c) | voters, total, kind, target | `.yes`, `.vk`, `.vp`, `.mapdraft`, tick | one vote each, the array has room, whom it throws out is whom it was called for; it ends |
| **Session** (Server.c, Auth.c) | the shared list of addresses, the peer's `verified`, timeouts | identity, redirect, welcome, disconnect | the list counts the players and nobody else; an address plays once in a lobby |
| **Ravine Mist** (maps/RavineMist.c, entities/) | shards, the big ring, slugs, spawners | collect, drop, spawn, the map's tick; despawn of whatever entity a packet names | the books of the shards balance, the big ring is open only when it may be, no spawner is blocked |
| **Stores** (Config.c) | bans, timeouts, operators, custom ids, whitelist and their files | add, revoke, check, save | a list is only touched under its mutex |
| **Locks** (Server.c, Console.c, Admin.c) | who holds which mutex | all commands | no thread waits for itself or in a circle |
| **Console, Admin, News, interface** | text, HTTP, widgets | | they only call the operations above |

How they interact: the worker calls `server_state_joined/left/handle/tick`, which
dispatch on `state` to the phase's callbacks; the phases call each other's `_init`
functions (`lobby_init -> mapvote_init | mapdraft_init | charselect_init -> game_init
-> game_uninit -> results_init -> results_uninit -> lobby_init`), and any of them may
fall back to `lobby_init`. Everything but the address list, the stores, the map
list, `last_map` and the pick rates belongs to one lobby.

### What is hard

Events of up to seven players and of operators interleave freely, in every phase;
the code that a phase needs when somebody leaves is written once per phase. Counts
(ready, voted, loaded, dead) decide when a phase ends, and are recomputed by some
handlers and not by others. Indices and ids outlive what they point to. Two kinds
of clock (a `uint8_t` of seconds that is decremented before it is compared, and
`time_sec`) race the players' packets. `PROJECT.json` lists every hazard at the line
where it bites, with the properties that watch it or why none does yet.

## Modules

| Module | Models | Theorems in |
|---|---|---|
| `Match` | one lobby through all its phases | `MatchProofs` |
| `Lifecycle` | what a lobby promises; `Match` implements it | `MatchProofs` |
| `Contest` | a match as `Match` and `Round` both see it; both implement it | `MatchProofs`, `RoundProofs` |
| `Mapdraft` | the turns and bans of a draft | `MapdraftProofs` |
| `MapPick` | the maps offered to a vote | `MapPickProofs` |
| `Charselect` | who has which character | `CharselectProofs` |
| `Round` | fates and clocks inside a match | `RoundProofs` |
| `Fates` | what a match promises; `Round` implements it | `RoundProofs` |
| `Ravine` | a match on Ravine Mist: `Round` composed with the map and its entities | `RoundProofs` |
| `Votes` | the votes of the chat | `VotesProofs` |
| `Sessions` | admission and parting, several lobbies at once | `SessionsProofs` |
| `Admission` | what admission promises, in single steps; `Sessions` implements it | `SessionsProofs` |
| `Locks` | who takes which mutex under which | `LocksProofs` |
| `MC...` | instances for TLC (`Locks` needs none beside its `.cfg` files) | |

`Ravine` extends `Round` and conjoins the map's handlers with the match's. `Match` and `Round`
are tied by `Contest`, which says who takes part in a match, who is its exe, when it
starts, is decided and is called off; both implement it. The other modules stand alone. `PROJECT.json` maps every definition to its lines. In each module an
operator whose comment begins with "Mutant of" is not part of the model: it is a wrong
version of the named operator, by which a run's properties are tested.

### Match

A per-peer flag is the **set** of the peers that have it. One action is one event or
the tick on which a counter crosses a second: the worker holds `state_lock`
throughout, so nothing interleaves inside a handler.

- `phase`, `peers`, `inGame`, `afk`, `ready`, `voted` are the fields of these names;
  `picked` is "`exe_char` or `surv_char` is not NONE"; `kicked` is `disconnecting`.
- `exe` is `lobby.exe`, then `game.exe`, and `NoPeer` while no code reads them (it is set
  back in `LobbyInit`; the code leaves a dead value). In the same way what belongs to the
  `Game` struct is cleared when its lists are freed.
- `Join`, `SetReady`, `ToggleAfk`, `VoteMap`, `Pick` and `GamePacket` are the handlers of what a
  peer sends. `Join` reproduces that a zeroed `PeerData` reads as the character Tails,
  i.e. as having picked. `Pick` keeps the order of the code for a character out of range:
  the exe's is stored first and he is disconnected afterwards, without the check.
- `Leave` is split by the phase's callback; `Unlist` is what `server_state_left` does for
  all of them, `LeaveQuietly` the early returns.
- `LobbyTick`, `MapvoteTick`, `CharselectTick`, `StartTimeout`, `TimeOver`, `EndTick`,
  `ResultsTick` and `IdleKick` are the phases' ticks; `DraftOver` is the end of a draft.
- `StartMap`, `ArmDraft`, `Return`, `ForceExe`, `ForceExeClear` are the operators' commands
  (or the votes that do the same), `ConsoleMap` and `ConsoleForceEnd` the host's. The
  constants `Ops`, `Console` and `Drafts` switch them.
- Where a decision depends on data that is abstracted here it is a choice: the weighted
  draw may land on any candidate, or on nobody; a draft may find two maps, one or none;
  a match packet may be the one that decides the match (`Round` says when).

`Lifecycle` sees a lobby as five stages, a cast and an exe: the exe is drawn from the
cast, stays the same while characters are chosen and until the match is decided, a
match has somebody else than the exe, its cast only shrinks, and the results come after
a decided match, unless an operator interrupts. `Contest` is the finer view of a match alone:
leave by leave, it says when a match goes on, is decided or is called off, so that
`Match`, which knows no fates, and `Round`, which knows no phases, cannot drift apart.

### Mapdraft

The pool, the order (a sequence of ids), the index from zero and the timer of
Mapdraft.c. `ById` is the insertion sort of `mapdraft_init`, `AnnounceTurn` the search for
the next who can play, `PassTurn` what every caller does with its result, `LeaveMapdraft`
the cut of the leaver out of the order and the correction of the index. The rest of
the lobby is reduced to who joins, leaves, goes afk, and to the lowest free slot
being given to a newcomer, because that is what the order depends on. `arrivals` and
`turns` are history variables that no action reads.

### MapPick

`mapvote_init` draws until it has three maps that differ, are not the last one, and that
a random number lets pass by their rates. `Draw` is a draw that is accepted, `Redraw` one
that goes back to the label `gen`, so "`Drawable` is empty" is exactly "the loop never
ends" - with the lobby's lock and that of the map list held, hence no other action of the
lobby meanwhile. `Choose` with `Rates` is what the end of the vote does to the rates: an
offer loses `Step`, the others gain it, the winner drops to zero. Rates saturate at `Full`
and at zero, as the code's `uint8_t` arithmetic is guarded to do.

### Charselect

Who has which character is kept twice, in every peer (`char`, `surv_char`) and in the lobby
(`avail`). `Draw` resets both - for the players who are not afk. `RequestExe` and `Request` are the
two packets, `Release` what a leaver gives back, `CheckState` is `charselect_check_state` with the
`lobby_init` its callers fall back to. `armed` is who has an `exe_char`, and `refused` who of
them has one that there is not: it is stored before the range is looked at
(CharSelect.c:143), its owner is told to go, and until ENet reports him gone he counts as
having picked. The phases before the select are "LOBBY" (a newcomer
may or may not play, as it may be a vote), those after it "GAME". `strayed` is a history
variable: a peer who was afk at the draw has come back, or has left with a character,
during this select. What he holds is not on the lobby's books, and the promise that
characters are unique can only be made without him.

### Round

The flags of `Player.flags` as sets, the timers and the verdict. `Die`, `Undie`, `Revive`,
`Escape` are the packets; `Leave` is `game_state_left`; `Second` and `DeathSecond` the ticks on
which `time_sec` or a corpse's timer drops; `AllFated` and `Check` are `game_state_check`,
subtraction included; `Room` and `Chosen` are `game_demonize` for a set of corpses that it is
called on one after the other. `SuddenDeath` and `LateCorpses` are the two branches of
`game_player_tick` around the mark of two minutes. Positions and entities are left out: a
timer may or may not run on (it stops near the exe), a revival may complete at any time.

`Fates` sees hunter, up, down, turned, safe and a verdict: turned and safe are final,
the verdict falls in the very step in which nobody is up or down, is the survivors' if
somebody is safe, and never changes.

### Ravine

The one module about a map, chosen because its rules feed back into the match: shards
(`ground`, and `carried` for `plr.data[0]`) open the big ring, through which players
escape, and everybody who dies or leaves drops what he carries. `Populate` is `rmz_init`;
`MapTick` is `rmz_tick`, which only ever opens the ring, and `CheckState` `rmz_checkstate`,
which opens *and closes* it and is called after a collection and after a drop. Rings and
their slots (`game.rings`, `lying`) and slugs with their spawners (`slugs`, `spawners`,
`home`) are on the same list of entities. Each action conjoins a handler of `Round` with what
the map does in that handler: a death or a leave that decides the match reaches the map no
more, a leave may start the match (and the map with it), the packet DEATH_STATE reaches the
map even if the peer is dead already (`DieTwice`). A shard keeps its identity here when it is
despawned in one place and spawned in another, so that losing one and doubling another cannot
cancel out.

The packets name an entity by its id, and `game_despawn` (Game.c:319) takes whatever has that
id off the list, without a look at what it is. So the packets of slugs and rings (`HitSlug`,
`CollectRing`) take any entity (`Despawn`), each with what its own `uninit` does: a ring
frees its slot, a slug its spawner if that is still there, a spawner and a shard nothing. A
shard that goes this way is `lost`: nobody carries it, and the map does not look at the big
ring, which the history variable `unseen` remembers until the next look or tick. The packet
of shards takes any entity, too: a shard (`Collect`), or another (`CollectOther`), which
counts as one from then on, is dropped as one, and is a member of `Extra`; `made` is those that
exist. `home` keeps the slug of a spawner that has been taken off the list, so that the slug
has a place in the books. Whether a client that only sends what its player did ever names
the wrong entity is not the server's to know; where it does not, `made` and `lost` stay empty,
and the invariants say that no shard is lost and the ring is open exactly while it may be.

### Votes

One record `vote` for `lobby.vote`, the flags `can_vote` and `vote_cooldown` of the peers, the
target of a kick. A **person** is an id and the number of the connection that has it: ids
come from slots, so the person behind `kick_target` may change. `Call` is `vote_init` with the
checks before it and the caller's vote; `SayYes` stands for `.yes` and for the second `.vp` or
`.vk`, which the code treats as a vote whatever the vote is about; `Decide` is
`lobby_check_vote`. `Leave` takes no vote back and lowers no total, `Join` begins with a zeroed
`PeerData`. The lobby can be left and entered again at any time (`Go`, `Return`), and `Forget`
is what `lobby_init` does to a vote. `called` is a history variable.

### Sessions

Several lobbies, each with a worker that is in the middle of something (`task`). One action
is what the worker does between two points where another thread can see or change
something shared. `Lookup` reads bans, operators and the timeout *before* the lobby's lock is
taken; `PassInUse` is the first critical section of the list of addresses, `Register` the second,
in which it is written; in between, `Admit` puts the connection on the lobby's list and sends
the packets that may fail (`Faults`). `Gone`, `Erase` and `Unlist` are the disconnection: a timeout
of five seconds for who has not earned to be let off, out of the list of addresses, off the
lobby's list. `book` counts the entries per key: equal ones may be there more than once, as
operators may connect twice, and one of each is deleted.
Timeouts expire, and are set and revoked by other workers between `Lookup` and `Admit`.

`Admission` has none of this: a player is checked, seated and entered in the list of addresses
in one step, and gives everything up in one step. `KeepsPromise` says that the critical sections
of all the workers together cannot be told from such single steps. The seat is taken when the
connection is entered (`Register`), although room and address were looked at earlier, and given
up when it is erased from the list of addresses (`Erase`).

### Locks

What a thread does is a **script**: a sequence of "take", "drop" and "pass" (take and drop with
nothing between) of mutexes. Operators such as `Identity`, `Message` or `Request` write down the
scripts of one path through the code each; calls it makes are concatenated in their order, `Within`
nests. `Next` lets a thread begin a script when it has none left, and take its next step when
the mutex is free. Four kinds of mutex are distinguished: the console's, the lobbies' (one
each), the accounts', and all those under which nothing else is ever taken. `crosses` are
the threads in a script that takes lobbies' locks under the lock of the worker's own lobby.

## Runs

All bounds are constants in the `.cfg` files.

| Run | Instance | What it shows |
|---|---|---|
| `match_safety` | three ids, `Cap` 3, votes of 5 s, selects of 2 s, counters modulo 7; operators, drafts, everybody may be afk | the lobby's invariants, that nobody becomes a player except by a step into the lobby, that neither a select nor the loading of a match waits for nobody, and `KeepsPromise`: `Match` implements `Lifecycle` and `Contest` |
| `match_console` | three ids; the host's commands in any phase | every select and match keeps an exe; the theorems extend this to the other invariants |
| `match_progress` | three ids, no symmetry; `FairSpec` | `PhasesEnd`: map vote, select, match and results end |
| `draft_turns` | three slots, four maps, pick time 2; `FairSpec` | the turn index, whom a turn passes to, equality of turns, the end of the draft |
| `map_pick` | five maps, lists of five, three, two and none; rates 0..3 in steps of 2; `FairSpec` | the draw never sticks, and ends |
| `characters` | four peers, four characters, all may be afk, `.map` in any phase | characters are unique and never blocked, somebody who chooses always can, a match starts when nobody is awaited any more |
| `round_safety` | five players, 4 s with sudden death at 2, death timers of 2 | fates, timers, demons, and `KeepsPromise`: `Round` implements `Fates` and `Contest` |
| `ravine` | three players; two shards and a third entity that may be collected as one, two of which open the ring in the last of 3 s; a ring slot, two spawners, two slugs, a ring every second; demons, a forced end | whatever entity a packet names, the books of the shards balance, the big ring follows all that the map looks at, no slot or spawner is blocked |
| `sessions` | three clients (two of one device, all behind one address), two lobbies of two; packets of the welcome arrive | the list of addresses counts the players, an address plays once in a lobby, lists hold who is connected, and `KeepsPromise`: `Sessions` implements `Admission` |
| `votes` | three ids, the last of which is given to a second person; one operator, one who may be afk; a vote of two ticks, a pause of three; `FairSpec` | room in the array, one vote each, a kick hits its target or his successor, votes end |
| `locks` | two lobbies, console, API; mutexes not reentrant | a circle of waiting threads needs a chat command that crosses lobbies |
| `self_wait` | the same | finds the worker that waits for itself, see [below](#where-the-code-departs-from-what-it-says) |

Why these bounds are enough to be interesting:

- *Three peers* give the exe, one survivor and one who joins, leaves, is afk or is late:
  "one player left" and "two players left" are different, and every comparison with
  one in the code (`> 1`, `<= 1`) is met from both sides. With `Cap` = 3 the list is full.
- *Counters* are small but keep what the code distinguishes: `LOBBY_NO_COUNTDOWN` is 6 and
  the countdown starts at 3, as in the code; a vote of 5 s has seconds above and below
  the 4 to which a complete vote cuts it; the modulus is above all of them, so that a
  decrement below zero would show as `SecMod - 1`.
- *Four maps, three drafters*: more bans than drafters in one round, and turns that come
  round a second time.
- *Rates 0..3 by 2*: a rate passes through all of "zero", "between" and "full", and a step
  does not divide the range, so that both ends are reached by saturation.
- *Four characters for four peers* keep the margin of the code's seven for seven; with four
  peers, two survivors may hold characters while a third, who was afk, comes and goes.
- *Five players in a round*: two of four survivors may become demons, with two others that
  cannot; `SortSize` 4 is the number of survivors, as 6 is in the code with seven peers.
  `RoundSecs` 4 puts two seconds before sudden death and two behind it.
- *Two shards, both needed, and one more entity that may become a shard*: the ring can open, close
  when a carrier dies or leaves, and open again; it can open with a shard destroyed, and stay
  shut because a third that was made lies there. `OpenSecs` < `ShowSecs` leaves a second in
  which it is shown and must not open. Two spawners and two slugs: a slug can outlive its
  spawner while the other spawner goes on. More shards or a fourth player only repeat the
  same moves; for them there are the theorems.
- *Three clients, two lobbies*: one client too many for a full lobby, and two in flight at
  once; one shared address is one more connection than the list admits, and the equal device
  of two of them makes both keys count.
- *Votes of three ids*: with `total` 3 a majority is neither one nor all; the recycled id may be
  that of the target, of a voter or of the caller.
- *Two lobbies* are enough for a circle of two workers; with one lobby the other lobby's lock
  does not exist. The theorem has any number.

Symmetry is used only in runs without liveness. `sessions` identifies states that differ in `closing`
alone (`View`): it records that the server has told ENet to drop a connection, which no action
and no property of that module reads - a connection that is not told may part at any time, too.

Deadlock is checked everywhere but in `locks` and `self_wait`, which are about threads that
wait for good. All disjuncts of the next-state relations are taken in some
passing run.

## Fairness

`Match!Fairness` is weak fairness of the ticks (the worker ticks for ever), of the end
of a draft (its timer, which `Mapdraft!DraftEnds` justifies), of the disconnection of a
peer whom the server has told to go (ENet reports it, or times the connection out), and of
packets arriving in a match from *somebody who has loaded or only watches*. The last is
what their clients do all the time; it is needed only for a match that an operator has
decided before it started, which waits for one more packet to be wound up. Nothing is
assumed about players loading, pressing ready, voting, picking or banning: `PhasesEnd` and
`DraftEnds` hold although they never do, because the countdowns drop them. The lobby itself need not end: nobody has to be ready.

`Mapdraft!FairSpec` has the tick only. `MapPick!FairSpec` has weak fairness of *some* draw being
accepted: the code's random numbers are assumed to pass a map whose rate is not zero
sooner or later. The safety property `CanDraw` (there is one to accept) needs no
such assumption, and is the one that is proved.

`Votes!FairSpec` has the tick, and that a lobby which has been left is entered again
sometime, which is what `match_progress` shows. Nobody has to vote.

## Proofs

All theorems hold for every value of the constants that satisfies the module's named
`ASSUME`, and every leaf is checked by the back ends Z3, Zenon and LS4.

**MatchProofs.** Types are proved in two halves, `TypeFlags` (Booleans) and `TypeData` (sets
and counters), since each suits another prover. On top of `TypeOK`:

- `ExeStays`, `MatchGoesOnWithTwo`, `NoAfkInMatch`, `ForcedStays`, `StartsLoaded`,
  `StartNotLost`: each property is inductive relative to `TypeOK`; one lemma per property
  has one step per action. `StartChecked` says what `game_checkstart` guarantees for the
  list it is called on, and is used for packets and for leaves alike. These
  hold with the host's console, too.
- `NobodyAwaitedInVain` joins `StartNotLost` with `NoLostSelect`, which says the same of the
  character select and is inductive relative to `TypeOK` and `ExePresent`, because `.afk` cannot
  take a player out of a select. Its one exception is an exe whose choice was out of range:
  `exe_char` is stored before it is refused (CharSelect.c:143), so he counts as having picked
  and nobody checks; he has been told to go, and his leaving ends the select. (A map vote has no such property: `.afk` may take out the last player
  who has not voted, and nothing recounts; its countdown ends it.)
- `ListsInStep` assumes `~Console`: the console's `.map` may restart a character select in
  the middle of a match, and its lists are then alive in another phase.
- `ResultsAlwaysFit` assumes `~Console`. The bound on players plus leavers is not
  inductive alone; `SeatStep` says that while the lists exist every step seats nobody, and
  that `left` grows only when somebody gives up a seat, and `PeersFit` that the list was
  within its capacity to begin with.
- `RosterGrows`: `RosterGrowsInLobby`, an action property, action by action.
- `LobbyKeepsPromise` (`~Console => (Spec => KeepsPromise)`): `Moves` classifies every step by
  what it does to phase, exe, players and verdict (nine cases, the actions of `Match` being
  about forty disjuncts), `StageOf` computes the refinement mapping, and each case maps to
  an action of `Lifecycle` or to a stutter, with `ExePresent` and `EnoughPlayers` as the
  invariants needed. It includes `LobbyIsContest`: `GameMoves` classifies the steps once more, as
  somebody sees them who looks at the match only, and `SharedLeave` takes `game_state_left` apart
  into the leaves of `Contest`. `AfkNeverPlays` is needed for who leaves to be of the cast.
- `PhasesMoveOn` (`~Console`): `VoteRuns` keeps the seconds of a map vote between 1 and their
  initial value (the last voter lowers them to four only from above, so the `uint8_t` never
  wraps), and `Onward` says what no step of a phase that goes on takes back. See
  [below](#why-things-end).

**MapdraftProofs.** `TurnNeverStale`: the inductive invariant `DraftInv` adds to `TurnPresent` that the
order has no duplicates and contains only players of the lobby (`OrderOK`). `ModIndex`, `Cut`,
`Announce` and `Pass` are facts about the index arithmetic, for every length.
`TurnsComeRound` proves `EqualTurns` from `TurnsOK`: whoever stands before the index or on it has
been asked `c + 1` times, whoever stands behind it `c` times (`Shape`). `AnnounceLevel` shows
that announcing a turn keeps that shape whether or not the search wraps around, `CutLevel`
that cutting somebody out keeps it with the index corrected as the code corrects it.
`TurnsPassInOrder` proves `TurnPasses`: `BeforeIs` turns the cyclic order of two players into the
distance of their places, and `FirstWins` says that the search stops at the smallest of
these distances among those who can play; after a leave the distances in the *old* order
are those of the search in the new one.
`DraftsRunOut` adds `TimerRuns` to `DraftInv`: in a draft the timer is never at zero, so that each
tick counts. `BanShortens` and `LeaveShortens` show that whenever a turn passes, and the timer is
set anew, the pool or the order has become smaller.

**MapPickProofs.** `RatesInRange` needs `Drawing` (a draw has begun only with more than three maps, and
has fewer than three). `OnlyOneBarred`: a rate is zero only for the last winner, since
every other offer loses a step and regains it with the next. `DrawNeverStuck` has two cases.
Without drafts the barred map is the last one (`BarredIsLast`), so that four maps leave a
third candidate after two. With drafts the last map and the barred map may be two
maps, so a list of five is needed: the theorem excludes lists of *exactly four* maps,
and with them the loop does hang, see [limits](#what-is-not-modelled-and-limits). `Candidate` counts.

**CharselectProofs.** `NothingBlocked` is inductive relative to the types. `NobodyStuck` turns it into a
count: were every character taken, choosing a holder for each would be an injection of the
characters into the peers other than the one who asks, of whom there are fewer than
`Cap <= Cardinality(Char)`. `CharactersUnique` and `MatchAwaitsNobody` share the invariant `Clean`: as
long as nobody has strayed in, no survivor counts as an exe, and what a survivor
holds is not on offer (`Held`, without which a request could hand it out twice) and his
alone (`Apart`, without which a leaver could free what another holds). `Shrink` serves
the many steps that only take survivors away. `MatchAwaitsNobody` says of the exe what is true of
the code: he has sent a choice, one that there is or one that was refused by an earlier
request; that he has a character that there is (`ExeChosen`) is not true, see
[below](#where-the-code-departs-from-what-it-says).

**RoundProofs.** `Safe` is the inductive invariant: the types, that nobody has two fates, that a
corpse whose fate is open has a running timer, that a second death is final, and that
behind the mark nobody is open while the match is undecided. Each is inductive
relative to the ones before. `HalfAtMost` and `CorpsesFit` count with `FS_Subset` and
`FS_Union`-like facts (`UnionBound`, `ChosenFits`). `MatchGoesOn` needs `Fresh` (before the start nobody has
a fate), and so assumes `~Early`. `RoundKeepsPromise` rests on `Fair == Safe /\ Fresh /\
SomebodyPlays`; `Fated` proves that the code's sum is `<= 0` exactly when nobody is alive,
which is where `OneFate` is needed. `RoundIsContest` is the part of it that needs no assumption
about clients. Together with `LobbyIsContest` it says that the two modules describe one match: each
way in which a leave, a verdict or a tick can end it is in both.

`RavineIsARound` proves that a step on Ravine Mist is a step of `Round` or leaves it alone, so
that all its theorems hold there, too. `ShardInv` and `BookInv` are inductive on top of
them: what was a shard or was collected as one is in one place while the match is open -
`TakeKeepsShards` for what is collected, `DropKeepsShards` for what is dropped,
`DespawnKeepsShards` for what is lost - and the ring is open only when it may be. For that
`CheckState` has to follow every drop in the last seconds, and the map's tick the clock
when they begin; a shard that is lost needs no look to keep the ring from being open wrongly, as there
are no fewer off the ground than before (`OffGrows`). `NobodyStuck` covers packets that name
any entity: a spawner that has gone keeps its place in `home`.

**SessionsProofs.** `Kinds` sorts the actions by what they do to `at`, `verified`, `book` and the tasks.
`Inv` is the types, `WorkersOK` (who is being dealt with by a worker is that worker's, and not
yet or no longer counted), `BookBalances`, `CheckHolds` (between the two critical sections of
one lobby nobody else of *that* lobby enters the keys: its only worker is busy) and
`SoleInLobby`. `HoldersStep` counts. `ListIsLive` assumes `~Faults` and adds `SeatsOK`.
`ListHasRoom` adds `RoomOK`: who has passed the check of the lobby's room finds it unchanged when he
is put on the list, and whoever plays has a place of his own there (an expired or failed
welcome may keep one, never take one).
`AdmissionIsAtomic` is the refinement of `Admission`, with faults and operators. A seat is taken at
`Register`: `EntersSeats` needs `RoomOK` for the room (`PlayersListed` bounds the players by the list) and
`CheckHolds` for the address, both of which were looked at earlier; it is given up at `Erase`, where
`BookBalances` shows that the entry is there to be taken out (`ErasesSeats`), so that the code's test
for it never fails. All other steps are stutters, or make a player an operator.

**VotesProofs.** `Inv` adds to the types that a vote in progress has fewer votes than its total and
at least one (`Fits`), and that the target is whom it was called against (`Aimed`). `AddKeeps`,
`DecideKeeps` and `CallKeeps` are about the three things that handlers do to a vote.
`VoteOnlyCounts` is an action property on top of `Inv`: a vote that goes on is the same vote, with
at most one more voter and a second less, and one that is over had its last vote, its last second
or the lobby's end.

**LocksProofs.** Mutexes have a rank: the console's, a lobby's, the accounts', the others'.
`Neat` says that what is left of a script drops what it has taken, once each, and `Ordered`
that it takes upwards. `ScriptSound` shows it for every path that is not one of the
commands in `crosses`, `StepIInv` that it survives a step. `NoCircleUpwards`: in a circle of
waiting threads somebody waits for a mutex of the highest rank waited for; its holder waits
for one of a higher rank still - unless he is answering such a command.
`NeverAllStuck` follows for the server as a whole: whoever holds a mutex has something left to do
(`HoldersBusy`), so nobody waits for an idle thread, and were all the busy ones stuck they would
wait in a circle.

### Why things end

Liveness (`PhasesEnd`, `DraftEnds`, `VoteEnds`, `DrawEnds`) is out of the prover's reach and only
model-checked. What an argument for it rests on is proved where it is about safety, for every
value of the constants:

| Property checked by TLC | What is proved of every step |
|---|---|
| `DraftEnds` | `DraftsRunOut`: (maps left, players in turn, seconds) never grows in the lexicographic order, and each tick lowers it |
| `VoteEnds` | `VoteOnlyCounts`: votes only grow, seconds only fall, each tick lowers them |
| `PhasesEnd` | `PhasesMoveOn`: nothing that brings a phase closer to its end is taken back; `NobodyAwaitedInVain`: a select and a start miss nobody |
| `DrawEnds` | `DrawNeverStuck`: a draw that can be accepted exists |

The steps from there to the liveness properties (fairness makes the ticks happen, and a
quantity that only falls and falls again and again reaches its end) are left to TLC.

**Only model-checked**: those four.
The types of `Mapdraft` and `Votes` are parts of the invariants of their proofs.

## Where the code departs from what it says

*A worker waits for itself* (run `self_wait`). A nickname after `.ban` or `.kick`, and `.exe` with a key,
make the worker lock every lobby in turn - its own, whose lock it has held since `peer_msg`,
first (Server.c:897, 1210; Threads.h:29 makes plain mutexes). The comment at
Server.c:1772-1776 says why `.reset_id` must not do that. It avoids its own lobby but takes
the others' locks under its own, so that two lobbies that do it at once wait for each other:
that is a circle of the kind that `CircleNeedsCommand` leaves open. Where mutexes are
reentrant (`Reentrant`, Windows) only the circles remain.

Six definitions say what a comment says and are **not** true of the code. No run has
them; put in the place of the properties of the `.cfg` named, each is refuted by TLC.

1. `Charselect!RegularsPicked` (MCCharselect.cfg): Server.c:1403-1404 refuses `.afk` during the
   select because "the roster is locked in", but not to a peer who **is** afk, who so becomes a
   player of the select. CharSelect.c:19-20 says the match starts once every regular player
   has picked; his `exe_char` from an earlier match counts as a pick, and he plays a
   survivor without a character.
2. `Match!ReadyMeansCountdown` (MCMatch.cfg): Server.c:1414-1415 drops an afk peer's ready flag so
   that he does not "keep the lobby from counting as all ready", but nothing recounts: the
   countdown starts with the next ready packet, join or leave.
3. `Match!DraftHandsOver` (MCMatch.cfg): Mapdraft.c:92-94 promises the countdown if everyone stayed
   ready; who joined during the draft is counted, and could not get ready.
4. `Mapdraft!DraftInJoinOrder` (MCMapdraft.cfg): Mapdraft.c:156 sorts by id and says ids grow with
   each connection; ids are slots.
5. `Round!LostForGood` (MCRound.cfg with `Demonize = FALSE`): Game.c:480 calls a corpse that sudden
   death declares lost finally dead; its timer stays above zero, which is all that the
   packet "I am not dead" asks for (Game.c:1403).
6. `Charselect!ExeChosen` (MCCharselect.cfg): CharSelect.c:19-20 says the match starts once every
   regular player has picked. An exe's character out of range is stored before it is
   refused (CharSelect.c:143-146); if a survivor picks or leaves before ENet reports the exe gone, the
   match begins with an exe who has no character that there is. He leaves soon, and the match
   ends with him.

## What is not modelled, and limits

- *Drafts with four enabled maps.* After a vote was won by map `a` and a draft by map `b`, the
  rate of `a` is zero and `b` is the last map: two candidates are left for three offers, and
  `mapvote_init` loops with its locks held. `MapPick` shows it as soon as a list of four
  maps is added to `Lists` (`CanDraw` fails); the run leaves it out, the theorem names it.
  No comment says otherwise.
- *The host's console.* With `Console` on, `ListsLive` and `ResultsFit` fail (a `.map` in the
  middle of a match leaks its lists and lets the next start over). The
  commands are modelled *between* handlers; that they take no lock, and so may run inside
  one, is not modelled.
- *Packets before the start.* The match's handlers do not look at `started`. With `Early` on, a
  client may be fated before the match starts, and leaves then need not decide it:
  `SomebodyPlays` fails. A client that follows the protocol does not do this, so the run
  has `Early` off.
- `Match` does not know characters, votes, positions or scores; `Mapdraft` and `MapPick` each
  see the part of the lobby they need. `Match` and `Round` are tied by `Contest`; `Mapdraft`, `MapPick`
  and `Charselect` are composed with `Match` by their common actions being the same code
  (`mapdraft_finish`, `mapvote_init`, `charselect_check_state`), not by one product module, which
  TLC could not exhaust.
- *A welcome that fails* (`Faults = TRUE`). A peer is put on the lobby's list, the packets of the
  welcome fail, and he is not yet verified. The disconnection takes only verified peers off
  the list (Server.c:410) and frees him all the same: `ListedConnected` fails. `BookBalances` and
  `SoleInLobby` are proved with faults, too.
- *One address in two lobbies.* Check and entry are two critical sections, so that an address may
  be entered by two lobbies at once. No comment promises otherwise; `SoleInLobby` is about
  one lobby.
- `Sessions`: a client sends its identity once; bans and the whitelist are answers from
  outside, tickets are believed or not. The timeout that was read before the lock is
  used after it: that a timeout set meanwhile is not noticed is a behaviour of the
  model, and no property forbids it.
- `Votes`: when the target has left, the vote goes on and throws out whoever has his id next
  (`KickHits` allows exactly that). An afk caller's vote counts, although Lobby.c:286 and
  Vote.c:18 say afk peers do not vote: `vote_add` is called for him directly. Ticks are of
  ten seconds; an id is given to at most `Gens` persons.
- `Locks`: which data a mutex guards is not modelled, nor who forgets to take it
  (`timeout_check` takes the wrong one, the console's match commands take none).
- `Ravine`: distances, speeds and hit boxes are left out, so a packet that the server
  cannot judge (CLIENT_PLAYER_ESCAPED does not look at the big ring) is accepted at any
  time. Slug ids are fresh (the 16-bit id does not wrap within a match). With the code's
  numbers `NothingStuck` bounds the list of entities by two for each of 11 spawners and 27 rings,
  with the 7 shards 56 of its 3000 places; projectiles of characters come on top, and one
  shard for each entity that was collected as one and dropped, of which there may be as many
  as `Extra` has members: one in the run, any finite number in the theorems. Entities that a
  character put there are not modelled by number: a packet may always name one.
- *The idle timer, pings and scores* are left out of `Match`; `IdleKick` may happen at any time.

Not modelled, and why:

- *Results' MVP*: arithmetic on scores that no other part reads.
- *Bans, operators, custom ids, whitelist* (Config.c): JSON trees and files. What other parts
  need of them is an answer (`Sessions`) and a mutex (`Locks`).
- *The other maps and entities*: positions and timers of platforms, lava, dolls and clones;
  they act on players by the same packets and kills that `Round` already lets happen at any
  time.
- *Weights of the exe's draw*: probabilities. `Match` and `Charselect` let it land on anybody
  whom it may land on, or on nobody.
- *Console, admin API, news, log, time, start-up, packets, UTF-8, palette and zone tables, the
  interface's widgets, cJSON*: text, bytes, pixels and HTTP around operations that are modelled.

- *Out of reach of the prover*: liveness and ENABLED; what a recursive definition computes for
  every input.

## Plan

The order is that of importance for what players see.

1. **Done**: `Match` with `Lifecycle`; `Round` with `Fates` and `Ravine`; `Mapdraft`; `MapPick`; `Charselect`;
   `Votes`; `Sessions`; `Locks`.
2. **ExeDraw**: the draw by `exe_chance`, its `uint8_t` wrap, the peers with a mod tool and the branch
   that does not reset a chance of a hundred. To show: who may be drawn twice in a row, and
   that without mod tools a draw always finds somebody.
3. **Results**: the two comparisons and the MVP against a reference definition on bounded inputs;
   that the order is total.
4. **Stores**: bans and timeouts as lists with their files, with the wrong mutex of one check.
5. **More maps** in the manner of `Ravine`: those whose entities decide about escapes or deaths.
6. **Projectiles** on the list of entities, with the 16-bit ids.
7. More proofs: a shared view of the draft and of the character select, in the way `Contest` ties
   `Match` and `Round`, implemented by `Match` and by `Mapdraft` and `Charselect`.
