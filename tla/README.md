# ArchaiEngine: specification, model checking and proofs

ArchaiEngine (`src/`) is a small game server in C++. One process, one event loop (libevent) on
the main thread, one extra thread per space that computes the area of interest (AOI). Clients
connect over TCP, log in, join the space, upload their movement and attack; ten times a second the
space tells every client what entered, left and changed in its player's sight.

This directory holds TLA+ modules translated from that code, the TLC configurations that check
them, and theorems about them checked by TLAPS.

## 1. Inventory

| component | state | operations | how it interacts |
|---|---|---|---|
| `game_server.cpp` | event base, `G_Timer` | a 33 ms persistent event | calls `WheelTimer::update` |
| `WheelTimer` | three wheels of 1024 slots, `cur_frame_`, `left_ms_`, `ms_since_start_`, `id_2_timer_task_` | `add_timer`, `del_timer`, `update` (`tick`, `run_timers`, `move_timers`) | runs callbacks of Space, Combat, Skill_1, Navigation; they call it back |
| `TcpServer`, `TcpConnection`, `RecvBuffer` | listeners, a bufferevent and a partial frame per connection | accept, `handle_data`, `send_msg`, `on_error`, `on_lost_connection` | calls `SpaceService::handle_msg`, `on_lost_connection` |
| protobuf messages | has-bits, fields, objects kept behind them | accessors, `Clear`, merging, serialising, parsing | made and read by every handler |
| `SpaceService` | `_conn_2_player`, `_exists_names`, `_space` | `login`, `join`, `leave`, `upload_movement`, `ping`, `normal_attack`, `skill_attack`, `query_path`, `on_lost_connection`, `stop` | creates and deletes players, puts them into the space |
| `Space` | `_eid_2_entity`, the AOI service, the navigation mesh, the update timer | `join`, `leave`, `update_position`, `update`, `call_all`, `call_others`, the `find_*` queries | owns `GridAOI`; sends to the connections of its players |
| `GridAOI` | `_entities`, `_grids`, the AOI thread and its locals | `add_entity`, `del_entity`, `update_entity`, `fetch_state`, `get_*`, `start`, `stop`, `run` | shared by the main thread and the AOI thread under `_data_mutex`, but for one unlocked read |
| Entity and components | position, space pointer, connection, path, attributes, skills | setters; `normal_attack`, `cast_skill`, `take_damage`; `move_to`, `update` | timers in `G_Timer`, messages through the space |
| `NavigationComponent` | a path, the place on it, a timer | `move_to`, `update`, `reset` | asks `Space::find_path`; its timer moves the monster |
| Detour | tiles, links, a free list, a hash of places; a query's nodes and open list | `addTile`, `removeTile`, state of tiles; about fifteen queries | loaded and asked by `Space` |
| property synchronisation | dirty flags, `TSyncArray` operation log | writes, `serialize`, `delta`, `reset_dirty` | read by `Space::update` |
| `util/fifo.h`, `util/queue_timer.h` | a lock-free queue; a sorted timer queue | `push`, `pop`; `add_task`, `cancel`, `update` | not used by the server |

What is hard here:

* **the AOI round** works on a copy for as long as it likes, reads the live table without the lock,
  and publishes over whatever the main thread did meanwhile;
* **update and round overlap**: what was sent during a round is published again;
* **the wheel timer** runs callbacks that change the wheels under it, and cascades after the lowest
  wheel has run;
* **framing**: messages arrive cut anywhere, length and data, and a send that does not fit loses the
  connection between the two halves of a message;
* **message objects** keep what was cleared, for reuse;
* **the navigation mesh** hands out references that outlive tiles, links tiles in any order of coming
  and going, and searches it in slices while it changes, with pools and results of fixed size;
* **walks** are replaced in the middle and cover several corners in one frame;
* **sessions**: a connection may be lost at any point of a login/join/attack sequence, with timers
  of its player pending;
* **delta synchronisation** with flags that must be reset in the same place for every component.

What makes each part correct: index and table of the AOI agree and its sight is symmetric and exact
for what rested; clients show exactly what the server computed, in every state in which they have
applied what is pending; no timer is lost, early, late or run twice; names and players match; a
replica equals its original; a stream is the messages that were written to it; an object is worth its
value; links are those the tiles call for, and a query finds what it says; a walker is where its speed
puts it.

`PROJECT.json` lists every component and, under *hazards*, each place where something can go wrong
that a unit test would hardly reach.

## 2. Modules

| module | models | kind |
|---|---|---|
| `GridAOI` | `aoi/aoi.h`, `aoi/grid_aoi.{h,cpp}` | two threads over shared tables |
| `Sight` | what a space promises its clients | abstract specification |
| `Space` | `space.cpp`: presence, updates, broadcasts; extends `GridAOI` | composition, implements `Sight` |
| `WheelTimer` | `wheel_timer.{h,cpp}` | sequential, with re-entrant callbacks; implements `Timers` |
| `Timers` | what `G_Timer` promises its users | abstract specification, base of `Combat` and `Walk` |
| `Combat` | `combat_component.cpp`, `skill_1.cpp`, `AttrSet::take_damage`; extends `Timers` | actors with delayed effects |
| `Sessions` | `space_service.cpp`, connections, players; extends `Combat` | composition |
| `SyncLog` | the operations of `sync_array.h` and their reader | pure operators |
| `Mirror` | what a synchronised value promises | abstract specification |
| `SyncArray` | `sync_array.h`: writer, stream, reader; extends `SyncLog` | implements `Mirror` |
| `PropertySync` | the flags and deltas of `attr_set`, `combat_component`, `entity`, `Space::update`; extends `Sight` and `SyncLog` | composition |
| `Pipe` | what a connection promises | abstract specification |
| `Framing` | `tcp_connection.{h,cpp}`, `bit_utils.cpp`, the split of `handle_msg` | two ends and a stream; implements `Pipe` |
| `Wire` | the 21 messages of `space_service.pb.cc`, and the bytes of fields | schemas and pure operators |
| `Values` | what a message object promises | abstract operations |
| `Messages` | the generated functions and accessors over any schema; extends `Values` | sequential |
| `TileData` | `DetourNavMeshBuilder.cpp`: what a tile is built from | pure operators |
| `NavMesh` | `DetourNavMesh.{h,cpp}`; extends `TileData` | tiles that come and go |
| `NavQuery` | nodes, nearest polygon, `findPath`, sliced paths; extends `NavMesh` | a search between changes |
| `NavArea` | searches around a place, walls, small moves; extends `NavQuery` | pure operators |
| `StraightPath` | the funnel and the ray; extends `NavArea` | pure operators |
| `Walk` | `navigation_component.cpp`: a monster on a path; extends `Timers` and `TileData` (distances) | one actor and its timer |
| `Navigation` | loading and path finding of `space.cpp`, `query_path`; extends `StraightPath` and `Walk` | composition |
| `MC_NavTiles` | the tiles of the navigation instances | data |
| `SpaceProofs` | theorems about `GridAOI` and `Space` | TLAPS |
| `WheelTimerProofs` | theorems about `WheelTimer` | TLAPS |
| `SessionsProofs` | theorems about `Combat` and `Sessions` | TLAPS |
| `SyncProofs` | theorems about `SyncArray` and `PropertySync` | TLAPS |
| `FramingProofs` | theorems about `Framing` | TLAPS |
| `NavMeshProofs` | theorems about `NavMesh` | TLAPS |
| `WalkProofs` | theorems about `Walk` | TLAPS |
| `DataLemmas` | what those need of numbers, sequences and concatenations | TLAPS |
| `MC_*` | small instances | TLC |

Each module also holds *faulty variants* of some of its operators (`Regrid_StaysListed`,
`Published_NoNotifies`, ...): plausible mistakes, used by nothing, each of which, put in the place of
the operator it is named after, breaks the property listed with it in `PROJECT.json` ("mutants").

### GridAOI

Main-thread operations hold `_data_mutex` from their first line to their last, so each is one
action: `AddEntity`, `DelEntity`, `UpdateEntity`, `FetchState`; the pure queries are operators
(`EntitiesInCircle`). `stop()` is three: `StopCall`, `StopSetFlag` (needs `_stop_flag_mutex`, which
`run()` holds except while it waits), `StopJoin`.

The AOI thread is split at every point where the main thread can get in between:

| action | code |
|---|---|
| `ThreadStart`, `ThreadExit` | entry of `run()`, end of its loop |
| `Snapshot` | the locked copy of both tables |
| `BeginQuery(a)` | `update()` takes the next record and looks up the cells of the *copied* index |
| `ReadFirst(c)` | `_entities[c]` *without the lock*, and one coordinate; a missing record is inserted blank (a "ghost") |
| `ReadSecond` | the other coordinate and the comparison; if the record was freed in between, any answer |
| `FinishQuery` | the rest of the loop body, on the copy |
| `Publish`, `Wake` | the locked swap; the end of `wait_for` |

`_entities` is a function on its keys. A cell that does not exist yet is an empty one (no code can
tell them apart). `life` is the caller's knowledge of an id: added once, deleted once, as `Space`
does. `touched` is a history variable: who was added or moved since the last snapshot.

Coordinates are integers and `hypot(dx, dy) < r` is `dx*dx + dy*dy < r*r`; `static_cast<int>(a / b)`
truncates toward zero (`Trunc`).

### Space

Extends `GridAOI` with `view[p]`, the set of entities the client of `p` shows: the part of the client
that matters (the client is not in the repository; how it treats the two messages is modelled from
what the messages mean and marked external). `Update` is `fetch_state` plus what the enter and leave
messages do to the views, in order; enter messages are filtered by `find_entity`, leave messages are
not. Monsters are the entities outside `Players`.

### WheelTimer

Time passes in `Update(d)`. A frame is `TickBegin`, then for every task of the slot in order
`DropCanceled` or `Fire` and `CallbackReturns`, then `RunDone` and the `Cascade`s. Between `Fire` and
`CallbackReturns` the callback may `AddTimer` and `DelTimer`. The list of a slot is a set, ordered by
`timeout_ms` when it runs, as `run_timers` sorts it.

`Timers` is the same without wheels: alarms that ring in the frame they asked for, but for one case
(`RingFrame`). A timer whose delay is at least a turn of the lowest wheel goes to an upper wheel; if its
frame is a multiple of `max_slots_`, `tick()` runs slot 0 of the lowest wheel before `move_timers` pushes
it there, and it runs a whole turn later (`wheel_timer.cpp:42` says of timers added before the first tick
that none will be missed: one whose delay is a multiple of a turn is). `KeepsContract` says that the
wheels implement `Timers` for all delays. All delays of this server are far below a turn (at most 1500 ms
of 33.8 s), so for what is modelled on top of `Timers` alarms ring when they should.

### Combat and Sessions

`Combat` keeps for each entity the fields a callback or a destructor uses (`attack_timer`,
`effect_timer`, `next_attack`, ...), and for each pending alarm what its callback captured (`jobs`).
A handler is one action; handlers run between two updates of the timer (`Handling`). `Effect` is the
callback: it finds its victims (any set of entities in the space: positions and chance decide),
hurts them and clears the id. Where the code would use a freed entity or a null space the process is
taken to end (`fault`), and the properties say that this is out of reach.

`Sessions` adds connections and the tables of the service to it. A handler of a message is one action
that includes the calls it makes: `Logout` is `Space::leave`, both `erase`s and the destructors. `Lost`
is what `on_peer_close` and the two errors handled by `on_error` come to. Connections are named by their
addresses, which are handed out again, as the keys of `_conn_2_player` are. `Stop` leaves the tables as
they are, as the code does; nothing is followed after it but pending timers.

`Life` puts together what `GridAOI` asks of its caller: `life` there goes from fresh to member to gone, and the
AOI thread, whose results name eids long after, counts on it. `LivesOnce` says that `Sessions` keeps to it: it
takes the counter of `gen_eid`, the deletion in every way out (`leave`, a lost connection, `stop`) and the
table that tells a join from a second one.

### Property synchronisation

`SyncLog` has the operations as records and the reader as an operator on them; `SyncArray` is a writer
whose owner calls the methods in any order and flushes when it likes, a stream, and a reader. An element
is an atomic value. `MarkDirty` is the assignment through `operator[]` and `mark_dirty` together.

`PropertySync` is the half of `Space::update` that `Space` leaves out: `Update` takes the deltas, sends
each player its own, then full data of what enters its sight and deltas of what is in it. Whom a player
sees comes from `Sight`, which `Space` implements; an enter message may be sent again (`resent`): the
notifies a round copied are published over those that an update has fetched meanwhile. `Update` resets nothing of the components, because
`Space::update` does not; `told` is the log of skills the last delta of a player held.

### Framing

One direction of a connection; both ends run the same code. `out` is the output buffer of the sender's
bufferevent, `net` what the kernel holds, `recv` the `RecvBuffer`. `Send` is `send_raw_msg` to its end:
two `send_data`, each of which may find the buffer full, free the bufferevent and have the service delete
the connection. If the first one does, the second uses the deleted connection (`fault`, which is set and
then nothing more is sent; `tcp_connection.cpp:140` does not look). `handle_data(n)` is one turn of the
loop of `socket_read_cb`: any number of bytes is read, cut into frames (`Cut`, the loop of
`RecvBuffer::recv`, iterates `Turn`, its body, as often as there are bytes) and each split into a name and the rest as `handle_msg` does. The high bit of a byte is
worth `Radix`, 128 in the code, so that small instances have lengths of several bytes. `Pipe` is what
both ends rely on: `received` is always a beginning of `sent`.

### Wire, Values, Messages

The generated code repeats the same five functions for each of 21 messages, field by field. `Wire` has one
schema per message, read off its parse table, `_InternalSerialize`, `ByteSizeLong` and `MergeImpl`; `Messages`
has the functions once, over any schema. An object is its has-bits and a slot per field; the slot of a
message field is a pointer, as a sequence of at most one object. `clear_x` and `Clear` keep the object
and clear it, `release_x` gives it away, `mutable_x`, merging and parsing use what is there. `Values` is
what callers take an object to be, a value, and `worth` follows it beside the object.

### TileData, NavMesh

`TileData` is `dtCreateNavMeshData`: neighbours, portals on the border, connections classified by side, the
number of links a tile gets, the bounding volume tree (with the extra blank node its header announces).
`NavMesh` has the tiles: `addTile` without a reference (the first of the free list) and `reloadTile`, the
branch of `addTile` with one (that slot, its salt turned back), `removeTile`, flags, areas and the state of tiles.
The links of a polygon are a sequence, newest first; how many are free counts, which array slot one has does
not. A tile whose links have run out is `dry`: links that other tiles would put into it are left out without a
word (`DetourNavMesh.cpp:124`), because `maxLinkCount` does not count connections that end in it.
Polygons are rectangles, heights are those of their corners. `given` and `back` are history: references handed
out, and that a salt was turned back.

A place is asked for its tiles with room for 32 (`MAX_NEIS`, `DetourNavMesh.cpp:1025`, `1275`): of more layers
at one place only the first of the list are linked to a new tile, and only those are unlinked from one that
goes, so links may be missing or lead nowhere. `FewLayers` says that the tiles there are to load do not come
to that; the properties of links are stated for such tiles only.

What `addTile` reads without looking is an assumption about what is loaded, `SourceAssumption`: neighbours,
ends of connections and leaves of the tree name polygons of the tile, as those of `dtCreateNavMeshData` do.

### NavQuery, NavArea, StraightPath

`findPath` and the searches of `NavArea` are operators; the sliced path is actions, one node per
`updateSlicedFindPath`, with `MeshStep` in between. The pool of nodes has a size, results have a room, and
what the pool's memory holds before its first use is `Junk`: where the code uses portal points it did not get
(`!getPortalPoints(...)` compares a status with zero and never skips), the answer is taken from there.
`findPath` keeps a node per side a polygon is entered by, the sliced search one.
Distances are |dx| + |dy| + |dz|, a metric like the code's, squared distances in `NavArea` exact (`moveAlongSurface`
measures from the middle of a move in doubled coordinates); the code's
factor 0.999 that keeps the estimate below the cost is left out, as integers need none.

### Navigation

`LoadTile` and `LoadEnd` are `loadAll`: what `addTile` answers is not looked at, so a tile that collides or has no
room is simply not there. `QueryPath` is the handler to its end: anybody may send it, logged in or not, and
it sends the monster from where it is, not from the start the message names (`space.cpp:403`). When there is no
polygon near the start or the goal, `find_path` goes on with an empty path and reads `pathPolys[-1]`
(`space.cpp:387`); the answer has no corners whatever it reads, and the model goes there at once. What it calls
is `move_to` of `Walk` (`MoveTo`) with the path that `find_path` finds; every other step of `Navigation` either is
a step of `Walk` (`WalkOn`, `Elapse`) or leaves its variables alone.

In `Walk` a path is any sequence of points. `Update` is the callback of the repeating timer, with all the calls
`update` makes of itself: `Stride` is one of them, and `Moved` makes as many as the path has corners, of which
those after the last do nothing (`done`). `trip` is history: the path it was sent on, when, and the calls of
`update` since. No destructor cancels the timer of a walk; the
monster is never deleted by this server, so nothing follows from it.

## 3. Runs

| run | shows | bounds |
|---|---|---|
| `gridaoi` | index, ghosts, exact query, symmetry, freshness | 2 entities, 2 points in two cells with negative coordinates, radii 3 and 8 (cut to 6), 1 move |
| `space` | views agree with the server's sight; broadcasts agree with views; refinement of `Sight`; `stop()` returns; the deleted are forgotten; views converge | 2 players, 1 move each |
| `wheeltimer` | no timer lost, doubled, early or late; refinement of `Timers` | 3 slots per wheel, 2 ms frames, delays of 1, 2, 3, 4 and 10 frames, 2 timers, 14 frames |
| `sessions` | players, names, members and timers agree; every eid lives once; no effect outlives its owner, no id goes stale, skills are active while pending | 2 addresses, 2 names, 3 logins, 3 effects, 2 casts a player, 9 ms of 2 ms frames, cooldown as tight as the assumption allows |
| `sessions_assert` | *violated*: an attack before joining fails an assertion | 2 addresses |
| `syncarray` | a reader catches up; deltas are as good as whole arrays | 2 values, 3 elements, 4 operations, `uint16_t` as modulo 4 |
| `propertysync` | stale values are flagged; an update brings every client up to date | 2 players, 1 health and 1 mana to lose, any number of updates |
| `propertysync_resets` | *violated*: an update leaves the log it has sent as it is | 2 players |
| `framing` | buffers fit; refinement of `Pipe`; what is sent arrives | 3 messages of 3 lengths, lengths of one to three bytes, chunks of up to 7, a buffer of 24 |
| `messages` | kept objects are blank; written is read, in the size announced; objects are worth their values | all 21 messages, 2 calls, 3 for those with the most kinds of fields |
| `navmesh` | tiles, links and references stay right; queries answer right; a search under way is sound; sliced paths hold | 5 tiles for 3 places, two of them layers at one, as many as are looked at there, and one of an earlier file with its reference; 4 changes and slices, 3 changes before a query |
| `navigation` | the walker stays on the mesh, keeps its pace, arrives | 3 files, 4 goals, 2 messages, 4 ms frames, 44 ms |

Why the bounds are enough. Sight is a relation between two entities, and a round changes it one
entity at a time; two entities show every order of one observer's query with the other's moves. Cells have side 4, so that a radius reaches
from one cell into another and a radius of 8 exceeds the maximum. The theorems below remove these
bounds for everything but liveness. Wheels of three slots come around and cascade to the third wheel
within 9 frames; 14 frames hold a timer of 10 frames started after four.

Effects need a second attack while the first is pending to go wrong, which takes an update that is late
(`MaxElapse` above one frame) and a cooldown no longer than the delay. Sessions need an address and a name
that are used again with an effect pending. An array of three elements has a first, a last and a middle
one, and `Width` is just above it, so that a position that travels wrong is seen. With more than two
clients nothing new happens in `PropertySync`: clients do not act on each other; monsters are not in the
instance.

A frame goes wrong at a cut inside its length, at its first or last byte, or between two frames: three
messages, the longest of them longer than two chunks, have all of these, and fill the buffer. An object
goes wrong when it is set, cleared and used again: three calls, the third of which may merge or parse a
whole object. Of the tiles one has an inner edge and two portals to one neighbour, so that an edge is open
in parts; one is a layer above another, with a jump; one has more jumps into its neighbour than that has
links. Salts have two bits and come round. Nodes of 4 and 2, and paths of 2, are too few for the longest path
there. A walk over the longest path takes the time of ten frames; frames come one to five ms apart, so late
ones make several steps.

Two runs expect a violation; each is a place where a comment or an assertion says something the code
does not do (`PROJECT.json`, "findings"):

* `player.cpp:62` asserts that who plays an animation is in a space; a player that has logged in but not
  joined may attack.
* `space.cpp:236` says the state is reset; the call resets the entity's own flag and leaves those of its
  components (`UpdateResets`: a player joins, the first update sends it the log of its skills, and the log is
  still there). `entity_reset_dirty`, which visits the components, is called nowhere. So each update sends
  all of that again, and the log only grows. The attributes survive it (`UpdateBringsUpToDate`): their
  deltas are absolute. What a client makes of the repeated log is not in the repository and is not claimed.

Two more are seen in the models and have no run. `space.cpp:250` speaks of entities *newly* entering; what an
update sends inside a round is published and sent again (`grid_aoi.cpp:51`). It costs messages, but no
client ends up wrong (`ViewMatchesInterests`). And the timer that is a turn late, above.

### Fairness

`SpaceFairSpec`. `WF(AOIStep)`: the thread is scheduled. `SF(StopSetFlag)`: `_stop_flag_mutex` is released for 50 ms
in every round, but not continuously, so a waiting `stop()` gets it only by being enabled again and
again. `WF(StopJoin)`. `WF(Update)`: the repeating timer. Nothing obliges the main thread
to call anything else, so the liveness properties do not depend on clients. They speak of entities
that come to rest, which the bounds on moves and ids bring about.

`Framing!FairSpec`: weak fairness of writing out and of reading, the event loops of both ends; nobody has to
send, and a connection may be lost at any time. `Navigation!Spec`: weak fairness of the clock (time passes,
frames are ticked, alarms ring) and of a callback that began; nobody has to send messages, which the bound
`LastRequest` ends in time for a last walk to be finished.

## 4. Proofs

`SpaceProofs` proves, for every set of entities, positions, radii and every even cell size, all seven
safety properties the run `gridaoi` checks. The assumptions are those of `GridAOI`: ids are positive,
positions are pairs of integers, radii positive, the cell size even and positive (so that 1.5 times it
is an integer; the space uses 30). `MaxMoves` bounds a counter only.

Three inductive invariants, each using the ones before:

1. `IndexInv` = `TypeOK` and `GridsMatch` and `GhostsInert`, with `LocalsInv` (what the thread's locals
   hold at each place: the copied index agrees with the copied table, the query's candidates are in the
   copy, nothing is left over outside a round) and `UsedInv` (only ids that were handed out occur).
   `QueryStaysInCopy` follows, and so does `QueryExact`, with the geometry: truncation is monotonic
   (`TruncMonotonic`), a circle lies in its square (`CircleInSquare`), so the cell of any point inside
   the circle is in the range of cells visited (`CircleInRange`). Ids of the copied index must be keys of
   the copied table or the proof of `GhostsInert` breaks: a ghost could be given to a member.
2. `SymmetryInv` = the live table is symmetric, the copy is symmetric too, and while a round runs the
   two cannot disagree on who is a member of both. Symmetry of the copy alone is not enough: publishing
   writes a copied record only where the live table still has the key, so the invariant also has to say
   that members absent from the copy are in nobody's sight.
3. `FreshInv` follows the query candidate by candidate: an untouched candidate that has been read is in
   `found` exactly when within the radius, one that is half read has its true coordinate in `probe`.

It goes on with the main thread's side, for every set of players among the entities.
`SpaceInv` is the first two invariants with `ViewInv`: in the live table *and in the copy a round works
on*, applying what is pending for a member to its view gives its sight (`ViewFollows`); no notify or view
mentions an id before it is used (`MentionsInv`); and while a round runs, whatever is pending in the live
table is pending in the copy as well, so that publishing the copy can only repeat what was fetched
meanwhile, never lose it (`RepeatsInv`). Without the last part `Publish` is not inductive. From it follow
`ViewAlwaysMatches`, `BroadcastAlwaysMatches` and the refinement `SpaceKeepsPromise`: joins, leaves,
updates and published rounds are the steps of `Sight`, every other step of either thread is none.

`WheelTimerProofs` proves the wheels for any number of slots per wheel (at least two), any frame length and
delays. `TimerInv`: the slot indices are the digits of the frame (`WheelsInv`), every live task is in one
place (`PlaceInv`), and the place is where the wheels will find it in time (`ScheduleInv`): in the lowest
wheel the slot of its due frame, less than a turn ahead; in an upper one a slot that cascades before it is
due. The code loses a frame where a task of the second or third wheel is due on a multiple of `MaxSlots`: it
rings a turn late, and `DueFrame` says so; `NothingOverdue` and `Timers` allow just that. Most of the
proof is arithmetic of quotients and remainders by `MaxSlots` and its square. `WheelsKeepContract` is the
refinement of `Timers`, action by action, with re-entrant callbacks.

`SessionsProofs` has two invariants. `CombatInv` says that a remembered timer is pending, of that owner and
that kind (`Remembered`, more than `NoStaleTimer`), that skills are active exactly while pending, and
that a pending attack lands no later than its owner may attack again (`AttacksLand`): that is why
one field is enough to remember it, and what the raw pointers captured by the callbacks rest on. It needs
`AttackFitsCooldown` and `AttackWithinTurn` (the delay is less than a turn of the lowest wheel, so the attack
is not one of the late timers); both hold with the constants of the code, 500 ms of 33 ms frames, a cooldown of
1000 ms and 1024 slots. `SessionsInv` adds the tables. The action property `LivesOnce`
(`EveryoneLivesOnce`) is proved step by step: a login takes an eid above all that were handed out, a join needs a
player that is alive (`PlayerAlive`, from the tables) and so not one that is over, and whoever leaves is
deleted.

`SyncProofs` proves two modules. Of `PropertySync`, `StaleInv` (types, absentees see nobody, what is wrong is flagged) is inductive;
it and the step of `Update` give `UpdateAlwaysRight`. It assumes no more than natural constants.

It proves `SyncArray` for every set of values, every length below `Width` and any number of
calls. `ArrayInv`: reading the deltas on their way and then the log, from the replica, gives the
owner's array, and every prefix of the deltas on their way reads to a legal array. That no reader
assertion fires needs the latter, for each delta separately. Every method logs what it does (`PushBackHonest`,
...). `DeltasKeepMirror` refines `Mirror`: the arrays on their way are what the deltas read to.

`FramingProofs` proves `Framing` for any radix, sizes, names and payloads. First, that
`read_7bit_encoded_int` inverts `write_7bit_encoded_int` for every number and whatever follows it
(`AllReadable`, `ReadIs`), and that the bytes before the last one of a length do not end it. `WireInv`: what
`RecvBuffer` holds, then what is in the kernel, then the rest of the stream is the concatenation of the
frames of the messages not yet handled; the rest is the output buffer, or, once that was dropped, anything. A
turn of the loop keeps it and takes a byte (`TurnServes`), so the loop ends with nothing left (`CutServes`), and
`handle_msg` finds name and payload again (`SplitIs`). `ConnectionIsPipe` is the refinement of `Pipe`. `BuffersAlwaysFit`
has the arrays of `RecvBuffer` and the assertion of `recv`; it needs `LengthsFit`: what the send buffer admits has a
length of at most `MaxLenSize` bytes (16 MiB take four of the five).

`NavMeshProofs` proves the tile table of `NavMesh` for any tiles, sizes of the table and of the lists, and any
division of a reference into salt, tile and polygon. `MeshInv` has six parts, each about what one of the
structures says of the others:

* `TableInv`: every tile that is there has its polygons, a list of links for each, and as many free links as
  are not in use (`Sane`). This is what each of the folds that link and unlink must keep (`Follows`); their
  order, and how many links run out, do not matter to it.
* `FreeInv`, `LookupInv`, `PlaceInv`: the free list has each free place once; the list of a hash has just
  the tiles of that hash, each once; no two tiles have the same place and layer. The first two give `addTile`
  and `removeTile` each other's preconditions, the third is what the look-up of `addTile` finds out: without
  `LookupInv` an answer of "none there" says nothing.
* `RefsInv`: of each reference handed out, the salt is below that of its place, or equal to it with the tile
  there. `RefsNameTheirTile` alone is not inductive: it says nothing of references that are not valid now and
  that a later tile could bring back.
* `LinksInv`: for `FewLayers`, every link leads to a polygon of a tile that is there, at the place of its own tile
  or next to it. The last half is why it is inductive: `removeTile` unlinks the tiles at its place and on its
  eight sides and no others, so a link from further away would stay behind (`NeighboursHave`: with few layers
  every tile around is among those looked at; `ForgotBy`: what is unlinked keeps no link).

That a reference is taken apart as it was put together (`DecodeRef`) is the arithmetic of quotients; the salt
skips zero, so no reference is zero. `TilesAccountedHolds`, `RefsNameTheirTileHolds` and `NoneDanglesHolds` follow. The
folds of the module all have the shape `Through`, with an operator for one step; that they are computed
(`FoldExists`) and keep what each step keeps is proved once, for the names of those operators (`Op`), because an
operator cannot be a parameter of a lemma here.

`WalkProofs` proves `KeepsPace` of `Walk` for any path, speed and frame length, whenever a message comes; as the
steps of `Navigation` are those of `Walk` or leave it alone, it holds there. `WalkInv` is the invariant: there is
an alarm exactly for a monster that walks, due in the next frame (`AlarmInv`); as many calls of `update` are
behind it as frames, that of the present one perhaps still to come (`FrameInv`); and the time to the last corner
passed plus the time since is the time of those calls (`PlaceInv`). `KeepsPace` alone is not inductive: a place,
rounded, does not determine the segment and the time in it. One call keeps what is behind plus
what is left (`StrideKeeps`), also over legs of no length, and the calls of one callback come to an
end within the path (`MovedRight`). It needs a turn of the lowest wheel of more than one frame: else the timer, set
again in each frame, would be one of the late ones.

Where a proof goes by induction over the number of steps, elements or bytes it uses `DataLemmas!Induction`, a
set that holds 0 and is closed under successor holds every number; it is proved from the library's
fact that `<` is well-founded on the naturals. Existence and uniqueness of the recursive functions (`Replay`,
`FlattenSeq`, `write_7bit_encoded_int`, `Cut`, `Times`, `Moved`) are proved with it from their defining equations.

`MaxMoves`, `MaxTimers`, `MaxFrame`, `MaxEids`, `MaxCalls`, `MaxSent` and the like bound instances only; no proof uses
more than that they are numbers.

Every safety and action property that the runs check of `GridAOI`, `Space`, `WheelTimer`, `Combat`, `Sessions`,
`SyncArray`, `PropertySync` and `Framing` is a theorem, and so are the four refinements, of `Sight`, `Timers`, `Mirror` and
`Pipe`; of `NavMesh` all but one are, and `KeepsPace` of `Walk`. Only model-checked:

* liveness (`StopReturns`, `InterestsForget`, `ViewsConverge`, `SentArrives`, `Arrives`), out of the prover's reach;
* `LinksFollowTiles`: that no link is missing and none too many depends on the geometry of portals, which
  must be the same seen from either side; what is proved is where links lead and that their slots are
  accounted for;
* the properties of `Messages`, `NavQuery`, `NavArea`, `StraightPath`, and `StaysOnMesh` of `Navigation`, which compute with recursive
  operators over schemas, heaps, meshes and paths that the provers cannot expand.

## 5. What is left out, and the plan

Disagreements noted here without a run. `aoi.h:54` calls `get_observers` "all objects that care about
eid", but deleted ids stay in it; `call_others` hides it by asking `find_entity` (`BroadcastMatchesView`).
`space_service.cpp:61` leaves the connections to `TcpServer` in `stop()`, which does not know them; nothing calls
`stop()`. `TSyncArray::clear` logs an operation the reader asserts on; nothing calls it.
`finalizeSlicedFindPath` reports BUFFER_TOO_SMALL for a path that just fits. A query that is finished twice
answers the second time with success and a path of one reference, zero. `util/fifo.h:76` repeats its last
loop while the exchange *succeeds*: when two producers finish in the other order than they began,
`_tail_update` stays behind and readers stop there; `wheel_timer.h` and `util/queue_timer.h`, both included by
`game_server.cpp`, define a `TimerTask` each.

Not modelled:

* rounding of floats, and what a data race does to the buckets of an `unordered_map` (the model follows
  the race at the level of keys and coordinates only);
* what callers inside `Space::update` do with a connection that a full send buffer deletes under them
  (`Framing` has the connection alone, `Sessions` has no full buffers); a frame of length zero, which no
  message of the server has; errors of a connection other than the two that close it; listening;
* of the messages: arenas, unknown fields, reflection, UTF-8 checks, cached sizes; the bytes of `kick_out`;
* of Detour: detail meshes and heights inside polygons, polygons other than rectangles, the checks and byte
  order of files, random points, the any-angle and all-crossings options, wall normals, two searches that
  share one query object (a `findPath` between two slices clears their nodes; the server uses no slices);
* `removeTile` with a reference whose salt fits an empty slot, as after a salt has come round: the code checks
  the salt alone (`DetourNavMesh.cpp:1253`) and goes on to a null header;
* positions that are not finite: `findNearestPoly` refuses them without setting the reference that `find_path`
  goes on to use (`space.cpp:377`);
* shields, critical hits and lifesteal, which no entity has; who is in a sector (`math_utils.cpp`): any set
  of victims;
* `util/fifo.h` and `util/queue_timer.h`, whose only instances are a test's local and a global that nothing
  updates; fpm, which nothing includes; start-up.

The contracts are composed by hand: `Combat` and `Walk` extend `Timers`, `PropertySync` extends `Sight`, and
the detailed modules are shown to implement those. `AttackFitsCooldown` is an assumption on constants that
the real ones meet: an attack lands after 500 ms, 15 frames, and the next is allowed after 1000 ms, 30
frames.

Plan, most important first:

1. *(done)* `GridAOI`, `Space` with `Sight`, `WheelTimer` with `Timers`, `Combat`, `Sessions`, `SyncArray` with
   `Mirror`, `PropertySync`; the proofs of `GridAOI`.
2. *(done)* `Framing` with `Pipe`, `Messages` with `Values`, the navigation mesh and its queries, `Walk`, `Navigation`.
3. *(done)* Proofs of `Space` with `KeepsPromise`, `WheelTimer` with `KeepsContract`, `Combat` and `Sessions`,
   `SyncArray` with `KeepsMirror`, `PropertySync`, and `Framing` with `KeepsPipe`.
4. *(done)* The tile table of `NavMesh`: `TilesAccounted`, `RefsNameTheirTile`, `NoneDangles`; the pace of `Walk`.
5. A connection lost from inside a send, composed with `Sessions`.
