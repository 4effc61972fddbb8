# A verification of Game21

TLA+ models of the stateful core of Game21 (TypeScript, `src/src/main/ts/togos-game21/`),
checked by TLC on small instances and, where a proof is within reach, proved by TLAPS
for every instance. File names below are relative to that directory; `DBM`, `GDM` and
`Sim` are `DistributedBucketMap.ts`, `GameDataManager.ts` and `Maze1Simulator.ts`.

The program runs on one JavaScript thread. A callback runs to completion, and everything
hard about it happens *between* callbacks: a promise is waited for, other callbacks
run, and what was read before is used after. One callback is one action of a model, and
the answers of datastores and networks come in any order the code allows.

## 1. Inventory

| component | files | state | operations | correct when |
|---|---|---|---|---|
| Persistent name map | `DistributedBucketMap.ts` | root URI, pending and current updates, the promise of the current batch | `storeValues`, `flushUpdates`, `fetchValue` | no update is lost or reordered by batching; a flush covers what was stored before; a fetch sees the latest mapping; the root can always be fetched |
| Game data manager | `GameDataManager.ts` | cache of promises, mutable objects, temporary objects and names, names being stored, known stored URNs | `storeObject`, `fastStoreObject`, `tempStoreObject`, `updateMap`, `fetchObject`, `getMutableRoom`, `flushUpdates`, `clearCache`, `fullyCacheRoom` | a name shows what it was last set to; nothing becomes unobtainable; a save is self-contained |
| Datastores | `*Datastore.ts`, `promises.ts`, `http.ts` | blobs by hash URN | `get`, `fetch`, `store`, `fastStore`, `put` | a stored URN can be fetched; a failure is reported |
| Simulation chain | `Maze1Simulator.ts`, `Maze1SimulationState.ts`, `Maze1VisionUpdate.ts` | queue of actions, promise of the latest state, the step under way | `enqueueAction`, `update`, `doOneOffInterStateUpdate`, `flushUpdates` | each action handled once, in order, in time; steps keep time; a save fits its data |
| World changes | `Maze1Simulator.ts`, `Maze1SimulationUpdate.ts`, `worldutil.ts` | rooms, entities, inventories, which rooms are simulated | physics update, commands of players, pickups, drops, death | an item is in one place, and stays in existence; what can move is simulated |
| Entity subsystems | `Maze1SimulationUpdate.ts`, `tiletrees.ts`, `internalsystemprogram.ts` | subsystems inside entities, versions of tile trees | bus messages, programs, pokes, signals | a subsystem keeps its changes; other entities do not get them; messages end |
| Wire networks | `conductornetworks.ts`, `entityconductornetworks.ts` | pure | networks of tiles joined; endpoints reached by a signal | a signal gets where a walk along the wires does |
| Network devices | `netdev/*`, `inet/MACAddressMap.ts`, `inet/DuplicatePacketTable.ts` | links, forward table, duplicate table | `packetReceived`, `linkAdded`, `linkRemoved`, `update` | packets do not multiply in loops; they reach their host |
| IP routing | `inet/Router.ts`, `inet/RoutingTable.ts`, encoders | links, routes, auto-route prefixes | `handlePacket`, `addLink`, `removeLink` | longest prefix wins, the later of equal ones; no route to a removed link; nobody takes another's route |
| Sockets | `sock/*` | connection, queued messages | connect, disconnect, send, receive | a queued message is sent once, in order |
| Maze generation | `graphmaze/*` | the maze so far | generate, solve, lay out | a maze has no trap; its solution is the shortest |
| Forth, tokenizer | `forth/*`, `lang/Tokenizer.ts`, `ForthProceduralShape.ts` | token buffer; dictionary and fixups; stacks, context | tokenize, compile, run | references resolved; contexts restored; fuel bounds runs; tokens where they say |
| User interface, rendering, demos, vendored code | `Maze1.ts`, `ui/*`, `rendering.ts`, ... | | | not modelled: canvas, floating point, I/O |

How they interact. `Maze1.ts` creates a `GameDataManager` over a datastore and a
`Maze1Simulator` over the manager, calls `update` from a timer and `enqueueAction` from
input events. A simulation update makes rooms mutable through `getMutableRoom`, runs
actions on them, and stores the rooms it needs persistently with the manager;
`flushUpdates` of the simulator calls `flushUpdates` of the manager, which stores
objects in the datastore and the names in the map. A signal on a wire becomes a
simulation action, which becomes a bus message to a network device in another entity.
The network devices also run outside the game, in `NetworkDeviceShell`.

Hard behaviours are listed under `hazards` in `PROJECT.json`, each at its line. The
main ones: updates that arrive while a batch is being written; one rejected promise to
which everything later is chained; the cache read before and after a promise; a save
made up of several stores; actions enqueued while a step is under way.

## 2. How the modules fit together

```
WriteBehindMap <= implemented by = DistributedBucketMap <- GameDataManager <- MCGameDataManager
Maze1Simulator                    (how updates follow each other)
World <- MCWorld                  (what a physics update and commands do to things)
ConductorNetworks <- EntityBus <- MCEntityBus   (what actions do inside entities)
GenerationTable <- EthernetNetwork <- MCEthernetNetwork
RoutingTable <- Router, WebSocketClient <- RoutedNetwork <- MCRoutedNetwork
MazeGenerator <- MazeSolver <- MCMazeGenerator
Tokenizer <- Forth <- MCForth
```

An arrow is EXTENDS, or shared variables and actions. The theorems about a module `M` are in
`MProofs`: there are eight of these, for `GameDataManager` (and `DistributedBucketMap`),
`EthernetNetwork` (and `GenerationTable`), `RoutedNetwork` (and `Router`), `Maze1Simulator`, `World`,
`EntityBus`, `MazeGenerator` and `Forth`.
The simulator is modelled by three modules that each leave out what the others are about:
when actions are handled, where things are, and what entities tell each other.

## 3. The modules

### WriteBehindMap — what the name map promises

A map, a list of updates not yet written, and one step that writes some of the oldest
of them. It says nothing of batches, promises, nodes or failures.

### DistributedBucketMap — `DBM`

| variable | code |
|---|---|
| `root`, `pending`, `current` | `_rootNodeUri`, `pendingUpdates`, `currentUpdates` |
| `phase` | how far `currentUpdatePromise` has got: reading the root node, storing the new one, applied, or rejected |
| `nodes` | what the datastore holds |
| `call` | the promise that each caller holds |
| `history`, `sent`, `saved` | history variables: the map after each `storeValues`; which of these the batch and the root are |

`StoreValues` is the whole of `storeValues`, including the start of a batch when none is
under way; `GotRootNode` and `NodeStored` are the two halves of the free function
`storeValues`; `NextBatch` / `NoNextBatch` the `then` of `storeUpdates`; `BatchFails` a
rejection anywhere. `FlushUpdates`, `FetchValue` and `AnswerFetch` are the two reading
operations. A URI is a hash of what it names, so a node stands for its own URI. Only leaf
nodes exist in the code (`_storeValues` throws on others), and only these are modelled.
The datastore is external to the module: data lands (`NodeLands`), later the store is
acknowledged; either may fail when `DatastoreMayFail`.

### GameDataManager — `GDM`

EXTENDS `DistributedBucketMap` and shares its variables: `updateMap` and `storeObject`
call `storeValues` of the map manager, the other steps of the map manager (`MapStep`)
interleave. `cache` holds for each name and URN how far the cached promise is and for
which object; `mutable`, `tempUrns`, `tempNames`, `storing`, `knownStored` are the fields
of the same names; `landing` and `blobs` are the datastore. A fetch of a name uses what
the name is mapped to at the call: that is `FetchSeesLatest`, proved of
`DistributedBucketMap`.

`Uses` says which operations a run lets the program call, and `Habits` what that
program takes care of: `serialBinds` (it does not bind a name again while that name is
being stored), `quietClears` (no cache clear while objects are on their way to the
datastore), `liveRefs` (what it stores refers to nothing that a flush dropped). Each
habit is needed for the property of the runs that assume it: `GDM_clear` drops
`quietClears` and shows what goes wrong; without `serialBinds`, of two `storeObject` calls for
one name that overlap, the older puts its object back in the cache when its data is stored
(`GDM:319`), against the comment at `GDM:61-63`.

### Maze1Simulator — `Sim`

The chain of promises is a queue of `jobs`; a major step is a job that goes through
`stage`s: logic updates, physics, vision, logic updates, inter-state updates. The arrays
in which actions travel are variables of their own, in the order in which an action
passes through them: `enqueued` (`_enqueuedActions`), `actions` (`enqueuedActions` of the
state), `todo` (what the logic update has still to handle), `fresh` (what it
enqueued). `PushInPlace` is the way in which physics and vision enqueue: their update
object starts with the array of the state itself and pushes into it. What an action does
to the world is left out; that it may enqueue others (`Echo`), throw or fail to find a
room (`Reject`) is not.

### GenerationTable — `inet/MACAddressMap.ts`, `inet/DuplicatePacketTable.ts`

A map that forgets in generations: both files keep the last entries in `newer`
(`table`, `packetTimes`) and those before in `older` (`table1`, `packetTimes1`).
`AddEntry` and `GetEntry` are their functions; `Recalls` says what a table is good for in
terms of the additions made to it.

### EthernetNetwork — `netdev/*`

| variable | code |
|---|---|
| `peer`, `nextPath` | `links` and `nextLinkId` of each `NetworkDeviceShell`, `linkPaths` of its device |
| `forward`, `seen` | `forwardTable` and `duplicatePacketTable` of each switch |
| `wire` | messages between `send` of a `PairedLink` and the listener of its counterpart |
| `now` | `Date.now()`, which `update` hands to the device |
| `sends`, `got`, `accepted`, `staleUntil` | history variables |

`PacketReceived` is `receivePacket` of the shell: `update`, then `packetReceived` of the
switch, then `processQueuedMessages`. `PacketRepeated` is the same for a repeater,
`Plug` and `Unplug` are `addLink` and `removeLink` for the link of a host. A frame stands
for its bytes, so that two frames are the same packet exactly if their CRCs agree:
collisions are left out. Its addresses and whether it has the 14 bytes of a header are
all that a switch looks at. A frame sent to a link that was removed still arrives, one
sent from it does not: the state of the receiving end is what counts. Hosts hang on
switches; on a repeater in a loop a host would get both copies, and the code does
nothing about that. Time only goes forward: a clock that is put back is not modelled.

### Router, RoutingTable, WebSocketClient, RoutedNetwork — `inet/Router.ts`, `inet/RoutingTable.ts`, `sock/*`

`Router` is the router alone: `links`, the links whose handlers are set (`handlers`) and the
routing table (`routes`), with `AddLink`, `RemoveLink` and `HandlePacket`, in which an automatic
route is learned, a packet for the router answered, and another one forwarded by the longest
prefix. Which packets come in is left open; that is all the proofs need. An address is the
sequence of its bytes, and the length of a prefix a number of bits, a whole number of bytes since
`addRoute` refuses others. The table maps the code's keys, a cleared address and a length, to the
link and the place of the route in the order in which routes were added: of routes of the same
length that match, `findDestination` takes the last. There can be several because
`clearNonPrefixBits` compares the number of bits with `address.length`, a number of bytes
(`inet/IPAddress.ts:10`): an address of 16 bytes is not cleared for a prefix of 16 bits, so every
source gets a key of its own, and the last source to be heard takes over the whole prefix.
`RoutesStay` excepts such routes (`TakenOver`); without the exception they violate it. The instance
of `IP_clients` has addresses of two bytes and prefixes of 0, 8 and 16 bits, where the exception
does not arise; the theorem covers all lengths. `WebSocketClient` is the client with the events of the browser's
sockets, each a task of its own: open, message, error, close, and the late close event of a
socket that was given up. `RoutedNetwork` composes both: a socket that `RouterCLI.ts` accepts
becomes a link, the client takes an address of the prefix that the router advertises on it, and
pings go between clients, the router and nobody. The encoding of packets is left out.

### World — `Maze1Simulator.ts`, `Maze1SimulationUpdate.ts`

| variable | code |
|---|---|
| `contents`, `inventory`, `energy`, `dead`, `closed` | `roomEntities`, `maze1Inventory`, `storedEnergy`, the class of dead players, doors |
| `oldActive`, `active` | `physicallyActiveRoomIdSet` before the update, and the one that it builds |
| `phase`, `todo`, `picker`, `found` | where an update is: `Visit`s of players, `CheckFound` of what is within reach, forces, collisions, moves |
| `made`, `spent`, `across` | history variables |

Geometry is a choice: which things a player reaches, whether there is an empty place, whether a
thing crosses a border. What the code does with the answer is not: an item that matters less is
dropped to make room, keys open doors, food becomes energy, a player without energy dies and
leaves the inventory behind. Commands between updates (`/give`, throwing) are actions of their own.

### ConductorNetworks, EntityBus — `conductornetworks.ts`, `Maze1SimulationUpdate.ts`

`ConductorNetworks` has the pure part: parts of networks joined where ends meet, and the
search for the endpoints with the least resistance. In `EntityBus` an input from outside is an
action; an action sends a message to the bus of an entity, whose subsystems run programs,
send messages, poke other entities and put signals on wires. A call that handles an entity is a
record on `stack`: the entity as it was found, its messages, what is left of the program. That
matters because a call puts back the entity that it has, whatever was done to it meanwhile; a call
that a message to a tile makes even puts back the whole tree that it began with. A
single entity of a room is changed in place; a tile is a version, and its change a new palette
entry of the tree. Entities, neighbors and subsystems are finite sets. That the joined network of a
tree is again one (`IsNetwork`: sequences of nodes and links, each link with two of the nodes and a
resistance) is an assumption of its own (`NetworksAssumption`), since networks are joined by folds.

### MazeGenerator, MazeSolver — `graphmaze/*`

A random choice is a choice: which node a path starts from, of which kind it is, whether a later
stage goes without the key that was put last. All that is dug is a `Line` of nodes; a loop adds one
link. `Done` mazes are judged by what a player can do: `Players` is the set of all nodes and keys
that can be got to, `Grown` out of one who stands at the first node. The solver is a function of
the maze: `Searches` applies an iteration of its loop to the search, a record, until the loop is left.
What it finds is compared with `PlayersWithin`, all players that so many moves lead to. A player's
id lists the items in the order in which they were taken (`GraphMazeSolver.ts:29-33`), so that the
code visits a player again who took the same items in another order. The model takes them for one:
the second comes no sooner and has the same exits, so the length of the solution, and whether
there is a dead end, are the same.

### Tokenizer, Forth — `lang/Tokenizer.ts`, `forth/rs1*.ts`, `ForthProceduralShape.ts`

`Read` is `_char`: what a character does to the tokenizer, and the token it completes, which
`CompileToken` compiles at once, as the listener does. A source is read character by character;
a character that stands for a word is as wide as one. The `program` is a sequence of words; a
placeholder is a word, and `fixups` are the places that wait for a name. `RunWord` is one turn of
the loop of `runContext`. Context values and transforms are objects in a small heap, since the
question is who shares them. Left out are the words that give fractions (`**`, `/`, the
trigonometric ones and `deg2rad`) and those that draw, move or rotate. The only context variable
that sources have is `$v`, although any name with a `$` would do
(`ForthProceduralShape.ts:244-247`). A definition without `;` that runs into the next one is within
definitions for `BodiesAreClosed`, as it is for the compiler. Where main goes on
after a definition is a word like others, named `(resume main)`: a source could only spell that, or
`jump:(resume main)`, in single quotes. That none does is the module's `ResumeAssumption`.

## 4. The runs

| run | instance | question |
|---|---|---|
| `DBM_map` | one key, two values, two callers, three `storeValues`, failures | what promises and fetches answer; the refinement of `WriteBehindMap`; everything is saved unless a batch is rejected, and every promise settles |
| `DBM_stuck` | one value, two `storeValues`, with the claim that a rejection does no lasting harm | **violated** |
| `GDM_faults` | one name, two objects, one caller, failures, clears at any time | cache, map and datastore agree in the presence of rejections |
| `GDM_session` | a room that refers to its class; temporary and mutable objects, saves, clears | nothing is lost; a save loads |
| `GDM_clear` | a clear while objects are being stored | **violated** |
| `SIM_steps` | two logic steps in half an update, three actions, three jobs | all properties of the chain, liveness included |
| `NET_loop` | two switches and a repeater in a loop, tables of one entry per generation, three frames, a host that is plugged in elsewhere | no copy is passed on, or received, twice; what is sent gets there |
| `IP_clients` | two clients, three sockets, two pings, a removal | routes lead to links and stay; nobody gets another's packets; queued packets go out once, in order; the page shows the connection |
| `WORLD_items` | two players, three items, a door, three rooms in a row | items are in one place and do not vanish; what can move is simulated |
| `BUS_signals` | a tree of four tiles and four entities in the next room; six inputs; a ring of wires that crosses the border twice | changes are kept and stay with their entity; signals get as far as the wires; actions run out |
| `MAZE_keys` | two keys, two nodes per stage, one complication | no traps, no way round the doors, shortest solutions |
| `FORTH_words` | all sources of some words or characters of six alphabets | forward references, definitions, saved contexts, fuel, tokens |

Bounds, and why they are enough. `MaxStores` bounds `storeValues`: three calls make a
batch in flight, the next one waiting and an update that joins it, which is every
relation the manager distinguishes; the safety properties of that module are proved
without the bound. Two objects let a name be bound, bound again and bound back; one name
suffices because the cache treats names independently, and the second object of
`GDM_session` is what the first refers to. `FewFetches` of that run lets two fetches be under
way at the same time; in `GDM_faults` any number may be. Three jobs allow an update, a save and an
update after it, or two updates with a one-off update between; three actions allow one
handled, one waiting and one that arrives; `HalfSteps` = 2 makes a logic update that ends
its half and one that does not. Nothing else is bounded in the simulator: `Echo`es may be
enqueued without end, which is why `JobsSettle` is not trivial.

In `NET_loop` a timeout is one tick; three ticks (0, 1, 2) let an entry be good, on its last
moment, and outdated. Three frames make the generations of a table change places. `prompt` is
a history variable: whether the cables were quiet whenever time passed or a host moved, for only
then "what should get there" is well defined and `Delivered` applies. A frame is `Due` where cables lead
from its sender (`Joined`). The constraints let
time pass once while frames are under way, or a host move as long as no time has passed.

Three sockets let one client connect again while its old socket lives on, next to a client
that does not. In `WORLD_items` inventories hold one item, so that the second one found makes the
first go; three rooms in a row have a border on which a thing may be far from every player;
two players contend for an item and one finds what the other one left dying. The two rooms
of `BUS_signals` close a ring of wires that no single network contains, and one tile has a
way of more nodes but less resistance than the direct one; each of the six inputs may come
at any moment, two actions may wait. Two keys are needed for a later stage that does not
require the key put last; two nodes per stage and one complication let each kind of path be dug
from each node. In `FORTH_words` each alphabet is for one question: names defined before and
after their use (12 characters), quotes and escapes (5), stacks (5), a loop in a word (6),
contexts (8) and loops that use no fuel (8), the last three after a beginning that is given. In
loops that use no fuel contexts are restored but none is saved: `save-context` round and round
would fill memory, and the instance has no end of states.

Some properties have named parts that belong together: `CacheIsSound` is `DataTypeOK` and
`PinnedAreCached`; `PacketsKeepOrder` is `HandedOnceInOrder` and `NothingWaitsWhenOpen`;
`ItemsAreKept` is `InOnePlace` and `NothingVanishes`. The type invariant of a module is the
first conjunct of one of its properties, or is proved (section 5).

Deadlock is not checked where a bound stops the callers: such a state is the quiet one.

Fairness. `FairSpec` of `DistributedBucketMap` and of `Maze1Simulator` is weak fairness
of the promise callbacks: the event loop runs what is ready, and the datastore answers
or rejects. In `EntityBus` it is weak fairness of `Update`, which a timer calls, written out as
"infinitely often idle, or infinitely often an update" because an update can be taken unless
all is idle; in `Forth` it is that of the loop that runs the words. No fairness is assumed of
callers, of success, of inputs, or of `enqueueAction`.

### What the violated runs show

* `DBM_stuck` (`DBM:190-192`). A rejected batch leaves `currentUpdatePromise` set, so no
  later `storeValues` starts another: later updates stay in `pendingUpdates`.
  `SavedUnlessRejected` and `EveryPromiseSettles` say what does hold.
* `GDM_clear` (`GDM:240`, comment `GDM:269`). A flush forgets `tempObjectUrns` before the
  objects are stored; a clear then drops them, and a fetch in between leaves a rejection
  in the cache under the name.

### Noted while modelling, without a run

* A `storeValues` during a batch returns the promise of that batch, which does not cover
  the new updates (`DBM:192`); `flushUpdates` does not wait for updates stored while its
  last batch is being written (`DBM:211`).
* `flushUpdates` caches mutable objects under their names (`GDM:230`), although `GDM:72-73`
  says they are not in the cache; it drops temporary objects that are reachable only
  through stored ones (`GDM:201-205`), hence the habit `liveRefs`.
* Of two flushes that overlap the second finds nothing temporary left (`GDM:240`) and waits only for the map:
  it may resolve while objects of the first are still on their way, hence the one caller of `SavesLoad`.
* An action that throws rejects `_currentMajorStatePromise`, and with it every later
  update (`Sim:960`): action `Reject`, after which `RejectJob` is all that is left.
* The saved state shares its array of actions with the state the next update starts from
  (`Sim:1010`), and sees what physics and vision push into it while the data is being stored,
  although `Maze1SimulationState.ts:12` calls it "the state of the simulator between steps".
  `SaveIsComplete` says what does hold: of the actions that the simulator had taken over when the
  save began (`taken`), the state has all that the data has not seen, in order, and no others. What
  `enqueueAction` got and no logic update has taken over (`_enqueuedActions`) is in neither, and a
  loaded game does not have it: nothing in the code says that it should.
* `Maze1SimulationUpdate.ts:849` stores the subsystem as it was, not `updatedDevice`.
* In the game, `handleSubsystemBusMessage` never calls `update` of a device simulator,
  although `netdev/NetworkDeviceSimulator.ts:12` says that update "will be called before
  every externally-induced event". A switch in an entity would have no time: nothing
  would be a duplicate or outdated. The shells outside the game do call it.
* A frame that is sent again within the timeout is dropped as a duplicate, also when the
  first was lost (`inet/DuplicatePacketTable.ts:59`); `Due` leaves such frames out.
* `RouterCLI.ts` never removes a link when its websocket closes: the client's old address stays
  routed to a dead link (`OwnPacketsOnly` says that this link was its own). The late close event of
  an old socket clears the new connection, whose open event then throws. The option for
  automatic prefixes reads `arParts[3]` (`addAutoRoutePrefixFromString`), which makes the length NaN.
* Routes for prefixes of 16 bits of an IPv6 address are not shared by the prefix (`inet/IPAddress.ts:10`,
  see `Router` above), although `inet/Router.ts:256-265` says that future packets to the prefix go to the
  link that was heard first. `addAutoRoutePrefix` takes such a length; the command line cannot give it,
  since it only makes 128 or NaN.
* What is put across a border into a room that is not active hangs there until something
  touches the room: the set `across` in `ThingsAreSimulated`. `registerCollision` may name a room
  that the entity has left, and the update of it is then dropped with a message
  (`Maze1SimulationUpdate.ts:261`). `/create-room` for a room that exists empties it.
* Of two buttons of one poked tile the last to end puts back the tile as it found it, so the
  change of the other one is lost; the same happens to what a poke from within a rewrite of the
  same tree changed, on whatever tile of the tree, also when the rewriting call itself changes nothing:
  `_mutateEntityAtPath` then compares the old reference with one that the poke has replaced
  (`Maze1SimulationUpdate.ts:1105`) and puts the old one back. In `BUS_signals`, a message to the
  arm of a tile does that. `TilesKeepChanges` leaves out exactly these (`stale`). A change of nothing but
  a subsystem of a tile is always lost, and a tile whose state becomes that of another may get the
  subsystem of that one with it: the palette does not look at subsystems (`tiletrees.ts:59-71`). Hence
  `TilesKeepChanges` speaks of states alone. Ports hear any
  signal at their place, their own included, whatever its direction.
* A program that sends its own entity a message for each message never ends.
* One-way links lead to any node, although the comment at `graphmaze/GraphMazeGenerator2.ts:23-24`
  says "requiring no more keys". `NeverStuck` shows why that is no trap: holding a key implies having been
  through the earlier doors. With four buds and a `complectificationFactor` above 3/4, from level
  25 on, the loop that looks for nodes with few links may find none and go on forever. The solver is
  not run on the mazes that the game generates.
* `jump:...` (`rs1words.ts:390`) and all words of shapes but `!`, `@` and variables take no fuel, so
  `code-label: p p : p scale jump:p ;` hangs `draw`, although
  `forth/rs1.ts:151-153` says that a run ends when its fuel does: `Spins` in `RunEnds` is a run that
  is in a circle of such words, and `RunEnds` says that every other run ends. A comment between `:` and the
  name is an error, one between `alias:` and its names is not. `restore-context` does not restore
  `polygonPoints`, which `save-context` saves. A text in a program makes its run asynchronous, and
  `draw` throws while the run goes on.

## 5. The proofs

### The name map

The first part of `GameDataManagerProofs` is about `DistributedBucketMap` alone. It proves, from the two assumptions on the constants
(`Absent` and `Untouched` are no values; the bounds are a number and a Boolean), for any
sets of names, values and callers and any number of calls:

| theorem | says |
|---|---|
| `TypeCorrect` | `TypeOK` |
| `Snapshots` | `SnapshotInv`: root, current and pending are three moments of one history |
| `FlushesAreDurable` | `FlushIsDurable` |
| `FetchesSeeLatest` | `FetchSeesLatest` |
| `RootsStayStored` | `RootsAreStored` |
| `Refinement` | the manager implements `WriteBehindMap` |

`SnapshotInv` alone is not inductive: what a step makes of `current` depends on the phase
of the batch, so it is strengthened by `PhaseInv` (what `current` and `sent` are in each
phase). `FlushInv` adds, for every promise of a flush still open, that the batch it waits
for holds what it promised; `FetchInv` that a fetch under way overlays its root with
updates which, applied to that root, give the moment of its call. The algebra behind all
three is `OverlayAssoc`: overlaying is associative, with `NoUpdates` as its unit. The
refinement maps the concrete root, and the history after it, to the abstract map and
list; every step but `StoreValues` and the one that applies a batch is a stutter.

### The game data manager

The rest of `GameDataManagerProofs` builds on the name map's: the map manager's steps are cited by
their lemmas, and the cache is proved about on top, for any names, objects, references, callers
and any datastore:

| theorem | says |
|---|---|
| `KnownStaysStored` | `KnownStoredIsStored`: what a flush skips as stored is stored |
| `CacheStaysSound` | `CacheIsSound`, if the program rebinds no name that is being stored |
| `NamesStayLatest` | `NamesShowLatest`, under the same assumption |
| `NothingGetsLost` | `NothingLost`, in a play session without cache clears while objects are on their way |
| `SavesLoad` | `SavedGameLoads`, in a play session with one caller whose objects refer to nothing that was dropped |

The second and the third assume `"serialBinds" \in Habits`. The other habits of the program, and the bound
on calls, are not needed. `NamesShowLatest` looks at one place for each name, and a step moves the
name from one place to the next, so the invariant `NamesInv` speaks of all places at once: an entry
of the cache on its way or there, a mutable object, and `fetchHardRef`, each is what the name was
last set to, except that `fetchHardRef` may lag while the name is in `storing`. What ends the
exception is in `OpsInv`: the operation that took a name into `storing` holds the object that the
name was last set to, it is the only one to hold that name, and once it waits for the map the map has
caught up. `ValuesAsNamed` is needed where a name takes over an object's promise. `MapTaken` and
`MapFlushed` say what names show once the map manager has taken updates: the last moment of
`Snapshots`. TLC found no violation of any of these parts before they were proved.

The last two are about `PlaySession`: objects are made by `tempStoreObject` and `getMutableRoom` and
saved by `flushUpdates`, and the datastore does not reject. That is what `GDM_session` checks, and how the
game uses the manager, but for two calls: the record of a saved game is stored with `storeObject`
after the flush, and the command `set` binds a name with `updateMap` (`Maze1.ts:1301`). The
interleavings of `storeObject` are those of `GDM_faults`. A session with
rejections does lose objects (`GDM:159`, a rejected fetch stays cached), and `storeObject` among
temporary objects does too: what is reachable only through a stored object is dropped. `SessionInv` says what a
session adds: nothing is in `storing`, and everything that the map ever named is in the datastore or on its
way (`Stored`). What a flush does rests on `FlushSaves`: some set `W`, the walk, has every object that is
saved, with all that the object refers to, and all bound names; that in turn rests on `ClosureIsLeast`, that
`Closure` is the least closed set. `KeptInv`, for `NothingLost`, says of each object that
a name is bound to that it is `Kept`: cached, or in the datastore and not cached as
missing; on its way and cached; and that no fetch is under way that will not find it. It is here that
`"quietClears"` is needed, and `GDM_clear` shows why.

`SavesLoad` follows four facts, each a step of the way from the objects to the answer: `RefsInv`, what a stored
object refers to is stored too (which needs `"liveRefs"`); `WaitInv`, the caller waits for all that is
on its way; `AnswersInv`, the root that it gets is a moment of the map's history; `DoneInv`, what that root
needs is stored. `NeededIsIn` joins them: a set of objects that is closed under references, and has what
all names are mapped to, has all that a saved game needs. With two callers `WaitInv` is false, see
"Noted while modelling". TLC found no violation of `SessionInv`, `KeptInv` or the four facts on the instance of
`GDM_session` before they were proved.

### The switches

`EthernetNetworkProofs` begins with `GenerationTable`: for every size of the table, set of keys and
sequence of additions it proves that the two generations are two adjoining windows on that sequence
(`Represents`): an addition makes the newer one longer or moves both. `RepresentsRecalls`
draws the conclusion: `GetEntry` answers with the latest addition of a key, and may answer
with nothing only if more than `maxTableSize` additions came after it.

The rest carries this over to every switch of every network, for any
topology, frames, timeouts and bounds (assumed are only the shapes of the constants and
that `Unknown` is neither a time nor an entry):

| theorem | says |
|---|---|
| `TypeCorrect` | `TypeOK` |
| `SwitchesRecall` | `TablesRecall` |
| `NoDuplicatesPassedOn` | `PassedOnOnce` |
| `NoSecondCopy` | `ReceivedOnce` |
| `SentGetsThere` | `Delivered` |

`PassedOnOnce` is not inductive: that a packet is no duplicate says something about the
entry of the table, and about what was accepted only through `Represents`. The inductive
invariant adds that, and that acceptances are in the order of time (`AcceptedInOrder`),
because the entry found is that of the latest acceptance and the claim is about each.

`ReceivedOnce` is about a host, which keeps no record: what protects it is that the switch it
hangs on passes a frame on once. `OneCopy` therefore counts for each host and frame what it has
received and what is on the wire to it, which is one at most, and nothing as long as the switch at
the other end of its cable has not accepted the frame. `OneCable` ties host and switch together:
the peer of the host's path is the path whose peer is the host's. `NewPathsFree` says that a cable
plugged in next leads to a path that nobody uses, and `ItemsWereSent` that what is on the wire was
sent. The attempt showed that the property as first stated was too strong: a host that
is moved while a frame is under way may get one copy from each of two switches, an excuse that the
property now has (`MovedSince`) and the instance of `NET_loop` now reaches. Assumed is that a host
starts with at most one cable.

`Delivered` claims something of networks whose cables are `prompt`, and for these `DeliveryInv`
adds to the parts above that there are `Ways` which the state `Follows`. They are what
the switches' tables amount to: the devices that passed on the frame sent last, and for each host the devices that
heard from it since it was plugged in, with a way back to it on which a rank goes down. What a switch has
learned of a host leads along that way or is too old to be used (`EntriesLead`); a table that forgot
sends everywhere, which does no harm. While cables are busy, only the latest frame is under way, from devices that
passed it on (`OnlyLatest`), and it is `Bound` for every host that it is due at: each device that has
passed it on sent it the way back to that host, or on all cables (`GoesOn`). So if the cables are quiet
and the host has nothing, then none of the devices that passed the frame on is one that heard of the host,
since on the way back the rank would go down for ever; they are then all the devices that a cable
joins to the sender, among them the one the host hangs on. `GotThere` says of earlier frames that they
arrived. Each step is shown to leave such ways behind: a device that passes a frame on has heard from its source
and is put at the top of the rank, and to plug a host in elsewhere empties what was heard from it. The property
needs a duplicate timeout of at least one tick (`NetworkAssumption`): with none, a loop would teach
switches ways that go in circles. TLC found no violation of the property on the instance of `NET_loop` before
it was proved.

### The router

`RoutedNetworkProofs` begins with the router alone, with any links, addresses, prefixes and packets
coming in:

| theorem | says |
|---|---|
| `TypeCorrect` | `RouterTypeOK` |
| `NoStrayRoutes` | `RoutesLeadToLinks` |
| `RoutesAreKept` | `RoutesStay` |

The inductive invariant says besides the types and `RoutesLeadToLinks` that links whose handlers
are set are links: a packet can only come in through one of these, and the route that it
teaches leads there; and of the table (`TableOK`) that the addresses in its keys are cleared, that lengths
are those of prefixes of an address, and that routes of the same length have different places, which
are bounded. `LearnedTable` and `RemainingTable` say that learning and removing keep it. For
`RoutesAreKept`, `BestPrevails` says that among the routes that match there is one that prevails, and
`SameBest` that it does so in a part of the table too. A new route of the same length can only
match the same address if it has the same key (`SamePrefix`, `ClearedKey`), unless the length is the
exceptional one, and then it would not be new. That a longest route exists is an
induction on numbers, made by taking the least counterexample (`LeastNumber`, `GreatestNumber`,
from `NatLessThanWellFounded` and `WFMin`). Assumed is of the configuration that the lengths of
routes are whole bytes (`PrefixAssumption`) and that the static routes have keys as `addRoute` makes
them and places of their own (`StaticRoutesAssumption`).

### The networked game

It then proves of the composition, for any clients, sockets, prefixes and number of packets:

| theorem | says |
|---|---|
| `ImplementsRouter` | the network implements `Router` |
| `RoutesLeadOn` | `RoutesLeadToLinks`, of the composition |
| `OrderKept` | `PacketsKeepOrder` |
| `PageIsRight` | `PageShowsConnection` |
| `NobodyElsesPackets` | `OwnPacketsOnly` |

`ImplementsRouter` is where the open environment of `Router` is paid for: what comes through a
socket must be a packet, and the socket a link whose handlers are set. Hence `NetTypeOK`, which
says that queues and sockets hold packets. `RoutesLeadOn` then is one line. For `OrderKept` a step
has to know that a socket belongs to one client (`OwnSocket`): without it the open event of
somebody else's socket would flush a queue.

`OwnPacketsOnly` is a statement about the end of a long way: a client takes an address, sends from
it, the router learns a route, and later packets for that address go to whatever link the route leads
to, even when the client has another connection by then. `OwnInv` says for each stop that
addresses and clients match: what a client sends, queued or on its way, is from an address of its
own (`PacketsOf`), a route to a socket was learned from an address that the socket's client took
(`RoutesAreOwn`), and what is on the way to a client is for it or for all nodes (`PacketsFor`).
`FoundMatches` says that looking up an address finds nothing or the destination of a route that
matches it, and `OwnRouteMatches` that a route to a socket matches no address of another client. Assumed is what
the configuration must see to: static routes lead to the tunnel (`StaticAssumption`), and what the
router makes of an address it learns fits no address of the router or of another client
(`AddressAssumption`).

### The simulation chain

`Maze1SimulatorProofs`, for any number of logic steps in half an update, of actions, updates and
saves (assumed: the shapes of the constants):

| theorem | says |
|---|---|
| `TypeCorrect` | `TypeOK`, which is not checked by a run of its own |
| `ActionsHandledOnce` | `ActionsKept` |
| `StepsMatch` | `TimesMatch` |
| `HandledInTime` | `ActionsAreTimely` |
| `SavesFit` | `SaveIsComplete` |

`ActionsKept` speaks of all actions as one sequence; a step moves some from one array to the next.
The inductive invariant cuts the sequence in three by numbers: handled, taken over
(`TakenCount`), still enqueued. `OrderInv` says what is in each piece, with `Enumerates` for
arrays in which echoes lie between the actions from outside. `TimeInv` gives the time in each stage,
`TimelyInv` how far the handling has come: the first logic update of an update takes over all
there is, and physics comes after at least one. `SaveIsComplete` is inductive with these: it holds of
the array when a save begins because `OrderInv` does, and afterwards because all that is pushed into
the shared array while the data is being stored are echoes (`EnumeratesEcho`).

### The world

`WorldProofs`, for any rooms, neighborhoods, players, items, priorities and sizes of inventories:

| theorem | says |
|---|---|
| `NoItemLost` | `ItemsAreKept` |
| `NoInventoryOverflows` | `InventoriesFit` |
| `NothingHangs` | `ThingsAreSimulated` |

`InPlace` restates `ItemsAreKept` item by item. It needs `PickInv`: a player picks up what it found
at an earlier step, which is only right if that is still lying there, and a player that
has yet to be visited is alive. `SimulatedInv` extends `ThingsAreSimulated`
to the middle of an update: until the pickups are over, the rooms that count are those of the
update before (`Simulated`). TLC checked all parts of the invariant on the instance of
`WORLD_items` before they were proved.

### What entities are told

`EntityBusProofs`, for any entities, programs, wires, rooms and sequences of inputs:

| theorem | says |
|---|---|
| `SinglesKeep` | `SinglesKeepChanges` |
| `TilesKeep` | `TilesKeepChanges` |
| `EndpointsAreNearest` | a search finds all ends that a way leads to, each with the least resistance |
| `SignalsTakeBestWays` | where a signal goes on, and with what power |

Between its being found and its being put back a tile is what a call made of it, and calls are
nested, so the invariant is about the stack. `CallOfTile`: a call only adds to the state that it
found, only what the tile was told, and the version of the tree that it will put back holds nothing that any
tile was not told (`OnlyTold` says the same of the current version). `AllTold`: what a tile was told is in
the tree or in the copy of a call that will put it there, or the tile is `stale`. `PutIntoTree` is what
`rewriteTileTreeIntersecting` is good for: the tile is then one with the state it was given, whether a
palette entry was found or added, and every other tile is what it was. The calls that a poke or a signal
starts are as many as a finite set has members; `SequenceOfSet` and the lemmas on finite sets
(`OnwardIsFinite`, `PokedIsFinite`) say that each is there. TLC checked the invariant on the
instance of `BUS_signals` before it was proved.

`findConductorEndpoints` visits nodes again whose resistance fell, keeps two lists of who waits, and has no
bound; what it should find is `Ways`, the least set of nodes and resistances that has
the starts and goes on along links. `Finding` says of any moment of the search that what was found are ways,
that what is marked as waiting is in the queue, and that each link of a node that neither waits nor is being
visited has an other end that is near enough (`Near`). When nothing is left, what was found and all that is
farther is a set that goes on along links, so it has all ways. That this moment comes (`SearchEnds`) is not a matter of counting
visits: resistances only fall, so from some step on they all stay, and from there each step leaves less `ToDo`.
Only then is the recursive function of the model known to have a value: `LoopAnswers` says that there is such a
function, for loops that end and others, and `VisitedIs` that it is what the search is left with. Assumed is of a
network only its shape (`IsNetwork`); links may cost nothing, be parallel or lead back to their node.

### Mazes

`MazeGeneratorProofs`, for any keys, number of new nodes per stage and number of complications
(assumed: keys, start and end are different items, and a stage has at least one new node):

| theorem | says |
|---|---|
| `KeysAreHeld` | `RequiredKeysAreHeld`, and with it `TypeOK` |
| `NoTraps` | `NeverStuck` |
| `MazesAreSolved` | `SolverFindsShortest` |
| `Invariance` | the invariant from which both follow |

Both properties ask what a player can do in a finished maze, who may take any way in any order, so the
invariant has to say of a maze under construction what makes it safe. `Ways` is its core. Who has the
keys of a node gets there (`Leads`): there is an older node that needs no other keys, from which a link
that they open leads there. One gets back (`Returns`): from every node a line of links leads on, with
the keys of each node, to one from which a link leads to an older node; a one-way loop is such a line.
And no link lets anyone round a door (`PassedInOrder`): who holds the keys of the node on one side and of
the locks holds those of the node on the other. This last part is false of arbitrary sets of
items. A one-way link has no locks and may lead from a new node to any node (`GraphMazeGenerator2.ts:322`), and a later
stage need not require all the keys before (line 274). It is true of the items that a player can have
come by: what a stage provides is taken after what the stage requires (`InOrder`). From there `StagesFit` says that who
holds what a stage requires holds what the stage before did, and `Before`, with `OpenToNewNodes`, that who holds the
keys of a new node holds those of all nodes. `Provided` says where the keys lie: behind
what their stage requires, and behind nothing that is provided later.

`LineLeads`, `BothWays` and `LoopWays` show that what is dug keeps `Ways`, and each kind of step is a
lemma (`BudKeeps`, `ConnectKeeps`, `ExtendKeeps`, `EndKeeps`). `PlayersAre` then concludes that every player holds the
keys of the node that it has got to (`Good`), which is `KeysAreHeld`. For `NoTraps` take any set
of players that moves do not lead out of: one of them gets home to the first node (`GoesHome`), from
there to any node whose keys it holds (`GoesAnywhere`), thus to what each stage provides, one after the
other (`Collects`), and the last stage provides the end (`EndReached`). The players that cannot get to the end
would be such a set.

Players are `Grown` by a recursive function. That such a function exists and what it computes is an
induction: `GrownUnfolds` gets it from a least counterexample (`LeastNumber`), since two functions that
grow as it says agree as far as both go, and `GrownIsLeast` says that what grows out of a set is the least
closed set that includes it. TLC found no violation of the invariant on the instance of `MAZE_keys`
before it was proved.

`SolverFindsShortest` is about one search in a finished maze, so its proof is one of a loop.
`SolveUnfolds` makes `Solve` an iteration of `SolveStep`, and `ToCome`, the player states that are
not yet enqueued and the length of the queue, goes down with each turn: the loop ends (`SearchEnds`). Its
invariant is `Searching`. The queue is `Sorted` by length and holds no lengths but two; what was visited and what
waits there are all players that so many moves lead to (`Seeks`); and the end is not among the visited ones
(`NotFound`), or the solution is as short as any (`FoundShortest`), after which longer states
are dropped. If the queue runs empty, then all that can be got to was visited (`NothingLeft`), the end
included by `EndReached`. That the search meets no dead end needs one more invariant of the
generator: the end is never in the first room (`FirstRoom`), so a player who has moved can always move
on (`HasExit`).

### Forth

`ForthProofs`, for any sources of any length, names, numbers and amounts of fuel:

| theorem | says |
|---|---|
| `UsesAreAwaited` | `PlaceholdersAreAwaited`, and with it `TypeOK` |
| `WordsStay` | `CompiledWordsStay` |
| `NoRunningOn` | `BodiesAreClosed` |
| `ContextsStay` | `SavedContextsStay` |
| `TextIsCovered` | `TokensCoverText` |

Assumed are the shapes of the constants, that what looks like a number is an integer, and the name
of `(resume main)` (section 3). The invariant has three parts.

`Sound` is about a compilation: program and `mains` are as long as each other, the places that
fixups name are the placeholders (`Awaited`), and what is in the program and in the dictionary are
words that can run or be compiled (`Typed`). For each defining word one lemma shows that it keeps
`Sound` and that the compilation goes on from the one before (`Continues`), which is
`CompiledWordsStay`. A definition enters three variants of a name, and these may be one
another's names; so `DefinedFacts` is about one variant, and `DefineLocationFacts` applies it thrice.

`Closed` is why definitions do not run on. Where a word of main and one of a definition meet, the
first of them leaves: it is an exit, or the jump to where main goes on (`Parted`). That jump is only
in main, leads to a place of main, and as long as it is a placeholder it has none. None of this
holds if a source can compile that jump elsewhere; hence `NamesNoResume`, that no other entry of
the dictionary does it, which an alias would break, and the lemmas about the tokenizer (`ReadGave`,
`EndGave`), that names are made of what was read. `:` and `;` are the steps that matter: the jump
that `:` leaves behind gets its place when `;` defines it, which is when main goes on there.

`Consistent` is about a run: every context that is saved refers to objects that are there and
frozen. That each word keeps it, and what was frozen (`Keeps`), is a lemma for every kind of word;
`!` and `scale` copy what is frozen (`ChangeGoes`), `save-context` freezes (`SaveContextGoes`).
TLC checked the invariant on the instance of `FORTH_words`.

`TextIsCovered` has an invariant of its own, `Reads`. After any number of characters, the tokens so
far cover the text up to some place (`Covers`): each is told from its first character to
its last, they follow one another, and nothing but white lies between. From there on the text is
`Pending` in the tokenizer, in one of five ways: nothing, a bareword, a comment, nested quotes, or quotes with
escapes, for which the buffer is what decoding the text so far gives (`Unfinished`). `ReadsOn` shows
that any character keeps this, one lemma for each way (`ReadsBetween`, `ReadsInWord`, `ReadsInComment`,
`ReadsNested`, `ReadsEscapable`), and `ReadsEnd` that the end of the source does. What throws makes the
compilation fail (`ThrownFails`). A token's location is a line and a column, while the property is
about characters: each character is at a later place than the one before (`PlaceIsLater`), tabs and
line ends included, so a location names one character (`IndexIs`). TLC checked the property on the instance of
`FORTH_words` before it was proved.

### What is only model-checked

* Liveness (`RunEnds` and the like). TLAPS has no support here for liveness under fairness, or for
  `ENABLED`.
* `HeardWithinReach`. That the search through one network finds the best ways is proved
  (`SignalsTakeBestWays`); this property compares signals that go from network to network with walks over the
  wires of all parts at once. That both get as far needs worlds that fit: ends of wires that lie within
  their entity and within the bounds that `findWireEndpoints` looks at, ends that join in
  pairs, rooms of which only one neighbor lies across a border. The code asks none of this of its worlds, so
  it is no theorem for every value of the constants.

The library's theorems for induction are schematic, and no prover here can instantiate them. Where
recursion counts down, a least counterexample does instead: `Grown`, `Solve`, `Places` and `Decoded` are
recursive functions, and `GrownUnfolds`, `SolveUnfolds`, `PlacesAre` and `DecodedIs` say what they compute.
`VisitedIs` does so for a loop that counts nothing down, which first has to be shown to end.

## 6. Not modelled

* `Maze1.ts`, `ui/*`, `rendering.ts`, the shape sheets and demos: canvas, input events and floating
  point. What the interface asks of the simulator is modelled as calls at any moment.
* Positions, velocities and collisions: whether things meet is a choice of the environment.
* The editing of rooms and tile trees by commands, rotated tiles, changes of class, proximal
  events, devices that get packets from a bus, and the evaluator of program expressions.
* Caching, multiple and HTTP datastores: the two modules that use a datastore see one that
  answers in its own time or rejects. `HTTPHashDatastore.store` (line 31) resolves whatever the
  status of the answer, unlike `put`; a store that lies is not modelled.
* `fullyCacheRoom`: the same fetches as elsewhere, for all that a room refers to.
* UDP tunnels and the command lines of `sock/*`, `netdev/JunkSpammer.ts`, `netdev/IPRouter.ts`.
* The older maze generator, and the worldifier, which turns a maze into rooms: geometry and
  random looks. The older Forth interpreter, which nothing but its own test uses, and the
  words of shapes that draw.
