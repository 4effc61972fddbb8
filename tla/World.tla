-------------------------------- MODULE World --------------------------------
(***************************************************************************)
(* Where things are: rooms, players and their inventories, as a physics    *)
(* update (doUpdate2 of Maze1Simulator.ts) and the commands to a player    *)
(* (processSpecialEntityCommand of Maze1SimulationUpdate.ts) change them.  *)
(* Positions and velocities are left out: whether a thing is within reach, *)
(* crosses into a neighboring room or finds an empty place is open.        *)
(***************************************************************************)
EXTENDS Integers, FiniteSets

CONSTANTS
  Rooms,
  Neighbors,      \* neighbors of each room
  Players,
  Items,          \* what players pick up, all of it affected by gravity
  Doors,          \* cheap doors, each a column of tiles of one class
  DoorRoom,       \* the room that each door is in
  Edible,         \* items with isMaze1Edible
  Keys,           \* items that open doors
  Importance,     \* maze1Importance of each item
  InventorySize,  \* maze1InventorySize of the class of living players
  MaxEnergy,      \* bound of the model: units of energy; 0 is less than 1
  Start,          \* what each room contains at the start
  Gone            \* where an item that found no place is

Things == Players \cup Items
Places == Rooms \cup {Gone}

ASSUME WorldAssumption ==
  /\ Neighbors \in [Rooms -> SUBSET Rooms]
  /\ Players \cap Items = {} /\ Doors \cap Things = {} /\ IsFiniteSet(Items)
  /\ DoorRoom \in [Doors -> Rooms]
  /\ Edible \cup Keys \subseteq Items
  /\ Importance \in [Items -> Nat]
  /\ InventorySize \in Nat /\ MaxEnergy \in Nat
  /\ Start \in [Rooms -> SUBSET Things]
  /\ \A p \in Players : \E r \in Rooms : p \in Start[r]
  /\ \A r, s \in Rooms : r # s => Start[r] \cap Start[s] = {}
  /\ Gone \notin Rooms

VARIABLES
  contents,   \* roomEntities of each room
  inventory,  \* maze1Inventory of each player
  energy,     \* storedEnergy of each player
  dead,       \* players of the class of dead players
  closed,     \* the doors that are there
  oldActive,  \* physicallyActiveRoomIdSet of the state that an update started from
  active,     \* newPhysicallyActiveRoomIdSet, between updates physicallyActiveRoomIdSet
  phase,      \* how far an update got
  todo,       \* what the current loop of the update has still to visit
  picker,     \* the player being visited
  found,      \* foundIois: what is within the picker's reach
  made,       \* history variable: items that there are or were
  spent,      \* history variable: items eaten or lost
  across      \* history variable: items put into a room from its neighbor

itemVars == <<contents, inventory, spent, made, across>>
playerVars == <<energy, dead, closed>>
updateVars == <<oldActive, active, phase, todo, picker, found>>
vars == <<itemVars, playerVars, updateVars>>

-----------------------------------------------------------------------------
RoomOf(t) == CHOOSE r \in Rooms : t \in contents[r]
Near(r) == {r} \cup Neighbors[r]
Loose == UNION {contents[r] : r \in Rooms}
Held == UNION {inventory[p] : p \in Players}

(* What rooms contain when those items have been placed as `at' says *)
Placed(items, at) == [r \in Rooms |-> contents[r] \cup {i \in items : at[i] = r}]

(* Those that placeItemSomewhereNear put beyond the border of room r *)
Beyond(items, at, r) == {i \in items : at[i] \notin {r, Gone}}

Without(t, rooms) == [r \in Rooms |-> rooms[r] \ {t}]

Init ==
  /\ contents = Start
  /\ inventory = [p \in Players |-> {}]
  /\ energy = [p \in Players |-> MaxEnergy]
  /\ dead = {}
  /\ closed = Doors
  /\ oldActive = {}
  /\ active = {r \in Rooms : Start[r] # {}}
  /\ phase = "idle"
  /\ todo = {}
  /\ picker = Gone
  /\ found = {}
  /\ made = Items \cap UNION {Start[r] : r \in Rooms}
  /\ spent = {}
  /\ across = {}

-----------------------------------------------------------------------------
(* A physics update: deaths and pickups, then forces, then moves *)

BeginUpdate ==
  /\ phase = "idle"
  /\ phase' = "pickups"
  /\ oldActive' = active
  /\ active' = {}
  /\ todo' = {p \in Players \ dead : RoomOf(p) \in active}
  /\ UNCHANGED <<itemVars, playerVars, picker, found>>

(* Mutant of Kill: the inventory is not emptied. *)
KillKeeping(p) ==
  /\ energy[p] = 0
  /\ \E at \in [inventory[p] -> Near(RoomOf(p)) \cup {Gone}] :
       /\ contents' = Placed(inventory[p], at)
       /\ across' = across \cup Beyond(inventory[p], at, RoomOf(p))
       /\ spent' = spent \cup {i \in inventory[p] : at[i] = Gone}
  /\ dead' = dead \cup {p}
  /\ UNCHANGED <<inventory, made, energy, closed, picker, found>>

(* killRoomEntity: items that find no place are lost. *)
Kill(p) ==
  /\ energy[p] = 0
  /\ \E at \in [inventory[p] -> Near(RoomOf(p)) \cup {Gone}] :
       /\ contents' = Placed(inventory[p], at)
       /\ across' = across \cup Beyond(inventory[p], at, RoomOf(p))
       /\ spent' = spent \cup {i \in inventory[p] : at[i] = Gone}
  /\ inventory' = [inventory EXCEPT ![p] = {}]
  /\ dead' = dead \cup {p}
  /\ UNCHANGED <<made, energy, closed, picker, found>>

(* A living player finds what is in reach and does not move away. *)
LookAround(p) ==
  /\ energy[p] > 0
  /\ picker' = p
  /\ found' \in SUBSET UNION {(contents[r] \cap Items) \cup {d \in closed : DoorRoom[d] = r} :
                                r \in Near(RoomOf(p))}
  /\ UNCHANGED <<itemVars, playerVars>>

Visit(p) ==
  /\ phase = "pickups" /\ found = {} /\ p \in todo
  /\ Kill(p) \/ LookAround(p)
  /\ todo' = todo \ {p}
  /\ UNCHANGED <<oldActive, active, phase>>

Eat(i) ==
  /\ i \in Edible
  /\ energy' = [energy EXCEPT ![picker] = MaxEnergy]
  /\ contents' = Without(i, contents)
  /\ spent' = spent \cup {i}
  /\ across' = across \ {i}
  /\ UNCHANGED <<inventory, made, dead, closed>>

HasSpace(p) == Cardinality(inventory[p]) < InventorySize

Take(i) ==
  /\ i \in Items \ Edible
  /\ HasSpace(picker)
  /\ inventory' = [inventory EXCEPT ![picker] = @ \cup {i}]
  /\ contents' = Without(i, contents)
  /\ across' = across \ {i}
  /\ UNCHANGED <<made, spent, playerVars>>

(* Items that will be dropped for i *)
LessImportant(i) ==
  {k \in inventory[picker] :
     /\ \A j \in inventory[picker] : Importance[k] <= Importance[j]
     /\ Importance[i] >= Importance[k]}

(* The inventory is full: something less important makes room. *)
Swap(i) ==
  /\ i \in Items \ Edible
  /\ ~ HasSpace(picker)
  /\ \E k \in LessImportant(i), r \in Near(RoomOf(picker)) :
       /\ contents' = Without(i, Placed({k}, [j \in {k} |-> r]))
       /\ inventory' = [inventory EXCEPT ![picker] = (@ \cup {i}) \ {k}]
       /\ across' = (across \ {i}) \cup Beyond({k}, [j \in {k} |-> r], RoomOf(picker))
  /\ UNCHANGED <<made, spent, playerVars>>

(* Nothing can be dropped for i, or it finds no place. *)
LeaveBe(i) ==
  /\ i \in Items \ Edible
  /\ ~ HasSpace(picker)
  /\ UNCHANGED <<itemVars, playerVars>>

OpenDoor(d) ==
  /\ d \in Doors
  /\ closed' = IF inventory[picker] \cap Keys # {} THEN closed \ {d} ELSE closed
  /\ UNCHANGED <<itemVars, energy, dead>>

CheckFound(i) ==
  /\ i \in found
  /\ Eat(i) \/ Take(i) \/ Swap(i) \/ LeaveBe(i) \/ OpenDoor(i)
  /\ found' = found \ {i}
  /\ UNCHANGED <<oldActive, active, phase, todo, picker>>

(* Rooms where gravity acts on something that was simulated *)
Settled == {r \in oldActive : contents[r] # {}}

(* Everything in the active rooms falls; players spend energy on walking. *)
ApplyForces ==
  /\ phase = "pickups" /\ todo = {} /\ found = {}
  /\ phase' = "moves"
  /\ picker' = Gone
  /\ active' = Settled
  /\ todo' = UNION {contents[r] : r \in oldActive}
  /\ \E walkers \in SUBSET ((Players \ dead) \cap todo') :
       energy' = [p \in Players |-> IF p \in walkers /\ energy[p] > 0 THEN energy[p] - 1
                                    ELSE energy[p]]
  /\ UNCHANGED <<itemVars, dead, closed, oldActive, found>>

(* Something in a room next to an active one is pushed. *)
Push(t) ==
  /\ phase = "moves"
  /\ t \in Loose /\ \E r \in oldActive : RoomOf(t) \in Near(r)
  /\ RoomOf(t) \notin active
  /\ active' = active \cup {RoomOf(t)}
  /\ across' = across \ {t}
  /\ UNCHANGED <<contents, inventory, spent, made, playerVars, oldActive, phase, todo, picker,
                 found>>

(* Mutant of Move: the room that is entered is not marked. *)
MoveUnmarked(t, r) ==
  /\ phase = "moves"
  /\ t \in todo /\ r \in Neighbors[RoomOf(t)]
  /\ contents' = [Without(t, contents) EXCEPT ![r] = @ \cup {t}]
  /\ across' = across \ {t}
  /\ UNCHANGED <<inventory, spent, made, playerVars, oldActive, active, phase, todo, picker, found>>

(* updateRoomEntity, when t goes over to another room; one move may cross  *)
(* several borders.                                                        *)
Move(t, r) ==
  /\ phase = "moves"
  /\ t \in todo /\ r \in Neighbors[RoomOf(t)]
  /\ contents' = [Without(t, contents) EXCEPT ![r] = @ \cup {t}]
  /\ active' = active \cup {r}
  /\ across' = across \ {t}
  /\ UNCHANGED <<inventory, spent, made, playerVars, oldActive, phase, todo, picker, found>>

EndUpdate ==
  /\ phase = "moves"
  /\ phase' = "idle"
  /\ oldActive' = {} /\ todo' = {}
  /\ UNCHANGED <<itemVars, playerVars, active, picker, found>>

-----------------------------------------------------------------------------
(* Commands, which are handled between physics updates *)

(* /give *)
Give(p, i) ==
  /\ phase = "idle"
  /\ i \in Items \ made
  /\ p \notin dead /\ HasSpace(p)
  /\ inventory' = [inventory EXCEPT ![p] = @ \cup {i}]
  /\ made' = made \cup {i}
  /\ UNCHANGED <<contents, spent, across, playerVars, updateVars>>

(* Mutant of Throw: the item is not taken out of the inventory. *)
ThrowCopy(p, i) ==
  /\ phase = "idle"
  /\ i \in inventory[p]
  /\ \E r \in Near(RoomOf(p)) :
       /\ contents' = Placed({i}, [j \in {i} |-> r])
       /\ across' = across \cup Beyond({i}, [j \in {i} |-> r], RoomOf(p))
  /\ UNCHANGED <<inventory, made, spent, playerVars, updateVars>>

(* /throwinventoryitem, when it finds a place *)
Throw(p, i) ==
  /\ phase = "idle"
  /\ i \in inventory[p]
  /\ \E r \in Near(RoomOf(p)) :
       /\ contents' = Placed({i}, [j \in {i} |-> r])
       /\ across' = across \cup Beyond({i}, [j \in {i} |-> r], RoomOf(p))
  /\ inventory' = [inventory EXCEPT ![p] = @ \ {i}]
  /\ UNCHANGED <<made, spent, playerVars, updateVars>>

(* /vomit: edible chunks, as long as they find a place *)
Vomit(p) ==
  /\ phase = "idle"
  /\ energy' = [energy EXCEPT ![p] = @ \div 2]
  /\ \E chunks \in SUBSET (Edible \ made) :
       \E at \in [chunks -> Near(RoomOf(p))] :
         /\ contents' = Placed(chunks, at)
         /\ across' = across \cup Beyond(chunks, at, RoomOf(p))
         /\ made' = made \cup chunks
  /\ UNCHANGED <<inventory, spent, dead, closed, updateVars>>

-----------------------------------------------------------------------------
Next ==
  \/ BeginUpdate
  \/ \E p \in Players : Visit(p)
  \/ \E i \in Items \cup Doors : CheckFound(i)
  \/ ApplyForces
  \/ \E t \in Things : Push(t)
  \/ \E t \in Things, r \in Rooms : Move(t, r)
  \/ EndUpdate
  \/ \E p \in Players, i \in Items : Give(p, i) \/ Throw(p, i)
  \/ \E p \in Players : Vomit(p)

Spec == Init /\ [][Next]_vars

-----------------------------------------------------------------------------
TypeOK ==
  /\ contents \in [Rooms -> SUBSET Things]
  /\ inventory \in [Players -> SUBSET Items]
  /\ energy \in [Players -> 0 .. MaxEnergy]
  /\ dead \subseteq Players
  /\ closed \subseteq Doors
  /\ oldActive \subseteq Rooms /\ active \subseteq Rooms
  /\ phase \in {"idle", "pickups", "moves"}
  /\ todo \subseteq Things
  /\ picker \in Players \cup {Gone}
  /\ found \subseteq Items \cup Doors
  /\ made \subseteq Items /\ spent \subseteq Items /\ across \subseteq Items

(* Nothing is in two places: what is put, taken, swapped or moved is gone  *)
(* from where it was, also when it dies or is found by several players in  *)
(* one update.                                                             *)
InOnePlace ==
  /\ \A r, s \in Rooms : r # s => contents[r] \cap contents[s] = {}
  /\ \A p, q \in Players : p # q => inventory[p] \cap inventory[q] = {}
  /\ Loose \cap Held = {}
  /\ spent \cap (Loose \cup Held) = {}

(* Nothing vanishes: an item is somewhere unless it was eaten or found no  *)
(* place at a death; players are in their rooms for good.                  *)
NothingVanishes ==
  /\ made = (Loose \cap Items) \cup Held \cup spent
  /\ Players \subseteq Loose

(* Through all moves, pickups, swaps and deaths, every item is in one      *)
(* place, or gone for a reason.                                            *)
ItemsAreKept == TypeOK /\ InOnePlace /\ NothingVanishes

(* Inventories never hold more than fits; the dead hold nothing, also when *)
(* something was within their reach in the update in which they died.      *)
InventoriesFit ==
  \A p \in Players :
    /\ Cardinality(inventory[p]) <= InventorySize
    /\ p \in dead => inventory[p] = {}

(* "Whatever may move is in an active room": everything that gravity acts  *)
(* on is simulated, wherever it moved to, and only what was put across a   *)
(* border and not touched since may hang in a room that is not.            *)
ThingsAreSimulated ==
  phase = "idle" => \A r \in Rooms \ active : contents[r] \subseteq across
=============================================================================
