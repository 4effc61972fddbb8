------------------------------ MODULE EntityBus ------------------------------
(***************************************************************************)
(* Bus messages and wire signals (Maze1SimulationUpdate.ts): an action     *)
(* sends a message to the bus of an entity, whose subsystems run programs, *)
(* send more messages, poke other entities and put signals on wires.       *)
(*                                                                         *)
(* An entity is alone in its room or a tile of a tree.  The first is       *)
(* changed in place.  A tile is frozen: what changes it makes a copy, and  *)
(* the copy is put into a new version of the tree.                         *)
(***************************************************************************)
EXTENDS ConductorNetworks

CONSTANTS
  Rooms,
  Neighbors,      \* neighbors of each room: records [room, offset]
  Bounds,         \* of each room: the greatest coordinate, the least is its negative
  Singles,        \* entities that are alone
  Tiles,          \* entities that are tiles
  Trees,          \* tile trees
  TreeOf,         \* the tree of each tile
  RoomOf,         \* the room of each single and tree
  Position,       \* where it is in its room; of a tile, where it is in its tree
  ClassOf,        \* class of each single and tile
  Wires,          \* conductor network of each class
  Subsystems,     \* of each class: a record for each key
  Inputs,         \* actions that players may take, each of them once
  MaxWaiting      \* bound of the model: actions that wait when a player acts

Entities == Singles \cup Tiles
Keys(e) == DOMAIN Subsystems[ClassOf[e]]
KeysOfKind(e, kind) == {k \in Keys(e) : Subsystems[ClassOf[e]][k].kind = kind}

ASSUME BusAssumption ==
  /\ Neighbors \in [Rooms -> SUBSET [room : Rooms, offset : Int \X Int]]
  /\ Bounds \in [Rooms -> Nat]
  /\ Singles \cap Tiles = {} /\ Singles \cap Trees = {}
  /\ TreeOf \in [Tiles -> Trees]
  /\ RoomOf \in [Singles \cup Trees -> Rooms]
  /\ Position \in [Entities \cup Trees -> Int \X Int]
  /\ MaxWaiting \in Nat
  /\ IsFiniteSet(Entities) /\ IsFiniteSet(Trees)
  /\ \A r \in Rooms : IsFiniteSet(Neighbors[r])
  /\ \A e \in Entities : IsFiniteSet(Keys(e))
  /\ \A e \in Entities : \A k \in KeysOfKind(e, "bridge") : Subsystems[ClassOf[e]][k].to \in Entities
  /\ \A i \in Inputs : i.kind = "message" /\ i.entity \in Entities

VARIABLES
  singles,   \* what each single is
  trees,     \* the current version of each tree: palette, and each tile's place in it
  actions,   \* the actions of the current logic update that are left
  enqueued,  \* newEnqueuedActions
  stack,     \* calls that handle an entity, the innermost first
  inputs,    \* the inputs that are still to come
  told,      \* history variable: what each entity was told to change
  stale,     \* history variable: tiles put back by a call over the change of another
  signalled, \* history variable: signals that ports sent
  heard      \* history variable: entities that a signal arrived at

vars == <<singles, trees, actions, enqueued, stack, inputs, told, stale, signalled, heard>>

(* An entity: its class, and what it was told to change: in its state, of  *)
(* which its animation time is a part here, and in its subsystems.         *)
Fresh(e) == [class |-> ClassOf[e], state |-> {}, subs |-> {}]

Tile(t) == trees[TreeOf[t]].palette[trees[TreeOf[t]].at[t]]
Current(e) == IF e \in Singles THEN singles[e] ELSE Tile(e)

Init ==
  /\ singles = [s \in Singles |-> Fresh(s)]
  /\ trees = [r \in Trees |->
       LET tiles == {t \in Tiles : TreeOf[t] = r}
           palette == SetToSeq({Fresh(t) : t \in tiles})
       IN  [palette |-> palette,
            at |-> [t \in tiles |-> CHOOSE i \in DOMAIN palette : palette[i] = Fresh(t)]]]
  /\ actions = <<>> /\ enqueued = <<>> /\ stack = <<>>
  /\ inputs = Inputs
  /\ told = [e \in Entities |-> {}]
  /\ stale = {} /\ signalled = {} /\ heard = {}

-----------------------------------------------------------------------------
(* Places *)

RootOf(e) == IF e \in Tiles THEN TreeOf[e] ELSE e
PositionOf(e) == IF e \in Tiles THEN Plus(Position[TreeOf[e]], Position[e]) ELSE Position[e]

(* The point d is in a box around the origin. *)
Within(d, half) == \A i \in 1 .. 2 : d[i] \in -half .. half

InBounds(room, pos) == Within(pos, Bounds[room])

(* Single entities and tiles are two wide. *)
RootTouches(r, pos) == \E e \in Entities : RootOf(e) = r /\ Within(Minus(pos, PositionOf(e)), 1)

(* What entitiesAt samples: a small box, which a box meets that it has the *)
(* edge of, or a line, which it does not.                                  *)
Box == 0
Line == 1

(* fixLocation *)
FixLocation(room, pos) ==
  LET across == {n \in Neighbors[room] : InBounds(n.room, Minus(pos, n.offset))}
  IN  IF InBounds(room, pos) \/ across = {} THEN <<room, pos>>
      ELSE LET n == CHOOSE m \in across : TRUE IN <<n.room, Minus(pos, n.offset)>>

(* entitiesAt: in the room, and in its neighbors, wherever these end *)
EntitiesAt(room, pos, sample) ==
  {e \in Entities :
     \/ /\ RoomOf[RootOf(e)] = room
        /\ Within(pos, Bounds[room] - sample)
        /\ Within(Minus(pos, PositionOf(e)), 1 - sample)
     \/ \E n \in Neighbors[room] :
          /\ RoomOf[RootOf(e)] = n.room
          /\ Within(Minus(pos, Plus(n.offset, PositionOf(e))), 1 - sample)}

(* fetchEntityConductorNetwork: of a tree, the joined networks of its tiles *)
NetworkAt(r) ==
  IF r \in Singles THEN Wires[ClassOf[r]]
  ELSE NetworkOf(SetToSeq({<<Wires[ClassOf[t]], Position[t]>> : t \in {u \in Tiles : TreeOf[u] = r}}))

(* Each is made once. *)
Networks ==
  LET Fetched(r, cache) == (r :> NetworkAt(r)) @@ cache
  IN  FoldSet(Fetched, <<>>, Singles \cup Trees)

ASSUME NetworksAssumption == \A r \in Singles \cup Trees : IsNetwork(Networks[r])

-----------------------------------------------------------------------------
(* Versions of trees *)

(* Mutant of Alike: only the classes are compared. *)
AlikeClass(a, b) == a.class = b.class

(* What findTileEntity takes for the same tile: "we'll ignore other        *)
(* properties", which are the subsystems.                                  *)
Alike(a, b) == a.class = b.class /\ a.state = b.state

(* rewriteTileTreeIntersecting: tile t becomes entity. *)
Rewritten(tree, t, entity) ==
  IF \E i \in DOMAIN tree.palette : Alike(tree.palette[i], entity)
  THEN [tree EXCEPT !.at[t] = CHOOSE i \in DOMAIN tree.palette :
                                /\ Alike(tree.palette[i], entity)
                                /\ \A j \in 1 .. i - 1 : ~ Alike(tree.palette[j], entity)]
  ELSE [tree EXCEPT !.palette = Append(@, entity), !.at[t] = Len(tree.palette) + 1]

(* Calls.  found, entity: the version the call began with, and the one    *)
(* that it made of it; own: that is a copy; keys: subsystems whose         *)
(* programs still run; queue: busMessageQueue; tree: for                   *)
(* mutateEntityAtPath, the version of the tree that is being rewritten     *)
Call(e, keys, queue, tree) ==
  [e |-> e, found |-> Current(e), entity |-> Current(e), own |-> FALSE,
   keys |-> keys, queue |-> queue, tree |-> tree]

NoTree == [palette |-> <<>>, at |-> <<>>]
Replacing(e, keys) == Call(e, keys, <<>>, NoTree)
Mutating(e, message) ==
  Call(e, <<>>, <<message>>, IF e \in Tiles THEN trees[TreeOf[e]] ELSE NoTree)

-----------------------------------------------------------------------------
(* The current version of the entity that the innermost call handles *)
Handled == IF stack[1].e \in Singles THEN singles[stack[1].e] ELSE stack[1].entity

(* Mutant of Changed: what changes is always a copy. *)
ChangedCopy(entity, rest) ==
  /\ stack' = <<[rest EXCEPT !.entity = entity, !.own = TRUE]>> \o Tail(stack)
  /\ UNCHANGED singles

(* thaw: a tile is copied, what is alone is changed in place. *)
Changed(entity, rest) ==
  IF rest.e \in Singles
  THEN /\ singles' = [singles EXCEPT ![rest.e] = entity]
       /\ stack' = <<rest>> \o Tail(stack)
  ELSE /\ stack' = <<[rest EXCEPT !.entity = entity, !.own = TRUE]>> \o Tail(stack)
       /\ UNCHANGED singles

SetOf(program) == {program[i].var : i \in {j \in DOMAIN program : program[j].op = "set"}}
SentBy(program) ==
  LET sends == SelectSeq(program, LAMBDA step : step.op = "send")
  IN  [i \in DOMAIN sends |-> sends[i].message]

(* runSubsystemProgram: the program of subsystem k, in the innermost call  *)
Run(k, rest) ==
  LET program == Subsystems[ClassOf[rest.e]][k].program
      after == [rest EXCEPT !.queue = @ \o SentBy(program)]
  IN  /\ IF SetOf(program) = {}
         THEN stack' = <<after>> \o Tail(stack) /\ UNCHANGED singles
         ELSE Changed([Handled EXCEPT !.state = @ \cup SetOf(program)], after)
      /\ told' = [told EXCEPT ![rest.e] = @ \cup SetOf(program)]

(* The next subsystem program of the call, when its messages are handled *)
RunNext ==
  /\ stack # <<>> /\ stack[1].queue = <<>> /\ stack[1].keys # <<>>
  /\ Run(Head(stack[1].keys), [stack[1] EXCEPT !.keys = Tail(@)])
  /\ UNCHANGED <<trees, actions, enqueued, inputs, stale, signalled, heard>>

(* The next message of the call is for subsystem k. *)
NextMessage(k, kind) ==
  /\ stack # <<>> /\ stack[1].queue # <<>>
  /\ k = stack[1].queue[1][1]
  /\ k \in KeysOfKind(stack[1].e, kind)

Rest == [stack[1] EXCEPT !.queue = Tail(@)]
Message == Tail(stack[1].queue[1])
Device(k) == Subsystems[ClassOf[stack[1].e]][k]

HandleProgram(k) ==
  /\ \/ NextMessage(k, "button") /\ Message = <<"poke">>
     \/ NextMessage(k, "computer")
  /\ Run(k, Rest)
  /\ UNCHANGED <<trees, actions, enqueued, inputs, stale, signalled, heard>>

(* EntityMorpher: /resetanimation *)
HandleMorpher(k) ==
  /\ NextMessage(k, "morpher") /\ Message = <<"resetanimation">>
  /\ Changed([Handled EXCEPT !.state = @ \cup {"animation"}], Rest)
  /\ told' = [told EXCEPT ![stack[1].e] = @ \cup {"animation"}]
  /\ UNCHANGED <<trees, actions, enqueued, inputs, stale, signalled, heard>>

(* Vision: /enabled; setEntitySubsystem *)
HandleVision(k) ==
  /\ NextMessage(k, "vision") /\ Message = <<"enabled">>
  /\ Changed([Handled EXCEPT !.subs = @ \cup {"enabled"}], Rest)
  /\ told' = [told EXCEPT ![stack[1].e] = @ \cup {"enabled"}]
  /\ UNCHANGED <<trees, actions, enqueued, inputs, stale, signalled, heard>>

(* InterEntityBusBridge *)
HandleBridge(k) ==
  /\ NextMessage(k, "bridge")
  /\ enqueued' = Append(enqueued, [kind |-> "message", entity |-> Device(k).to, message |-> Message])
  /\ stack' = <<Rest>> \o Tail(stack)
  /\ UNCHANGED <<singles, trees, actions, inputs, told, stale, signalled, heard>>

PortSignal(e, k) ==
  LET port == Subsystems[ClassOf[e]][k]
  IN  [kind |-> "signal", room |-> RoomOf[RootOf(e)], at |-> Plus(PositionOf(e), port.position),
       direction |-> port.direction, power |-> port.power]

(* WiredNetworkPort: /signal *)
HandlePort(k) ==
  /\ NextMessage(k, "port") /\ Message = <<"signal">>
  /\ enqueued' = Append(enqueued, PortSignal(stack[1].e, k))
  /\ signalled' = signalled \cup {PortSignal(stack[1].e, k)}
  /\ stack' = <<Rest>> \o Tail(stack)
  /\ UNCHANGED <<singles, trees, actions, inputs, told, stale, heard>>

(* doPoke, deliverPoke: all that is there is found first, and each button  *)
(* starts from the entity as it was found.                                 *)
HandlePoke(k) ==
  /\ NextMessage(k, "appendage") /\ Message = <<"poke">>
  /\ LET e == stack[1].e
         at == FixLocation(RoomOf[RootOf(e)], Plus(PositionOf(e), Device(k).offset))
         poked == UNION {{<<f, b>> : b \in KeysOfKind(f, "button")} :
                           f \in EntitiesAt(at[1], at[2], Line)}
         order == SetToSeq(poked)
     IN  stack' = [i \in DOMAIN order |-> Replacing(order[i][1], <<order[i][2]>>)]
                    \o <<Rest>> \o Tail(stack)
  /\ UNCHANGED <<singles, trees, actions, enqueued, inputs, told, stale, signalled, heard>>

(* A message that no subsystem of the entity handles *)
HandleOther ==
  /\ stack # <<>> /\ stack[1].queue # <<>>
  /\ \A k \in Keys(stack[1].e), kind \in {"button", "morpher", "vision", "port", "appendage",
                                          "computer", "bridge"} :
       NextMessage(k, kind) =>
         \/ kind = "button" /\ Message # <<"poke">>
         \/ kind = "morpher" /\ Message # <<"resetanimation">>
         \/ kind = "vision" /\ Message # <<"enabled">>
         \/ kind = "port" /\ Message # <<"signal">>
         \/ kind = "appendage" /\ Message # <<"poke">>
  /\ stack' = <<Rest>> \o Tail(stack)
  /\ UNCHANGED <<singles, trees, actions, enqueued, inputs, told, stale, signalled, heard>>

(* The call ends.  A tile that was mutated, or only looked at, goes into    *)
(* the version of the tree that the call began with, and this comes in the *)
(* place of the current one, if it is another: so do the tiles that calls  *)
(* within this one changed.  A tile that was replaced goes into the        *)
(* current version.                                                        *)
Return ==
  /\ stack # <<>> /\ stack[1].queue = <<>> /\ stack[1].keys = <<>>
  /\ stack' = Tail(stack)
  /\ LET call == stack[1]
         replaces == call.tree = NoTree
         now == trees[TreeOf[call.e]]
         base == IF replaces THEN now ELSE call.tree
         put == Rewritten(base, call.e, call.entity)
     IN  IF call.e \in Singles \/ (replaces /\ ~ call.own) \/ put = now
         THEN UNCHANGED <<trees, stale>>
         ELSE /\ trees' = [trees EXCEPT ![TreeOf[call.e]] = put]
              /\ stale' = stale \cup
                   IF replaces THEN {call.e} \ {t \in Tiles : Tile(t) = call.found}
                   ELSE {t \in DOMAIN base.at : base.palette[base.at[t]] # Tile(t)}
  /\ UNCHANGED <<singles, actions, enqueued, inputs, told, signalled, heard>>

-----------------------------------------------------------------------------
(* Actions, one after the other, each in a logic update after the one that *)
(* enqueued it                                                             *)

BeginUpdate ==
  /\ stack = <<>> /\ actions = <<>> /\ enqueued # <<>>
  /\ actions' = enqueued
  /\ enqueued' = <<>>
  /\ UNCHANGED <<singles, trees, stack, inputs, told, stale, signalled, heard>>

(* induceSystemBusMessage *)
Induce ==
  /\ stack = <<>> /\ actions # <<>> /\ Head(actions).kind = "message"
  /\ stack' = <<Mutating(Head(actions).entity, Head(actions).message)>>
  /\ actions' = Tail(actions)
  /\ UNCHANGED <<singles, trees, enqueued, inputs, told, stale, signalled, heard>>

(* Roots that findWireEndpoints looks at: the bounds of a neighbor are     *)
(* compared with the position as it is in this room.                       *)
LookedAt(signal) ==
  {<<r, signal.at>> : r \in {s \in Singles \cup Trees :
      RoomOf[s] = signal.room /\ InBounds(signal.room, signal.at) /\ RootTouches(s, signal.at)}}
  \cup UNION {{<<r, Minus(signal.at, n.offset)>> : r \in {s \in Singles \cup Trees :
      RoomOf[s] = n.room /\ InBounds(n.room, signal.at)
        /\ RootTouches(s, Minus(signal.at, n.offset))}} : n \in Neighbors[signal.room]}

(* Mutant of Onward: wires cost nothing. *)
OnwardFree(signal, r, at) ==
  LET net == Networks[r]
      starts == FindNodes(net, Minus(at, Position[r]), signal.direction)
      ends == Endpoints(net, starts)
      Place(n) == FixLocation(RoomOf[r], Plus(Position[r], net.nodes[n].position))
  IN  {[kind |-> "signal", room |-> Place(n)[1], at |-> Place(n)[2],
        direction |-> net.nodes[n].facing, power |-> signal.power] : n \in DOMAIN ends \ starts}

(* The signals that leave the other ends of the wires of root r *)
Onward(signal, r, at) ==
  LET net == Networks[r]
      starts == FindNodes(net, Minus(at, Position[r]), signal.direction)
      ends == Endpoints(net, starts)
      Place(n) == FixLocation(RoomOf[r], Plus(Position[r], net.nodes[n].position))
  IN  {[kind |-> "signal", room |-> Place(n)[1], at |-> Place(n)[2],
        direction |-> net.nodes[n].facing, power |-> signal.power - ends[n]] :
         n \in {m \in DOMAIN ends \ starts : signal.power - ends[m] >= 0}}

Ports(e) ==
  {k \in KeysOfKind(e, "port") : "program" \in DOMAIN Subsystems[ClassOf[e]][k]}

(* transmitWireSignal: goes on along the wires, and the programs of ports  *)
(* that are where it is run, whatever their direction, with one            *)
(* replacement for all of an entity's.                                     *)
Transmit ==
  /\ stack = <<>> /\ actions # <<>> /\ Head(actions).kind = "signal"
  /\ LET signal == Head(actions)
         onward == UNION {Onward(signal, l[1], l[2]) : l \in LookedAt(signal)}
         reached == {e \in EntitiesAt(signal.room, signal.at, Box) : Ports(e) # {}}
         order == SetToSeq(reached)
     IN  /\ enqueued' = enqueued \o SetToSeq(onward)
         /\ stack' = [i \in DOMAIN order |-> Replacing(order[i], SetToSeq(Ports(order[i])))]
         /\ heard' = heard \cup reached
  /\ actions' = Tail(actions)
  /\ UNCHANGED <<singles, trees, inputs, told, stale, signalled>>

(* A player does something, between two updates. *)
Input(i) ==
  /\ stack = <<>> /\ actions = <<>>
  /\ i \in inputs /\ Len(enqueued) < MaxWaiting
  /\ inputs' = inputs \ {i}
  /\ enqueued' = Append(enqueued, i)
  /\ UNCHANGED <<singles, trees, actions, stack, told, stale, signalled, heard>>

Handle ==
  \/ RunNext \/ HandleOther \/ Return
  \/ \E k \in UNION {Keys(e) : e \in Entities} :
       \/ HandleProgram(k) \/ HandleMorpher(k) \/ HandleVision(k)
       \/ HandleBridge(k) \/ HandlePort(k) \/ HandlePoke(k)

Update == Handle \/ BeginUpdate \/ Induce \/ Transmit

Next == Update \/ \E i \in Inputs : Input(i)

Idle == stack = <<>> /\ actions = <<>> /\ enqueued = <<>>

(* The update loop goes on as long as there is something to do: weak       *)
(* fairness of Update, which is enabled unless all is idle.                *)
Fairness == []<>Idle \/ []<><<Update>>_vars

Spec == Init /\ [][Next]_vars /\ Fairness

-----------------------------------------------------------------------------
IsVersion(v) ==
  /\ DOMAIN v = {"class", "state", "subs"}
  /\ v.class \in {ClassOf[e] : e \in Entities}
  /\ v.subs \subseteq {"enabled"}

IsAction(a) ==
  \/ a.kind = "message" /\ a.entity \in Entities
  \/ a.kind = "signal" /\ a.room \in Rooms /\ a.power \in Nat

TypeOK ==
  /\ \A s \in Singles : IsVersion(singles[s])
  /\ \A r \in Trees :
       /\ \A i \in DOMAIN trees[r].palette : IsVersion(trees[r].palette[i])
       /\ \A t \in DOMAIN trees[r].at : trees[r].at[t] \in DOMAIN trees[r].palette
  /\ \A i \in DOMAIN actions : IsAction(actions[i])
  /\ \A i \in DOMAIN enqueued : IsAction(enqueued[i])
  /\ \A i \in DOMAIN stack : stack[i].e \in Entities /\ IsVersion(stack[i].entity)
  /\ inputs \subseteq Inputs
  /\ stale \subseteq Tiles /\ heard \subseteq Entities

(* What an entity that is alone was told to change it keeps, whatever      *)
(* other calls change it meanwhile.                                        *)
SinglesKeepChanges == \A s \in Singles : told[s] = singles[s].state \cup singles[s].subs

(* A change of the state of a tile is in the tree when it was handled,     *)
(* unless another call changed the tile between its being found and its    *)
(* being put back: two buttons of one tile, or a call within one that      *)
(* rewrites the tree, even if only to leave it as it found it.  Tiles      *)
(* share the entries of their tree's palette, and a change to the state of *)
(* one does not change that of another.                                    *)
TilesKeepChanges ==
  /\ stack = <<>> => \A t \in Tiles \ stale : told[t] \ {"enabled"} \subseteq Tile(t).state
  /\ \A t \in Tiles : Tile(t).state \subseteq told[t]

-----------------------------------------------------------------------------
(* Where signals should arrive, over all the wires of the world at once    *)

(* Nodes of all entities' own wires, before any are joined *)
Spots == UNION {{<<e, n>> : n \in DOMAIN Wires[ClassOf[e]].nodes} : e \in Entities}
NodeAt(x) == Wires[ClassOf[x[1]]].nodes[x[2]]
SpotRoom(x) == RoomOf[RootOf(x[1])]
SpotAt(x) == Plus(PositionOf(x[1]), NodeAt(x).position)

(* What goes in a direction from a place in a room meets x. *)
Meets(room, at, direction, x) ==
  /\ NodeAt(x).facing # Inside /\ NodeAt(x).facing = Opposite(direction)
  /\ \/ SpotRoom(x) = room /\ SpotAt(x) = at
     \/ \E n \in Neighbors[room] : SpotRoom(x) = n.room /\ SpotAt(x) = Minus(at, n.offset)

Joined(x) ==
  IF NodeAt(x).facing = Inside THEN {}
  ELSE {y \in Spots : Meets(SpotRoom(x), SpotAt(x), NodeAt(x).facing, y)}

(* From a spot, with the power left there, over one link or joint *)
Onto(s) ==
  {<<y, s[2]>> : y \in Joined(s[1])} \cup
  {<<<<s[1][1], OtherEnd(link, s[1][2])>>, s[2] - link.resistance>> :
     link \in {l \in Range(Wires[ClassOf[s[1][1]]].links) :
                 s[1][2] \in Range(l.ends) /\ l.resistance <= s[2]}}

(* All that is spread to from some spots with some power *)
Spread(from) ==
  LET States == SUBSET (Spots \X Nat)
      spread[s \in [new : States, old : States]] ==
        IF s.new = {} THEN s.old
        ELSE spread[[new |-> UNION {Onto(x) : x \in s.new} \ (s.old \cup s.new),
                     old |-> s.old \cup s.new]]
  IN  spread[[new |-> from, old |-> {}]]

(* Where a signal gets to with the power that it is sent with *)
Reached(signal) ==
  {<<signal.room, signal.at>>} \cup
  {<<SpotRoom(s[1]), SpotAt(s[1])>> :
     s \in {t \in Spread({<<x, signal.power>> : x \in {y \in Spots :
                            Meets(signal.room, signal.at, signal.direction, y)}}) :
              NodeAt(t[1]).facing # Inside}}

(* Each signal that a port may send, with each that it should arrive at *)
Arrivals ==
  UNION {UNION {UNION {{<<PortSignal(f, k), e>> :
      e \in {g \in EntitiesAt(p[1], p[2], Box) : Ports(g) # {}}} : p \in Reached(PortSignal(f, k))} :
        k \in KeysOfKind(f, "port")} : f \in Entities}

(* When no signal is under way, those that heard one are those that one    *)
(* could get to by some walk along the wires of all rooms, no matter how   *)
(* many networks, borders and rings it passed.                             *)
HeardWithinReach ==
  /\ TypeOK
  /\ (\A i \in DOMAIN actions : actions[i].kind # "signal")
       /\ (\A i \in DOMAIN enqueued : enqueued[i].kind # "signal")
     => heard = {a[2] : a \in {b \in Arrivals : b[1] \in signalled}}

(* Wires have resistance, so that signals die, rings or not, and the       *)
(* updates run out of actions.                                             *)
ActionsRunOut == <>[]Idle
=============================================================================
