---------------------------- MODULE MazeGenerator ----------------------------
(***************************************************************************)
(* The generator of mazes (generate2 of GraphMazeGenerator2.ts): in each   *)
(* stage it digs nodes that lie behind the keys that the stage requires,   *)
(* adds loops, paths and one-way links, and puts a key for later stages,   *)
(* or at last the end, into a node far from the start of the stage.        *)
(***************************************************************************)
EXTENDS Integers, Sequences, SequencesExt, FiniteSets

CONSTANTS
  KeyClasses,        \* requireKeys, in their order
  Start,             \* ITEMCLASS_START
  End,               \* ITEMCLASS_END
  NewNodesPerStage,  \* the target number of nodes over the number of stages, rounded up
  MaxComplectifications \* of a stage

ASSUME MazeAssumption ==
  /\ KeyClasses \in Seq(STRING) /\ IsInjective(KeyClasses)
  /\ End \notin Range(KeyClasses) /\ Start \notin Range(KeyClasses) \cup {End}
  /\ NewNodesPerStage \in Nat \ {0}
  /\ MaxComplectifications \in Nat

VARIABLES
  maze,          \* nodes and links
  stages,        \* what each stage requires, and what it provides
  stage,         \* the current one
  first,         \* number of nodes when it began
  stageStart,    \* stageStartNode
  buds,          \* how many it has
  complicated    \* complectificationCount

vars == <<maze, stages, stage, first, stageStart, buds, complicated>>

Items == Range(KeyClasses) \cup {Start, End}

Nodes == DOMAIN maze.nodes
KeysOf(n) == maze.nodes[n].keys   \* requiredKeys
Degree(n) == Cardinality({l \in DOMAIN maze.links : maze.links[l].from = n})
           + Cardinality({l \in DOMAIN maze.links : maze.links[l].to = n})

BudsPerStage == (NewNodesPerStage + 1) \div 2

(* What stages may require: of each key but the last a stage after it may  *)
(* make it the required one; the last stage requires all.                  *)
Requirements ==
  {r \in [1 .. Len(KeyClasses) + 1 -> SUBSET Range(KeyClasses)] :
     /\ r[1] = {}
     /\ \A s \in 2 .. Len(KeyClasses) : r[s] \in {r[s - 1], {KeyClasses[s - 1]}}
     /\ r[Len(KeyClasses) + 1] = Range(KeyClasses)}

Init ==
  /\ \E r \in Requirements :
       stages = [s \in DOMAIN r |-> [require |-> r[s], provide |-> Append(KeyClasses, End)[s]]]
  /\ maze = [nodes |-> <<[keys |-> {}, items |-> {Start}]>>, links |-> <<>>]
  /\ stage = 1 /\ first = 1 /\ stageStart = 1
  /\ buds = 0 /\ complicated = 0

Done == stage > Len(stages)
Require == stages[stage].require

-----------------------------------------------------------------------------
(* Nodes that links lead to from node n for who holds the items: a link    *)
(* goes forward from one node to another, and back unless it is one-way.   *)
Exits(m, n, items) ==
  LET open == {l \in Range(m.links) : n \in {l.from, l.to} /\ l.locks \subseteq items}
  IN  {l.to : l \in {k \in open : k.from = n}} \cup {l.from : l \in {k \in open : k.to = n /\ k.back}}

(* linkNodes *)
Linked(m, n0, n1, back, locks) ==
  [m EXCEPT !.links = Append(@, [from |-> n0, to |-> n1, back |-> back, locks |-> locks])]

(* A line of new nodes from n, dug one after the other, one for each       *)
(* member of backs; the first link has the locks, and if it has some it is *)
(* not one-way.                                                            *)
Line(m, n, backs, locks) ==
  LET last == Len(m.nodes)
  IN  [nodes |-> m.nodes \o [i \in DOMAIN backs |->
                               [keys |-> m.nodes[n].keys \cup locks, items |-> {}]],
       links |-> m.links \o [i \in DOMAIN backs |->
                               [from  |-> IF i = 1 THEN n ELSE last + i - 1,
                                to    |-> last + i,
                                back  |-> backs[i] \/ (i = 1 /\ locks # {}),
                                locks |-> IF i = 1 THEN locks ELSE {}]]]

(* dig: a new node that n leads to, both ways *)
Dug(m, n, locks) == Line(m, n, <<TRUE>>, locks)

(* digPath counts down its length while it counts up. *)
DigPath(m, n, length, locks) ==
  Line(m, n, [i \in 1 .. (length + 1) \div 2 |-> TRUE], locks)

(* Mutant of DigOneWayLoop: the end of the line leads nowhere. *)
DigOneWayPath(m, n, backs, end, locks) == Line(m, n, backs, locks)

DigOneWayLoop(m, n, backs, end, locks) ==
  LET line == Line(m, n, backs, locks)
  IN  Linked(line, Len(line.nodes), end, FALSE, {})

-----------------------------------------------------------------------------
Bud(n) ==
  /\ ~ Done /\ buds < BudsPerStage
  /\ maze' = Dug(maze, n, Require \ KeysOf(n))
  /\ buds' = buds + 1
  /\ UNCHANGED <<stages, stage, first, stageStart, complicated>>

(* Nodes with three links are left alone; if all have, the loop goes on    *)
(* forever.                                                                *)
MayGrow(n) == Degree(n) < 3

Complicating ==
  /\ ~ Done /\ buds = BudsPerStage
  /\ Len(maze.nodes) < first + NewNodesPerStage
  /\ complicated < MaxComplectifications

(* Node n, one of this stage, is complicated. *)
Complicate(n) ==
  /\ Complicating /\ n > first /\ MayGrow(n)
  /\ complicated' = complicated + 1
  /\ UNCHANGED <<stages, stage, first, stageStart, buds>>

(* randomNode picks one of those that have the fewest links. *)
FewestLinks ==
  LET count == IF Len(maze.nodes) < 8 THEN 2 ELSE Len(maze.nodes) \div 4
  IN  {n \in Nodes : Cardinality({m \in Nodes : Degree(m) < Degree(n)}) < count}

(* Mutant of LoopLocks: a link between areas is not locked. *)
NoLocks(n, other) == {}

(* symmetricDifference *)
LoopLocks(n, other) == (KeysOf(n) \ KeysOf(other)) \cup (KeysOf(other) \ KeysOf(n))

Connect(n) ==
  /\ Complicate(n) /\ Len(maze.nodes) > 4
  /\ \E other \in FewestLinks :
       \/ maze' = Linked(maze, n, other, TRUE, LoopLocks(n, other))
       \/ maze' = Linked(maze, n, other, FALSE, {})

(* digSomeKindOfPath *)
Extend(n) ==
  /\ Complicate(n)
  /\ \E length \in 1 .. 3 :
       /\ length <= first + NewNodesPerStage - Len(maze.nodes)
       /\ \/ maze' = DigPath(maze, n, length, Require \ KeysOf(n))
          \/ \E backs \in [1 .. length -> BOOLEAN],
                end \in {m \in Nodes : KeysOf(m) \subseteq KeysOf(n)} :   \* pickLoopOutputNode
               maze' = DigOneWayLoop(maze, n, backs, end, Require \ KeysOf(n))

(* calculateNodeDistances, from the start of the stage: locks do not      *)
(* count.                                                                  *)
Distances ==
  LET distances[reached \in SUBSET Nodes, frontier \in SUBSET Nodes, d \in Nat] ==
        LET next == UNION {Exits(maze, n, Range(KeyClasses)) : n \in frontier}
        IN  IF frontier = {} THEN {}
            ELSE {<<n, d>> : n \in frontier} \cup
                 distances[reached \cup frontier, next \ (reached \cup frontier), d + 1]
  IN  distances[{}, {stageStart}, 0]

(* A node far from the start of the stage and not long dug: what is random *)
(* in its fitness is less than 1.                                          *)
FarNodes ==
  LET fitness == {<<x[1], x[2] * Len(maze.nodes) + 4 * (x[1] - 1)>> : x \in Distances}
  IN  {n \in Nodes : \E x \in fitness :
         x[1] = n /\ \A y \in fitness : y[2] < x[2] + Len(maze.nodes)}

(* Mutant of EndLocks: the room of a key needs what a later stage requires. *)
LaterLocks(n) ==
  stages[IF stage < Len(stages) THEN stage + 1 ELSE stage].require \ KeysOf(n)

EndLocks(n) == Require \ KeysOf(n)

EndStage ==
  /\ ~ Done /\ buds = BudsPerStage /\ ~ Complicating
  /\ \E n \in FarNodes :
       LET dug == Dug(maze, n, EndLocks(n))
       IN  maze' = [dug EXCEPT !.nodes[Len(dug.nodes)].items = {stages[stage].provide}]
  /\ stage' = stage + 1
  /\ stageStart' = Len(maze'.nodes) /\ first' = Len(maze'.nodes)
  /\ buds' = 0 /\ complicated' = 0
  /\ UNCHANGED stages

Next == EndStage \/ \E n \in Nodes : Bud(n) \/ Connect(n) \/ Extend(n)

Spec == Init /\ [][Next]_vars

-----------------------------------------------------------------------------
TypeOK ==
  /\ \A n \in Nodes : KeysOf(n) \subseteq Range(KeyClasses)
  /\ \A l \in Range(maze.links) : {l.from, l.to} \subseteq Nodes /\ l.locks \subseteq Range(KeyClasses)
  /\ stage \in 1 .. Len(stages) + 1 /\ stageStart \in Nodes /\ first \in Nodes
  /\ buds \in 0 .. BudsPerStage
  /\ \A s \in DOMAIN stages : Cardinality({n \in Nodes : stages[s].provide \in maze.nodes[n].items})
                                = IF s < stage THEN 1 ELSE 0

-----------------------------------------------------------------------------
(* Players: node and items, those at the node included *)

Arrived(n, items) == <<n, items \cup maze.nodes[n].items>>
Moves(p) == {Arrived(n, p[2]) : n \in Exits(maze, p[1], p[2])}

(* What grows out of a set as long as there is more: not longer than all  *)
(* has members                                                             *)
Grown(all, more, from) ==
  LET grown[s \in [left : Nat, new : SUBSET all, old : SUBSET all]] ==
        IF s.left = 0 \/ s.new = {} THEN s.old
        ELSE grown[[left |-> s.left - 1, new |-> more[s.new] \ (s.old \cup s.new),
                    old |-> s.old \cup s.new]]
  IN  grown[[left |-> Cardinality(all) + 1, new |-> from, old |-> {}]]

AnyPlayer == Nodes \X SUBSET Items

(* Players as they can become in the maze *)
Players ==
  Grown(AnyPlayer, [S \in SUBSET AnyPlayer |-> UNION {Moves(p) : p \in S}], {Arrived(1, {})})

(* Wherever one goes in a maze, through one-way links too and with         *)
(* whatever keys, one can still get to the end.                            *)
NeverStuck ==
  Done => LET players == Players
              moves == UNION {{<<p, q>> : q \in Moves(p)} : p \in players}
              before == [S \in SUBSET players |-> {m[1] : m \in {l \in moves : l[2] \in S}}]
          IN  players = Grown(players, before, {p \in players : End \in p[2]})

(* A key lies in one place once its stage is over, and whoever gets to a   *)
(* node holds the keys that the generator has it require and that it       *)
(* leaves out of the locks of what it digs there.                          *)
RequiredKeysAreHeld ==
  /\ TypeOK
  /\ Done => \A p \in Players : KeysOf(p[1]) \subseteq p[2]

=============================================================================
