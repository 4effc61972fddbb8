----------------------------- MODULE MazeSolver -----------------------------
(***************************************************************************)
(* The solver of mazes (GraphMazeSolver.ts): a search, breadth first, for  *)
(* the shortest way from the first node to the end.                        *)
(***************************************************************************)
EXTENDS MazeGenerator

(* A solve step: of state [node, items, length], items being those held    *)
(* before the ones at the node are taken.  The search has the states still *)
(* to visit, the player states it enqueued, the length of the shortest     *)
(* solution (<<>>: none yet) and the dead ends.  In the code the same items *)
(* taken in another order are another player (playerStateId), which is     *)
(* visited again, with exits and a length that it had before or a greater   *)
(* one; here they are one.                                                 *)
SolveStep(m, search, state) ==
  LET here == m.nodes[state.node].items
      shortest == IF End \in here /\ (search.shortest = <<>> \/ state.length < search.shortest[1])
                  THEN <<state.length>> ELSE search.shortest
      items == state.items \cup here
      exits == Exits(m, state.node, items)
      new == {n \in exits : <<n, items>> \notin search.enqueued
                              /\ (shortest = <<>> \/ state.length + 1 <= shortest[1])}
  IN  [queue |-> Tail(search.queue) \o
                   SetToSeq({[node |-> n, items |-> items, length |-> state.length + 1] : n \in new}),
       enqueued |-> search.enqueued \cup {<<n, items>> : n \in new},
       shortest |-> shortest,
       deadEnds |-> search.deadEnds \cup IF exits = {} THEN {state.node} ELSE {}]

Searches(m) ==
  [queue : Seq([node : DOMAIN m.nodes, items : SUBSET Items, length : Nat]),
   enqueued : SUBSET ((DOMAIN m.nodes) \X SUBSET Items),
   shortest : Seq(Nat), deadEnds : SUBSET DOMAIN m.nodes]

NewSearch ==
  [queue |-> <<[node |-> 1, items |-> {}, length |-> 0]>>,
   enqueued |-> {<<1, {}>>}, shortest |-> <<>>, deadEnds |-> {}]

(* Steps until no state is left: there are not more than player states,    *)
(* of which each is enqueued once, the orders of items being left aside.   *)
Solve(m) ==
  LET searched[steps \in Nat] ==
        [search \in Searches(m) |->
           IF steps = 0 \/ search.queue = <<>> THEN search
           ELSE searched[steps - 1][SolveStep(m, search, Head(search.queue))]]
  IN  searched[Cardinality((DOMAIN m.nodes) \X SUBSET Items)][NewSearch]

(* assertGoodMaze *)
IsGood(search) == search.shortest # <<>> /\ search.deadEnds = {}

-----------------------------------------------------------------------------
(* Players after some number of moves or fewer *)
PlayersWithin[moves \in Nat] ==
  IF moves = 0 THEN {Arrived(1, {})}
  ELSE LET before == PlayersWithin[moves - 1]
       IN  before \cup UNION {Moves(p) : p \in before}

(* GraphMazeGeneratorTest: the maze is good; and the solver's way is a     *)
(* shortest one: so many moves can lead to the end, fewer cannot.          *)
SolverFindsShortest ==
  Done => LET search == Solve(maze)
              sooner == PlayersWithin[search.shortest[1] - 1]
          IN  /\ search.queue = <<>> /\ IsGood(search)
              /\ \A p \in sooner : End \notin p[2]
              /\ \E p \in sooner : \E q \in Moves(p) : End \in q[2]
=============================================================================
