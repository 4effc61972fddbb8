-------------------------- MODULE ConductorNetworks --------------------------
(***************************************************************************)
(* Networks of wires (conductornetworks.ts): how the networks of parts are *)
(* joined into one, and how far every end of a network is from others.     *)
(* A network has nodes, some of which face outside, and links, each with   *)
(* the resistance that its length, area and medium give.                   *)
(***************************************************************************)
EXTENDS Integers, Sequences, SequencesExt, FiniteSets, TLC

Inside == <<0, 0>>   \* externallyFacing of nodes that face nowhere
Opposite(d) == <<-d[1], -d[2]>>
Plus(p, q) == <<p[1] + q[1], p[2] + q[2]>>
Minus(p, q) == <<p[1] - q[1], p[2] - q[2]>>

NoNetwork == [nodes |-> <<>>, links |-> <<>>]

-----------------------------------------------------------------------------
(* Joining *)

(* Nodes at pos that one that faces d can become *)
Joinable(nodes, pos, d) ==
  {i \in DOMAIN nodes :
     /\ nodes[i].position = pos
     /\ d = Inside \/ nodes[i].facing = Inside \/ nodes[i].facing = Opposite(d)}

(* addNode: ends that face each other become one node inside. *)
AddNode(nodes, pos, d) ==
  IF Joinable(nodes, pos, d) = {}
  THEN [nodes |-> Append(nodes, [position |-> pos, facing |-> d]), index |-> Len(nodes) + 1]
  ELSE LET i == CHOOSE j \in Joinable(nodes, pos, d) :
                  \A k \in Joinable(nodes, pos, d) : j <= k
       IN  [nodes |-> [nodes EXCEPT ![i].facing =
                         IF d = Inside THEN @ ELSE IF @ = Inside THEN d ELSE Inside],
            index |-> i]

(* addNetwork *)
AddNetwork(a, b, offset) ==
  LET Added(acc, n) ==
        LET add == AddNode(acc.nodes, Plus(n.position, offset), n.facing)
        IN  [nodes |-> add.nodes, map |-> Append(acc.map, add.index)]
      added == FoldLeft(Added, [nodes |-> a.nodes, map |-> <<>>], b.nodes)
      remapped == [l \in DOMAIN b.links |->
                     [b.links[l] EXCEPT !.ends = <<added.map[@[1]], added.map[@[2]]>>]]
  IN  [nodes |-> added.nodes, links |-> a.links \o remapped]

(* fetchEntityClassConductorNetwork: of parts <<network, offset>> *)
NetworkOf(parts) ==
  LET Add(net, part) == AddNetwork(net, part[1], part[2])
  IN  FoldLeft(Add, NoNetwork, parts)

-----------------------------------------------------------------------------
(* Searching *)

FindNodes(net, pos, direction) ==
  {i \in DOMAIN net.nodes :
     /\ net.nodes[i].facing # Inside
     /\ net.nodes[i].facing = Opposite(direction)
     /\ net.nodes[i].position = pos}

LinksAt(net, n) == {l \in DOMAIN net.links : n \in {net.links[l].ends[1], net.links[l].ends[2]}}

OtherEnd(link, n) == IF link.ends[1] = n THEN link.ends[2] ELSE link.ends[1]

NotReached == -1

(* The search: the least resistances so far, nodes that wait for a visit,  *)
(* and what is left of the visited node's links, each with that node       *)
Searches(net) ==
  LET nodes == DOMAIN net.nodes
  IN  [resistance : [nodes -> Nat \cup {NotReached}], queue : Seq(nodes),
       waiting : SUBSET nodes, left : SUBSET (nodes \X DOMAIN net.links)]

Begun(net, starts) ==
  [resistance |-> [n \in DOMAIN net.nodes |-> IF n \in starts THEN 0 ELSE NotReached],
   queue |-> SetToSeq(starts), waiting |-> {}, left |-> {}]

(* Mutant of Relaxed: the first way that is found stays. *)
RelaxedOnce(net, n, s, l) ==
  LET m == OtherEnd(net.links[l], n)
      r == s.resistance[n] + net.links[l].resistance
  IN  IF s.resistance[m] # NotReached THEN s
      ELSE [s EXCEPT !.resistance[m] = r, !.queue = Append(@, m), !.waiting = @ \cup {m}]

(* One link of the visited node: a shorter way makes its other end wait    *)
(* for a visit, unless it does already.                                    *)
Relaxed(net, n, s, l) ==
  LET m == OtherEnd(net.links[l], n)
      r == s.resistance[n] + net.links[l].resistance
  IN  IF m = n \/ (s.resistance[m] # NotReached /\ s.resistance[m] <= r) THEN s
      ELSE [s EXCEPT !.resistance[m] = r,
                     !.queue = IF m \in s.waiting THEN @ ELSE Append(@, m),
                     !.waiting = @ \cup {m}]

(* The next link, or the next visit *)
Searched(net, s) ==
  IF s.left # {}
  THEN LET x == CHOOSE y \in s.left : \A z \in s.left : y[2] <= z[2]
       IN  [Relaxed(net, x[1], s, x[2]) EXCEPT !.left = @ \ {x}]
  ELSE LET n == Head(s.queue)
       IN  [s EXCEPT !.queue = Tail(@), !.waiting = @ \ {n}, !.left = {n} \X LinksAt(net, n)]

(* Visits as long as a node waits for one *)
Visited(net, starts) ==
  LET visited[s \in Searches(net)] ==
        IF s.left = {} /\ s.queue = <<>> THEN s.resistance ELSE visited[Searched(net, s)]
  IN  visited[Begun(net, starts)]

(* findConductorEndpoints: resistance between the starts and the ends that *)
(* they are connected to                                                   *)
Endpoints(net, starts) ==
  LET resistance == Visited(net, starts)
  IN  [n \in {m \in DOMAIN net.nodes : /\ resistance[m] # NotReached
                                       /\ net.nodes[m].facing # Inside} |-> resistance[n]]

-----------------------------------------------------------------------------
(* What the search is for *)

IsNetwork(net) ==
  /\ net.nodes \in Seq([position : Int \X Int, facing : Int \X Int])
  /\ net.links \in Seq([ends : (DOMAIN net.nodes) \X (DOMAIN net.nodes), resistance : Nat])

(* A set of nodes and resistances has the starts, and all that is one link *)
(* away from what it has.                                                  *)
FollowsLinks(net, starts, W) ==
  /\ \A n \in starts : <<n, 0>> \in W
  /\ \A w \in W : \A l \in LinksAt(net, w[1]) :
       <<OtherEnd(net.links[l], w[1]), w[2] + net.links[l].resistance>> \in W

(* Where all ways from the starts lead to, with their resistances: the     *)
(* least such set                                                          *)
Ways(net, starts) ==
  {w \in (DOMAIN net.nodes) \X Nat :
     \A W \in SUBSET ((DOMAIN net.nodes) \X Nat) : FollowsLinks(net, starts, W) => w \in W}
=============================================================================
