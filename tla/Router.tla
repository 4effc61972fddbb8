------------------------------- MODULE Router -------------------------------
(***************************************************************************)
(* inet/Router.ts: links, routes, and what is done with a packet that came *)
(* in through a link.  What arrives is up to the environment here;         *)
(* RoutedNetwork connects the links to clients.                            *)
(***************************************************************************)
EXTENDS RoutingTable

CONSTANTS
  LinkIds,            \* ids of links
  Internal,           \* internalLinkId
  Addresses,          \* addresses in packets, sequences of bytes
  RouterAddress,      \* routerAddress
  AllNodes,           \* ALL_NODES_ADDRESS
  AutoRoutePrefixes,  \* autoRoutePrefixes, as AutoRoutePrefix
  PingIds,            \* what tells pings apart
  StaticRoutes        \* the table of the routes that the commands at the start add

IPAddress == Seq(0 .. 255)

AutoRoutePrefix ==
  [address: IPAddress, triggerPrefixLength: Nat, routePrefixLength: Nat]

ASSUME RouterAssumption ==
  /\ Internal \notin LinkIds /\ Nowhere \notin LinkIds
  /\ Addresses \subseteq IPAddress
  /\ \A a, b \in Addresses : Len(a) = Len(b)
  /\ AutoRoutePrefixes \subseteq AutoRoutePrefix

(* Prefixes are whole bytes of an address, as addRoute requires. *)
ASSUME PrefixAssumption ==
  \A a \in Addresses, r \in AutoRoutePrefixes :
    /\ Len(r.address) = Len(a)
    /\ r.routePrefixLength \in {8 * n : n \in 0 .. Len(a)}

ASSUME StaticRoutesAssumption ==
  /\ StaticRoutes \in [DOMAIN StaticRoutes -> [dest: LinkIds, place: Nat]]
  /\ \A k \in DOMAIN StaticRoutes :
       /\ k \in IPAddress \X Nat /\ k = RouteKey(k[1], k[2])
       /\ \A a \in Addresses : Len(k[1]) = Len(a) /\ k[2] \in {8 * n : n \in 0 .. Len(a)}
       /\ \A m \in DOMAIN StaticRoutes \ {k} : StaticRoutes[k].place # StaticRoutes[m].place
  /\ DOMAIN StaticRoutes # {} =>
       \E k \in DOMAIN StaticRoutes :
         \A m \in DOMAIN StaticRoutes : StaticRoutes[m].place <= StaticRoutes[k].place

VARIABLES
  links,     \* ids of the links
  handlers,  \* ids of the links that were set up and not set down
  routes     \* routingTable

routerVars == <<links, handlers, routes>>

Packet == [src: Addresses, dst: Addresses, kind: {"ping", "pong", "ra"}, n: PingIds]

-----------------------------------------------------------------------------
(* The commands that open tunnels: addLink and addRoute *)
RouterInit ==
  /\ links = {StaticRoutes[k].dest : k \in DOMAIN StaticRoutes}
  /\ handlers = links
  /\ routes = StaticRoutes

(* addLink with an id that is new *)
AddLink(l) ==
  /\ l \notin links
  /\ links' = links \cup {l}
  /\ handlers' = handlers \cup {l}
  /\ UNCHANGED routes

(* Mutant of RemoveLink: the handler of the link stays in place. *)
RemoveLinkOnly(l) ==
  /\ l \in links
  /\ links' = links \ {l}
  /\ routes' = RemoveRoutesTo(routes, l)
  /\ UNCHANGED handlers

(* removeLink; shutDownAllLinks calls it for all of them *)
RemoveLink(l) ==
  /\ l \in links
  /\ links' = links \ {l}
  /\ handlers' = handlers \ {l}
  /\ routes' = RemoveRoutesTo(routes, l)

(* The keys of the routes that a packet's source address asks for *)
Triggered(src) ==
  {RouteKey(src, r.routePrefixLength) :
     r \in {r \in AutoRoutePrefixes :
              PrefixMatches(src, r.address, r.triggerPrefixLength)}}

(* Mutant of Learned: the last to use an address gets its packets. *)
LearnedAgain(table, src, l) ==
  [k \in DOMAIN table \cup Triggered(src) |->
     IF k \in Triggered(src) THEN [dest |-> l, place |-> NextPlace(table)] ELSE table[k]]

(* The routes that one packet adds are of different lengths, so that their *)
(* order does not matter, and they get the same place.                     *)
Learned(table, src, l) ==
  [k \in DOMAIN table \cup Triggered(src) |->
     IF RouteExistsFor(table, k) THEN table[k]
     ELSE [dest |-> l, place |-> NextPlace(table)]]

(* route: the link and the packet, or nothing *)
Routed(table, packet, from) ==
  LET dest == FindDestination(table, packet.dst)
  IN IF dest \in {Nowhere, from} THEN {} ELSE {<<dest, packet>>}

PongFor(ping) == [src |-> ping.dst, dst |-> ping.src, kind |-> "pong", n |-> ping.n]

(* handleOwnIpMessage *)
Answer(table, packet) ==
  IF packet.kind = "ping" THEN Routed(table, PongFor(packet), Internal) ELSE {}

(* What is sent when a packet has come in through link l *)
Sent(packet, l) ==
  LET table == Learned(routes, packet.src, l)
  IN IF packet.dst = RouterAddress THEN Answer(table, packet) ELSE Routed(table, packet, l)

(* handlePacket; a link that was set down does not call it. *)
HandlePacket(packet, l) ==
  /\ l \in handlers
  /\ routes' = Learned(routes, packet.src, l)
  /\ UNCHANGED <<links, handlers>>

RouterNext ==
  \/ \E l \in LinkIds : AddLink(l) \/ RemoveLink(l)
  \/ \E l \in LinkIds, p \in Packet : HandlePacket(p, l)

RouterSpec == RouterInit /\ [][RouterNext]_routerVars

-----------------------------------------------------------------------------
RouterTypeOK ==
  /\ links \subseteq LinkIds
  /\ handlers \subseteq LinkIds
  /\ routes \in [DOMAIN routes -> [dest: LinkIds, place: Nat]]

(* "Somehow routing table returned an unassociated link ID": route never   *)
(* gets there, also when a packet comes in late or a link is removed.      *)
RoutesLeadToLinks == \A k \in DOMAIN routes : routes[k].dest \in links

(* A new route that may take over the packets for an address: one of more  *)
(* bits, or, as clearNonPrefixBits has it, one of as many bits as the      *)
(* address has bytes.                                                      *)
TakenOver(a) ==
  \E k \in Matching(routes', a) \ DOMAIN routes :
    k[2] > BestMatch(routes, a)[2] \/ k[2] = Len(a)

(* Who has an address keeps it: a packet with a source address in the same *)
(* prefix, through whichever link it comes in, does not change where the   *)
(* packets for an address go, only removing its link does.                 *)
StaysOrTakenOver(a) ==
  LET dest == FindDestination(routes, a)
  IN dest \in links' => FindDestination(routes', a) = dest \/ TakenOver(a)

RoutesStay == [][routes' # routes => \A a \in Addresses : StaysOrTakenOver(a)]_routerVars
=============================================================================
