---------------------------- MODULE RoutedNetwork ----------------------------
(***************************************************************************)
(* Clients that connect to one router (sock/RouterCLI.ts) over websockets. *)
(* Each socket that the server accepts becomes a link, on which the router *)
(* advertises its prefix; a client then takes an address of that prefix,   *)
(* and the router learns through which link to reach it.  The server never *)
(* notices that a client is gone.                                          *)
(***************************************************************************)
EXTENDS Router, WebSocketClient, FiniteSets

CONSTANTS
  Uplink,      \* the link of a tunnel, with a static route
  MaxRemovals, \* bound of the model: links that are removed
  MaxPings     \* bound of the model: pings that are sent

ASSUME RoutedAssumption ==
  /\ Sockets \cup {Uplink} = LinkIds
  /\ PingIds = 0 .. MaxPings
  /\ MaxPings \in Nat
  /\ {RouterAddress, AllNodes, Unspecified} \subseteq Addresses
  /\ \A s \in Sockets : NewAddress(s) \in Addresses

(* Only the tunnel has static routes: "No routes automatically added!"     *)
ASSUME StaticAssumption ==
  /\ Uplink \notin Sockets
  /\ \A k \in DOMAIN StaticRoutes : StaticRoutes[k].dest = Uplink

(* The random addresses that clients take are none of the special ones,    *)
(* and what the router makes of them when it adds a route, by default all  *)
(* their bits, tells them from the router and one client from another.     *)
ASSUME AddressAssumption ==
  /\ ToAllNodes = AllNodes
  /\ RouterAddress # AllNodes
  /\ \A s \in Sockets : NewAddress(s) \notin {RouterAddress, AllNodes, Unspecified}
  /\ \A r \in AutoRoutePrefixes :
       LET Triggers(a) == PrefixMatches(a, r.address, r.triggerPrefixLength)
           Shared(a, b) == PrefixMatches(b, ClearNonPrefixBits(a, r.routePrefixLength),
                                         r.routePrefixLength)
       IN /\ ~ Triggers(Unspecified)
          /\ \A s \in {s \in Sockets : Triggers(NewAddress(s))} :
               /\ ~ Shared(NewAddress(s), RouterAddress) /\ ~ Shared(NewAddress(s), Unspecified)
               /\ \A t \in Sockets : Shared(NewAddress(s), NewAddress(t)) => Maker[t] = Maker[s]

VARIABLES
  accepted,  \* sockets that the server has accepted
  pings      \* number of pings sent

vars == <<routerVars, clientVars, readyState, toServer, toClient, clientHistory,
          accepted, pings>>

Init ==
  /\ RouterInit
  /\ ClientInit
  /\ accepted = {}
  /\ pings = 0

-----------------------------------------------------------------------------
Advertisement == [src |-> RouterAddress, dst |-> AllNodes, kind |-> "ra", n |-> 0]

(* The event `connection' of the server: a link with an advertisement *)
Accept(s) ==
  /\ readyState[s] = "connecting"
  /\ s \notin accepted
  /\ accepted' = accepted \cup {s}
  /\ AddLink(s)
  /\ toClient' = [toClient EXCEPT ![s] = Append(@, Advertisement)]
  /\ UNCHANGED <<clientVars, readyState, toServer, clientHistory, pings>>

(* WebSocketLink.send: nothing comes of it when the client is gone. *)
Delivered(sent) ==
  toClient' = [s \in Sockets |->
                 IF readyState[s] \in {"connecting", "open"} /\ \E p \in sent : p[1] = s
                 THEN Append(toClient[s], (CHOOSE p \in sent : p[1] = s)[2])
                 ELSE toClient[s]]

RouterReceives(s) ==
  LET packet == Head(toServer[s])
  IN /\ toServer[s] # <<>>
     /\ HandlePacket(packet, s)
     /\ Delivered(Sent(packet, s))
     /\ toServer' = [toServer EXCEPT ![s] = Tail(@)]
     /\ UNCHANGED <<clientVars, readyState, clientHistory, accepted, pings>>

Removed(l) ==
  /\ Cardinality((accepted \cup {Uplink}) \ links) < MaxRemovals
  /\ RemoveLink(l)
  /\ UNCHANGED <<clientVars, readyState, toServer, toClient, clientHistory, accepted,
                 pings>>

ClientPings(c, peer) ==
  /\ pings < MaxPings
  /\ pings' = pings + 1
  /\ Ping(c, peer, pings + 1)
  /\ UNCHANGED <<routerVars, accepted>>

ClientReceives(s) ==
  /\ Receive(s)
  /\ UNCHANGED <<routerVars, accepted, pings>>

SocketEvent(s) ==
  /\ \/ s \in accepted /\ OpenEvent(s)
     \/ CloseEvent(s)
     \/ s \in accepted \ links /\ ServerCloses(s)
  /\ UNCHANGED <<routerVars, accepted, pings>>

UserActs(c) ==
  /\ Disconnect(c) \/ \E s \in Sockets : Connect(c, s)
  /\ UNCHANGED <<routerVars, accepted, pings>>

(* The router, and addresses that clients have taken *)
Peers == ({RouterAddress} \cup {myGlobalAddress[c] : c \in Clients}) \ {Unspecified}

Next ==
  \/ \E s \in Sockets :
       Accept(s) \/ RouterReceives(s) \/ ClientReceives(s) \/ SocketEvent(s)
  \/ \E c \in Clients, peer \in Peers : ClientPings(c, peer)
  \/ \E l \in links : Removed(l)
  \/ \E c \in Clients : UserActs(c)

Spec == Init /\ [][Next]_vars

-----------------------------------------------------------------------------
(* What the router sends to a client is meant for it: the destination is   *)
(* an address that this client took, on this or another connection.        *)
OwnPacketsOnly ==
  \A s \in Sockets : \A i \in 1 .. Len(toClient[s]) :
    toClient[s][i].dst \in
      {AllNodes} \cup {NewAddress(t) : t \in {t \in Sockets : Maker[t] = Maker[s]}}
=============================================================================
