--------------------------- MODULE WebSocketClient ---------------------------
(***************************************************************************)
(* Clients of sock/WebSocketClient.ts, and the browser's sockets as it     *)
(* uses them.  A socket that cannot connect, or breaks, fires its error    *)
(* event and its close event in one task; after close() it still is        *)
(* closing for a while, and only then fires its close event.  What comes   *)
(* in through a socket that is not open is dropped, and so is what is sent *)
(* through one that is closing.                                            *)
(***************************************************************************)
EXTENDS Integers, Sequences

CONSTANTS
  Clients,        \* instances of WebSocketClient
  Sockets,        \* bound of the model: the sockets that are made
  Maker,          \* the client that makes each of them
  None,           \* no connection
  NewAddress(_),  \* the random address taken when an advertisement comes in through a socket
  Unspecified,    \* UNSPECIFIED_ADDRESS
  ToAllNodes      \* ALL_NODES_ADDRESS

ASSUME SocketAssumption ==
  /\ None \notin Sockets
  /\ Maker \in [Sockets -> Clients]

VARIABLES
  connection,       \* connection of each client: the socket
  enqueuedMessages,
  myGlobalAddress,
  pageConnected,    \* what each client's page was last told
  readyState,       \* of each socket
  toServer,         \* what was sent through each socket
  toClient,         \* what will come in through it
  enqueued,         \* history variable: everything passed to enqueuePacket
  handed            \* history variable: what was passed to sockets

clientVars == <<connection, enqueuedMessages, myGlobalAddress, pageConnected>>
clientHistory == <<enqueued, handed>>

ClientInit ==
  /\ connection = [c \in Clients |-> None]
  /\ enqueuedMessages = [c \in Clients |-> <<>>]
  /\ myGlobalAddress = [c \in Clients |-> Unspecified]
  /\ pageConnected = [c \in Clients |-> FALSE]
  /\ readyState = [s \in Sockets |-> "unused"]
  /\ toServer = [s \in Sockets |-> <<>>]
  /\ toClient = [s \in Sockets |-> <<>>]
  /\ enqueued = [c \in Clients |-> <<>>]
  /\ handed = [c \in Clients |-> <<>>]

-----------------------------------------------------------------------------
(* connectIfNotConnected, when it does something *)
Connect(c, s) ==
  /\ connection[c] = None
  /\ Maker[s] = c /\ readyState[s] = "unused"
  /\ connection' = [connection EXCEPT ![c] = s]
  /\ readyState' = [readyState EXCEPT ![s] = "connecting"]
  /\ UNCHANGED <<enqueuedMessages, myGlobalAddress, pageConnected, toServer, toClient,
                 clientHistory>>

(* Mutant of OnClose: the page is not told. *)
OnCloseSilently(c) ==
  /\ connection' = [connection EXCEPT ![c] = None]
  /\ UNCHANGED pageConnected

OnClose(c) ==
  /\ connection' = [connection EXCEPT ![c] = None]
  /\ pageConnected' = [pageConnected EXCEPT ![c] = FALSE]

(* disconnect: close() and then onClose, before the close event *)
Disconnect(c) ==
  LET s == connection[c]
  IN /\ s # None
     /\ readyState' = [readyState EXCEPT ![s] = "closing"]
     /\ toClient' = [toClient EXCEPT ![s] = <<>>]
     /\ OnClose(c)
     /\ UNCHANGED <<enqueuedMessages, myGlobalAddress, toServer, clientHistory>>

(* The close event, after disconnect, or because the connection could not  *)
(* be made or broke: then onerror ran just before, and did no more.  What  *)
(* is under way to the server may be lost.                                 *)
CloseEvent(s) ==
  /\ readyState[s] \in {"connecting", "open", "closing"}
  /\ readyState' = [readyState EXCEPT ![s] = "closed"]
  /\ toClient' = [toClient EXCEPT ![s] = <<>>]
  /\ toServer' \in {toServer, [toServer EXCEPT ![s] = <<>>]}
  /\ OnClose(Maker[s])
  /\ UNCHANGED <<enqueuedMessages, myGlobalAddress, clientHistory>>

(* The server closes the connection: at first only readyState tells. *)
ServerCloses(s) ==
  /\ readyState[s] = "open"
  /\ readyState' = [readyState EXCEPT ![s] = "closing"]
  /\ toClient' = [toClient EXCEPT ![s] = <<>>]
  /\ UNCHANGED <<clientVars, toServer, clientHistory>>

(* The queue is sent through whatever connection is now. *)
Flush(c, states) ==
  LET s == connection[c]
  IN /\ toServer' = IF states[s] = "open"
                    THEN [toServer EXCEPT ![s] = @ \o enqueuedMessages[c]] ELSE toServer
     /\ enqueuedMessages' = [enqueuedMessages EXCEPT ![c] = <<>>]
     /\ handed' = [handed EXCEPT ![c] = @ \o enqueuedMessages[c]]
     /\ pageConnected' = [pageConnected EXCEPT ![c] = TRUE]

(* onOpen throws when there is no connection, or when it has to send       *)
(* through one that is not open yet.                                       *)
OnOpen(c, states) ==
  LET s == connection[c]
  IN IF s # None /\ (states[s] = "connecting" => enqueuedMessages[c] = <<>>)
     THEN Flush(c, states)
     ELSE UNCHANGED <<toServer, enqueuedMessages, handed, pageConnected>>

OpenEvent(s) ==
  LET states == [readyState EXCEPT ![s] = "open"]
  IN /\ readyState[s] = "connecting"
     /\ readyState' = states
     /\ OnOpen(Maker[s], states)
     /\ UNCHANGED <<connection, myGlobalAddress, toClient, enqueued>>

(* Mutant of EnqueuePacket: a connection that is not open yet will do. *)
SendAnyway(c, packet) ==
  /\ enqueued' = [enqueued EXCEPT ![c] = Append(@, packet)]
  /\ IF connection[c] # None
     THEN /\ toServer' = [toServer EXCEPT ![connection[c]] = Append(@, packet)]
          /\ handed' = [handed EXCEPT ![c] = Append(@, packet)]
          /\ UNCHANGED enqueuedMessages
     ELSE /\ enqueuedMessages' = [enqueuedMessages EXCEPT ![c] = Append(@, packet)]
          /\ UNCHANGED <<toServer, handed>>

EnqueuePacket(c, packet) ==
  LET s == connection[c]
  IN /\ enqueued' = [enqueued EXCEPT ![c] = Append(@, packet)]
     /\ IF s # None /\ readyState[s] = "open"
        THEN /\ toServer' = [toServer EXCEPT ![s] = Append(@, packet)]
             /\ handed' = [handed EXCEPT ![c] = Append(@, packet)]
             /\ UNCHANGED enqueuedMessages
        ELSE /\ enqueuedMessages' = [enqueuedMessages EXCEPT ![c] = Append(@, packet)]
             /\ UNCHANGED <<toServer, handed>>

Ping(c, peer, n) ==
  /\ EnqueuePacket(c, [src |-> myGlobalAddress[c], dst |-> peer, kind |-> "ping", n |-> n])
  /\ UNCHANGED <<connection, myGlobalAddress, pageConnected, readyState, toClient>>

ForMe(c, packet) == packet.dst \in {myGlobalAddress[c], ToAllNodes}

(* onMessage: every socket that is open calls it, also one that is not the *)
(* connection any more.                                                    *)
Receive(s) ==
  LET c == Maker[s]
      packet == Head(toClient[s])
      mine == ForMe(c, packet)
      pong == [src |-> packet.dst, dst |-> packet.src, kind |-> "pong", n |-> packet.n]
  IN /\ readyState[s] = "open" /\ toClient[s] # <<>>
     /\ toClient' = [toClient EXCEPT ![s] = Tail(@)]
     /\ IF mine /\ packet.kind = "ping" THEN EnqueuePacket(c, pong)
        ELSE UNCHANGED <<enqueuedMessages, toServer, clientHistory>>
     /\ myGlobalAddress' = IF mine /\ packet.kind = "ra"
                           THEN [myGlobalAddress EXCEPT ![c] = NewAddress(s)]
                           ELSE myGlobalAddress
     /\ UNCHANGED <<connection, pageConnected, readyState>>

-----------------------------------------------------------------------------
(* Types; and the connection is a socket of the client that lives. *)
ClientTypeOK ==
  /\ connection \in [Clients -> Sockets \cup {None}]
  /\ pageConnected \in [Clients -> BOOLEAN]
  /\ readyState \in [Sockets -> {"unused", "connecting", "open", "closing", "closed"}]
  /\ \A c \in Clients :
       connection[c] # None =>
         /\ Maker[connection[c]] = c
         /\ readyState[connection[c]] \in {"connecting", "open", "closing"}

(* Whatever happens to its sockets, every packet of a client is passed to  *)
(* a socket once and in order, and what was not passed on is still queued. *)
HandedOnceInOrder ==
  \A c \in Clients : enqueued[c] = handed[c] \o enqueuedMessages[c]

(* enqueuePacket may send at once: nothing older can be waiting, also when *)
(* a flush failed or went through another socket.                          *)
NothingWaitsWhenOpen ==
  \A c \in Clients :
    connection[c] # None /\ readyState[connection[c]] = "open" =>
      enqueuedMessages[c] = <<>>

(* Over all its connections a client's packets leave once and in order.    *)
PacketsKeepOrder == HandedOnceInOrder /\ NothingWaitsWhenOpen

(* The page enables the ping button only while there is a connection, to a *)
(* socket that lives.                                                      *)
PageShowsConnection ==
  /\ ClientTypeOK
  /\ \A c \in Clients : pageConnected[c] => connection[c] # None
=============================================================================
