--------------------------- MODULE EthernetNetwork ---------------------------
(***************************************************************************)
(* Ethernet switches (netdev/EthernetSwitch.ts) and repeaters, each in its *)
(* NetworkDeviceShell, and the cables between them as                      *)
(* sock/AdvancedNetworkDeviceShell.ts makes them: loops are allowed.       *)
(*                                                                         *)
(* A shell handles a message in one callback: the device is updated and    *)
(* what it wants to send is sent.  Between two devices a message waits for *)
(* the promise of the encoder, each direction of a cable being a queue.    *)
(*                                                                         *)
(* A frame stands for its bytes and for their CRC; hosts are external and  *)
(* send any of a given set of frames, at any time.  Time is that of        *)
(* Date.now, in ticks.                                                     *)
(***************************************************************************)
EXTENDS GenerationTable, FiniteSets

CONSTANTS
  Switches,          \* ethernet switches
  Repeaters,         \* repeaters
  Hosts,             \* hosts, and their MAC addresses
  Broadcast,         \* an address that no host has
  Frames,            \* what hosts send: records with the fields src, dst and size
  Topology,          \* the nodes that each device was linked to, in this order
  DuplicateTimeout,  \* timeout of the duplicate packet table
  ForwardTimeout,    \* forwardTimeout
  NoOne,             \* what a link that was removed leads to
  MaxSends,          \* bound of the model: frames sent by hosts
  MaxMoves,          \* bound of the model: links of hosts removed
  MaxTime            \* bound of the model: ticks

Devices == Switches \cup Repeaters
Nodes == Devices \cup Hosts
Addresses == Hosts \cup {Broadcast}
Paths == 1 .. MaxMoves + Cardinality(Nodes)

ASSUME NetworkAssumption ==
  /\ Switches \cap Repeaters = {} /\ Devices \cap Hosts = {}
  /\ Broadcast \notin Hosts
  /\ NoOne \notin Nodes
  /\ Frames \subseteq [src: Hosts, dst: Addresses, size: Nat]
  /\ DuplicateTimeout \in Nat \ {0} /\ ForwardTimeout \in Nat
  /\ MaxSends \in Nat /\ MaxMoves \in Nat /\ MaxTime \in Nat

ASSUME UnknownAssumption == Unknown \notin Nat /\ Unknown \notin [path: Paths, at: Nat]

(* Two nodes share at most one cable, and a host has one cable. *)
ASSUME TopologyAssumption ==
  /\ Topology \in [Devices -> Seq(Nodes)]
  /\ \A d \in Devices : \A i, j \in DOMAIN Topology[d] :
       Topology[d][i] = Topology[d][j] => i = j
  /\ \A d, e \in Devices : \A i \in DOMAIN Topology[d], j \in DOMAIN Topology[e] :
       Topology[d][i] = Topology[e][j] /\ Topology[d][i] \in Hosts => d = e

VARIABLES
  now,       \* the time
  peer,      \* links of each device by path: the node at the other end
  nextPath,  \* nextLinkId of each shell
  forward,   \* forwardTable of each switch
  seen,      \* duplicatePacketTable of each switch
  wire,      \* frames under way from one node to another
  moves,     \* number of links of hosts removed
  prompt,    \* history variable: whether time, hosts and links waited for the cables
  sends,     \* history variable: the frames sent by hosts
  got,       \* history variable: how often each host received each of them
  accepted,  \* history variable: what each switch did not take for a duplicate
  staleUntil \* history variable: when no entry for the link a host had is good any more

deviceVars == <<peer, nextPath, forward, seen>>
historyVars == <<moves, prompt, sends, got, accepted, staleUntil>>
vars == <<now, deviceVars, wire, historyVars>>

-----------------------------------------------------------------------------
ForwardRecord == [path: Paths, at: Nat]
Item == [frame: Frames, n: Nat]

Quiet == \A c \in Nodes \X Nodes : wire[c] = <<>>
KeepsPrompt == prompt' = (prompt /\ Quiet)

LinkPaths(d) == {p \in Paths : peer[d][p] # NoOne}

(* The device that a host is plugged into *)
HasLinkTo(h, d) == \E p \in Paths : peer[d][p] = h
Plugged(h) == \E d \in Devices : HasLinkTo(h, d)

Init ==
  /\ now = 0
  /\ peer = [d \in Devices |-> [p \in Paths |->
               IF p <= Len(Topology[d]) THEN Topology[d][p] ELSE NoOne]]
  /\ nextPath = [d \in Devices |-> Len(Topology[d]) + 1]
  /\ forward = [s \in Switches |-> EmptyTable(Addresses)]
  /\ seen = [s \in Switches |-> EmptyTable(Frames)]
  /\ wire = [c \in Nodes \X Nodes |-> <<>>]
  /\ moves = 0
  /\ prompt = TRUE
  /\ sends = <<>>
  /\ got = [h \in Hosts |-> [n \in 1 .. MaxSends |-> 0]]
  /\ accepted = [s \in Switches |-> <<>>]
  /\ staleUntil = [h \in Hosts |-> 0]

-----------------------------------------------------------------------------
(* Devices *)

(* What arrives at d through path p, and what d then sends: the item to    *)
(* the other end of each of the paths `out' that is still linked.          *)
Arrives(d, p) == peer[d][p] # NoOne /\ wire[<<peer[d][p], d>>] # <<>>
Item0(d, p) == Head(wire[<<peer[d][p], d>>])

Forwarded(d, p, out) ==
  wire' = [c \in Nodes \X Nodes |->
             CASE c = <<peer[d][p], d>> -> Tail(wire[c])
               [] \E q \in out \ {p} : peer[d][q] # NoOne /\ c = <<d, peer[d][q]>>
                                        -> Append(wire[c], Item0(d, p))
               [] OTHER -> wire[c]]

TooShort(f) == f.size < 14

(* checkPacket *)
IsDuplicate(s, f) ==
  LET previous == GetEntry(seen[s], f)
  IN previous # Unknown /\ now - previous < DuplicateTimeout

(* Mutant of Outdated: entries stay good forever. *)
NeverOutdated(e) == FALSE

Outdated(e) == e.at + ForwardTimeout < now

(* Where a switch with this forward table sends what is for address a *)
Destinations(s, table, a) ==
  LET dest == GetEntry(table, a)
  IN IF dest = Unknown THEN LinkPaths(s)
     ELSE IF Outdated(dest) THEN LinkPaths(s) ELSE {dest.path}

(* What is too short to be an ethernet frame, and duplicates *)
Drop(s, p) ==
  /\ Arrives(s, p)
  /\ TooShort(Item0(s, p).frame) \/ IsDuplicate(s, Item0(s, p).frame)
  /\ Forwarded(s, p, {})
  /\ UNCHANGED <<now, deviceVars, historyVars>>

Accept(s, p, fresh) ==
  LET f == Item0(s, p).frame
      table == AddEntry(forward[s], f.src, [path |-> p, at |-> now])
  IN /\ Arrives(s, p)
     /\ ~ TooShort(f)
     /\ fresh
     /\ seen' = [seen EXCEPT ![s] = AddEntry(@, f, now)]
     /\ forward' = [forward EXCEPT ![s] = table]
     /\ Forwarded(s, p, Destinations(s, table, f.dst))
     /\ accepted' = [accepted EXCEPT ![s] = Append(@, [frame |-> f, path |-> p, at |-> now])]
     /\ UNCHANGED <<now, peer, nextPath, moves, prompt, sends, got, staleUntil>>

(* Mutant of PacketReceived: duplicates are passed on like all others. *)
AcceptAlways(s, p) == Accept(s, p, TRUE)

(* packetReceived of a switch *)
PacketReceived(s, p) ==
  \/ Drop(s, p)
  \/ Accept(s, p, ~ IsDuplicate(s, Item0(s, p).frame))

(* packetReceived of a repeater *)
PacketRepeated(r, p) ==
  /\ Arrives(r, p)
  /\ Forwarded(r, p, LinkPaths(r))
  /\ UNCHANGED <<now, deviceVars, historyVars>>

-----------------------------------------------------------------------------
(* Hosts, links and time *)

HostReceives(h, d) ==
  /\ wire[<<d, h>>] # <<>>
  /\ LET i == Head(wire[<<d, h>>]) IN
       got' = IF i.frame.dst \in {h, Broadcast}
              THEN [got EXCEPT ![h][i.n] = @ + 1] ELSE got
  /\ wire' = [wire EXCEPT ![<<d, h>>] = Tail(@)]
  /\ UNCHANGED <<now, deviceVars, moves, prompt, sends, accepted, staleUntil>>

(* Links lead from d to e, through other devices or not. *)
Joined(d, e) ==
  \A ds \in SUBSET Devices :
    d \in ds /\ (\A c \in ds, x \in Devices : HasLinkTo(x, c) => x \in ds) => e \in ds

(* The hosts that a frame sent now to d should get to: not if the same     *)
(* bytes were sent a moment ago, or if old entries may still point to the  *)
(* link that the host had.                                                 *)
Due(f, d) ==
  {h \in Hosts : /\ f.dst \in {h, Broadcast} /\ f.src # h /\ ~ TooShort(f)
                 /\ \E e \in Devices : HasLinkTo(h, e) /\ Joined(d, e)
                 /\ now >= staleUntil[h]
                 /\ \A n \in 1 .. Len(sends) :
                      sends[n].frame = f => now - sends[n].at >= DuplicateTimeout}

HostSends(f, d) ==
  /\ KeepsPrompt
  /\ Len(sends) < MaxSends
  /\ HasLinkTo(f.src, d)
  /\ sends' = Append(sends, [frame |-> f, at |-> now, due |-> Due(f, d)])
  /\ wire' = [wire EXCEPT ![<<f.src, d>>] = Append(@, [frame |-> f, n |-> Len(sends) + 1])]
  /\ UNCHANGED <<now, deviceVars, moves, got, accepted, staleUntil>>

(* removeLink, for the link of a host: what is under way from it is        *)
(* dropped, what was sent to it still arrives.                             *)
Unplug(h, d) ==
  /\ KeepsPrompt
  /\ moves < MaxMoves
  /\ moves' = moves + 1
  /\ HasLinkTo(h, d)
  /\ peer' = [peer EXCEPT ![d] = [p \in Paths |-> IF @[p] = h THEN NoOne ELSE @[p]]]
  /\ wire' = [wire EXCEPT ![<<h, d>>] = <<>>]
  /\ staleUntil' = [staleUntil EXCEPT ![h] = now + ForwardTimeout + 1]
  /\ UNCHANGED <<now, nextPath, forward, seen, sends, got, accepted>>

(* addLink: the path is one that was not used before. *)
Plug(h, d) ==
  /\ KeepsPrompt
  /\ ~ Plugged(h)
  /\ peer' = [peer EXCEPT ![d][nextPath[d]] = h]
  /\ nextPath' = [nextPath EXCEPT ![d] = @ + 1]
  /\ UNCHANGED <<now, forward, seen, wire, moves, sends, got, accepted, staleUntil>>

Tick ==
  /\ KeepsPrompt
  /\ now < MaxTime
  /\ now' = now + 1
  /\ UNCHANGED <<deviceVars, wire, moves, sends, got, accepted, staleUntil>>

-----------------------------------------------------------------------------
Next ==
  \/ \E s \in Switches, p \in Paths : PacketReceived(s, p)
  \/ \E r \in Repeaters, p \in Paths : PacketRepeated(r, p)
  \/ \E h \in Hosts, d \in Devices : HostReceives(h, d)
  \/ \E f \in Frames, d \in Devices : HostSends(f, d)
  \/ \E h \in Hosts, d \in Devices : Unplug(h, d)
  \/ \E h \in Hosts, d \in Devices : Plug(h, d)
  \/ Tick

Spec == Init /\ [][Next]_vars

-----------------------------------------------------------------------------
Accepted == [frame: Frames, path: Paths, at: Nat]

TypeOK ==
  /\ now \in Nat
  /\ peer \in [Devices -> [Paths -> Nodes \cup {NoOne}]]
  /\ nextPath \in [Devices -> Nat]
  /\ forward \in [Switches -> Table(Addresses, ForwardRecord)]
  /\ seen \in [Switches -> Table(Frames, Nat)]
  /\ wire \in [Nodes \X Nodes -> Seq(Item)]
  /\ moves \in 0 .. MaxMoves
  /\ prompt \in BOOLEAN
  /\ sends \in Seq([frame: Frames, at: Nat, due: SUBSET Hosts])
  /\ got \in [Hosts -> [1 .. MaxSends -> Nat]]
  /\ accepted \in [Switches -> Seq(Accepted)]
  /\ staleUntil \in [Hosts -> Nat]

(* The additions made to the tables of a switch *)
ForwardLog(s) ==
  [i \in 1 .. Len(accepted[s]) |->
     [key |-> accepted[s][i].frame.src,
      entry |-> [path |-> accepted[s][i].path, at |-> accepted[s][i].at]]]

SeenLog(s) ==
  [i \in 1 .. Len(accepted[s]) |->
     [key |-> accepted[s][i].frame, entry |-> accepted[s][i].at]]

(* A switch knows through which link it last heard from a host, and when   *)
(* it last saw a packet, as long as fewer packets than its tables hold     *)
(* came in between: never something older.                                 *)
TablesRecall ==
  \A s \in Switches :
    /\ \A a \in Addresses : Recalls(forward[s], ForwardLog(s), a)
    /\ \A f \in Frames : Recalls(seen[s], SeenLog(s), f)

(* "Drop duplicate packets" (packetReceived): a switch does not pass on    *)
(* the same packet twice within the timeout, unless so many others came    *)
(* between that its table was full.                                        *)
PassedOnOnce ==
  \A s \in Switches : \A i, j \in 1 .. Len(accepted[s]) :
    i < j /\ accepted[s][i].frame = accepted[s][j].frame =>
      \/ accepted[s][j].at - accepted[s][i].at >= DuplicateTimeout
      \/ j - i > MaxTableSize + 1

(* Whether a host was unplugged when, or after, a frame was sent *)
MovedSince(h, n) == staleUntil[h] > sends[n].at + ForwardTimeout

(* What may bring a host a second copy of a frame *)
Excused(h, n) ==
  \/ now - sends[n].at >= DuplicateTimeout
  \/ \E s \in Switches : Len(accepted[s]) > MaxTableSize + 1
  \/ \E r \in Repeaters : HasLinkTo(h, r)
  \/ MovedSince(h, n)

(* However the devices are linked, a host gets what was sent once no more  *)
(* than once, unless it was under way for longer than the timeout, a table *)
(* was full on the way, a repeater passed it on to the host, or the host   *)
(* was moved to a switch that had not passed it on yet.                    *)
ReceivedOnce ==
  \A h \in Hosts : \A n \in 1 .. Len(sends) : got[h][n] > 1 => Excused(h, n)

(* When the cables are prompt, what should get to a host does get there:   *)
(* learned entries lead to it, across loops, table rotations, and moves    *)
(* that are longer ago than forwardTimeout.                                *)
Delivered ==
  prompt /\ Quiet => \A n \in 1 .. Len(sends) : \A h \in sends[n].due : got[h][n] > 0
=============================================================================
