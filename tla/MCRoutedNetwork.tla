-------------------------- MODULE MCRoutedNetwork --------------------------
(* Instances of RoutedNetwork for TLC: addresses are two bytes, and 1 is   *)
(* the byte of the prefix that the router gives out.                       *)
EXTENDS RoutedNetwork, TLC

CONSTANTS c1, c2  \* the clients: c1 connects again, c2 does not

ThreeSockets == 1 .. 3
TwoByOne == <<c1, c1, c2>>

FreshAddress(s) == <<1, s>>

Router0 == <<1, 0>>
All == <<255, 1>>
Zero == <<0, 0>>
AllAddresses == {Router0, All, Zero} \cup {FreshAddress(s) : s \in Sockets}

OnePrefix == {[address |-> Router0, triggerPrefixLength |-> 8, routePrefixLength |-> 16]}

DefaultRoute == <<Zero, 0>> :> [dest |-> Uplink, place |-> 1]
SocketLinks == Sockets \cup {Uplink}
PingNumbers == 0 .. MaxPings
=============================================================================
