---------------------------- MODULE RoutingTable ----------------------------
(***************************************************************************)
(* The routing table of inet/RoutingTable.ts.  An address is the sequence  *)
(* of its bytes; the lengths of prefixes are numbers of bits, which the    *)
(* code requires to be whole bytes.  A table maps keys, pairs of an        *)
(* address and a prefix length, to routes: where a route leads to, and its *)
(* place, since the code goes through the routes as they were added.       *)
(***************************************************************************)
EXTENDS Integers, Sequences, FiniteSetsExt

CONSTANT Nowhere  \* null: no route for an address

(* The i-th byte belongs to a prefix of so many bits. *)
InPrefix(i, bits) == 8 * (i - 1) < bits

(* clearNonPrefixBits.  It compares a number of bits with one of bytes: of *)
(* an address of 16 bytes it clears nothing when the prefix has 16 bits.   *)
ClearNonPrefixBits(address, bits) ==
  IF bits = Len(address) THEN address
  ELSE [i \in DOMAIN address |-> IF InPrefix(i, bits) THEN address[i] ELSE 0]

(* prefixMatches *)
PrefixMatches(address, prefix, bits) ==
  \A i \in DOMAIN prefix : InPrefix(i, bits) => address[i] = prefix[i]

(* addrAndPrefixLengthToString *)
RouteKey(address, bits) == <<ClearNonPrefixBits(address, bits), bits>>

RouteExistsFor(routes, key) == key \in DOMAIN routes

(* The place of a route that is added now *)
NextPlace(routes) == Max({0} \cup {routes[k].place : k \in DOMAIN routes}) + 1

RemoveRoutesTo(routes, dest) ==
  [k \in {k \in DOMAIN routes : routes[k].dest # dest} |-> routes[k]]

(* Mutant of Matching: the last byte of a prefix is not compared. *)
MatchingButLast(routes, address) ==
  {k \in DOMAIN routes : PrefixMatches(address, k[1], k[2] - 8)}

(* The code compares with the address that the route was added for; it has *)
(* the same prefix as the one in its key.                                  *)
Matching(routes, address) == {k \in DOMAIN routes : PrefixMatches(address, k[1], k[2])}

(* In the loop k prevails over m: it is longer, or as long and comes later.*)
Prevails(routes, k, m) ==
  \/ m[2] < k[2]
  \/ m[2] = k[2] /\ routes[m].place <= routes[k].place

(* The route that an address takes *)
BestMatch(routes, address) ==
  LET found == Matching(routes, address)
  IN CHOOSE k \in found : \A m \in found : Prevails(routes, k, m)

FindDestination(routes, address) ==
  IF Matching(routes, address) = {} THEN Nowhere ELSE routes[BestMatch(routes, address)].dest
=============================================================================
