------------------------- MODULE RoutedNetworkProofs --------------------------
(***************************************************************************)
(* The router: for every set of links and addresses, every table of routes *)
(* at the start and every list of automatic routes, a route leads to a     *)
(* link, and stays until that link is removed.                             *)
(*                                                                         *)
(* The network of clients and a router, for any number of clients, sockets *)
(* and packets: what the clients do to it is what the router expects of    *)
(* its links, the packets of a client stay in order over all its           *)
(* connections and get to no other client, and its page shows whether it   *)
(* has one.                                                                *)
(***************************************************************************)
EXTENDS RoutedNetwork, SequenceTheorems, WellFoundedInduction, TLAPS

-----------------------------------------------------------------------------
(* The router *)

(* A set of numbers has a least one, and a greatest one if it is bounded.  *)
LEMMA LeastNumber ==
  ASSUME NEW T \in SUBSET Nat, T # {}
  PROVE  \E x \in T : \A y \in T : x <= y
<1> DEFINE R == {p \in Nat \X Nat : p[1] < p[2]}
<1>1. IsWellFoundedOn(R, Nat)
  BY NatLessThanWellFounded DEF OpToRel
<1>2. \A x, y \in Nat : x < y => <<x, y>> \in R
  OBVIOUS
<1> HIDE DEF R
<1>3. PICK x \in T : \A y \in T : ~ (<<y, x>> \in R)
  BY <1>1, WFMin
<1>4. ASSUME NEW y \in T PROVE x <= y
  <2>1. x \in Nat /\ y \in Nat /\ ~ (<<y, x>> \in R)
    BY <1>3
  <2>2. ~ (y < x)
    BY <1>2, <2>1
  <2>3. QED
    BY <2>1, <2>2
<1>5. QED
  BY <1>4

LEMMA GreatestNumber ==
  ASSUME NEW T \in SUBSET Nat, T # {}, NEW n \in Nat, \A y \in T : y <= n
  PROVE  \E x \in T : \A y \in T : y <= x
<1> DEFINE U == {n - y : y \in T}
<1>1. U \in SUBSET Nat /\ U # {}
  <2>1. \A y \in T : n - y \in Nat
    OBVIOUS
  <2> QED
    BY <2>1
<1>2. PICK u \in U : \A v \in U : u <= v
  BY <1>1, LeastNumber
<1>3. PICK x \in T : u = n - x
  BY <1>2
<1>4. ASSUME NEW y \in T PROVE y <= x
  <2>1. u <= n - y /\ x \in Nat /\ y \in Nat
    BY <1>2
  <2>2. QED
    BY <1>3, <2>1
<1>5. QED
  BY <1>4

-----------------------------------------------------------------------------
(* Routing tables                                                          *)

(* A key is one of its own prefix, of an address as long as any. *)
KeyOK(k) ==
  /\ k \in IPAddress \X Nat
  /\ k = RouteKey(k[1], k[2])
  /\ \A a \in Addresses : Len(k[1]) = Len(a) /\ k[2] <= 8 * Len(a)

(* Where length and place of two routes are the same, so are the routes.   *)
TableOK(table) ==
  /\ \A k \in DOMAIN table : KeyOK(k) /\ table[k].place \in Nat
  /\ \A k, m \in DOMAIN table : k[2] = m[2] /\ table[k].place = table[m].place => k = m
  /\ \E n \in Nat : \A k \in DOMAIN table : table[k].place <= n

(* Clearing an address again changes nothing. *)
LEMMA ClearedKey ==
  ASSUME NEW a \in Addresses, NEW r \in AutoRoutePrefixes
  PROVE  KeyOK(RouteKey(a, r.routePrefixLength))
<1> DEFINE bits == r.routePrefixLength
           c == ClearNonPrefixBits(a, bits)
           k == RouteKey(a, bits)
<1>1. /\ a \in IPAddress /\ Len(a) \in Nat /\ DOMAIN a = 1 .. Len(a)
      /\ \A i \in DOMAIN a : a[i] \in 0 .. 255
      /\ \A b \in Addresses : Len(b) = Len(a)
  <2>1. a \in Seq(0 .. 255) /\ \A b \in Addresses : Len(b) = Len(a)
    BY RouterAssumption DEF IPAddress
  <2>2. Len(a) \in Nat /\ DOMAIN a = 1 .. Len(a)
    BY <2>1, LenProperties
  <2>3. \A i \in 1 .. Len(a) : a[i] \in 0 .. 255
    BY <2>1, ElementOfSeq
  <2> QED
    BY <2>1, <2>2, <2>3 DEF IPAddress
<1>2. bits \in Nat /\ bits <= 8 * Len(a)
  <2>1. PICK n \in 0 .. Len(a) : bits = 8 * n
    BY PrefixAssumption
  <2> QED
    BY <1>1, <2>1
<1>3. k[1] = c /\ k[2] = bits /\ k = <<c, bits>>
  BY DEF RouteKey
<1> HIDE DEF bits, k
<1>4. CASE bits = Len(a)
  <2>1. c = a
    BY <1>4 DEF ClearNonPrefixBits
  <2> QED
    BY <1>1, <1>2, <1>3, <1>4, <2>1 DEF KeyOK, RouteKey, ClearNonPrefixBits, k, bits
<1>5. CASE bits # Len(a)
  <2>1. c = [i \in 1 .. Len(a) |-> IF InPrefix(i, bits) THEN a[i] ELSE 0]
    BY <1>1, <1>5 DEF ClearNonPrefixBits
  <2>2. /\ c \in IPAddress /\ Len(c) = Len(a) /\ DOMAIN c = 1 .. Len(a)
    <3> DEFINE Byte(i) == IF InPrefix(i, bits) THEN a[i] ELSE 0
               n == Len(a)
    <3>1. \A i \in 1 .. n : Byte(i) \in 0 .. 255
      <4>1. ASSUME NEW i \in 1 .. n PROVE Byte(i) \in 0 .. 255
        <5>1. a[i] \in 0 .. 255
          BY <1>1, <4>1
        <5>2. 0 \in 0 .. 255
          OBVIOUS
        <5> QED
          BY <5>1, <5>2
      <4> QED
        BY <4>1
    <3>2. c = [i \in 1 .. n |-> Byte(i)] /\ n \in Nat
      BY <1>1, <2>1
    <3> HIDE DEF Byte, n, c
    <3>3. [i \in 1 .. n |-> Byte(i)] \in Seq(0 .. 255)
      BY <3>1, <3>2
    <3>4. Len([i \in 1 .. n |-> Byte(i)]) = n
      BY <3>2
    <3>5. c \in Seq(0 .. 255) /\ Len(c) = n /\ DOMAIN c = 1 .. n
      BY <3>2, <3>3, <3>4
    <3> QED
      BY <3>5 DEF IPAddress, n
  <2>3. \A i \in 1 .. Len(a) : c[i] = IF InPrefix(i, bits) THEN a[i] ELSE 0
    BY <2>1
  <2>4. ClearNonPrefixBits(c, bits) = c
    <3>1. ClearNonPrefixBits(c, bits) =
            [i \in 1 .. Len(a) |-> IF InPrefix(i, bits) THEN c[i] ELSE 0]
      BY <1>5, <2>2 DEF ClearNonPrefixBits
    <3> HIDE DEF c
    <3>2. \A i \in 1 .. Len(a) : (IF InPrefix(i, bits) THEN c[i] ELSE 0) = c[i]
      BY <2>3
    <3>3. c = [i \in 1 .. Len(a) |-> c[i]]
      BY <2>2 DEF IPAddress
    <3> QED
      BY <3>1, <3>2, <3>3
  <2> HIDE DEF c
  <2>5. RouteKey(k[1], k[2]) = k
    BY <1>3, <2>4 DEF RouteKey
  <2> QED
    BY <1>1, <1>2, <1>3, <2>2, <2>5 DEF KeyOK, k, bits
<1> QED
  BY <1>4, <1>5

(* Two prefixes of an address that have the same length are the same, but  *)
(* for the length that is not cleared.                                     *)
LEMMA SamePrefix ==
  ASSUME NEW a \in Addresses, NEW k, NEW m, KeyOK(k), KeyOK(m), k[2] = m[2], k[2] # Len(a),
         PrefixMatches(a, k[1], k[2]), PrefixMatches(a, m[1], m[2])
  PROVE  k = m
<1> DEFINE bits == k[2]
           Cleared(c) == [i \in 1 .. Len(a) |-> IF InPrefix(i, bits) THEN a[i] ELSE 0]
<1>1. ASSUME NEW c, c \in IPAddress, Len(c) = Len(a), c = ClearNonPrefixBits(c, bits),
             PrefixMatches(a, c, bits)
      PROVE  c = Cleared(c)
  <2>1. DOMAIN c = 1 .. Len(a)
    BY <1>1 DEF IPAddress
  <2>2. c = [i \in 1 .. Len(a) |-> IF InPrefix(i, bits) THEN c[i] ELSE 0]
    BY <1>1, <2>1 DEF ClearNonPrefixBits
  <2>3. \A i \in 1 .. Len(a) : InPrefix(i, bits) => a[i] = c[i]
    BY <1>1, <2>1 DEF PrefixMatches
  <2> QED
    BY <2>2, <2>3
<1>2. /\ k[1] \in IPAddress /\ Len(k[1]) = Len(a) /\ k[1] = ClearNonPrefixBits(k[1], bits)
      /\ m[1] \in IPAddress /\ Len(m[1]) = Len(a) /\ m[1] = ClearNonPrefixBits(m[1], bits)
      /\ k = <<k[1], k[2]>> /\ m = <<m[1], m[2]>>
  BY DEF KeyOK, RouteKey
<1>3. k[1] = Cleared(k[1]) /\ m[1] = Cleared(m[1])
  BY <1>1, <1>2
<1> QED
  BY <1>2, <1>3

(* What is added comes after what is there. *)
LEMMA PlaceIsNext ==
  ASSUME NEW table, TableOK(table)
  PROVE  /\ NextPlace(table) \in Nat
         /\ \A k \in DOMAIN table : table[k].place < NextPlace(table)
<1> DEFINE S == {0} \cup {table[k].place : k \in DOMAIN table}
<1>1. PICK n \in Nat : \A k \in DOMAIN table : table[k].place <= n
  BY DEF TableOK
<1>2. S \in SUBSET Nat /\ S # {} /\ \A y \in S : y <= n
  BY <1>1 DEF TableOK
<1> HIDE DEF S
<1>3. PICK x \in S : \A y \in S : y <= x
  BY <1>2, GreatestNumber
<1>4. x \in Nat /\ \A y \in S : x >= y
  BY <1>2, <1>3
<1>5. Max(S) \in S /\ \A y \in S : Max(S) >= y
  BY <1>4 DEF Max
<1>6. NextPlace(table) = Max(S) + 1
  BY DEF NextPlace, S
<1>7. \A k \in DOMAIN table : table[k].place \in S
  BY DEF S
<1>8. Max(S) \in Nat
  BY <1>2, <1>5
<1> QED
  <2> SUFFICES ASSUME NEW k \in DOMAIN table PROVE table[k].place < Max(S) + 1
    BY <1>6, <1>8
  <2>1. table[k].place \in Nat /\ Max(S) >= table[k].place
    BY <1>2, <1>5, <1>7
  <2> QED
    BY <1>8, <2>1

(* What learning adds to a table leads to the link that the packet came    *)
(* through, and comes after what was there, which is kept.                 *)
LEMMA LearnedRoutes ==
  ASSUME NEW table, NEW src, NEW l, NEW new, new = Learned(table, src, l)
  PROVE  /\ \A k \in DOMAIN table : k \in DOMAIN new /\ new[k] = table[k]
         /\ \A k \in DOMAIN new :
              k \notin DOMAIN table => /\ k \in Triggered(src)
                                      /\ new[k].dest = l /\ new[k].place = NextPlace(table)
  BY DEF Learned, RouteExistsFor

LEMMA LearnedTable ==
  ASSUME NEW table, TableOK(table), NEW src \in Addresses, NEW l
  PROVE  TableOK(Learned(table, src, l))
<1> DEFINE new == Learned(table, src, l)
           next == NextPlace(table)
<1>1. \A k \in DOMAIN table : new[k] = table[k]
  BY LearnedRoutes
<1>2. \A k \in DOMAIN new : k \notin DOMAIN table => k \in Triggered(src) /\ new[k].place = next
  BY LearnedRoutes
<1>3. next \in Nat /\ \A k \in DOMAIN table : table[k].place < next
  BY PlaceIsNext
<1>4. \A k \in Triggered(src) : KeyOK(k) /\ k = RouteKey(src, k[2])
  <2> SUFFICES ASSUME NEW r \in AutoRoutePrefixes, NEW k, k = RouteKey(src, r.routePrefixLength)
               PROVE  KeyOK(k) /\ k = RouteKey(src, k[2])
    BY DEF Triggered
  <2>1. KeyOK(k)
    BY ClearedKey
  <2>2. k[2] = r.routePrefixLength
    BY DEF RouteKey
  <2> QED
    BY <2>1, <2>2
<1> HIDE DEF new, next
<1>5. \A k \in DOMAIN new : KeyOK(k) /\ new[k].place \in Nat
  BY <1>1, <1>2, <1>3, <1>4 DEF TableOK
<1>6. ASSUME NEW k \in DOMAIN new, NEW m \in DOMAIN new, k[2] = m[2], new[k].place = new[m].place
      PROVE  k = m
  <2>1. CASE k \in DOMAIN table /\ m \in DOMAIN table
    BY <1>1, <1>6, <2>1 DEF TableOK
  <2>2. CASE k \notin DOMAIN table /\ m \notin DOMAIN table
    BY <1>2, <1>4, <1>6, <2>2
  <2>3. CASE k \in DOMAIN table /\ m \notin DOMAIN table
    <3>1. table[k].place < next /\ table[k].place = next /\ table[k].place \in Nat
      BY <1>1, <1>2, <1>3, <1>6, <2>3 DEF TableOK
    <3> QED
      BY <1>3, <3>1
  <2>4. CASE k \notin DOMAIN table /\ m \in DOMAIN table
    <3>1. table[m].place < next /\ table[m].place = next /\ table[m].place \in Nat
      BY <1>1, <1>2, <1>3, <1>6, <2>4 DEF TableOK
    <3> QED
      BY <1>3, <3>1
  <2> QED
    BY <2>1, <2>2, <2>3, <2>4
<1>7. \A k \in DOMAIN new : new[k].place <= next
  <2> SUFFICES ASSUME NEW k \in DOMAIN new PROVE new[k].place <= next
    OBVIOUS
  <2>1. CASE k \in DOMAIN table
    BY <1>1, <1>3, <2>1 DEF TableOK
  <2>2. CASE k \notin DOMAIN table
    BY <1>2, <1>3, <2>2
  <2> QED
    BY <2>1, <2>2
<1> QED
  BY <1>3, <1>5, <1>6, <1>7 DEF TableOK, new

(* What removing leaves is the routes to all others. *)
LEMMA RemainingRoutes ==
  ASSUME NEW table, NEW l, NEW left, left = RemoveRoutesTo(table, l)
  PROVE  /\ \A k \in DOMAIN table : table[k].dest # l => k \in DOMAIN left
         /\ \A k \in DOMAIN left : k \in DOMAIN table /\ table[k].dest # l /\ left[k] = table[k]
  BY DEF RemoveRoutesTo

LEMMA RemainingTable ==
  ASSUME NEW table, TableOK(table), NEW l
  PROVE  TableOK(RemoveRoutesTo(table, l))
<1> DEFINE left == RemoveRoutesTo(table, l)
<1>1. \A k \in DOMAIN left : k \in DOMAIN table /\ left[k] = table[k]
  BY RemainingRoutes
<1> HIDE DEF left
<1> QED
  BY <1>1 DEF TableOK, left

(* Of the routes that match an address one prevails over all. *)
LEMMA BestPrevails ==
  ASSUME NEW table, TableOK(table), NEW a \in Addresses, Matching(table, a) # {}
  PROVE  /\ BestMatch(table, a) \in Matching(table, a)
         /\ \A m \in Matching(table, a) : Prevails(table, BestMatch(table, a), m)
<1> DEFINE M == Matching(table, a)
           Lengths == {k[2] : k \in M}
<1>1. \A k \in M : /\ k \in DOMAIN table /\ k[2] \in Nat /\ k[2] <= 8 * Len(a)
                   /\ table[k].place \in Nat
  BY DEF Matching, TableOK, KeyOK
<1>2. 8 * Len(a) \in Nat
  BY RouterAssumption DEF IPAddress
<1>3. PICK longest \in Lengths : \A y \in Lengths : y <= longest
  <2>1. Lengths \in SUBSET Nat /\ Lengths # {} /\ \A y \in Lengths : y <= 8 * Len(a)
    BY <1>1
  <2> HIDE DEF Lengths
  <2> QED
    BY <1>2, <2>1, GreatestNumber
<1> DEFINE L == {k \in M : k[2] = longest}
           Places == {table[k].place : k \in L}
<1>4. PICK last \in Places : \A y \in Places : y <= last
  <2>1. PICK n \in Nat : \A k \in DOMAIN table : table[k].place <= n
    BY DEF TableOK
  <2>2. Places \in SUBSET Nat /\ Places # {} /\ \A y \in Places : y <= n
    BY <1>1, <1>3, <2>1
  <2> HIDE DEF Places
  <2> QED
    BY <2>1, <2>2, GreatestNumber
<1>5. PICK b \in M : b[2] = longest /\ table[b].place = last
  BY <1>4
<1>6. ASSUME NEW m \in M PROVE Prevails(table, b, m)
  <2>1. m[2] <= b[2] /\ m[2] \in Nat /\ b[2] \in Nat
    BY <1>1, <1>3, <1>5
  <2>2. CASE m[2] = b[2]
    BY <1>4, <1>5, <2>2 DEF Prevails
  <2>3. CASE m[2] # b[2]
    BY <2>1, <2>3 DEF Prevails
  <2> QED
    BY <2>2, <2>3
<1> DEFINE Best(k) == \A m \in M : Prevails(table, k, m)
<1>7. BestMatch(table, a) = CHOOSE k \in M : Best(k)
  BY DEF BestMatch
<1>8. Best(b)
  BY <1>6
<1> HIDE DEF M, Best
<1>9. (CHOOSE k \in M : Best(k)) \in M /\ Best(CHOOSE k \in M : Best(k))
  BY <1>5, <1>8
<1> QED
  BY <1>7, <1>9 DEF M, Best

(* The router finds nothing, or where a route that matches leads to. *)
LEMMA FoundMatches ==
  ASSUME NEW table, TableOK(table), NEW a \in Addresses, FindDestination(table, a) # Nowhere
  PROVE  /\ BestMatch(table, a) \in DOMAIN table
         /\ BestMatch(table, a) \in Matching(table, a)
         /\ FindDestination(table, a) = table[BestMatch(table, a)].dest
<1>1. Matching(table, a) # {}
  BY DEF FindDestination
<1>2. BestMatch(table, a) \in Matching(table, a)
  BY <1>1, BestPrevails
<1> QED
  BY <1>1, <1>2 DEF FindDestination, Matching

(* Where a table is a part of another and has the route that an address    *)
(* takes, the address takes it there as well.                              *)
LEMMA SameBest ==
  ASSUME NEW table, TableOK(table), NEW part, TableOK(part), NEW a \in Addresses,
         \A k \in DOMAIN part : k \in DOMAIN table /\ part[k] = table[k],
         Matching(table, a) # {}, BestMatch(table, a) \in DOMAIN part
  PROVE  FindDestination(part, a) = FindDestination(table, a)
<1> DEFINE b == BestMatch(table, a)
           c == BestMatch(part, a)
<1>1. b \in Matching(table, a) /\ \A m \in Matching(table, a) : Prevails(table, b, m)
  BY BestPrevails
<1>2. b \in Matching(part, a)
  BY <1>1 DEF Matching
<1>3. c \in Matching(part, a) /\ \A m \in Matching(part, a) : Prevails(part, c, m)
  BY <1>2, BestPrevails
<1>4. c \in Matching(table, a) /\ c \in DOMAIN part /\ b \in DOMAIN part
  BY <1>2, <1>3 DEF Matching
<1>5. part[b] = table[b] /\ part[c] = table[c]
  BY <1>4
<1>6. Prevails(table, b, c) /\ Prevails(table, c, b)
  BY <1>1, <1>2, <1>3, <1>4, <1>5 DEF Prevails
<1>7. /\ b \in DOMAIN table /\ c \in DOMAIN table
      /\ b[2] \in Nat /\ c[2] \in Nat /\ table[b].place \in Nat /\ table[c].place \in Nat
  BY <1>4 DEF TableOK, KeyOK
<1> HIDE DEF b, c
<1>8. b[2] = c[2] /\ table[b].place = table[c].place
  BY <1>6, <1>7 DEF Prevails
<1>9. b = c
  BY <1>7, <1>8 DEF TableOK
<1> QED
  BY <1>2, <1>5, <1>9 DEF FindDestination, b, c

-----------------------------------------------------------------------------
(* The router's invariant                                                  *)

(* Only links that are there call the router. *)
HandlersAreLinks == handlers \subseteq links

IInv == RouterTypeOK /\ HandlersAreLinks /\ RoutesLeadToLinks /\ TableOK(routes)

LEMMA InvInit == RouterInit => IInv
<1> SUFFICES ASSUME RouterInit PROVE IInv
  OBVIOUS
<1>1. StaticRoutes \in [DOMAIN StaticRoutes -> [dest: LinkIds, place: Nat]]
  BY StaticRoutesAssumption
<1>2. links \subseteq LinkIds /\ \A k \in DOMAIN routes : routes[k].dest \in links
  BY <1>1 DEF RouterInit
<1>3. TableOK(StaticRoutes)
  <2>1. \A k \in DOMAIN StaticRoutes : KeyOK(k) /\ StaticRoutes[k].place \in Nat
    <3> SUFFICES ASSUME NEW k \in DOMAIN StaticRoutes
                 PROVE  KeyOK(k) /\ StaticRoutes[k].place \in Nat
      OBVIOUS
    <3>1. k \in IPAddress \X Nat /\ k = RouteKey(k[1], k[2])
      BY StaticRoutesAssumption
    <3>2. ASSUME NEW a \in Addresses PROVE Len(k[1]) = Len(a) /\ k[2] <= 8 * Len(a)
      <4>1. PICK n \in 0 .. Len(a) : k[2] = 8 * n
        BY StaticRoutesAssumption
      <4>2. Len(a) \in Nat /\ Len(k[1]) = Len(a)
        BY StaticRoutesAssumption, RouterAssumption DEF IPAddress
      <4> QED
        BY <4>1, <4>2
    <3> QED
      BY <1>1, <3>1, <3>2 DEF KeyOK
  <2>2. \A k, m \in DOMAIN StaticRoutes : StaticRoutes[k].place = StaticRoutes[m].place => k = m
    BY StaticRoutesAssumption
  <2>3. \E n \in Nat : \A k \in DOMAIN StaticRoutes : StaticRoutes[k].place <= n
    <3>1. CASE DOMAIN StaticRoutes = {}
      BY <3>1
    <3>2. CASE DOMAIN StaticRoutes # {}
      <4>1. PICK k \in DOMAIN StaticRoutes :
              \A m \in DOMAIN StaticRoutes : StaticRoutes[m].place <= StaticRoutes[k].place
        BY <3>2, StaticRoutesAssumption
      <4>2. StaticRoutes[k].place \in Nat
        BY <2>1
      <4> QED
        BY <4>1, <4>2
    <3> QED
      BY <3>1, <3>2
  <2> QED
    BY <2>1, <2>2, <2>3 DEF TableOK
<1>4. QED
  BY <1>1, <1>2, <1>3 DEF RouterInit, IInv, RouterTypeOK, HandlersAreLinks, RoutesLeadToLinks

LEMMA InvStep == IInv /\ [RouterNext]_routerVars => IInv'
<1> SUFFICES ASSUME IInv, [RouterNext]_routerVars PROVE IInv'
  OBVIOUS
<1> USE DEF IInv, RouterTypeOK, HandlersAreLinks, RoutesLeadToLinks
<1>1. ASSUME NEW l \in LinkIds, AddLink(l)
      PROVE  IInv'
  BY <1>1 DEF AddLink
<1>2. ASSUME NEW l \in LinkIds, RemoveLink(l)
      PROVE  IInv'
  <2>1. /\ links' = links \ {l} /\ handlers' = handlers \ {l}
        /\ routes' = RemoveRoutesTo(routes, l)
    BY <1>2 DEF RemoveLink
  <2>2. \A k \in DOMAIN routes' : /\ k \in DOMAIN routes /\ routes[k].dest # l
                                  /\ routes'[k] = routes[k]
    BY <2>1, RemainingRoutes
  <2>3. \A k \in DOMAIN routes' : routes'[k].dest \in links'
    BY <2>1, <2>2
  <2>4. routes' \in [DOMAIN routes' -> [dest: LinkIds, place: Nat]]
    <3>1. routes' = [k \in DOMAIN routes' |-> routes'[k]]
      BY <2>1 DEF RemoveRoutesTo
    <3>2. \A k \in DOMAIN routes' : routes'[k] \in [dest: LinkIds, place: Nat]
      BY <2>2
    <3>3. QED
      BY <3>1, <3>2
  <2>5. TableOK(routes')
    BY <2>1, RemainingTable
  <2>6. QED
    BY <2>1, <2>3, <2>4, <2>5
<1>3. ASSUME NEW l \in LinkIds, NEW packet \in Packet, HandlePacket(packet, l)
      PROVE  IInv'
  <2>1. l \in links /\ UNCHANGED <<links, handlers>>
    BY <1>3 DEF HandlePacket
  <2>2. routes' = Learned(routes, packet.src, l)
    BY <1>3 DEF HandlePacket
  <2>3. \A k \in DOMAIN routes' :
          \/ k \in DOMAIN routes /\ routes'[k] = routes[k]
          \/ k \notin DOMAIN routes /\ routes'[k].dest = l
    BY <2>2, LearnedRoutes
  <2>4. \A k \in DOMAIN routes' : routes'[k].dest \in links'
    BY <2>1, <2>3
  <2>5. routes' \in [DOMAIN routes' -> [dest: LinkIds, place: Nat]]
    <3>1. [dest |-> l, place |-> NextPlace(routes)] \in [dest: LinkIds, place: Nat]
      BY PlaceIsNext
    <3>2. QED
      BY <2>2, <3>1 DEF Learned, RouteExistsFor
  <2>6. TableOK(routes')
    BY <2>2, LearnedTable DEF Packet
  <2>7. QED
    BY <2>1, <2>4, <2>5, <2>6
<1>4. CASE UNCHANGED routerVars
  BY <1>4 DEF routerVars
<1>5. QED
  BY <1>1, <1>2, <1>3, <1>4 DEF RouterNext

LEMMA Invariance == RouterSpec => []IInv
  BY InvInit, InvStep, PTL DEF RouterSpec

(* The routing table always is one of links. *)
THEOREM TypeCorrect == RouterSpec => []RouterTypeOK
<1>1. IInv => RouterTypeOK
  BY DEF IInv
<1>2. QED
  BY <1>1, Invariance, PTL

(* The router never looks up a link that is not there, whatever packets    *)
(* come in between the removals of links.                                  *)
THEOREM NoStrayRoutes == RouterSpec => []RoutesLeadToLinks
<1>1. IInv => RoutesLeadToLinks
  BY DEF IInv
<1>2. QED
  BY <1>1, Invariance, PTL

(* No packet takes the route of an address away from the link that has it, *)
(* but for longer prefixes and the length that is not cleared.             *)
THEOREM RoutesAreKept == RouterSpec => RoutesStay
<1> DEFINE Kept == routes' # routes => \A a \in Addresses : StaysOrTakenOver(a)
<1>1. ASSUME IInv, IInv', RouterNext
      PROVE  Kept
  <2> SUFFICES ASSUME routes' # routes, NEW a \in Addresses,
                      FindDestination(routes, a) \in links'
               PROVE  FindDestination(routes', a) = FindDestination(routes, a) \/ TakenOver(a)
    BY DEF StaysOrTakenOver
  <2> DEFINE b == BestMatch(routes, a)
             c == BestMatch(routes', a)
  <2>1. TableOK(routes) /\ TableOK(routes')
    BY <1>1 DEF IInv
  <2>2. FindDestination(routes, a) # Nowhere
    BY <1>1, RouterAssumption DEF IInv, RouterTypeOK
  <2>3. /\ b \in DOMAIN routes /\ b \in Matching(routes, a)
        /\ FindDestination(routes, a) = routes[b].dest
    BY <2>1, <2>2, FoundMatches
  <2>4. ASSUME NEW l \in LinkIds, RemoveLink(l)
        PROVE  FindDestination(routes', a) = FindDestination(routes, a)
    <3>1. routes' = RemoveRoutesTo(routes, l) /\ l \notin links'
      BY <2>4 DEF RemoveLink
    <3>2. b \in DOMAIN routes'
      BY <2>3, <3>1, RemainingRoutes
    <3>3. \A k \in DOMAIN routes' : k \in DOMAIN routes /\ routes'[k] = routes[k]
      BY <3>1, RemainingRoutes
    <3> QED
      BY <2>1, <2>3, <3>2, <3>3, SameBest
  <2>5. ASSUME NEW l \in LinkIds, NEW packet \in Packet, HandlePacket(packet, l)
        PROVE  FindDestination(routes', a) = FindDestination(routes, a) \/ TakenOver(a)
    <3>1. routes' = Learned(routes, packet.src, l)
      BY <2>5 DEF HandlePacket
    <3>2. \A k \in DOMAIN routes : k \in DOMAIN routes' /\ routes[k] = routes'[k]
      BY <3>1, LearnedRoutes
    <3>3. b \in Matching(routes', a)
      BY <2>3, <3>2 DEF Matching
    <3>4. c \in Matching(routes', a) /\ Prevails(routes', c, b)
      BY <2>1, <3>3, BestPrevails
    <3>5. CASE c \in DOMAIN routes
      BY <2>1, <3>2, <3>3, <3>5, SameBest
    <3>6. CASE c \notin DOMAIN routes
      <4>1. KeyOK(b) /\ KeyOK(c) /\ b[2] \in Nat /\ c[2] \in Nat
        BY <2>1, <2>3, <3>4 DEF TableOK, KeyOK, Matching
      <4>2. PrefixMatches(a, b[1], b[2]) /\ PrefixMatches(a, c[1], c[2])
        BY <3>3, <3>4 DEF Matching
      <4> HIDE DEF b, c
      <4>3. c[2] > b[2] \/ c[2] = b[2]
        BY <3>4, <4>1 DEF Prevails
      <4>4. CASE c[2] > b[2]
        BY <3>4, <3>6, <4>4 DEF TakenOver, b
      <4>5. CASE c[2] = b[2]
        <5>1. b # c
          BY <2>3, <3>6
        <5>2. c[2] = Len(a)
          BY <4>1, <4>2, <4>5, <5>1, SamePrefix
        <5> QED
          BY <3>4, <3>6, <5>2 DEF TakenOver
      <4> QED
        BY <4>3, <4>4, <4>5
    <3> QED
      BY <3>5, <3>6
  <2>6. ASSUME NEW l \in LinkIds, AddLink(l)
        PROVE  FALSE
    BY <2>6 DEF AddLink
  <2>7. QED
    BY <1>1, <2>4, <2>5, <2>6 DEF RouterNext
<1>2. IInv /\ IInv' /\ [RouterNext]_routerVars => [Kept]_routerVars
  BY <1>1
<1>3. QED
  BY <1>2, Invariance, PTL DEF RouterSpec, RoutesStay

-----------------------------------------------------------------------------
(* The network *)

NetTypeOK ==
  /\ ClientTypeOK
  /\ enqueuedMessages \in [Clients -> Seq(Packet)]
  /\ enqueued \in [Clients -> Seq(Packet)]
  /\ handed \in [Clients -> Seq(Packet)]
  /\ myGlobalAddress \in [Clients -> Addresses]
  /\ toServer \in [Sockets -> Seq(Packet)]
  /\ toClient \in [Sockets -> Seq(Packet)]

NetInv == IInv /\ pings \in 0 .. MaxPings /\ NetTypeOK /\ PacketsKeepOrder /\ PageShowsConnection

-----------------------------------------------------------------------------
(* The socket of a client is nobody else's. *)
LEMMA OwnSocket ==
  ASSUME ClientTypeOK, NEW s \in Sockets, NEW c \in Clients, connection[c] = s
  PROVE  c = Maker[s]
BY SocketAssumption DEF ClientTypeOK

LEMMA SocketFacts ==
  /\ None \notin Sockets /\ Sockets \subseteq LinkIds
  /\ \A s \in Sockets : Maker[s] \in Clients
BY SocketAssumption, RoutedAssumption

(* Packets that the router makes or forwards are packets. *)
LEMMA SentPackets ==
  ASSUME NEW packet \in Packet, NEW s
  PROVE  \A p \in Sent(packet, s) : p[2] \in Packet
<1>1. PongFor(packet) \in Packet
  BY DEF PongFor, Packet
<1>2. ASSUME NEW table, NEW q \in Packet, NEW from
      PROVE  \A p \in Routed(table, q, from) : p[2] \in Packet
  BY <1>2 DEF Routed
<1> QED
  BY <1>1, <1>2 DEF Sent, Answer

LEMMA AdvertisementIsPacket == Advertisement \in Packet
<1>1. 0 \in PingIds
  BY RoutedAssumption
<1> QED
  BY <1>1, RoutedAssumption DEF Advertisement, Packet

-----------------------------------------------------------------------------
(* What enqueuePacket and onOpen keep                                      *)

LEMMA EnqueueTypes ==
  ASSUME NetTypeOK, NEW c \in Clients, NEW packet \in Packet, EnqueuePacket(c, packet)
  PROVE  /\ enqueuedMessages' \in [Clients -> Seq(Packet)]
         /\ enqueued' \in [Clients -> Seq(Packet)]
         /\ handed' \in [Clients -> Seq(Packet)]
         /\ toServer' \in [Sockets -> Seq(Packet)]
<1> DEFINE s == connection[c]
<1>1. \A q \in Seq(Packet) : Append(q, packet) \in Seq(Packet)
  BY AppendProperties
<1>2. enqueued' \in [Clients -> Seq(Packet)]
  BY <1>1 DEF EnqueuePacket, NetTypeOK
<1>3. CASE s # None /\ readyState[s] = "open"
  <2>1. /\ enqueuedMessages' = enqueuedMessages
        /\ toServer' = [toServer EXCEPT ![s] = Append(@, packet)]
        /\ handed' = [handed EXCEPT ![c] = Append(@, packet)]
    BY <1>3 DEF EnqueuePacket
  <2>2. handed' \in [Clients -> Seq(Packet)]
    BY <1>1, <2>1 DEF NetTypeOK
  <2>3. toServer' \in [Sockets -> Seq(Packet)]
    BY <1>1, <2>1 DEF NetTypeOK
  <2> QED
    BY <1>2, <2>1, <2>2, <2>3 DEF NetTypeOK
<1>4. CASE ~ (s # None /\ readyState[s] = "open")
  <2>1. /\ enqueuedMessages' = [enqueuedMessages EXCEPT ![c] = Append(@, packet)]
        /\ UNCHANGED <<toServer, handed>>
    BY <1>4 DEF EnqueuePacket
  <2>2. enqueuedMessages' \in [Clients -> Seq(Packet)]
    BY <1>1, <2>1 DEF NetTypeOK
  <2> QED
    BY <1>2, <2>1, <2>2 DEF NetTypeOK
<1> QED
  BY <1>3, <1>4

LEMMA EnqueueKeepsOrder ==
  ASSUME NetTypeOK, PacketsKeepOrder, NEW c \in Clients, NEW packet \in Packet,
         EnqueuePacket(c, packet), UNCHANGED <<connection, readyState>>
  PROVE  PacketsKeepOrder'
<1> DEFINE s == connection[c]
           new == Append(enqueued[c], packet)
<1>0. \A d \in Clients : /\ enqueued[d] = handed[d] \o enqueuedMessages[d]
                         /\ handed[d] \in Seq(Packet) /\ enqueuedMessages[d] \in Seq(Packet)
                         /\ connection[d] # None /\ readyState[connection[d]] = "open" =>
                              enqueuedMessages[d] = <<>>
  BY DEF PacketsKeepOrder, HandedOnceInOrder, NothingWaitsWhenOpen, NetTypeOK
<1>1. \A d \in Clients : enqueued'[d] = IF d = c THEN new ELSE enqueued[d]
  BY DEF EnqueuePacket, NetTypeOK
<1>2. CASE s # None /\ readyState[s] = "open"
  <2>1. /\ \A d \in Clients : handed'[d] = IF d = c THEN Append(handed[c], packet)
                                           ELSE handed[d]
        /\ enqueuedMessages' = enqueuedMessages
    BY <1>2 DEF EnqueuePacket, NetTypeOK
  <2>2. enqueuedMessages[c] = <<>>
    BY <1>0, <1>2
  <2>3. handed[c] \o <<>> = handed[c]
        /\ Append(handed[c], packet) \o <<>> = Append(handed[c], packet)
    <3>1. Append(handed[c], packet) \in Seq(Packet)
      BY <1>0, AppendProperties
    <3> QED
      BY <1>0, <3>1, ConcatEmptySeq
  <2>4. \A d \in Clients : enqueued'[d] = handed'[d] \o enqueuedMessages'[d]
    BY <1>0, <1>1, <2>1, <2>2, <2>3
  <2> QED
    BY <1>0, <2>1, <2>4 DEF PacketsKeepOrder, HandedOnceInOrder, NothingWaitsWhenOpen
<1>3. CASE ~ (s # None /\ readyState[s] = "open")
  <2>1. /\ \A d \in Clients : enqueuedMessages'[d] =
                                IF d = c THEN Append(enqueuedMessages[c], packet)
                                ELSE enqueuedMessages[d]
        /\ handed' = handed
    BY <1>3 DEF EnqueuePacket, NetTypeOK
  <2>2. new = handed[c] \o Append(enqueuedMessages[c], packet)
    <3> DEFINE h == handed[c]
               m == enqueuedMessages[c]
    <3>0. packet \in Packet
      BY <1>0
    <3>6. <<packet>> \in Seq(Packet)
      BY <3>0
    <3>7. h \in Seq(Packet) /\ m \in Seq(Packet) /\ enqueued[c] = h \o m
      BY <1>0
    <3>1. /\ h \in Seq(Packet) /\ m \in Seq(Packet) /\ <<packet>> \in Seq(Packet)
          /\ enqueued[c] = h \o m
      BY <3>6, <3>7
    <3> HIDE DEF h, m
    <3>5. h \o m \in Seq(Packet)
      BY <3>1, ConcatProperties
    <3>2. Append(h \o m, packet) = (h \o m) \o <<packet>>
      BY <3>5, AppendIsConcat
    <3>3. (h \o m) \o <<packet>> = h \o (m \o <<packet>>)
      BY <3>1, ConcatAssociative
    <3>4. m \o <<packet>> = Append(m, packet)
      BY <3>1, AppendIsConcat
    <3> QED
      BY <3>1, <3>2, <3>3, <3>4 DEF h, m
  <2>3. \A d \in Clients : enqueued'[d] = handed'[d] \o enqueuedMessages'[d]
    BY <1>0, <1>1, <2>1, <2>2
  <2> QED
    BY <1>0, <1>3, <2>1, <2>3 DEF PacketsKeepOrder, HandedOnceInOrder, NothingWaitsWhenOpen
<1> QED
  BY <1>2, <1>3

LEMMA OpenKeeps ==
  ASSUME NetTypeOK, PacketsKeepOrder, PageShowsConnection, NEW s \in Sockets, OpenEvent(s)
  PROVE  NetTypeOK' /\ PacketsKeepOrder' /\ PageShowsConnection'
<1> DEFINE c == Maker[s]
           k == connection[c]
           states == [readyState EXCEPT ![s] = "open"]
<1>0. /\ c \in Clients /\ None \notin Sockets
      /\ \A d \in Clients : /\ enqueued[d] = handed[d] \o enqueuedMessages[d]
                            /\ handed[d] \in Seq(Packet) /\ enqueuedMessages[d] \in Seq(Packet)
                            /\ connection[d] # None /\ readyState[connection[d]] = "open" =>
                                 enqueuedMessages[d] = <<>>
                            /\ connection[d] # None => connection[d] \in Sockets
                            /\ pageConnected[d] \in BOOLEAN
                            /\ pageConnected[d] => connection[d] # None
  BY SocketFacts
  DEF PacketsKeepOrder, HandedOnceInOrder, NothingWaitsWhenOpen, NetTypeOK, ClientTypeOK,
      PageShowsConnection
<1>1. /\ readyState[s] = "connecting" /\ readyState' = states
      /\ UNCHANGED <<connection, myGlobalAddress, toClient, enqueued>>
      /\ OnOpen(c, states)
  BY DEF OpenEvent
<1>2. \A z \in Sockets : states[z] = IF z = s THEN "open" ELSE readyState[z]
  BY DEF NetTypeOK, ClientTypeOK
<1>3. ClientTypeOK' <=> pageConnected' \in [Clients -> BOOLEAN]
  <2>1. readyState' \in [Sockets -> {"unused", "connecting", "open", "closing", "closed"}]
    BY <1>1 DEF NetTypeOK, ClientTypeOK
  <2>2. \A d \in Clients :
          connection'[d] # None =>
            /\ Maker[connection'[d]] = d
            /\ readyState'[connection'[d]] \in {"connecting", "open", "closing"}
    BY <1>0, <1>1, <1>2 DEF NetTypeOK, ClientTypeOK
  <2> QED
    BY <1>1, <2>1, <2>2 DEF NetTypeOK, ClientTypeOK
<1>4. CASE k # None /\ (states[k] = "connecting" => enqueuedMessages[c] = <<>>)
  <2>1. Flush(c, states)
    BY <1>1, <1>4 DEF OnOpen
  <2>2. /\ \A d \in Clients : enqueuedMessages'[d] = IF d = c THEN <<>> ELSE enqueuedMessages[d]
        /\ \A d \in Clients : handed'[d] = IF d = c THEN handed[c] \o enqueuedMessages[c]
                                           ELSE handed[d]
        /\ pageConnected' = [pageConnected EXCEPT ![c] = TRUE]
    BY <2>1 DEF Flush, NetTypeOK
  <2>3. /\ enqueuedMessages' \in [Clients -> Seq(Packet)]
        /\ handed' \in [Clients -> Seq(Packet)]
        /\ toServer' \in [Sockets -> Seq(Packet)]
        /\ pageConnected' \in [Clients -> BOOLEAN]
    <3>1. \A q, r \in Seq(Packet) : q \o r \in Seq(Packet)
      BY ConcatProperties
    <3>2. <<>> \in Seq(Packet)
      OBVIOUS
    <3>3. toServer' \in [Sockets -> Seq(Packet)]
      BY <1>0, <2>1, <3>1 DEF Flush, NetTypeOK
    <3>4. enqueuedMessages' \in [Clients -> Seq(Packet)]
      BY <2>1, <3>2 DEF Flush, NetTypeOK
    <3>5. handed' \in [Clients -> Seq(Packet)]
      BY <1>0, <2>1, <3>1 DEF Flush, NetTypeOK
    <3> QED
      BY <2>2, <3>3, <3>4, <3>5 DEF NetTypeOK, ClientTypeOK
  <2>4. \A d \in Clients : enqueued'[d] = handed'[d] \o enqueuedMessages'[d]
    <3>1. \A q \in Seq(Packet) : q \o <<>> = q
      BY ConcatEmptySeq
    <3>2. handed[c] \o enqueuedMessages[c] \in Seq(Packet)
      BY <1>0, ConcatProperties
    <3> QED
      BY <1>0, <1>1, <2>2, <3>1, <3>2, ZenonT(40)
  <2>5. PacketsKeepOrder'
    <3>1. ASSUME NEW d \in Clients, connection'[d] # None,
                 readyState'[connection'[d]] = "open"
          PROVE  enqueuedMessages'[d] = <<>>
      <4>1. CASE d = c
        BY <2>2, <4>1
      <4>2. CASE d # c
        <5>1. connection[d] # s
          BY <4>2, OwnSocket DEF NetTypeOK
        <5>2. connection[d] \in Sockets /\ readyState[connection[d]] = "open"
          BY <1>0, <1>1, <1>2, <3>1, <5>1
        <5> QED
          BY <1>0, <2>2, <4>2, <5>2, ZenonT(40)
      <4> QED
        BY <4>1, <4>2
    <3> QED
      BY <2>4, <3>1 DEF PacketsKeepOrder, HandedOnceInOrder, NothingWaitsWhenOpen
  <2>6. NetTypeOK'
    BY <1>1, <1>3, <2>3 DEF NetTypeOK
  <2>7. \A d \in Clients : pageConnected'[d] => connection'[d] # None
    BY <1>0, <1>1, <1>4, <2>2 DEF NetTypeOK, ClientTypeOK
  <2> QED
    BY <2>5, <2>6, <2>7 DEF PageShowsConnection, NetTypeOK
<1>5. CASE ~ (k # None /\ (states[k] = "connecting" => enqueuedMessages[c] = <<>>))
  <2>1. UNCHANGED <<toServer, enqueuedMessages, handed, pageConnected>>
    BY <1>1, <1>5 DEF OnOpen
  <2>2. NetTypeOK'
    BY <1>1, <1>3, <2>1 DEF NetTypeOK, ClientTypeOK
  <2>3. ASSUME NEW d \in Clients, connection'[d] # None,
               readyState'[connection'[d]] = "open"
        PROVE  enqueuedMessages'[d] = <<>>
    <3>1. CASE connection[d] = s
      <4>1. d = c
        BY <3>1, OwnSocket DEF NetTypeOK
      <4>2. k = s /\ states[k] = "open"
        BY <1>2, <3>1, <4>1
      <4> QED
        BY <1>0, <1>5, <4>2
    <3>2. CASE connection[d] # s
      BY <1>0, <1>1, <1>2, <2>1, <2>3, <3>2
    <3> QED
      BY <3>1, <3>2
  <2>4. PacketsKeepOrder'
    BY <1>0, <1>1, <2>1, <2>3 DEF PacketsKeepOrder, HandedOnceInOrder, NothingWaitsWhenOpen
  <2> QED
    BY <1>1, <2>1, <2>2, <2>4 DEF PageShowsConnection, NetTypeOK
<1> QED
  BY <1>4, <1>5

-----------------------------------------------------------------------------
(* The other steps                                                         *)

(* A socket closes: its client forgets its connection, and the page is     *)
(* told; states and addressee as in CloseEvent and Disconnect.             *)
LEMMA CloseKeeps ==
  ASSUME NetTypeOK, PacketsKeepOrder, PageShowsConnection,
         NEW s \in Sockets, NEW c \in Clients, c = Maker[s],
         NEW after \in {"closing", "closed"},
         readyState' = [readyState EXCEPT ![s] = after],
         after = "closed" \/ connection[c] = s,
         toClient' = [toClient EXCEPT ![s] = <<>>],
         toServer' \in {toServer, [toServer EXCEPT ![s] = <<>>]},
         OnClose(c),
         UNCHANGED <<enqueuedMessages, myGlobalAddress, clientHistory>>
  PROVE  NetTypeOK' /\ PacketsKeepOrder' /\ PageShowsConnection'
<1> USE DEF clientHistory
<1>1. /\ \A d \in Clients : connection'[d] = IF d = c THEN None ELSE connection[d]
      /\ \A d \in Clients : pageConnected'[d] = IF d = c THEN FALSE ELSE pageConnected[d]
      /\ connection' \in [Clients -> Sockets \cup {None}]
      /\ pageConnected' \in [Clients -> BOOLEAN]
  BY DEF OnClose, NetTypeOK, ClientTypeOK
<1>2. \A z \in Sockets : z # s => readyState'[z] = readyState[z]
  BY DEF NetTypeOK, ClientTypeOK
<1>3. \A d \in Clients : connection'[d] # None =>
        /\ d # c /\ connection'[d] = connection[d]
        /\ connection[d] \in Sockets /\ connection[d] # s /\ Maker[connection[d]] = d
        /\ readyState'[connection'[d]] = readyState[connection[d]]
  BY <1>1, <1>2 DEF NetTypeOK, ClientTypeOK
<1>4. readyState' \in [Sockets -> {"unused", "connecting", "open", "closing", "closed"}]
  BY DEF NetTypeOK, ClientTypeOK
<1>5. ClientTypeOK'
  BY <1>1, <1>3, <1>4 DEF NetTypeOK, ClientTypeOK
<1>6. toClient' \in [Sockets -> Seq(Packet)] /\ toServer' \in [Sockets -> Seq(Packet)]
  <2>1. <<>> \in Seq(Packet)
    OBVIOUS
  <2>2. [toServer EXCEPT ![s] = <<>>] \in [Sockets -> Seq(Packet)]
        /\ [toClient EXCEPT ![s] = <<>>] \in [Sockets -> Seq(Packet)]
    BY <2>1 DEF NetTypeOK
  <2> QED
    BY <2>2 DEF NetTypeOK
<1>7. NetTypeOK'
  BY <1>5, <1>6 DEF NetTypeOK
<1>8. PacketsKeepOrder'
  BY <1>3, ZenonT(40) DEF PacketsKeepOrder, HandedOnceInOrder, NothingWaitsWhenOpen
<1>9. \A d \in Clients : pageConnected'[d] => connection'[d] # None
  BY <1>1 DEF PageShowsConnection
<1> QED
  BY <1>5, <1>7, <1>8, <1>9 DEF PageShowsConnection

LEMMA ConnectKeeps ==
  ASSUME NetTypeOK, PacketsKeepOrder, PageShowsConnection,
         NEW c \in Clients, NEW s \in Sockets, Connect(c, s)
  PROVE  NetTypeOK' /\ PacketsKeepOrder' /\ PageShowsConnection'
<1> USE DEF clientHistory
<1>1. /\ connection[c] = None /\ Maker[s] = c /\ readyState[s] = "unused"
      /\ \A d \in Clients : connection'[d] = IF d = c THEN s ELSE connection[d]
      /\ connection' \in [Clients -> Sockets \cup {None}]
      /\ \A z \in Sockets : readyState'[z] = IF z = s THEN "connecting" ELSE readyState[z]
      /\ readyState' \in [Sockets -> {"unused", "connecting", "open", "closing", "closed"}]
      /\ UNCHANGED <<enqueuedMessages, myGlobalAddress, pageConnected, toServer, toClient,
                     enqueued, handed>>
  BY DEF Connect, NetTypeOK, ClientTypeOK
<1>2. \A d \in Clients \ {c} : connection[d] # None =>
        connection[d] \in Sockets /\ connection[d] # s
  BY <1>1 DEF NetTypeOK, ClientTypeOK
<1>3. ClientTypeOK'
  BY <1>1, <1>2 DEF NetTypeOK, ClientTypeOK
<1>4. PacketsKeepOrder'
  BY <1>1, <1>2, SocketFacts, ZenonT(40) DEF PacketsKeepOrder, HandedOnceInOrder, NothingWaitsWhenOpen
<1>5. \A d \in Clients : pageConnected'[d] => connection'[d] # None
  BY <1>1, SocketFacts DEF PageShowsConnection
<1>6. NetTypeOK'
  BY <1>1, <1>3 DEF NetTypeOK
<1> QED
  BY <1>3, <1>4, <1>5, <1>6 DEF PageShowsConnection

(* What the client does not see changes nothing for it. *)
LEMMA OthersKeep ==
  ASSUME NetTypeOK, PacketsKeepOrder, PageShowsConnection,
         UNCHANGED <<connection, enqueuedMessages, myGlobalAddress, pageConnected,
                     enqueued, handed>>,
         \/ readyState' = readyState
         \/ \E s \in Sockets : /\ readyState[s] = "open"
                               /\ readyState' = [readyState EXCEPT ![s] = "closing"],
         toServer' \in [Sockets -> Seq(Packet)],
         toClient' \in [Sockets -> Seq(Packet)]
  PROVE  NetTypeOK' /\ PacketsKeepOrder' /\ PageShowsConnection'
<1>1. readyState' \in [Sockets -> {"unused", "connecting", "open", "closing", "closed"}]
  BY DEF NetTypeOK, ClientTypeOK
<1>2. \A z \in Sockets : /\ readyState'[z] = "open" => readyState[z] = "open"
                         /\ readyState'[z] # readyState[z] => readyState'[z] = "closing"
  BY DEF NetTypeOK, ClientTypeOK
<1>3. \A d \in Clients : connection[d] # None => connection[d] \in Sockets
  BY DEF NetTypeOK, ClientTypeOK
<1>4. \A d \in Clients :
        connection[d] # None =>
          /\ Maker[connection[d]] = d
          /\ readyState'[connection[d]] \in {"connecting", "open", "closing"}
  BY <1>2, <1>3 DEF NetTypeOK, ClientTypeOK
<1>5. ClientTypeOK'
  BY <1>1, <1>4 DEF NetTypeOK, ClientTypeOK
<1>6. PacketsKeepOrder'
  BY <1>2, <1>3 DEF PacketsKeepOrder, HandedOnceInOrder, NothingWaitsWhenOpen
<1> QED
  BY <1>5, <1>6 DEF NetTypeOK, PageShowsConnection

LEMMA ReceiveKeeps ==
  ASSUME NetTypeOK, PacketsKeepOrder, PageShowsConnection, NEW s \in Sockets, Receive(s)
  PROVE  NetTypeOK' /\ PacketsKeepOrder' /\ PageShowsConnection'
<1> USE DEF clientHistory
<1> DEFINE c == Maker[s]
           packet == Head(toClient[s])
           pong == [src |-> packet.dst, dst |-> packet.src, kind |-> "pong", n |-> packet.n]
<1>1. /\ c \in Clients /\ packet \in Packet /\ Tail(toClient[s]) \in Seq(Packet)
  <2>1. toClient[s] \in Seq(Packet) /\ toClient[s] # <<>>
    BY DEF Receive, NetTypeOK
  <2> QED
    BY <2>1, SocketFacts, HeadTailProperties
<1>2. pong \in Packet
  BY <1>1 DEF Packet
<1>3. UNCHANGED <<connection, pageConnected, readyState>>
  BY DEF Receive
<1>4. toClient' \in [Sockets -> Seq(Packet)]
  BY <1>1 DEF Receive, NetTypeOK
<1>5. myGlobalAddress' \in [Clients -> Addresses]
  <2>1. NewAddress(s) \in Addresses
    BY RoutedAssumption
  <2> QED
    BY <1>1, <2>1 DEF Receive, NetTypeOK
<1>6. EnqueuePacket(c, pong) \/ UNCHANGED <<enqueuedMessages, toServer, enqueued, handed>>
  BY DEF Receive
<1> HIDE DEF c, packet, pong
<1>7. CASE EnqueuePacket(c, pong)
  <2>1. PacketsKeepOrder'
    BY <1>1, <1>2, <1>3, <1>7, EnqueueKeepsOrder
  <2>2. /\ enqueuedMessages' \in [Clients -> Seq(Packet)]
        /\ enqueued' \in [Clients -> Seq(Packet)]
        /\ handed' \in [Clients -> Seq(Packet)]
        /\ toServer' \in [Sockets -> Seq(Packet)]
    BY <1>1, <1>2, <1>7, EnqueueTypes
  <2>3. ClientTypeOK'
    BY <1>3 DEF NetTypeOK, ClientTypeOK
  <2> QED
    BY <1>3, <1>4, <1>5, <2>1, <2>2, <2>3 DEF NetTypeOK, PageShowsConnection
<1>8. CASE UNCHANGED <<enqueuedMessages, toServer, enqueued, handed>>
  <2>1. ClientTypeOK'
    BY <1>3 DEF NetTypeOK, ClientTypeOK
  <2>2. PacketsKeepOrder'
    BY <1>3, <1>8 DEF PacketsKeepOrder, HandedOnceInOrder, NothingWaitsWhenOpen
  <2> QED
    BY <1>3, <1>4, <1>5, <1>8, <2>1, <2>2 DEF NetTypeOK, PageShowsConnection
<1> QED
  BY <1>6, <1>7, <1>8

LEMMA NetInit == Init => NetInv /\ RouterInit
<1> SUFFICES ASSUME Init
             PROVE  NetInv /\ RouterInit
  OBVIOUS
<1>1. IInv /\ RouterInit
  BY InvInit DEF Init
<1>2. pings \in 0 .. MaxPings
  BY RoutedAssumption DEF Init
<1>3. ClientTypeOK
  BY DEF Init, ClientInit, ClientTypeOK
<1>4. <<>> \in Seq(Packet) /\ <<>> \o <<>> = <<>>
  BY ConcatEmptySeq
<1>5. NetTypeOK
  BY <1>3, <1>4, RoutedAssumption DEF Init, ClientInit, NetTypeOK
<1>6. PacketsKeepOrder
  BY <1>4 DEF Init, ClientInit, PacketsKeepOrder, HandedOnceInOrder, NothingWaitsWhenOpen
<1>7. PageShowsConnection
  BY <1>3 DEF Init, ClientInit, PageShowsConnection
<1> QED
  BY <1>1, <1>2, <1>5, <1>6, <1>7 DEF NetInv

LEMMA NetStep == NetInv /\ [Next]_vars => NetInv' /\ [RouterNext]_routerVars
<1> SUFFICES ASSUME NetInv, [Next]_vars
             PROVE  NetInv' /\ [RouterNext]_routerVars
  OBVIOUS
<1> DEFINE NetOK == NetTypeOK /\ PacketsKeepOrder /\ PageShowsConnection
<1>0. IInv /\ pings \in 0 .. MaxPings /\ NetTypeOK /\ PacketsKeepOrder /\ PageShowsConnection
  BY DEF NetInv
<1>1. [RouterNext]_routerVars => IInv'
  BY <1>0, InvStep
<1>2. ASSUME NetTypeOK', PacketsKeepOrder', PageShowsConnection',
             [RouterNext]_routerVars, pings' = pings
      PROVE  NetInv' /\ [RouterNext]_routerVars
  BY <1>0, <1>1, <1>2 DEF NetInv
<1>3. ASSUME NEW s \in Sockets, Accept(s)
      PROVE  NetInv' /\ [RouterNext]_routerVars
  <2>1. RouterNext
    BY <1>3, SocketFacts DEF Accept, RouterNext
  <2>2. toClient' \in [Sockets -> Seq(Packet)] /\ toServer' \in [Sockets -> Seq(Packet)]
    <3>1. \A q \in Seq(Packet) : Append(q, Advertisement) \in Seq(Packet)
      BY AdvertisementIsPacket, AppendProperties
    <3> QED
      BY <1>0, <1>3, <3>1 DEF Accept, NetTypeOK
  <2>3. UNCHANGED <<connection, enqueuedMessages, myGlobalAddress, pageConnected,
                    enqueued, handed, readyState, pings>>
    BY <1>3 DEF Accept, clientVars, clientHistory
  <2> QED
    BY <1>0, <1>2, <2>1, <2>2, <2>3, OthersKeep
<1>4. ASSUME NEW s \in Sockets, RouterReceives(s)
      PROVE  NetInv' /\ [RouterNext]_routerVars
  <2> DEFINE packet == Head(toServer[s])
  <2>1. packet \in Packet /\ Tail(toServer[s]) \in Seq(Packet)
    <3>1. toServer[s] \in Seq(Packet) /\ toServer[s] # <<>>
      BY <1>0, <1>4 DEF RouterReceives, NetTypeOK
    <3> QED
      BY <3>1, HeadTailProperties
  <2>2. HandlePacket(packet, s)
    BY <1>4 DEF RouterReceives
  <2>3. RouterNext
    BY <2>1, <2>2, SocketFacts DEF RouterNext
  <2>4. toServer' \in [Sockets -> Seq(Packet)]
    BY <1>0, <1>4, <2>1 DEF RouterReceives, NetTypeOK
  <2>5. toClient' \in [Sockets -> Seq(Packet)]
    <3> DEFINE sent == Sent(packet, s)
               for(z) == (CHOOSE p \in sent : p[1] = z)[2]
    <3>1. \A p \in sent : p[2] \in Packet
      BY <2>1, SentPackets
    <3>2. toClient' = [z \in Sockets |->
                         IF readyState[z] \in {"connecting", "open"} /\ \E p \in sent : p[1] = z
                         THEN Append(toClient[z], for(z)) ELSE toClient[z]]
      BY <1>4 DEF RouterReceives, Delivered
    <3> HIDE DEF sent
    <3>3. ASSUME NEW z \in Sockets, \E p \in sent : p[1] = z
          PROVE  for(z) \in Packet
      BY <3>1, <3>3
    <3> HIDE DEF for
    <3>4. ASSUME NEW z \in Sockets, \E p \in sent : p[1] = z
          PROVE  Append(toClient[z], for(z)) \in Seq(Packet)
      <4>1. toClient[z] \in Seq(Packet) /\ for(z) \in Packet
        BY <1>0, <3>3, <3>4 DEF NetTypeOK
      <4> QED
        BY <4>1, AppendProperties
    <3>5. \A z \in Sockets : toClient[z] \in Seq(Packet)
      BY <1>0 DEF NetTypeOK
    <3> QED
      BY <3>2, <3>4, <3>5
  <2>6. UNCHANGED <<connection, enqueuedMessages, myGlobalAddress, pageConnected,
                    enqueued, handed, readyState, pings>>
    BY <1>4 DEF RouterReceives, clientVars, clientHistory
  <2> QED
    BY <1>0, <1>2, <2>3, <2>4, <2>5, <2>6, OthersKeep
<1>5. ASSUME NEW s \in Sockets, ClientReceives(s)
      PROVE  NetInv' /\ [RouterNext]_routerVars
  <2>1. Receive(s) /\ UNCHANGED routerVars /\ pings' = pings
    BY <1>5 DEF ClientReceives
  <2> QED
    BY <1>0, <1>2, <2>1, ReceiveKeeps
<1>6. ASSUME NEW s \in Sockets, SocketEvent(s)
      PROVE  NetInv' /\ [RouterNext]_routerVars
  <2>1. UNCHANGED routerVars /\ pings' = pings
    BY <1>6 DEF SocketEvent
  <2>2. CASE OpenEvent(s)
    BY <1>0, <1>2, <2>1, <2>2, OpenKeeps
  <2>3. CASE CloseEvent(s)
    BY <1>0, <1>2, <2>1, <2>3, CloseKeeps, SocketFacts DEF CloseEvent
  <2>4. CASE ServerCloses(s)
    <3>1. UNCHANGED <<connection, enqueuedMessages, myGlobalAddress, pageConnected,
                      enqueued, handed, toServer>>
      BY <2>4 DEF ServerCloses, clientVars, clientHistory
    <3>2. toClient' \in [Sockets -> Seq(Packet)] /\ toServer' \in [Sockets -> Seq(Packet)]
      <4>1. <<>> \in Seq(Packet)
        OBVIOUS
      <4> QED
        BY <1>0, <2>4, <3>1, <4>1 DEF ServerCloses, NetTypeOK
    <3>3. readyState[s] = "open" /\ readyState' = [readyState EXCEPT ![s] = "closing"]
      BY <2>4 DEF ServerCloses
    <3> QED
      BY <1>0, <1>2, <2>1, <3>1, <3>2, <3>3, OthersKeep
  <2> QED
    BY <1>6, <2>2, <2>3, <2>4 DEF SocketEvent
<1>7. ASSUME NEW c \in Clients, NEW peer \in Peers, ClientPings(c, peer)
      PROVE  NetInv' /\ [RouterNext]_routerVars
  <2> DEFINE packet == [src |-> myGlobalAddress[c], dst |-> peer, kind |-> "ping",
                        n |-> pings + 1]
  <2>1. pings < MaxPings /\ pings' = pings + 1 /\ UNCHANGED routerVars
        /\ EnqueuePacket(c, packet)
        /\ UNCHANGED <<connection, myGlobalAddress, pageConnected, readyState, toClient>>
    BY <1>7 DEF ClientPings, Ping
  <2>2. peer \in Addresses
    BY <1>0, RoutedAssumption DEF Peers, NetTypeOK
  <2>3. pings' \in 0 .. MaxPings /\ pings + 1 \in PingIds
    BY <1>0, <2>1, RoutedAssumption
  <2>4. packet \in Packet
    BY <1>0, <2>2, <2>3 DEF Packet, NetTypeOK
  <2> HIDE DEF packet
  <2>5. PacketsKeepOrder'
    BY <1>0, <2>1, <2>4, EnqueueKeepsOrder
  <2>6. /\ enqueuedMessages' \in [Clients -> Seq(Packet)]
        /\ enqueued' \in [Clients -> Seq(Packet)]
        /\ handed' \in [Clients -> Seq(Packet)]
        /\ toServer' \in [Sockets -> Seq(Packet)]
    BY <1>0, <2>1, <2>4, EnqueueTypes
  <2>7. ClientTypeOK'
    BY <1>0, <2>1 DEF NetTypeOK, ClientTypeOK
  <2>8. NetTypeOK' /\ PageShowsConnection'
    BY <1>0, <2>1, <2>6, <2>7 DEF NetTypeOK, PageShowsConnection
  <2> QED
    BY <1>0, <1>1, <2>1, <2>3, <2>5, <2>8 DEF NetInv
<1>8. ASSUME NEW l \in links, Removed(l)
      PROVE  NetInv' /\ [RouterNext]_routerVars
  <2>1. RemoveLink(l) /\ l \in LinkIds
    BY <1>0, <1>8 DEF Removed, IInv, RouterTypeOK
  <2>2. RouterNext
    BY <2>1 DEF RouterNext
  <2>3. UNCHANGED <<connection, enqueuedMessages, myGlobalAddress, pageConnected,
                    enqueued, handed, readyState, toServer, toClient, pings>>
    BY <1>8 DEF Removed, clientVars, clientHistory
  <2>4. toClient' \in [Sockets -> Seq(Packet)] /\ toServer' \in [Sockets -> Seq(Packet)]
    BY <1>0, <2>3 DEF NetTypeOK
  <2> QED
    BY <1>0, <1>2, <2>2, <2>3, <2>4, OthersKeep
<1>9. ASSUME NEW c \in Clients, UserActs(c)
      PROVE  NetInv' /\ [RouterNext]_routerVars
  <2>1. UNCHANGED routerVars /\ pings' = pings
    BY <1>9 DEF UserActs
  <2>2. CASE Disconnect(c)
    <3> DEFINE s == connection[c]
    <3>1. s \in Sockets /\ c = Maker[s]
      BY <1>0, <2>2 DEF Disconnect, NetTypeOK, ClientTypeOK
    <3>2. /\ readyState' = [readyState EXCEPT ![s] = "closing"]
          /\ toClient' = [toClient EXCEPT ![s] = <<>>]
          /\ OnClose(c) /\ toServer' = toServer
          /\ UNCHANGED <<enqueuedMessages, myGlobalAddress, clientHistory>>
      BY <2>2 DEF Disconnect
    <3>3. connection[c] = s
      OBVIOUS
    <3> HIDE DEF s
    <3> QED
      BY <1>0, <1>2, <2>1, <3>1, <3>2, <3>3, CloseKeeps
  <2>3. ASSUME NEW s \in Sockets, Connect(c, s)
        PROVE  NetInv' /\ [RouterNext]_routerVars
    BY <1>0, <1>2, <2>1, <2>3, ConnectKeeps
  <2> QED
    BY <1>9, <2>2, <2>3 DEF UserActs
<1>10. CASE UNCHANGED vars
  <2>1. UNCHANGED <<routerVars, connection, enqueuedMessages, myGlobalAddress, pageConnected,
                    enqueued, handed, readyState, toServer, toClient, pings>>
    BY <1>10 DEF vars, clientVars, clientHistory
  <2>2. toClient' \in [Sockets -> Seq(Packet)] /\ toServer' \in [Sockets -> Seq(Packet)]
    BY <1>0, <2>1 DEF NetTypeOK
  <2> QED
    BY <1>0, <1>2, <2>1, <2>2, OthersKeep
<1> QED
  BY <1>3, <1>4, <1>5, <1>6, <1>7, <1>8, <1>9, <1>10 DEF Next

LEMMA NetInvariance == Spec => []NetInv
  BY NetInit, NetStep, PTL DEF Spec

-----------------------------------------------------------------------------
(* The network, seen by its router, is one that Router describes: clients  *)
(* never send what is not a packet, or through what is not a link.         *)
THEOREM ImplementsRouter == Spec => RouterSpec
<1>1. NetInv /\ [Next]_vars => [RouterNext]_routerVars
  BY NetStep
<1> QED
  BY <1>1, NetInit, NetInvariance, PTL DEF Spec, RouterSpec

(* So, whatever the clients do, routes lead to links that are there. *)
THEOREM RoutesLeadOn == Spec => []RoutesLeadToLinks
  BY ImplementsRouter, NoStrayRoutes, PTL

(* Over any number of connections, broken or replaced at any moment, the   *)
(* packets of a client are passed on once and in order.                    *)
THEOREM OrderKept == Spec => []PacketsKeepOrder
<1>1. NetInv => PacketsKeepOrder
  BY DEF NetInv
<1> QED
  BY <1>1, NetInvariance, PTL

(* A page that shows a connection has one, to a socket that lives. *)
THEOREM PageIsRight == Spec => []PageShowsConnection
<1>1. NetInv => PageShowsConnection
  BY DEF NetInv
<1> QED
  BY <1>1, NetInvariance, PTL

-----------------------------------------------------------------------------
(* Whose packets the router passes on *)

OwnAddresses(c) == {NewAddress(t) : t \in {t \in Sockets : Maker[t] = c}}

KnownAddresses == {RouterAddress, AllNodes, Unspecified} \cup {NewAddress(t) : t \in Sockets}

(* What a client sends: nobody pings all nodes. *)
PacketsOf(c) ==
  {p \in Packet : /\ p.src \in {Unspecified} \cup OwnAddresses(c)
                  /\ p.dst \in KnownAddresses
                  /\ p.kind = "ping" => p.dst # AllNodes}

(* What a client gets *)
PacketsFor(c) ==
  {p \in Packet : /\ p.src \in KnownAddresses
                  /\ p.dst \in {AllNodes} \cup OwnAddresses(c)
                  /\ p.kind = "ping" => p.dst # AllNodes}

(* A route to a socket is what the router made of an address of its client.*)
RouteIsOwn(k, s) ==
  \E t \in Sockets, r \in AutoRoutePrefixes :
    /\ Maker[t] = Maker[s]
    /\ PrefixMatches(NewAddress(t), r.address, r.triggerPrefixLength)
    /\ k = RouteKey(NewAddress(t), r.routePrefixLength)

RoutesAreOwn(table) ==
  \A k \in DOMAIN table : table[k].dest \in Sockets => RouteIsOwn(k, table[k].dest)

OwnInv ==
  /\ \A c \in Clients : myGlobalAddress[c] \in {Unspecified} \cup OwnAddresses(c)
  /\ \A c \in Clients : enqueuedMessages[c] \in Seq(PacketsOf(c))
  /\ \A s \in Sockets : toServer[s] \in Seq(PacketsOf(Maker[s]))
  /\ \A s \in Sockets : toClient[s] \in Seq(PacketsFor(Maker[s]))
  /\ RoutesAreOwn(routes)

LEMMA AddressFacts ==
  /\ Unspecified \in Addresses /\ AllNodes \in Addresses /\ RouterAddress \in Addresses
  /\ \A s \in Sockets : NewAddress(s) \in Addresses
  BY RoutedAssumption

(* A route to the socket of a client matches none but its addresses, and   *)
(* at most the address of all nodes.                                       *)
LEMMA OwnRouteMatches ==
  ASSUME NEW s \in Sockets, NEW k, RouteIsOwn(k, s), NEW a \in KnownAddresses,
         PrefixMatches(a, k[1], k[2])
  PROVE  a \in {AllNodes} \cup OwnAddresses(Maker[s])
<1>1. PICK t \in Sockets, r \in AutoRoutePrefixes :
        /\ Maker[t] = Maker[s]
        /\ PrefixMatches(NewAddress(t), r.address, r.triggerPrefixLength)
        /\ k = RouteKey(NewAddress(t), r.routePrefixLength)
  BY DEF RouteIsOwn
<1> DEFINE bits == r.routePrefixLength
           Shared(b) == PrefixMatches(b, ClearNonPrefixBits(NewAddress(t), bits), bits)
<1>2. Shared(a)
  BY <1>1 DEF RouteKey
<1>3. /\ ~ Shared(RouterAddress) /\ ~ Shared(Unspecified)
      /\ \A u \in Sockets : Shared(NewAddress(u)) => Maker[u] = Maker[t]
  BY <1>1, AddressAssumption
<1> HIDE DEF Shared
<1>4. QED
  BY <1>1, <1>2, <1>3 DEF KnownAddresses, OwnAddresses

(* What is routed to a socket is meant for its client. *)
LEMMA RoutedToOwner ==
  ASSUME NEW table, TableOK(table), RoutesAreOwn(table), NEW packet \in Packet, NEW from,
         packet.src \in KnownAddresses, packet.dst \in KnownAddresses,
         packet.kind = "ping" => packet.dst # AllNodes,
         NEW q \in Routed(table, packet, from), q[1] \in Sockets
  PROVE  q[2] \in PacketsFor(Maker[q[1]])
<1> DEFINE dest == FindDestination(table, packet.dst)
<1>1. q = <<dest, packet>> /\ dest # Nowhere
  BY DEF Routed
<1>2. packet.dst \in Addresses
  BY DEF Packet
<1>3. PICK k \in DOMAIN table : k \in Matching(table, packet.dst) /\ dest = table[k].dest
  BY <1>1, <1>2, FoundMatches
<1> HIDE DEF dest
<1>4. RouteIsOwn(k, dest) /\ dest \in Sockets
  BY <1>1, <1>3 DEF RoutesAreOwn
<1>5. packet.dst \in {AllNodes} \cup OwnAddresses(Maker[dest])
  BY <1>3, <1>4, OwnRouteMatches DEF Matching
<1>6. QED
  BY <1>1, <1>5 DEF PacketsFor

(* What a client sends goes from and to addresses that are known. *)
LEMMA SentByClient ==
  ASSUME NEW c, NEW packet \in PacketsOf(c)
  PROVE  /\ packet \in Packet /\ packet.src \in KnownAddresses /\ packet.dst \in KnownAddresses
         /\ packet.kind = "ping" => packet.dst # AllNodes
         /\ packet.src = Unspecified \/ packet.src \in OwnAddresses(c)
  BY DEF PacketsOf, KnownAddresses, OwnAddresses

(* What the router learns from a client's packet are routes to addresses   *)
(* of that client.                                                         *)
LEMMA LearnedIsOwn ==
  ASSUME NEW table, RoutesAreOwn(table), NEW s \in Sockets, NEW packet \in PacketsOf(Maker[s])
  PROVE  RoutesAreOwn(Learned(table, packet.src, s))
<1> DEFINE new == Learned(table, packet.src, s)
<1>1. \A k \in DOMAIN new :
        \/ k \in DOMAIN table /\ new[k] = table[k]
        \/ k \in Triggered(packet.src) /\ new[k].dest = s
  BY LearnedRoutes
<1>2. ASSUME NEW k \in Triggered(packet.src)
      PROVE  RouteIsOwn(k, s)
  <2>1. PICK r \in AutoRoutePrefixes :
          /\ PrefixMatches(packet.src, r.address, r.triggerPrefixLength)
          /\ k = RouteKey(packet.src, r.routePrefixLength)
    BY <1>2 DEF Triggered
  <2>2. packet.src # Unspecified
    BY <2>1, AddressAssumption
  <2>3. PICK t \in Sockets : Maker[t] = Maker[s] /\ packet.src = NewAddress(t)
    BY <2>2, SentByClient DEF OwnAddresses
  <2>4. QED
    BY <2>1, <2>3 DEF RouteIsOwn
<1> HIDE DEF new
<1>3. QED
  BY <1>1, <1>2 DEF RoutesAreOwn, new

(* So is what it sends on. *)
LEMMA SentToOwner ==
  ASSUME TableOK(routes), RoutesAreOwn(routes),
         NEW s \in Sockets, NEW packet \in PacketsOf(Maker[s]),
         NEW q \in Sent(packet, s), q[1] \in Sockets
  PROVE  q[2] \in PacketsFor(Maker[q[1]])
<1> DEFINE table == Learned(routes, packet.src, s)
           pong == PongFor(packet)
<1>1. RoutesAreOwn(table)
  BY LearnedIsOwn
<1>2. /\ packet \in Packet /\ packet.src \in KnownAddresses /\ packet.dst \in KnownAddresses
      /\ packet.kind = "ping" => packet.dst # AllNodes
  BY SentByClient
<1>3. TableOK(table)
  BY <1>2, LearnedTable DEF Packet
<1>4. pong \in Packet /\ pong.src = packet.dst /\ pong.dst = packet.src /\ pong.kind = "pong"
  BY <1>2 DEF PongFor, Packet
<1>5. q \in Routed(table, pong, Internal) \/ q \in Routed(table, packet, s)
  BY DEF Sent, Answer
<1> HIDE DEF table, pong
<1>6. CASE q \in Routed(table, pong, Internal)
  BY <1>1, <1>2, <1>3, <1>4, <1>6, RoutedToOwner
<1>7. CASE q \in Routed(table, packet, s)
  BY <1>1, <1>2, <1>3, <1>7, RoutedToOwner
<1>8. QED
  BY <1>5, <1>6, <1>7

(* Queues that grow, shrink, or are emptied hold what they may. *)
LEMMA QueueSteps ==
  ASSUME NEW S
  PROVE  /\ <<>> \in Seq(S)
         /\ \A q \in Seq(S), p \in S : Append(q, p) \in Seq(S)
         /\ \A q, r \in Seq(S) : q \o r \in Seq(S)
         /\ \A q \in Seq(S) : q # <<>> => Head(q) \in S /\ Tail(q) \in Seq(S)
<1>1. \A q \in Seq(S), p \in S : Append(q, p) \in Seq(S)
  BY AppendProperties
<1>2. \A q, r \in Seq(S) : q \o r \in Seq(S)
  BY ConcatProperties
<1>3. \A q \in Seq(S) : q # <<>> => Head(q) \in S /\ Tail(q) \in Seq(S)
  BY HeadTailProperties
<1>4. QED
  BY <1>1, <1>2, <1>3

LEMMA OwnInit == Init => OwnInv
<1> SUFFICES ASSUME Init PROVE OwnInv
  OBVIOUS
<1>1. RoutesAreOwn(routes)
  <2> SUFFICES ASSUME NEW k \in DOMAIN StaticRoutes
               PROVE  StaticRoutes[k].dest \notin Sockets
    BY DEF Init, RouterInit, RoutesAreOwn
  <2>1. QED
    BY StaticAssumption
<1>2. /\ \A c \in Clients : enqueuedMessages[c] = <<>> /\ myGlobalAddress[c] = Unspecified
      /\ \A s \in Sockets : toServer[s] = <<>> /\ toClient[s] = <<>>
  BY DEF Init, ClientInit
<1>3. QED
  BY <1>1, <1>2, QueueSteps DEF OwnInv

(* A client that enqueues one of its packets has only such in its queue,   *)
(* and on its sockets.                                                     *)
LEMMA EnqueueOwn ==
  ASSUME NetTypeOK, OwnInv, NEW c \in Clients, NEW packet \in PacketsOf(c),
         EnqueuePacket(c, packet)
  PROVE  /\ \A d \in Clients : enqueuedMessages'[d] \in Seq(PacketsOf(d))
         /\ \A s \in Sockets : toServer'[s] \in Seq(PacketsOf(Maker[s]))
<1> DEFINE s == connection[c]
<1>1. /\ \A d \in Clients : enqueuedMessages[d] \in Seq(PacketsOf(d))
      /\ \A z \in Sockets : toServer[z] \in Seq(PacketsOf(Maker[z]))
  BY DEF OwnInv
<1>2. CASE s # None /\ readyState[s] = "open"
  <2>1. s \in Sockets /\ Maker[s] = c
    BY <1>2 DEF NetTypeOK, ClientTypeOK
  <2>2. /\ enqueuedMessages' = enqueuedMessages
        /\ \A z \in Sockets : toServer'[z] = IF z = s THEN Append(toServer[s], packet) ELSE toServer[z]
    BY <1>2 DEF EnqueuePacket, NetTypeOK
  <2> HIDE DEF s
  <2>3. Append(toServer[s], packet) \in Seq(PacketsOf(c))
    BY <1>1, <2>1, QueueSteps
  <2>4. QED
    BY <1>1, <2>1, <2>2, <2>3
<1>3. CASE ~ (s # None /\ readyState[s] = "open")
  <2>1. /\ toServer' = toServer
        /\ \A d \in Clients : enqueuedMessages'[d] =
             IF d = c THEN Append(enqueuedMessages[c], packet) ELSE enqueuedMessages[d]
    BY <1>3 DEF EnqueuePacket, NetTypeOK
  <2>2. Append(enqueuedMessages[c], packet) \in Seq(PacketsOf(c))
    BY <1>1, QueueSteps
  <2>3. QED
    BY <1>1, <2>1, <2>2
<1>4. QED
  BY <1>2, <1>3

(* What a client gets, it may answer. *)
LEMMA ReceiveOwn ==
  ASSUME NetTypeOK, OwnInv, NEW s \in Sockets, Receive(s), UNCHANGED routes
  PROVE  OwnInv'
<1> DEFINE c == Maker[s]
           packet == Head(toClient[s])
           mine == ForMe(c, packet)
           pong == [src |-> packet.dst, dst |-> packet.src, kind |-> "pong", n |-> packet.n]
<1>1. c \in Clients
  BY SocketFacts
<1>2. /\ \A d \in Clients : myGlobalAddress[d] \in {Unspecified} \cup OwnAddresses(d)
      /\ \A d \in Clients : enqueuedMessages[d] \in Seq(PacketsOf(d))
      /\ \A z \in Sockets : toServer[z] \in Seq(PacketsOf(Maker[z]))
      /\ \A z \in Sockets : toClient[z] \in Seq(PacketsFor(Maker[z]))
      /\ RoutesAreOwn(routes)
  BY DEF OwnInv
<1>3. packet \in PacketsFor(c) /\ Tail(toClient[s]) \in Seq(PacketsFor(c))
  BY <1>2, QueueSteps DEF Receive
<1>4. \A z \in Sockets : toClient'[z] \in Seq(PacketsFor(Maker[z]))
  <2>1. \A z \in Sockets : toClient'[z] = IF z = s THEN Tail(toClient[s]) ELSE toClient[z]
    BY DEF Receive, NetTypeOK
  <2>2. QED
    BY <1>2, <1>3, <2>1
<1>5. \A d \in Clients : myGlobalAddress'[d] \in {Unspecified} \cup OwnAddresses(d)
  <2>1. myGlobalAddress' \in {myGlobalAddress, [myGlobalAddress EXCEPT ![c] = NewAddress(s)]}
    BY DEF Receive
  <2>2. NewAddress(s) \in OwnAddresses(c)
    BY DEF OwnAddresses
  <2>3. QED
    BY <1>1, <1>2, <2>1, <2>2 DEF NetTypeOK
<1>6. /\ \A d \in Clients : enqueuedMessages'[d] \in Seq(PacketsOf(d))
      /\ \A z \in Sockets : toServer'[z] \in Seq(PacketsOf(Maker[z]))
  <2>1. CASE mine /\ packet.kind = "ping"
    <3>1. packet.dst \in OwnAddresses(c) /\ packet.src \in KnownAddresses /\ packet \in Packet
      BY <1>3, <2>1 DEF PacketsFor
    <3>2. pong \in PacketsOf(c)
      <4>1. pong \in Packet
        BY <3>1 DEF Packet
      <4>2. pong.src = packet.dst /\ pong.dst = packet.src /\ pong.kind = "pong"
        OBVIOUS
      <4> HIDE DEF pong
      <4>3. QED
        BY <3>1, <4>1, <4>2 DEF PacketsOf
    <3>3. EnqueuePacket(c, pong)
      BY <2>1 DEF Receive
    <3> HIDE DEF pong, c
    <3>4. QED
      BY <1>1, <3>2, <3>3, EnqueueOwn
  <2>2. CASE ~ (mine /\ packet.kind = "ping")
    <3>1. UNCHANGED <<enqueuedMessages, toServer>>
      BY <2>2 DEF Receive
    <3>2. QED
      BY <1>2, <3>1
  <2>3. QED
    BY <2>1, <2>2
<1>7. QED
  BY <1>2, <1>4, <1>5, <1>6 DEF OwnInv

LEMMA OwnStep == NetInv /\ OwnInv /\ [Next]_vars => OwnInv'
<1> SUFFICES ASSUME NetInv, OwnInv, [Next]_vars PROVE OwnInv'
  OBVIOUS
<1>0. NetTypeOK
  BY DEF NetInv
<1>1. /\ \A c \in Clients : myGlobalAddress[c] \in {Unspecified} \cup OwnAddresses(c)
      /\ \A c \in Clients : enqueuedMessages[c] \in Seq(PacketsOf(c))
      /\ \A s \in Sockets : toServer[s] \in Seq(PacketsOf(Maker[s]))
      /\ \A s \in Sockets : toClient[s] \in Seq(PacketsFor(Maker[s]))
      /\ RoutesAreOwn(routes)
  BY DEF OwnInv
(* What closes sockets, or changes nothing *)
<1>2. ASSUME UNCHANGED <<routes, enqueuedMessages, myGlobalAddress>>,
             \A s \in Sockets : toServer'[s] \in {toServer[s], <<>>},
             \A s \in Sockets : toClient'[s] \in {toClient[s], <<>>}
      PROVE  OwnInv'
  BY <1>1, <1>2, QueueSteps DEF OwnInv
<1>3. ASSUME NEW s \in Sockets, Accept(s)
      PROVE  OwnInv'
  <2>1. /\ \A z \in Sockets : toClient'[z] = IF z = s THEN Append(toClient[s], Advertisement)
                                             ELSE toClient[z]
        /\ UNCHANGED <<routes, enqueuedMessages, myGlobalAddress, toServer>>
    BY <1>0, <1>3 DEF Accept, AddLink, clientVars, NetTypeOK
  <2>2. Advertisement \in PacketsFor(Maker[s])
    BY AdvertisementIsPacket DEF Advertisement, PacketsFor, KnownAddresses
  <2>3. Append(toClient[s], Advertisement) \in Seq(PacketsFor(Maker[s]))
    BY <1>1, <2>2, QueueSteps
  <2>4. QED
    BY <1>1, <2>1, <2>3 DEF OwnInv
<1>4. ASSUME NEW s \in Sockets, RouterReceives(s)
      PROVE  OwnInv'
  <2> DEFINE packet == Head(toServer[s])
  <2>1. packet \in PacketsOf(Maker[s]) /\ Tail(toServer[s]) \in Seq(PacketsOf(Maker[s]))
    BY <1>1, <1>4, QueueSteps DEF RouterReceives
  <2>2. /\ routes' = Learned(routes, packet.src, s)
        /\ Delivered(Sent(packet, s))
        /\ UNCHANGED <<enqueuedMessages, myGlobalAddress>>
        /\ \A z \in Sockets : toServer'[z] = IF z = s THEN Tail(toServer[s]) ELSE toServer[z]
    BY <1>0, <1>4 DEF RouterReceives, HandlePacket, clientVars, NetTypeOK
  <2> HIDE DEF packet
  <2>3. RoutesAreOwn(routes')
    BY <1>1, <2>1, <2>2, LearnedIsOwn
  <2>4. ASSUME NEW z \in Sockets
        PROVE  toClient'[z] \in Seq(PacketsFor(Maker[z]))
    <3> DEFINE q == CHOOSE q \in Sent(packet, s) : q[1] = z
    <3>1. CASE \E p \in Sent(packet, s) : p[1] = z
      <4>1. q \in Sent(packet, s) /\ q[1] = z
        BY <3>1
      <4>2. toClient'[z] \in {toClient[z], Append(toClient[z], q[2])}
        BY <2>2 DEF Delivered
      <4> HIDE DEF q
      <4>3. q[2] \in PacketsFor(Maker[z])
        BY <1>1, <2>1, <4>1, SentToOwner DEF NetInv, IInv
      <4>4. toClient[z] \in Seq(PacketsFor(Maker[z]))
        BY <1>1
      <4>5. Append(toClient[z], q[2]) \in Seq(PacketsFor(Maker[z]))
        BY <4>3, <4>4, QueueSteps
      <4>6. QED
        BY <4>2, <4>4, <4>5
    <3>2. CASE ~ \E p \in Sent(packet, s) : p[1] = z
      BY <1>1, <2>2, <3>2 DEF Delivered
    <3>3. QED
      BY <3>1, <3>2
  <2>5. QED
    BY <1>1, <2>1, <2>2, <2>3, <2>4 DEF OwnInv
<1>5. ASSUME NEW s \in Sockets, ClientReceives(s)
      PROVE  OwnInv'
  BY <1>0, <1>5, ReceiveOwn DEF ClientReceives, routerVars
<1>6. ASSUME NEW s \in Sockets, SocketEvent(s)
      PROVE  OwnInv'
  <2>1. routes' = routes
    BY <1>6 DEF SocketEvent, routerVars
  <2>2. CASE OpenEvent(s)
    <3> DEFINE c == Maker[s]
               k == connection[c]
               states == [readyState EXCEPT ![s] = "open"]
    <3>1. c \in Clients /\ UNCHANGED <<myGlobalAddress, toClient>> /\ OnOpen(c, states)
      BY <2>2, SocketFacts DEF OpenEvent
    <3>2. CASE k # None /\ Flush(c, states)
      <4>1. k \in Sockets /\ Maker[k] = c
        BY <1>0, <3>1, <3>2 DEF NetTypeOK, ClientTypeOK
      <4>2. /\ \A d \in Clients : enqueuedMessages'[d] = IF d = c THEN <<>> ELSE enqueuedMessages[d]
            /\ \A z \in Sockets : toServer'[z] \in
                 {toServer[z]} \cup IF z = k THEN {toServer[k] \o enqueuedMessages[c]} ELSE {}
        BY <1>0, <3>2 DEF Flush, NetTypeOK
      <4> HIDE DEF k, c, states
      <4>3. toServer[k] \o enqueuedMessages[c] \in Seq(PacketsOf(c))
        BY <1>1, <3>1, <4>1, QueueSteps
      <4>4. \A z \in Sockets : toServer'[z] \in Seq(PacketsOf(Maker[z]))
        BY <1>1, <4>1, <4>2, <4>3
      <4>5. \A d \in Clients : enqueuedMessages'[d] \in Seq(PacketsOf(d))
        BY <1>1, <4>2, QueueSteps
      <4>6. QED
        BY <1>1, <2>1, <3>1, <4>4, <4>5 DEF OwnInv
    <3>3. CASE UNCHANGED <<toServer, enqueuedMessages>>
      BY <1>2, <2>1, <3>1, <3>3
    <3>4. QED
      BY <3>1, <3>2, <3>3 DEF OnOpen
  <2>3. CASE CloseEvent(s)
    BY <1>0, <1>2, <2>1, <2>3 DEF CloseEvent, NetTypeOK
  <2>4. CASE ServerCloses(s)
    BY <1>0, <1>2, <2>1, <2>4 DEF ServerCloses, clientVars, NetTypeOK
  <2>5. QED
    BY <1>6, <2>2, <2>3, <2>4 DEF SocketEvent
<1>7. ASSUME NEW c \in Clients, NEW peer \in Peers, ClientPings(c, peer)
      PROVE  OwnInv'
  <2> DEFINE packet == [src |-> myGlobalAddress[c], dst |-> peer, kind |-> "ping", n |-> pings + 1]
  <2>1. /\ EnqueuePacket(c, packet) /\ UNCHANGED <<routes, myGlobalAddress, toClient>>
        /\ pings < MaxPings
    BY <1>7 DEF ClientPings, Ping, routerVars
  <2>2. peer \in KnownAddresses /\ peer # AllNodes /\ peer \in Addresses
    <3>1. peer = RouterAddress \/ \E d \in Clients : peer = myGlobalAddress[d] /\ peer # Unspecified
      BY DEF Peers
    <3>2. peer = RouterAddress \/ \E t \in Sockets : peer = NewAddress(t)
      BY <1>1, <3>1 DEF OwnAddresses
    <3>3. QED
      BY <3>2, AddressAssumption, AddressFacts DEF KnownAddresses
  <2>3. packet \in PacketsOf(c)
    <3>1. pings + 1 \in PingIds
      BY <2>1, RoutedAssumption DEF NetInv
    <3>2. packet \in Packet
      BY <1>0, <2>2, <3>1 DEF Packet, NetTypeOK
    <3>3. packet.src = myGlobalAddress[c] /\ packet.dst = peer
      OBVIOUS
    <3> HIDE DEF packet
    <3>4. QED
      BY <1>1, <2>2, <3>2, <3>3 DEF PacketsOf
  <2> HIDE DEF packet
  <2>4. QED
    BY <1>0, <1>1, <2>1, <2>3, EnqueueOwn DEF OwnInv
<1>8. ASSUME NEW l \in links, Removed(l)
      PROVE  OwnInv'
  <2>1. /\ routes' = RemoveRoutesTo(routes, l)
        /\ UNCHANGED <<enqueuedMessages, myGlobalAddress, toServer, toClient>>
    BY <1>8 DEF Removed, RemoveLink, clientVars
  <2>2. \A p \in DOMAIN routes' : p \in DOMAIN routes /\ routes'[p] = routes[p]
    BY <2>1, RemainingRoutes
  <2>3. RoutesAreOwn(routes')
    BY <1>1, <2>2 DEF RoutesAreOwn
  <2>4. QED
    BY <1>1, <2>1, <2>3 DEF OwnInv
<1>9. ASSUME NEW c \in Clients, UserActs(c)
      PROVE  OwnInv'
  <2>1. routes' = routes
    BY <1>9 DEF UserActs, routerVars
  <2>2. CASE Disconnect(c)
    BY <1>0, <1>2, <2>1, <2>2 DEF Disconnect, NetTypeOK
  <2>3. ASSUME NEW s \in Sockets, Connect(c, s)
        PROVE  OwnInv'
    BY <1>2, <2>1, <2>3 DEF Connect
  <2>4. QED
    BY <1>9, <2>2, <2>3 DEF UserActs
<1>10. CASE UNCHANGED vars
  BY <1>2, <1>10 DEF vars, routerVars, clientVars
<1>11. QED
  BY <1>3, <1>4, <1>5, <1>6, <1>7, <1>8, <1>9, <1>10 DEF Next

(* Whatever routes it has learned, and whichever links were removed, the   *)
(* router sends a client nothing but what is meant for it: as long as      *)
(* clients take different addresses, and none the router's.                *)
THEOREM NobodyElsesPackets == Spec => []OwnPacketsOnly
<1>1. OwnInv => OwnPacketsOnly
  <2> SUFFICES ASSUME OwnInv, NEW s \in Sockets, NEW i \in 1 .. Len(toClient[s])
               PROVE  toClient[s][i].dst \in {AllNodes} \cup OwnAddresses(Maker[s])
    BY DEF OwnPacketsOnly, OwnAddresses
  <2>1. toClient[s] \in Seq(PacketsFor(Maker[s]))
    BY DEF OwnInv
  <2>2. toClient[s][i] \in PacketsFor(Maker[s])
    BY <2>1
  <2>3. QED
    BY <2>2 DEF PacketsFor
<1>2. QED
  BY <1>1, OwnInit, OwnStep, NetInvariance, PTL DEF Spec
=============================================================================
