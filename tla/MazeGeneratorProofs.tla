------------------------- MODULE MazeGeneratorProofs -------------------------
(***************************************************************************)
(* Mazes without traps, of which the solver finds shortest solutions: for  *)
(* all keys and all sizes of stages.                                       *)
(***************************************************************************)
EXTENDS MazeSolver, FiniteSetTheorems, FunctionTheorems, WellFoundedInduction, TLAPS

-----------------------------------------------------------------------------
(* A set of numbers has a least one. *)
LEMMA LeastNumber ==
  ASSUME NEW T \in SUBSET Nat, T # {}
  PROVE  \E x \in T : \A y \in T : x <= y
<1> DEFINE R == {p \in Nat \X Nat : p[1] < p[2]}
<1>1. IsWellFoundedOn(R, Nat)
  BY NatLessThanWellFounded DEF OpToRel
<1>2. \A x, y \in Nat : x < y => <<x, y>> \in R
  OBVIOUS
<1> HIDE DEF R
<1>3. PICK x \in T : \A y \in T : ~ (<<y, x>> \in R)
  BY <1>1, WFMin
<1>4. ASSUME NEW y \in T PROVE x <= y
  <2>1. x \in Nat /\ y \in Nat /\ ~ (<<y, x>> \in R)
    BY <1>3
  <2>2. ~ (y < x)
    BY <1>2, <2>1
  <2>3. QED
    BY <2>1, <2>2
<1>5. QED
  BY <1>4

-----------------------------------------------------------------------------
(* What Grown computes *)

States(all) == [left : Nat, new : SUBSET all, old : SUBSET all]
NextState(more, s) ==
  [left |-> s.left - 1, new |-> more[s.new] \ (s.old \cup s.new), old |-> s.old \cup s.new]
GrownFrom(f, more, s) == IF s.left = 0 \/ s.new = {} THEN s.old ELSE f[NextState(more, s)]

(* The function grows as it says up to n. *)
GrowsUpTo(f, n, all, more) ==
  \A s \in States(all) : s.left <= n => f[s] = GrownFrom(f, more, s)

LEMMA NextIsState ==
  ASSUME NEW all, NEW more \in [SUBSET all -> SUBSET all],
         NEW s \in States(all), s.left # 0
  PROVE  NextState(more, s) \in States(all) /\ NextState(more, s).left = s.left - 1
         /\ NextState(more, s).left \in Nat
BY DEF States, NextState

LEMMA GrowsOnce ==
  ASSUME NEW all, NEW more \in [SUBSET all -> SUBSET all],
         NEW n \in Nat, NEW m \in Nat, NEW f, NEW g,
         GrowsUpTo(f, n, all, more), GrowsUpTo(g, m, all, more),
         NEW t \in States(all), t.left <= n, t.left <= m
  PROVE  f[t] = g[t]
<1> DEFINE T == {k \in Nat : \E s \in States(all) : s.left = k /\ k <= n /\ k <= m /\ f[s] # g[s]}
<1> SUFFICES ASSUME f[t] # g[t] PROVE FALSE
  OBVIOUS
<1>1. t.left \in T /\ T \in SUBSET Nat
  BY DEF States
<1>2. PICK k \in T : \A j \in T : k <= j
  BY <1>1, LeastNumber, Zenon
<1>3. PICK s \in States(all) : s.left = k /\ k <= n /\ k <= m /\ f[s] # g[s]
  OBVIOUS
<1>4. f[s] = GrownFrom(f, more, s) /\ g[s] = GrownFrom(g, more, s)
  BY <1>3 DEF GrowsUpTo
<1>5. s.left # 0
  BY <1>3, <1>4 DEF GrownFrom
<1>6. NextState(more, s) \in States(all) /\ NextState(more, s).left = k - 1 /\ k \in Nat /\ k # 0
  BY <1>3, <1>5, NextIsState
<1>7. f[NextState(more, s)] # g[NextState(more, s)]
  BY <1>3, <1>4 DEF GrownFrom
<1>8. k - 1 \in T
  BY <1>3, <1>6, <1>7
<1>9. QED
  BY <1>2, <1>6, <1>8

LEMMA GrowsSomehow ==
  ASSUME NEW all, NEW more \in [SUBSET all -> SUBSET all], NEW n \in Nat
  PROVE  \E f : GrowsUpTo(f, n, all, more)
<1> DEFINE T == {k \in Nat : ~ \E f : GrowsUpTo(f, k, all, more)}
<1> SUFFICES ASSUME n \in T PROVE FALSE
  OBVIOUS
<1>1. PICK k \in T : \A j \in T : k <= j
  BY LeastNumber, Zenon
<1>2. CASE k = 0
  <2> DEFINE f == [s \in States(all) |-> s.old]
  <2>1. GrowsUpTo(f, 0, all, more)
    BY DEF GrowsUpTo, GrownFrom, States
  <2>2. QED
    BY <1>2, <2>1
<1>3. CASE k # 0
  <2>1. k \in Nat /\ k - 1 \in Nat /\ ~ (k <= k - 1)
    BY <1>3
  <2>2. PICK g : GrowsUpTo(g, k - 1, all, more)
    BY <1>1, <2>1
  <2> DEFINE f == [s \in States(all) |->
                     IF s.left <= k - 1 THEN g[s] ELSE GrownFrom(g, more, s)]
  <2>3. ASSUME NEW s \in States(all), s.left <= k
        PROVE  f[s] = GrownFrom(f, more, s)
    <3>1. s.left \in Nat
      BY DEF States
    <3>2. f[s] = GrownFrom(g, more, s)
      <4>1. CASE s.left <= k - 1
        BY <2>2, <4>1 DEF GrowsUpTo
      <4>2. CASE ~ (s.left <= k - 1)
        BY <4>2
      <4>3. QED
        BY <4>1, <4>2
    <3>3. CASE s.left = 0
      BY <3>2, <3>3 DEF GrownFrom
    <3>4. CASE s.left # 0
      <4>1. NextState(more, s) \in States(all) /\ NextState(more, s).left = s.left - 1
        BY <3>4, NextIsState
      <4>2. NextState(more, s).left <= k - 1
        BY <2>1, <2>3, <3>1, <4>1
      <4>3. f[NextState(more, s)] = g[NextState(more, s)]
        BY <4>1, <4>2
      <4>4. QED
        BY <3>2, <4>3 DEF GrownFrom
    <3>5. QED
      BY <3>3, <3>4
  <2> HIDE DEF f
  <2>4. GrowsUpTo(f, k, all, more)
    BY <2>3 DEF GrowsUpTo
  <2>5. QED
    BY <2>4
<1>4. QED
  BY <1>2, <1>3

(* There is a function that grows as Grown says it does. *)
LEMMA GrownUnfolds ==
  ASSUME NEW all, NEW more \in [SUBSET all -> SUBSET all], NEW from
  PROVE  \E f : /\ \A s \in States(all) : f[s] = GrownFrom(f, more, s)
                /\ Grown(all, more, from)
                     = f[[left |-> Cardinality(all) + 1, new |-> from, old |-> {}]]
<1> DEFINE Body(f) == [s \in States(all) |-> GrownFrom(f, more, s)]
           Some(n) == CHOOSE f : GrowsUpTo(f, n, all, more)
           g == [s \in States(all) |-> Some(s.left)[s]]
           c == CHOOSE f : f = Body(f)
<1>1. \A n \in Nat : GrowsUpTo(Some(n), n, all, more)
  BY GrowsSomehow
<1>2. ASSUME NEW s \in States(all)
      PROVE  Some(s.left)[s] = GrownFrom(g, more, s)
  <2>1. s.left \in Nat /\ s.left <= s.left
    BY DEF States
  <2>2. Some(s.left)[s] = GrownFrom(Some(s.left), more, s)
    <3>1. GrowsUpTo(Some(s.left), s.left, all, more)
      BY <1>1, <2>1, Zenon
    <3>2. QED
      BY <2>1, <3>1, Zenon DEF GrowsUpTo
  <2>3. CASE s.left = 0
    BY <2>2, <2>3, Zenon DEF GrownFrom
  <2>4. CASE s.left # 0
    <3> DEFINE t == NextState(more, s)
    <3>1. t \in States(all) /\ t.left = s.left - 1 /\ t.left \in Nat
      BY <2>4, NextIsState
    <3> HIDE DEF t
    <3>2. t.left <= s.left /\ t.left <= t.left
      BY <2>1, <3>1
    <3>3. GrowsUpTo(Some(s.left), s.left, all, more) /\ GrowsUpTo(Some(t.left), t.left, all, more)
      BY <1>1, <2>1, <3>1, Zenon
    <3> HIDE DEF Some
    <3>4. Some(s.left)[t] = Some(t.left)[t]
      <4>1. \A f, h : GrowsUpTo(f, s.left, all, more) /\ GrowsUpTo(h, t.left, all, more) => f[t] = h[t]
        BY <2>1, <3>1, <3>2, GrowsOnce
      <4>2. QED
        BY <3>3, <4>1, Zenon
    <3>5. g[t] = Some(t.left)[t]
      BY <3>1, Zenon
    <3> HIDE DEF g
    <3>6. QED
      BY <2>2, <2>4, <3>4, <3>5, Zenon DEF GrownFrom, t
  <2>5. QED
    BY <2>3, <2>4
<1>3. g = Body(g)
  <2> HIDE DEF Some
  <2>1. \A s \in States(all) : Some(s.left)[s] = GrownFrom(g, more, s)
    BY <1>2, Zenon
  <2> DEFINE G(s) == GrownFrom(g, more, s)
             H(s) == Some(s.left)[s]
  <2>2. [s \in States(all) |-> H(s)] = [s \in States(all) |-> G(s)]
    <3> HIDE DEF G, H
    <3>1. \A s \in States(all) : H(s) = G(s)
      BY <2>1, Zenon DEF G, H
    <3>2. QED
      BY <3>1
  <2>3. QED
    BY <2>2, Zenon DEF G, H
<1>4. c = Body(c)
  <2> HIDE DEF g, Body
  <2>1. QED
    BY <1>3
<1>5. Grown(all, more, from) = c[[left |-> Cardinality(all) + 1, new |-> from, old |-> {}]]
  BY SMT DEF Grown, States, GrownFrom, NextState
<1>6. \A s \in States(all) : c[s] = GrownFrom(c, more, s)
  <2> HIDE DEF c
  <2>1. \A s \in States(all) : Body(c)[s] = GrownFrom(c, more, s)
    OBVIOUS
  <2>2. QED
    BY <1>4, <2>1, Zenon
<1>7. QED
  BY <1>5, <1>6, Zenon

(* Where the growth stands: what is new is not old, what old leads to is   *)
(* there, and there are more turns left than members to be found.          *)
Fits(all, more, s) ==
  /\ s.new \cap s.old = {}
  /\ Cardinality(all \ s.old) < s.left
  /\ more[s.old] \subseteq s.old \cup s.new

(* The least set that has what s has and is closed under more *)
LeastFrom(all, more, s, G) ==
  /\ s.old \cup s.new \subseteq G /\ G \subseteq all
  /\ more[G] \subseteq G
  /\ \A C \in SUBSET all : s.old \cup s.new \subseteq C /\ more[C] \subseteq C => G \subseteq C

(* More members lead to more. *)
Additive(all, more) ==
  /\ more \in [SUBSET all -> SUBSET all]
  /\ more[{}] = {}
  /\ \A A, B \in SUBSET all : more[A \cup B] = more[A] \cup more[B]

LEMMA NextFits ==
  ASSUME NEW all, IsFiniteSet(all), NEW more, Additive(all, more),
         NEW s \in States(all), s.left # 0, s.new # {}, Fits(all, more, s)
  PROVE  Fits(all, more, NextState(more, s))
<1> DEFINE t == NextState(more, s)
<1>1. /\ t.left = s.left - 1 /\ t.new = more[s.new] \ (s.old \cup s.new) /\ t.old = s.old \cup s.new
      /\ s.left \in Nat /\ s.new \in SUBSET all /\ s.old \in SUBSET all
  BY DEF NextState, States
<1>2. t.new \cap t.old = {}
  BY <1>1
<1>3. more[t.old] \subseteq t.old \cup t.new
  BY <1>1 DEF Additive, Fits
<1>4. Cardinality(all \ t.old) < t.left
  <2> PICK x \in s.new : TRUE
    OBVIOUS
  <2> DEFINE A == all \ s.old
  <2>1. IsFiniteSet(A) /\ x \in A
    BY <1>1, FS_Subset DEF Fits
  <2>2. Cardinality(A) < s.left
    BY DEF Fits
  <2>3. all \ t.old \in SUBSET (A \ {x})
    BY <1>1
  <2> HIDE DEF A
  <2>4. IsFiniteSet(A \ {x}) /\ Cardinality(A \ {x}) = Cardinality(A) - 1 /\ Cardinality(A) \in Nat
    BY <2>1, FS_RemoveElement, FS_CardinalityType
  <2>5. Cardinality(all \ t.old) <= Cardinality(A \ {x}) /\ IsFiniteSet(all \ t.old)
    BY <2>3, <2>4, FS_Subset
  <2>6. Cardinality(all \ t.old) \in Nat
    BY <2>5, FS_CardinalityType
  <2>7. QED
    BY <1>1, <2>2, <2>4, <2>5, <2>6
<1>5. QED
  BY <1>2, <1>3, <1>4 DEF Fits

LEMMA GrowsToLeast ==
  ASSUME NEW all, IsFiniteSet(all), NEW more, Additive(all, more), NEW f,
         \A s \in States(all) : f[s] = GrownFrom(f, more, s),
         NEW t \in States(all), Fits(all, more, t)
  PROVE  LeastFrom(all, more, t, f[t])
<1> DEFINE T == {k \in Nat : \E s \in States(all) :
                   s.left = k /\ Fits(all, more, s) /\ ~ LeastFrom(all, more, s, f[s])}
<1> SUFFICES ASSUME ~ LeastFrom(all, more, t, f[t]) PROVE FALSE
  OBVIOUS
<1>1. t.left \in T
  BY DEF States
<1>2. PICK k \in T : \A j \in T : k <= j
  BY <1>1, LeastNumber, Zenon
<1>3. PICK s \in States(all) :
        s.left = k /\ Fits(all, more, s) /\ ~ LeastFrom(all, more, s, f[s])
  OBVIOUS
<1>4. /\ s.left \in Nat /\ s.new \in SUBSET all /\ s.old \in SUBSET all
      /\ more \in [SUBSET all -> SUBSET all]
  BY DEF States, Additive
<1>5. s.left # 0
  <2>1. Cardinality(all \ s.old) \in Nat
    BY FS_Subset, FS_CardinalityType
  <2>2. QED
    BY <1>3, <1>4, <2>1 DEF Fits
<1>6. CASE s.new = {}
  <2>1. f[s] = s.old
    BY <1>6 DEF GrownFrom
  <2>2. QED
    BY <1>3, <1>4, <1>6, <2>1 DEF LeastFrom, Fits
<1>7. CASE s.new # {}
  <2> DEFINE n == NextState(more, s)
  <2>1. n \in States(all) /\ n.left = k - 1 /\ k \in Nat /\ k - 1 \in Nat
    <3>1. n \in States(all) /\ n.left = s.left - 1 /\ n.left \in Nat
      BY <1>4, <1>5, NextIsState, ZenonT(40)
    <3> HIDE DEF n
    <3>2. QED
      BY <1>3, <1>4, <3>1
  <2>2. Fits(all, more, n)
    BY <1>3, <1>5, <1>7, NextFits
  <2>3. n.new = more[s.new] \ (s.old \cup s.new) /\ n.old = s.old \cup s.new
    BY DEF NextState
  <2>4. f[s] = f[n]
    BY <1>5, <1>7 DEF GrownFrom
  <2> HIDE DEF n
  <2>5. LeastFrom(all, more, n, f[n])
    <3>1. k - 1 \in T \/ LeastFrom(all, more, n, f[n])
      BY <2>1, <2>2
    <3>2. QED
      BY <1>2, <2>1, <3>1
  <2>6. s.old \cup s.new \subseteq f[s] /\ f[s] \subseteq all /\ more[f[s]] \subseteq f[s]
    BY <2>3, <2>4, <2>5 DEF LeastFrom
  <2>7. ASSUME NEW C \in SUBSET all, s.old \cup s.new \subseteq C, more[C] \subseteq C
        PROVE  f[s] \subseteq C
    <3>1. C = C \cup s.new
      BY <2>7
    <3>2. more[C] = more[C] \cup more[s.new]
      BY <1>4, <3>1 DEF Additive
    <3>3. n.old \cup n.new \subseteq C
      BY <2>3, <2>7, <3>2
    <3>4. QED
      BY <2>4, <2>5, <2>7, <3>3 DEF LeastFrom
  <2>8. QED
    BY <1>3, <2>6, <2>7 DEF LeastFrom
<1>8. QED
  BY <1>6, <1>7

(* What grows is the least set that is closed. *)
LEMMA GrownIsLeast ==
  ASSUME NEW all, IsFiniteSet(all), NEW more, Additive(all, more), NEW from \in SUBSET all
  PROVE  /\ from \subseteq Grown(all, more, from) /\ Grown(all, more, from) \subseteq all
         /\ more[Grown(all, more, from)] \subseteq Grown(all, more, from)
         /\ \A C \in SUBSET all :
              from \subseteq C /\ more[C] \subseteq C => Grown(all, more, from) \subseteq C
<1> DEFINE s == [left |-> Cardinality(all) + 1, new |-> from, old |-> {}]
<1>1. Cardinality(all) \in Nat /\ more \in [SUBSET all -> SUBSET all]
  BY FS_CardinalityType DEF Additive
<1>2. PICK f : (\A t \in States(all) : f[t] = GrownFrom(f, more, t)) /\ Grown(all, more, from) = f[s]
  BY <1>1, GrownUnfolds
<1>3. s \in States(all) /\ s.new = from /\ s.old = {} /\ s.left = Cardinality(all) + 1
  BY <1>1 DEF States
<1> HIDE DEF s
<1>4. Fits(all, more, s)
  <2>1. all \ s.old = all
    BY <1>3
  <2>2. QED
    BY <1>1, <1>3, <2>1 DEF Fits, Additive
<1>5. LeastFrom(all, more, s, f[s])
  BY <1>2, <1>3, <1>4, GrowsToLeast
<1>6. QED
  BY <1>2, <1>3, <1>5 DEF LeastFrom

-----------------------------------------------------------------------------
(* Mazes *)

Node == [keys : SUBSET Range(KeyClasses), items : SUBSET Items]
Link == [from : Nat, to : Nat, back : BOOLEAN, locks : SUBSET Range(KeyClasses)]
IsMaze(m) ==
  /\ m \in [nodes : Seq(Node), links : Seq(Link)]
  /\ m.nodes # <<>>
  /\ \A l \in Range(m.links) : {l.from, l.to} \subseteq DOMAIN m.nodes

KeysIn(m, n) == m.nodes[n].keys

(* Maze w has all that m has. *)
Extends(m, w) ==
  /\ DOMAIN m.nodes \subseteq DOMAIN w.nodes
  /\ \A n \in DOMAIN m.nodes : w.nodes[n] = m.nodes[n]
  /\ Range(m.links) \subseteq Range(w.links)

(* Who holds what a stage provides holds what the stage requires. *)
InOrder(items) ==
  \A s \in DOMAIN stages : stages[s].provide \in items => stages[s].require \subseteq items

(* Nobody gets through a link to a node without the keys of the node. *)
Passes(m, from, to, locks) ==
  \A I \in SUBSET Items : InOrder(I) /\ KeysIn(m, from) \cup locks \subseteq I => KeysIn(m, to) \subseteq I
PassedInOrder(m, l) ==
  /\ Passes(m, l.from, l.to, l.locks)
  /\ l.back => Passes(m, l.to, l.from, l.locks)

(* Who has the keys of node n gets there from an older node, ... *)
Leads(m, n) ==
  \E p \in 1 .. n - 1 : n \in Exits(m, p, KeysIn(m, n)) /\ KeysIn(m, p) \subseteq KeysIn(m, n)

(* ... and from there back to one, at the end of the line that n is in.    *)
Returns(m, n) ==
  \E e \in n .. Len(m.nodes), h \in 1 .. n - 1 :
    /\ \A i \in n .. e - 1 : i + 1 \in Exits(m, i, KeysIn(m, i))
    /\ h \in Exits(m, e, KeysIn(m, e))

Ways(m) ==
  /\ \A n \in DOMAIN m.nodes \ {1} : Leads(m, n) /\ Returns(m, n)
  /\ \A l \in Range(m.links) : PassedInOrder(m, l)

-----------------------------------------------------------------------------
(* What is done to a maze *)

LEMMA ExitsAre ==
  ASSUME NEW m, NEW n, NEW I, NEW x
  PROVE  x \in Exits(m, n, I) <=>
           \E l \in Range(m.links) : l.locks \subseteq I /\
              \/ l.from = n /\ l.to = x
              \/ l.to = n /\ l.back /\ l.from = x
BY Zenon DEF Exits

LEMMA MoreExits ==
  ASSUME NEW m, NEW w, Range(m.links) \subseteq Range(w.links),
         NEW n, NEW I, NEW J, I \subseteq J
  PROVE  Exits(m, n, I) \subseteq Exits(w, n, J)
<1> SUFFICES ASSUME NEW x \in Exits(m, n, I) PROVE x \in Exits(w, n, J)
  OBVIOUS
<1>1. PICK l \in Range(m.links) : l.locks \subseteq I /\ (\/ l.from = n /\ l.to = x
                                                          \/ l.to = n /\ l.back /\ l.from = x)
  BY ExitsAre
<1>2. l \in Range(w.links) /\ l.locks \subseteq J
  BY <1>1
<1>3. QED
  BY <1>1, <1>2, ExitsAre

LEMMA ExitsInMaze ==
  ASSUME NEW m, IsMaze(m), NEW n, NEW I
  PROVE  Exits(m, n, I) \subseteq DOMAIN m.nodes
BY ExitsAre DEF IsMaze

LEMMA WaysStay ==
  ASSUME NEW m, IsMaze(m), NEW w, IsMaze(w), Extends(m, w), Ways(m)
  PROVE  /\ \A n \in DOMAIN m.nodes \ {1} : Leads(w, n) /\ Returns(w, n)
         /\ \A l \in Range(m.links) : PassedInOrder(w, l)
<1>0. /\ DOMAIN m.nodes = 1 .. Len(m.nodes) /\ Len(m.nodes) \in Nat
      /\ DOMAIN w.nodes = 1 .. Len(w.nodes) /\ Len(w.nodes) \in Nat
      /\ Len(m.nodes) <= Len(w.nodes)
  <2>1. /\ DOMAIN m.nodes = 1 .. Len(m.nodes) /\ Len(m.nodes) \in Nat
        /\ DOMAIN w.nodes = 1 .. Len(w.nodes) /\ Len(w.nodes) \in Nat
    BY DEF IsMaze
  <2>2. Len(m.nodes) \in DOMAIN m.nodes \/ Len(m.nodes) = 0
    BY <2>1
  <2>3. QED
    BY <2>1, <2>2 DEF Extends
<1>1. \A n \in DOMAIN m.nodes : KeysIn(w, n) = KeysIn(m, n)
  BY DEF Extends, KeysIn
<1>2. \A n, I : Exits(m, n, I) \subseteq Exits(w, n, I)
  BY MoreExits DEF Extends
<1>3. ASSUME NEW n \in DOMAIN m.nodes \ {1}
      PROVE  Leads(w, n) /\ Returns(w, n)
  <2>1. PICK p \in 1 .. n - 1 :
          n \in Exits(m, p, KeysIn(m, n)) /\ KeysIn(m, p) \subseteq KeysIn(m, n)
    BY DEF Ways, Leads
  <2>2. p \in DOMAIN m.nodes
    BY <1>0, <2>1
  <2>3. n \in Exits(w, p, KeysIn(w, n)) /\ KeysIn(w, p) \subseteq KeysIn(w, n)
    BY <1>1, <1>2, <2>1, <2>2
  <2>4. PICK e \in n .. Len(m.nodes), h \in 1 .. n - 1 :
          /\ \A i \in n .. e - 1 : i + 1 \in Exits(m, i, KeysIn(m, i))
          /\ h \in Exits(m, e, KeysIn(m, e))
    BY DEF Ways, Returns
  <2>5. e \in DOMAIN m.nodes /\ \A i \in n .. e - 1 : i \in DOMAIN m.nodes
    BY <1>0, <2>4
  <2>6. /\ \A i \in n .. e - 1 : i + 1 \in Exits(w, i, KeysIn(w, i))
        /\ h \in Exits(w, e, KeysIn(w, e))
    BY <1>1, <1>2, <2>4, <2>5
  <2>7. e \in n .. Len(w.nodes)
    BY <1>0, <2>4
  <2>8. QED
    BY <2>1, <2>3, <2>4, <2>6, <2>7, Zenon DEF Leads, Returns
<1>4. ASSUME NEW l \in Range(m.links)
      PROVE  PassedInOrder(w, l)
  <2>1. l.from \in DOMAIN m.nodes /\ l.to \in DOMAIN m.nodes
    BY DEF IsMaze
  <2>2. KeysIn(w, l.from) = KeysIn(m, l.from) /\ KeysIn(w, l.to) = KeysIn(m, l.to)
    BY <1>1, <2>1
  <2>3. PassedInOrder(m, l)
    BY DEF Ways
  <2>4. QED
    BY <2>2, <2>3, Zenon DEF PassedInOrder, Passes
<1>5. QED
  BY <1>3, <1>4

LEMMA Joined ==
  ASSUME NEW S, NEW a \in Seq(S), NEW b \in Seq(S)
  PROVE  /\ a \o b \in Seq(S) /\ Len(a \o b) = Len(a) + Len(b)
         /\ \A i \in 1 .. Len(a) : (a \o b)[i] = a[i]
         /\ \A i \in 1 .. Len(b) : (a \o b)[Len(a) + i] = b[i]
         /\ Range(a \o b) = Range(a) \cup Range(b)
<1> DEFINE c == a \o b
<1>1. /\ c \in Seq(S) /\ Len(c) = Len(a) + Len(b)
      /\ \A i \in 1 .. Len(a) : c[i] = a[i]
      /\ \A i \in 1 .. Len(b) : c[Len(a) + i] = b[i]
  OBVIOUS
<1>2. /\ DOMAIN a = 1 .. Len(a) /\ Len(a) \in Nat /\ DOMAIN b = 1 .. Len(b) /\ Len(b) \in Nat
      /\ DOMAIN c = 1 .. Len(a) + Len(b)
  OBVIOUS
<1> HIDE DEF c
<1>3. ASSUME NEW i \in DOMAIN c, i \notin 1 .. Len(a)
      PROVE  i - Len(a) \in 1 .. Len(b) /\ i = Len(a) + (i - Len(a))
  BY <1>2, <1>3
<1>4. \A i \in DOMAIN c : c[i] \in Range(a) \cup Range(b)
  <2>1. ASSUME NEW i \in 1 .. Len(a) PROVE c[i] \in Range(a)
    BY <1>1, <1>2 DEF Range
  <2>2. ASSUME NEW i \in DOMAIN c, i \notin 1 .. Len(a) PROVE c[i] \in Range(b)
    BY <1>1, <1>2, <1>3, <2>2 DEF Range
  <2>3. QED
    BY <2>1, <2>2
<1>5. \A i \in 1 .. Len(a) : i \in DOMAIN c
  BY <1>2
<1>6. \A i \in 1 .. Len(b) : Len(a) + i \in DOMAIN c
  BY <1>2
<1>7. Range(a) \subseteq Range(c)
  BY <1>1, <1>2, <1>5 DEF Range
<1>8. Range(b) \subseteq Range(c)
  BY <1>1, <1>2, <1>6 DEF Range
<1>9. Range(c) \subseteq Range(a) \cup Range(b)
  BY <1>4 DEF Range
<1>10. QED
  BY <1>1, <1>7, <1>8, <1>9 DEF c

(* A line of nodes that is dug *)
Dig(m, n, backs, locks, i) ==
  [from  |-> IF i = 1 THEN n ELSE Len(m.nodes) + i - 1,
   to    |-> Len(m.nodes) + i,
   back  |-> backs[i] \/ (i = 1 /\ locks # {}),
   locks |-> IF i = 1 THEN locks ELSE {}]

HasLine(m, w, n, backs, locks) ==
  /\ Len(w.nodes) = Len(m.nodes) + Len(backs)
  /\ \A i \in 1 .. Len(backs) :
       w.nodes[Len(m.nodes) + i] = [keys |-> KeysIn(m, n) \cup locks, items |-> {}]
  /\ Range(w.links) = Range(m.links) \cup {Dig(m, n, backs, locks, i) : i \in 1 .. Len(backs)}

LEMMA LineIs ==
  ASSUME NEW m, IsMaze(m), NEW n \in DOMAIN m.nodes, NEW backs \in Seq(BOOLEAN),
         NEW locks \in SUBSET Range(KeyClasses)
  PROVE  /\ IsMaze(Line(m, n, backs, locks)) /\ Extends(m, Line(m, n, backs, locks))
         /\ HasLine(m, Line(m, n, backs, locks), n, backs, locks)
<1> DEFINE w == Line(m, n, backs, locks)
           L == Len(m.nodes)
           B == Len(backs)
           node == [keys |-> KeysIn(m, n) \cup locks, items |-> {}]
           nodes == [i \in 1 .. B |-> node]
           links == [i \in 1 .. B |-> Dig(m, n, backs, locks, i)]
<1>1. /\ L \in Nat /\ B \in Nat /\ DOMAIN m.nodes = 1 .. L /\ m.nodes \in Seq(Node) /\ L # 0
      /\ m.links \in Seq(Link) /\ DOMAIN backs = 1 .. B /\ n \in 1 .. L
  BY DEF IsMaze
<1>2. w = [nodes |-> m.nodes \o nodes, links |-> m.links \o links]
  BY <1>1 DEF Line, Dig, KeysIn
<1>3. node \in Node
  <2>1. m.nodes[n] \in Node
    BY <1>1
  <2>2. QED
    BY <2>1 DEF Node, KeysIn
<1>4. ASSUME NEW i \in 1 .. B
      PROVE  /\ Dig(m, n, backs, locks, i) \in Link
             /\ Dig(m, n, backs, locks, i).from \in 1 .. L + B
             /\ Dig(m, n, backs, locks, i).to \in 1 .. L + B
  BY <1>1 DEF Dig, Link
<1> HIDE DEF node
<1>5. /\ nodes \in Seq(Node) /\ Len(nodes) = B
      /\ \A i \in 1 .. B : nodes[i] = node
  BY <1>1, <1>3
<1>6. /\ links \in Seq(Link) /\ Len(links) = B
      /\ \A i \in 1 .. B : links[i] = Dig(m, n, backs, locks, i)
  <2>1. links \in [1 .. B -> Link]
    BY <1>4
  <2>2. QED
    BY <1>1, <2>1
<1> HIDE DEF nodes, links, w
<1>7. /\ w.nodes \in Seq(Node) /\ Len(w.nodes) = L + B /\ DOMAIN w.nodes = 1 .. L + B
      /\ \A i \in 1 .. L : w.nodes[i] = m.nodes[i]
      /\ \A i \in 1 .. B : w.nodes[L + i] = node
  <2>1. w.nodes = m.nodes \o nodes
    BY <1>2
  <2> DEFINE c == m.nodes \o nodes
  <2>2. /\ c \in Seq(Node) /\ Len(c) = Len(m.nodes) + Len(nodes)
        /\ \A i \in 1 .. Len(m.nodes) : c[i] = m.nodes[i]
        /\ \A i \in 1 .. Len(nodes) : c[Len(m.nodes) + i] = nodes[i]
    <3>1. m.nodes \in Seq(Node) /\ nodes \in Seq(Node)
      BY <1>1, <1>5
    <3>2. QED
      BY <3>1, Joined
  <2> HIDE DEF c
  <2>3. /\ c \in Seq(Node) /\ Len(c) = L + B
        /\ \A i \in 1 .. L : c[i] = m.nodes[i]
        /\ \A i \in 1 .. B : c[L + i] = node
    BY <1>5, <2>2
  <2>4. DOMAIN c = 1 .. L + B
    BY <2>3
  <2>5. w.nodes = c
    BY <2>1 DEF c
  <2>6. QED
    BY <2>3, <2>4, <2>5, Zenon
<1>8. w.links \in Seq(Link) /\ Range(w.links) = Range(m.links) \cup {Dig(m, n, backs, locks, i) : i \in 1 .. B}
  <2>1. w.links = m.links \o links
    BY <1>2
  <2>2. w.links \in Seq(Link) /\ Range(w.links) = Range(m.links) \cup Range(links)
    BY <1>1, <1>6, <2>1, Joined
  <2>3. DOMAIN links = 1 .. B
    BY <1>6
  <2>4. Range(links) = {Dig(m, n, backs, locks, i) : i \in 1 .. B}
    BY <1>6, <2>3 DEF Range
  <2>5. QED
    BY <2>2, <2>4
<1>9. IsMaze(w)
  <2>1. w \in [nodes : Seq(Node), links : Seq(Link)]
    BY <1>2, <1>7, <1>8
  <2>2. w.nodes # <<>>
    BY <1>1, <1>7
  <2>3. ASSUME NEW l \in Range(w.links) PROVE {l.from, l.to} \subseteq DOMAIN w.nodes
    <3>1. CASE l \in Range(m.links)
      BY <1>1, <1>7, <3>1 DEF IsMaze
    <3>2. CASE \E i \in 1 .. B : l = Dig(m, n, backs, locks, i)
      BY <1>4, <1>7, <3>2
    <3>3. QED
      BY <1>8, <2>3, <3>1, <3>2
  <2>4. QED
    BY <2>1, <2>2, <2>3 DEF IsMaze
<1>10. Extends(m, w)
  BY <1>1, <1>7, <1>8 DEF Extends
<1>11. HasLine(m, w, n, backs, locks)
  BY <1>7, <1>8, Zenon DEF HasLine, node
<1>12. QED
  BY <1>9, <1>10, <1>11 DEF w

LEMMA Appended ==
  ASSUME NEW S, NEW a \in Seq(S), NEW x \in S
  PROVE  Append(a, x) \in Seq(S) /\ Range(Append(a, x)) = Range(a) \cup {x}
<1>1. Append(a, x) = a \o <<x>> /\ <<x>> \in Seq(S)
  OBVIOUS
<1>2. DOMAIN <<x>> = {1} /\ <<x>>[1] = x
  OBVIOUS
<1>3. Range(<<x>>) = {x}
  BY <1>2 DEF Range
<1>4. a \o <<x>> \in Seq(S) /\ Range(a \o <<x>>) = Range(a) \cup Range(<<x>>)
  BY <1>1, Joined, ZenonT(40)
<1>5. QED
  BY <1>1, <1>3, <1>4, Zenon

HasLink(m, w, a, b, back, locks) ==
  /\ w.nodes = m.nodes
  /\ Range(w.links) = Range(m.links) \cup {[from |-> a, to |-> b, back |-> back, locks |-> locks]}

LEMMA OneMoreLink ==
  ASSUME NEW m, IsMaze(m), NEW a \in DOMAIN m.nodes, NEW b \in DOMAIN m.nodes,
         NEW back \in BOOLEAN, NEW locks \in SUBSET Range(KeyClasses)
  PROVE  /\ IsMaze(Linked(m, a, b, back, locks)) /\ Extends(m, Linked(m, a, b, back, locks))
         /\ HasLink(m, Linked(m, a, b, back, locks), a, b, back, locks)
<1> DEFINE w == Linked(m, a, b, back, locks)
           l == [from |-> a, to |-> b, back |-> back, locks |-> locks]
<1>1. m \in [nodes : Seq(Node), links : Seq(Link)] /\ DOMAIN m.nodes \subseteq Nat
  BY DEF IsMaze
<1>2. l \in Link /\ l.from = a /\ l.to = b
  BY <1>1 DEF Link
<1>3. w = [m EXCEPT !.links = Append(@, l)]
  BY DEF Linked
<1> HIDE DEF w, l
<1>4. w.nodes = m.nodes /\ w.links = Append(m.links, l) /\ w = [nodes |-> m.nodes, links |-> Append(m.links, l)]
  BY <1>1, <1>3
<1>5. w.links \in Seq(Link) /\ Range(w.links) = Range(m.links) \cup {l}
  <2>1. m.links \in Seq(Link)
    BY <1>1
  <2>2. Append(m.links, l) \in Seq(Link) /\ Range(Append(m.links, l)) = Range(m.links) \cup {l}
    BY <1>2, <2>1, Appended
  <2>3. QED
    BY <1>4, <2>2
<1>6. IsMaze(w)
  BY <1>1, <1>2, <1>4, <1>5 DEF IsMaze
<1>7. Extends(m, w)
  BY <1>4, <1>5 DEF Extends
<1>8. QED
  BY <1>4, <1>5, <1>6, <1>7 DEF w, l, HasLink

(* A line of nodes is where the keys say that it is, but as long as it is  *)
(* one-way nobody can leave it.                                            *)
LEMMA LineLeads ==
  ASSUME NEW m, IsMaze(m), Ways(m), NEW n \in DOMAIN m.nodes, NEW backs \in Seq(BOOLEAN),
         NEW locks \in SUBSET Range(KeyClasses)
  PROVE  LET w == Line(m, n, backs, locks)
         IN  /\ \A x \in DOMAIN w.nodes \ {1} : Leads(w, x)
             /\ \A x \in DOMAIN m.nodes \ {1} : Returns(w, x)
             /\ \A l \in Range(w.links) : PassedInOrder(w, l)
<1> DEFINE w == Line(m, n, backs, locks)
           L == Len(m.nodes)
           B == Len(backs)
           D(i) == Dig(m, n, backs, locks, i)
           new == KeysIn(m, n) \cup locks
<1>1. /\ IsMaze(w) /\ Extends(m, w) /\ Len(w.nodes) = L + B
      /\ \A i \in 1 .. B : w.nodes[L + i] = [keys |-> new, items |-> {}]
      /\ Range(w.links) = Range(m.links) \cup {D(i) : i \in 1 .. B}
  <2>1. IsMaze(w) /\ Extends(m, w) /\ HasLine(m, w, n, backs, locks)
    BY LineIs
  <2>2. QED
    BY <2>1, Zenon DEF HasLine
<1>2. /\ L \in Nat /\ B \in Nat /\ DOMAIN m.nodes = 1 .. L /\ n \in 1 .. L
      /\ DOMAIN w.nodes = 1 .. Len(w.nodes)
  BY <1>1 DEF IsMaze
<1> HIDE DEF w
<1>3. KeysIn(w, n) = KeysIn(m, n) /\ \A i \in 1 .. B : KeysIn(w, L + i) = new
  BY <1>1, <1>2, SMTT(30) DEF KeysIn, Extends
<1>4. /\ \A x \in DOMAIN m.nodes \ {1} : Leads(w, x) /\ Returns(w, x)
      /\ \A l \in Range(m.links) : PassedInOrder(w, l)
  BY <1>1, WaysStay
<1>5. ASSUME NEW i \in 1 .. B
      PROVE  /\ D(i).to = L + i /\ D(i).from \in 1 .. L + i - 1
             /\ KeysIn(w, D(i).from) \subseteq new /\ KeysIn(w, L + i) = new
             /\ D(i).locks \subseteq new
             /\ new \subseteq KeysIn(w, D(i).from) \cup D(i).locks
  <2>1. CASE i = 1
    <3>1. D(i).from = n /\ D(i).to = L + 1 /\ D(i).locks = locks
      BY <2>1 DEF Dig
    <3>2. QED
      BY <1>2, <1>3, <2>1, <3>1
  <2>2. CASE i # 1
    <3>1. D(i).from = L + i - 1 /\ D(i).to = L + i /\ D(i).locks = {}
      BY <2>2 DEF Dig
    <3>2. i - 1 \in 1 .. B /\ L + i - 1 = L + (i - 1) /\ L + i - 1 \in 1 .. L + i - 1
      BY <1>2, <2>2
    <3>3. KeysIn(w, L + i - 1) = new
      BY <1>3, <3>2
    <3>4. QED
      BY <1>3, <3>1, <3>2, <3>3
  <2>3. QED
    BY <2>1, <2>2
<1> HIDE DEF D, new
<1>6. ASSUME NEW i \in 1 .. B
      PROVE  Leads(w, L + i) /\ PassedInOrder(w, D(i))
  <2>1. D(i) \in Range(w.links)
    BY <1>1
  <2>2. L + i \in Exits(w, D(i).from, KeysIn(w, L + i))
    BY <1>5, <2>1, ExitsAre
  <2>3. Leads(w, L + i)
    <3>1. KeysIn(w, D(i).from) \subseteq KeysIn(w, L + i)
      BY <1>5
    <3> DEFINE p == D(i).from
               x == L + i
    <3>2. p \in 1 .. x - 1 /\ x \in Exits(w, p, KeysIn(w, x)) /\ KeysIn(w, p) \subseteq KeysIn(w, x)
      BY <1>5, <2>2, <3>1
    <3> HIDE DEF p, x
    <3>3. Leads(w, x)
      BY <3>2 DEF Leads
    <3>4. QED
      BY <3>3 DEF x
  <2>4. PassedInOrder(w, D(i))
    BY <1>5, Zenon DEF PassedInOrder, Passes
  <2>5. QED
    BY <2>3, <2>4
<1>7. ASSUME NEW x \in DOMAIN w.nodes \ {1}
      PROVE  Leads(w, x)
  <2>1. CASE x \in 1 .. L
    BY <1>2, <1>4, <2>1
  <2>2. CASE x \notin 1 .. L
    <3>1. x - L \in 1 .. B /\ x = L + (x - L)
      BY <1>1, <1>2, <2>2, SMTT(30)
    <3>2. QED
      BY <1>6, <3>1
  <2>3. QED
    BY <2>1, <2>2
<1>8. \A l \in Range(w.links) : PassedInOrder(w, l)
  BY <1>1, <1>4, <1>6
<1>9. QED
  BY <1>4, <1>7, <1>8 DEF w

(* A line that goes both ways leads back. *)
LEMMA BothWays ==
  ASSUME NEW m, IsMaze(m), Ways(m), NEW n \in DOMAIN m.nodes, NEW backs \in Seq(BOOLEAN),
         NEW locks \in SUBSET Range(KeyClasses), \A i \in 1 .. Len(backs) : backs[i]
  PROVE  Ways(Line(m, n, backs, locks))
<1> DEFINE w == Line(m, n, backs, locks)
           L == Len(m.nodes)
           B == Len(backs)
           D(i) == Dig(m, n, backs, locks, i)
           new == KeysIn(m, n) \cup locks
<1>1. /\ IsMaze(w) /\ Len(w.nodes) = L + B
      /\ \A i \in 1 .. B : w.nodes[L + i] = [keys |-> new, items |-> {}]
      /\ Range(w.links) = Range(m.links) \cup {D(i) : i \in 1 .. B}
  <2>1. IsMaze(w) /\ Extends(m, w) /\ HasLine(m, w, n, backs, locks)
    BY LineIs
  <2>2. QED
    BY <2>1, Zenon DEF HasLine
<1>2. /\ \A x \in DOMAIN w.nodes \ {1} : Leads(w, x)
      /\ \A x \in DOMAIN m.nodes \ {1} : Returns(w, x)
      /\ \A l \in Range(w.links) : PassedInOrder(w, l)
  BY LineLeads
<1>3. /\ L \in Nat /\ B \in Nat /\ DOMAIN m.nodes = 1 .. L /\ n \in 1 .. L
      /\ DOMAIN w.nodes = 1 .. Len(w.nodes)
  BY <1>1 DEF IsMaze
<1> HIDE DEF w
<1>4. ASSUME NEW i \in 1 .. B
      PROVE  Returns(w, L + i)
  <2>1. D(i) \in Range(w.links)
    BY <1>1
  <2>2. D(i).to = L + i /\ D(i).back /\ D(i).locks \subseteq new
    BY DEF Dig
  <2>3. D(i).from \in 1 .. L + i - 1
    BY <1>3 DEF Dig
  <2>4. KeysIn(w, L + i) = new
    BY <1>1 DEF KeysIn
  <2> HIDE DEF D, new
  <2>5. D(i).from \in Exits(w, L + i, KeysIn(w, L + i))
    BY <2>1, <2>2, <2>4, ExitsAre
  <2>6. L + i \in L + i .. Len(w.nodes) /\ L + i .. L + i - 1 = {}
    BY <1>1, <1>3
  <2>7. QED
    BY <2>3, <2>5, <2>6, SMTT(30) DEF Returns
<1>5. ASSUME NEW x \in DOMAIN w.nodes \ {1}
      PROVE  Returns(w, x)
  <2>1. CASE x \in 1 .. L
    BY <1>2, <1>3, <2>1
  <2>2. CASE x \notin 1 .. L
    <3>1. x - L \in 1 .. B /\ x = L + (x - L)
      BY <1>1, <1>3, <2>2, SMTT(30)
    <3>2. QED
      BY <1>4, <3>1
  <2>3. QED
    BY <2>1, <2>2
<1>6. QED
  BY <1>2, <1>5 DEF w, Ways

(* A link from the end of a line to an older node leads back. *)
LEMMA LoopWays ==
  ASSUME NEW m, IsMaze(m), Ways(m), NEW n \in DOMAIN m.nodes, NEW backs \in Seq(BOOLEAN),
         NEW locks \in SUBSET Range(KeyClasses), Len(backs) # 0,
         NEW end \in DOMAIN m.nodes, KeysIn(m, end) \subseteq KeysIn(m, n)
  PROVE  LET w == DigOneWayLoop(m, n, backs, end, locks)
         IN  /\ IsMaze(w) /\ Extends(m, w) /\ Ways(w)
             /\ w.nodes = Line(m, n, backs, locks).nodes
<1> DEFINE v == Line(m, n, backs, locks)
           L == Len(m.nodes)
           B == Len(backs)
           D(i) == Dig(m, n, backs, locks, i)
           new == KeysIn(m, n) \cup locks
           w == Linked(v, L + B, end, FALSE, {})
           l == [from |-> L + B, to |-> end, back |-> FALSE, locks |-> {}]
<1>1. /\ IsMaze(v) /\ Extends(m, v) /\ Len(v.nodes) = L + B
      /\ \A i \in 1 .. B : v.nodes[L + i] = [keys |-> new, items |-> {}]
      /\ Range(v.links) = Range(m.links) \cup {D(i) : i \in 1 .. B}
  <2>1. IsMaze(v) /\ Extends(m, v) /\ HasLine(m, v, n, backs, locks)
    BY LineIs
  <2>2. QED
    BY <2>1, Zenon DEF HasLine
<1>2. /\ \A x \in DOMAIN v.nodes \ {1} : Leads(v, x)
      /\ \A x \in DOMAIN m.nodes \ {1} : Returns(v, x)
      /\ \A k \in Range(v.links) : PassedInOrder(v, k)
  BY LineLeads
<1>3. /\ L \in Nat /\ B \in Nat /\ B # 0 /\ DOMAIN m.nodes = 1 .. L /\ n \in 1 .. L /\ end \in 1 .. L
      /\ DOMAIN v.nodes = 1 .. L + B
  BY <1>1 DEF IsMaze
<1>4. DigOneWayLoop(m, n, backs, end, locks) = w
  <2> HIDE DEF v
  <2>1. DigOneWayLoop(m, n, backs, end, locks) = Linked(v, Len(v.nodes), end, FALSE, {})
    BY DEF DigOneWayLoop, v
  <2>2. QED
    BY <1>1, <2>1
<1>5. /\ IsMaze(w) /\ Extends(v, w) /\ w.nodes = v.nodes
      /\ Range(w.links) = Range(v.links) \cup {l}
  <2> HIDE DEF v
  <2>1. L + B \in DOMAIN v.nodes /\ end \in DOMAIN v.nodes /\ {} \in SUBSET Range(KeyClasses)
    BY <1>3
  <2>2. FALSE \in BOOLEAN
    OBVIOUS
  <2>3. IsMaze(v)
    BY <1>1
  <2> HIDE DEF L, B
  <2>4. IsMaze(w) /\ Extends(v, w) /\ HasLink(v, w, L + B, end, FALSE, {})
    BY <2>1, <2>2, <2>3, OneMoreLink
  <2>5. QED
    BY <2>4, Zenon DEF HasLink
<1> HIDE DEF v, w, D
<1>6. Extends(m, w)
  BY <1>1, <1>5 DEF Extends
<1>7. \A x, I : Exits(v, x, I) \subseteq Exits(w, x, I)
  BY <1>5, MoreExits
<1>8. \A x : KeysIn(w, x) = KeysIn(v, x)
  BY <1>5 DEF KeysIn
<1>9. \A x \in DOMAIN m.nodes \ {1} : Returns(w, x)
  BY <1>5, <1>6, WaysStay
<1>10. ASSUME NEW x \in DOMAIN w.nodes \ {1}
       PROVE  Leads(w, x)
  <2>1. Leads(v, x)
    BY <1>2, <1>5
  <2>2. QED
    BY <1>7, <1>8, <2>1 DEF Leads
<1>11. ASSUME NEW k \in Range(v.links)
       PROVE  PassedInOrder(w, k)
  BY <1>2, <1>8, <1>11, Zenon DEF PassedInOrder, Passes
<1>12. PassedInOrder(w, l)
  <2>1. v.nodes[end] = m.nodes[end] /\ v.nodes[L + B] = [keys |-> new, items |-> {}]
    <3>1. B \in 1 .. B /\ end \in DOMAIN m.nodes
      BY <1>3
    <3>2. QED
      BY <1>1, <3>1, Zenon DEF Extends
  <2>2. KeysIn(w, end) \subseteq KeysIn(w, L + B)
    BY <1>8, <2>1 DEF KeysIn
  <2>3. l.from = L + B /\ l.to = end /\ l.back = FALSE
    OBVIOUS
  <2> HIDE DEF l
  <2>4. QED
    BY <2>2, <2>3 DEF PassedInOrder, Passes
<1>13. ASSUME NEW i \in 1 .. B
       PROVE  Returns(w, L + i)
  <2>1. end \in Exits(w, L + B, KeysIn(w, L + B))
    <3>1. l \in Range(w.links) /\ l.locks = {} /\ l.from = L + B /\ l.to = end
      BY <1>5
    <3> HIDE DEF l
    <3>2. QED
      BY <3>1, ExitsAre
  <2>2. ASSUME NEW j \in L + i .. L + B - 1
        PROVE  j + 1 \in Exits(w, j, KeysIn(w, j))
    <3> DEFINE d == D(j + 1 - L)
    <3>1. j + 1 - L \in 1 .. B /\ j + 1 - L # 1 /\ j + 1 = L + (j + 1 - L) /\ j = L + (j + 1 - L) - 1
      BY <1>3
    <3>2. d.from = j /\ d.to = j + 1 /\ d.locks = {}
      BY <1>3, <3>1 DEF D, Dig
    <3>3. d \in Range(w.links)
      BY <1>1, <1>5, <3>1
    <3> HIDE DEF d
    <3>4. QED
      BY <3>2, <3>3, ExitsAre
  <2>3. L + B \in L + i .. Len(w.nodes) /\ end \in 1 .. L + i - 1
    BY <1>1, <1>3, <1>5
  <2>4. QED
    BY <2>1, <2>2, <2>3, SMTT(30) DEF Returns
<1>14. ASSUME NEW x \in DOMAIN w.nodes \ {1}
       PROVE  Returns(w, x)
  <2>1. CASE x \in 1 .. L
    BY <1>3, <1>9, <2>1
  <2>2. CASE x \notin 1 .. L
    <3>1. x - L \in 1 .. B /\ x = L + (x - L)
      BY <1>3, <1>5, <2>2, SMTT(30)
    <3>2. QED
      BY <1>13, <3>1
  <2>3. QED
    BY <2>1, <2>2
<1>15. Ways(w)
  BY <1>5, <1>10, <1>11, <1>12, <1>14 DEF Ways
<1>16. QED
  BY <1>4, <1>5, <1>6, <1>15 DEF v

-----------------------------------------------------------------------------
(* The invariant *)

Stage == [require : SUBSET Range(KeyClasses), provide : Items]
Provides(s) == stages[s].provide

(* What a stage requires was provided before, and who has it in the order  *)
(* of the stages has what the stage before required.                       *)
StagesFit ==
  /\ stages \in Seq(Stage) /\ Len(stages) = Len(KeyClasses) + 1
  /\ Provides(Len(stages)) = End
  /\ \A s \in DOMAIN stages :
       /\ Provides(s) # Start
       /\ \A t \in DOMAIN stages : Provides(s) = Provides(t) => s = t
       /\ \A k \in stages[s].require : \E t \in 1 .. s - 1 : k = Provides(t)
       /\ s # 1 => \A I \in SUBSET Items :
                     InOrder(I) /\ stages[s].require \subseteq I => stages[s - 1].require \subseteq I

Shapes ==
  /\ IsMaze(maze)
  /\ stage \in 1 .. Len(stages) + 1 /\ buds \in 0 .. BudsPerStage
  /\ first \in Nodes /\ stageStart \in Nodes

(* Keys that nodes require are required by a stage so far; the new nodes   *)
(* of a stage require what it does.                                        *)
OfStages ==
  /\ KeysOf(1) = {}
  /\ \A n \in Nodes : \A k \in KeysOf(n) :
       \E t \in DOMAIN stages : t <= stage /\ k \in stages[t].require
  /\ ~ Done => \A n \in Nodes : n > first => Require \subseteq KeysOf(n)

(* What a stage that is over provides is in one node, which requires what  *)
(* the stage did, and only what the stages before provide.                 *)
Provided ==
  /\ \A n \in Nodes, s \in DOMAIN stages :
       Provides(s) \in maze.nodes[n].items => s < stage /\ stages[s].require \subseteq KeysOf(n)
  /\ \A s \in DOMAIN stages : s < stage =>
       \E n \in Nodes : /\ Provides(s) \in maze.nodes[n].items
                        /\ \A m \in Nodes : Provides(s) \in maze.nodes[m].items => m = n
                        /\ \A k \in KeysOf(n) : \E t \in 1 .. s - 1 : k = Provides(t)

IInv == StagesFit /\ Shapes /\ OfStages /\ Provided /\ Ways(maze)

-----------------------------------------------------------------------------
LEMMA KeyOf ==
  /\ Len(KeyClasses) \in Nat /\ DOMAIN KeyClasses = 1 .. Len(KeyClasses)
  /\ \A i \in 1 .. Len(KeyClasses) : KeyClasses[i] \in Range(KeyClasses)
  /\ \A k \in Range(KeyClasses) : \E i \in 1 .. Len(KeyClasses) : k = KeyClasses[i]
  /\ \A i, j \in 1 .. Len(KeyClasses) : KeyClasses[i] = KeyClasses[j] => i = j
<1>1. Len(KeyClasses) \in Nat /\ DOMAIN KeyClasses = 1 .. Len(KeyClasses)
  BY MazeAssumption
<1>2. QED
  BY <1>1, MazeAssumption DEF Range, IsInjective

LEMMA FirstStages ==
  ASSUME Init
  PROVE  StagesFit
<1> DEFINE K == Len(KeyClasses)
           P == Append(KeyClasses, End)
<1>1. PICK r \in Requirements : stages = [s \in DOMAIN r |-> [require |-> r[s], provide |-> P[s]]]
  BY DEF Init
<1>2. /\ K \in Nat /\ r \in [1 .. K + 1 -> SUBSET Range(KeyClasses)]
      /\ r[1] = {} /\ r[K + 1] = Range(KeyClasses)
      /\ \A s \in 2 .. K : r[s] = r[s - 1] \/ r[s] = {KeyClasses[s - 1]}
  BY KeyOf DEF Requirements
<1>3. /\ \A s \in 1 .. K : P[s] = KeyClasses[s]
      /\ P[K + 1] = End
  BY MazeAssumption
<1>4. /\ DOMAIN stages = 1 .. K + 1
      /\ \A s \in 1 .. K + 1 : stages[s].require = r[s] /\ Provides(s) = P[s]
                               /\ stages[s] = [require |-> r[s], provide |-> P[s]]
  BY <1>1, <1>2 DEF Provides
<1>5. \A s \in 1 .. K + 1 : s \in 1 .. K \/ s = K + 1
  BY <1>2
<1>6. ASSUME NEW s \in 1 .. K + 1
      PROVE  P[s] \in Items /\ P[s] # Start
  BY <1>3, <1>5, KeyOf, MazeAssumption DEF Items
<1> HIDE DEF P
<1>7. \A s \in 1 .. K + 1 : stages[s] \in Stage
  BY <1>2, <1>4, <1>6 DEF Stage
<1>8. stages \in Seq(Stage) /\ Len(stages) = K + 1
  <2>1. K + 1 \in Nat /\ stages \in [1 .. K + 1 -> Stage]
    BY <1>1, <1>2, <1>4, <1>7
  <2> HIDE DEF K
  <2>2. QED
    BY <2>1
<1>9. ASSUME NEW s \in 1 .. K + 1, NEW t \in 1 .. K + 1, P[s] = P[t]
      PROVE  s = t
  BY <1>3, <1>5, <1>9, KeyOf, MazeAssumption
<1>10. ASSUME NEW u \in 1 .. K + 1, NEW k \in r[u]
       PROVE  \E t \in 1 .. u - 1 : k = P[t]
  <2> DEFINE T == {s \in 1 .. K + 1 : \E x \in r[s] : ~ \E t \in 1 .. s - 1 : x = P[t]}
  <2> SUFFICES ASSUME u \in T PROVE FALSE
    BY <1>10
  <2>1. T \in SUBSET Nat /\ T # {}
    BY <1>2
  <2>2. PICK s \in T : \A j \in T : s <= j
    BY <2>1, LeastNumber, Zenon
  <2>3. PICK x \in r[s] : ~ \E t \in 1 .. s - 1 : x = P[t]
    OBVIOUS
  <2>4. s \in 1 .. K + 1 /\ s # 1
    BY <1>2, <2>3
  <2>5. CASE s = K + 1
    <3>1. PICK i \in 1 .. K : x = KeyClasses[i]
      BY <1>2, <2>3, <2>5, KeyOf
    <3>2. i \in 1 .. s - 1 /\ x = P[i]
      BY <1>2, <1>3, <2>5, <3>1
    <3>3. QED
      BY <2>3, <3>2
  <2>6. CASE s # K + 1 /\ r[s] = {KeyClasses[s - 1]}
    <3>1. s - 1 \in 1 .. s - 1 /\ s - 1 \in 1 .. K
      BY <1>2, <2>4, <2>6
    <3>2. x = P[s - 1]
      BY <1>3, <2>3, <2>6, <3>1
    <3>3. QED
      BY <2>3, <3>1, <3>2
  <2>7. CASE s # K + 1 /\ r[s] = r[s - 1]
    <3>1. s - 1 \in 1 .. K + 1 /\ ~ (s <= s - 1)
      BY <1>2, <2>4
    <3>2. s - 1 \notin T
      BY <2>2, <3>1
    <3>3. \E t \in 1 .. (s - 1) - 1 : x = P[t]
      BY <2>3, <2>7, <3>1, <3>2
    <3>4. \A t \in 1 .. (s - 1) - 1 : t \in 1 .. s - 1
      BY <2>4
    <3>5. QED
      BY <2>3, <3>3, <3>4
  <2>8. s \in 2 .. K + 1 /\ (s # K + 1 => s \in 2 .. K)
    BY <1>2, <2>4
  <2>9. QED
    BY <1>2, <2>5, <2>6, <2>7, <2>8
<1>11. ASSUME NEW s \in 1 .. K + 1, s # 1, NEW I \in SUBSET Items,
              InOrder(I), r[s] \subseteq I
       PROVE  r[s - 1] \subseteq I
  <2>1. s - 1 \in 1 .. K + 1 /\ s - 1 \in 1 .. K /\ (s = K + 1 \/ s \in 2 .. K)
    BY <1>2, <1>11
  <2>2. CASE s = K + 1
    BY <1>2, <1>11, <2>1, <2>2
  <2>3. CASE s \in 2 .. K /\ r[s] = {KeyClasses[s - 1]}
    <3>1. stages[s - 1].provide \in I
      BY <1>3, <1>4, <1>11, <2>1, <2>3 DEF Provides
    <3>2. stages[s - 1].require \subseteq I
      BY <1>4, <1>11, <2>1, <3>1 DEF InOrder
    <3>3. QED
      BY <1>4, <2>1, <3>2
  <2>4. CASE s \in 2 .. K /\ r[s] = r[s - 1]
    BY <1>11, <2>4
  <2>5. QED
    BY <1>2, <2>1, <2>2, <2>3, <2>4
<1>12. ASSUME NEW s \in DOMAIN stages
       PROVE  /\ Provides(s) # Start
              /\ \A t \in DOMAIN stages : Provides(s) = Provides(t) => s = t
              /\ \A k \in stages[s].require : \E t \in 1 .. s - 1 : k = Provides(t)
              /\ s # 1 => \A I \in SUBSET Items :
                   InOrder(I) /\ stages[s].require \subseteq I => stages[s - 1].require \subseteq I
  <2>1. s \in 1 .. K + 1 /\ \A t \in 1 .. s - 1 : t \in 1 .. K + 1
    BY <1>2, <1>4
  <2>2. Provides(s) # Start /\ \A t \in DOMAIN stages : Provides(s) = Provides(t) => s = t
    BY <1>4, <1>6, <1>9, <2>1
  <2>3. \A k \in stages[s].require : \E t \in 1 .. s - 1 : k = Provides(t)
    BY <1>4, <1>10, <2>1
  <2>4. s # 1 => s - 1 \in 1 .. K + 1
    BY <1>2, <2>1
  <2>5. QED
    BY <1>4, <1>11, <2>1, <2>2, <2>3, <2>4
<1>13. Provides(Len(stages)) = End
  <2>1. K + 1 \in 1 .. K + 1
    BY <1>2
  <2>2. QED
    BY <1>3, <1>4, <1>8, <2>1
<1>14. QED
  BY <1>8, <1>12, <1>13, Zenon DEF StagesFit

LEMMA InitKept == Init => IInv
<1> SUFFICES ASSUME Init PROVE IInv
  OBVIOUS
<1>1. StagesFit
  BY FirstStages
<1> DEFINE node == [keys |-> {}, items |-> {Start}]
<1>2. maze = [nodes |-> <<node>>, links |-> <<>>] /\ stage = 1 /\ first = 1 /\ stageStart = 1 /\ buds = 0
  BY DEF Init
<1>3. node \in Node
  BY DEF Node, Items
<1>4. maze.nodes = <<node>> /\ Nodes = {1} /\ maze.nodes[1] = node /\ maze.links = <<>>
      /\ maze.nodes \in Seq(Node) /\ maze.links \in Seq(Link) /\ Range(maze.links) = {}
  <2> HIDE DEF node
  <2>0. maze.nodes = <<node>> /\ maze.links = <<>>
    BY <1>2
  <2>1. maze.nodes = <<node>> /\ Nodes = {1} /\ maze.nodes[1] = node /\ maze.links = <<>>
    BY <2>0 DEF Nodes
  <2>2. Range(maze.links) = {}
    BY <2>1 DEF Range
  <2>3. QED
    BY <1>3, <2>1, <2>2
<1>5. node.items = {Start} /\ node.keys = {}
  OBVIOUS
<1> HIDE DEF node
<1>6. IsMaze(maze)
  BY <1>2, <1>4 DEF IsMaze
<1>7. Len(stages) \in Nat /\ BudsPerStage \in Nat
  BY <1>1, MazeAssumption DEF StagesFit, BudsPerStage
<1>8. Shapes
  BY <1>2, <1>4, <1>6, <1>7 DEF Shapes
<1>9. OfStages
  BY <1>2, <1>4, <1>5 DEF OfStages, KeysOf
<1>10. Provided
  <2>1. \A s \in DOMAIN stages : ~ (s < stage) /\ Provides(s) \notin maze.nodes[1].items
    BY <1>1, <1>2, <1>4, <1>5 DEF StagesFit
  <2>2. QED
    BY <1>4, <2>1 DEF Provided
<1>11. Ways(maze)
  BY <1>4, <1>6 DEF Ways, Nodes
<1>12. QED
  BY <1>1, <1>8, <1>9, <1>10, <1>11 DEF IInv

-----------------------------------------------------------------------------
(* Who holds, in the order of the stages, what a stage requires holds what *)
(* the ones before it required, ...                                        *)
LEMMA Before ==
  ASSUME StagesFit, NEW I \in SUBSET Items, InOrder(I), NEW s \in DOMAIN stages,
         stages[s].require \subseteq I, NEW t \in 1 .. s
  PROVE  stages[t].require \subseteq I
<1> DEFINE T == {i \in Nat : i <= s - t /\ ~ (stages[s - i].require \subseteq I)}
<1> SUFFICES ASSUME ~ (stages[t].require \subseteq I) PROVE FALSE
  OBVIOUS
<1>1. DOMAIN stages = 1 .. Len(stages) /\ Len(stages) \in Nat /\ s \in 1 .. Len(stages) /\ t \in Nat
  BY DEF StagesFit
<1>2. s - t \in Nat /\ s - (s - t) = t
  BY <1>1
<1>3. T \in SUBSET Nat /\ s - t \in T
  BY <1>2
<1>4. PICK i \in T : \A j \in T : i <= j
  BY <1>3, LeastNumber, Zenon
<1>5. i # 0
  BY <1>1, <1>4
<1>6. i - 1 \in Nat /\ i - 1 <= s - t /\ ~ (i <= i - 1) /\ s - i = (s - (i - 1)) - 1
  BY <1>1, <1>4, <1>5
<1>7. stages[s - (i - 1)].require \subseteq I
  BY <1>4, <1>6
<1>8. s - (i - 1) \in DOMAIN stages /\ s - (i - 1) # 1
  BY <1>1, <1>4, <1>5
<1>9. stages[(s - (i - 1)) - 1].require \subseteq I
  BY <1>7, <1>8 DEF StagesFit
<1>10. QED
  BY <1>4, <1>6, <1>9

(* ... and the keys that any node requires.                                *)
LEMMA OpenToNewNodes ==
  ASSUME StagesFit, Shapes, OfStages, ~ Done, NEW I \in SUBSET Items, InOrder(I),
         Require \subseteq I, NEW n \in Nodes
  PROVE  KeysOf(n) \subseteq I
<1>1. stage \in DOMAIN stages
  BY DEF StagesFit, Shapes, Done
<1> SUFFICES ASSUME NEW k \in KeysOf(n) PROVE k \in I
  OBVIOUS
<1>2. PICK t \in DOMAIN stages : t <= stage /\ k \in stages[t].require
  BY DEF OfStages
<1>3. t \in 1 .. stage
  BY <1>1, <1>2 DEF StagesFit
<1>4. stages[t].require \subseteq I
  BY <1>1, <1>3, Before DEF Require
<1>5. QED
  BY <1>2, <1>4

-----------------------------------------------------------------------------
(* The steps of a stage *)

LEMMA StagesStay ==
  ASSUME stages' = stages
  PROVE  /\ \A I : InOrder(I)' <=> InOrder(I)
         /\ StagesFit => StagesFit'
         /\ Ways(maze') => Ways(maze)'
<1>1. \A I : InOrder(I)' <=> InOrder(I)
  BY DEF InOrder
<1>2. StagesFit => StagesFit'
  BY <1>1 DEF StagesFit, Provides
<1>3. ASSUME Ways(maze') PROVE Ways(maze)'
  <2>1. \A l \in Range(maze'.links) : PassedInOrder(maze, l)'
    BY <1>1, <1>3, Zenon DEF Ways, PassedInOrder, Passes
  <2>2. \A n \in DOMAIN maze'.nodes \ {1} : Leads(maze', n) /\ Returns(maze', n)
    BY <1>3, Zenon DEF Ways
  <2>3. QED
    BY <2>1, <2>2, Zenon DEF Ways
<1>4. QED
  BY <1>1, <1>2, <1>3

(* What is dug within a stage *)
Grows(w) ==
  /\ IsMaze(w) /\ Extends(maze, w) /\ Ways(w)
  /\ \A n \in DOMAIN w.nodes \ Nodes :
       /\ w.nodes[n].items = {}
       /\ Require \subseteq KeysIn(w, n)
       /\ \A k \in KeysIn(w, n) : \E t \in DOMAIN stages : t <= stage /\ k \in stages[t].require

LEMMA GrowthKeeps ==
  ASSUME IInv, ~ Done, Grows(maze'), UNCHANGED <<stages, stage, first, stageStart>>,
         buds' \in 0 .. BudsPerStage
  PROVE  IInv'
<1>1. StagesFit /\ Shapes /\ OfStages /\ Provided
  BY DEF IInv
<1>2. /\ Nodes' = DOMAIN maze'.nodes /\ Nodes = DOMAIN maze.nodes /\ Nodes \subseteq Nodes'
      /\ \A n \in Nodes : maze'.nodes[n] = maze.nodes[n]
  BY DEF Grows, Extends, Nodes
<1>3. \A n \in Nodes : KeysOf(n)' = KeysOf(n)
  BY <1>2 DEF KeysOf
<1>4. ASSUME NEW n \in Nodes' \ Nodes
      PROVE  /\ maze'.nodes[n].items = {} /\ Require \subseteq KeysOf(n)'
             /\ \A k \in KeysOf(n)' : \E t \in DOMAIN stages : t <= stage /\ k \in stages[t].require
  BY <1>2 DEF Grows, KeysOf, KeysIn
<1>5. StagesFit' /\ Ways(maze)'
  BY <1>1, StagesStay DEF Grows
<1>6. Shapes'
  <2>1. IsMaze(maze)'
    BY DEF Grows
  <2>2. (first \in Nodes)' /\ (stageStart \in Nodes)'
    BY <1>1, <1>2 DEF Shapes
  <2>3. BudsPerStage' = BudsPerStage
    BY DEF BudsPerStage
  <2>4. QED
    BY <1>1, <2>1, <2>2, <2>3 DEF Shapes
<1>7. OfStages'
  <2>1. 1 \in Nodes
    BY <1>1 DEF Shapes, IsMaze, Nodes
  <2>2. KeysOf(1)' = {}
    BY <1>1, <1>3, <2>1 DEF OfStages
  <2>3. ASSUME NEW n \in Nodes', NEW k \in KeysOf(n)'
        PROVE  \E t \in DOMAIN stages : t <= stage /\ k \in stages[t].require
    BY <1>1, <1>3, <1>4, <2>3 DEF OfStages
  <2>4. ASSUME NEW n \in Nodes', n > first PROVE Require \subseteq KeysOf(n)'
    BY <1>1, <1>3, <1>4, <2>4 DEF OfStages
  <2>5. Require' = Require
    BY DEF Require
  <2>6. QED
    BY <2>2, <2>3, <2>4, <2>5 DEF OfStages
<1>8. Provided'
  <2>1. ASSUME NEW n \in Nodes', NEW s \in DOMAIN stages, Provides(s) \in maze'.nodes[n].items
        PROVE  n \in Nodes /\ Provides(s) \in maze.nodes[n].items
    BY <1>2, <1>4, <2>1
  <2>2. ASSUME NEW n \in Nodes', NEW s \in DOMAIN stages, Provides(s) \in maze'.nodes[n].items
        PROVE  s < stage /\ stages[s].require \subseteq KeysOf(n)'
    <3>1. n \in Nodes /\ Provides(s) \in maze.nodes[n].items
      BY <2>1, <2>2
    <3>2. QED
      BY <1>1, <1>3, <3>1 DEF Provided
  <2>3. ASSUME NEW s \in DOMAIN stages, s < stage
        PROVE  \E n \in Nodes' :
                 /\ Provides(s) \in maze'.nodes[n].items
                 /\ \A m \in Nodes' : Provides(s) \in maze'.nodes[m].items => m = n
                 /\ \A k \in KeysOf(n)' : \E t \in 1 .. s - 1 : k = Provides(t)
    <3>1. PICK n \in Nodes :
            /\ Provides(s) \in maze.nodes[n].items
            /\ \A m \in Nodes : Provides(s) \in maze.nodes[m].items => m = n
            /\ \A k \in KeysOf(n) : \E t \in 1 .. s - 1 : k = Provides(t)
      BY <1>1, <2>3, Zenon DEF Provided
    <3>2. Provides(s) \in maze'.nodes[n].items /\ n \in Nodes' /\ KeysOf(n)' = KeysOf(n)
      BY <1>2, <1>3, <3>1
    <3>3. \A m \in Nodes' : Provides(s) \in maze'.nodes[m].items => m = n
      BY <2>1, <3>1
    <3>4. QED
      BY <3>1, <3>2, <3>3
  <2>4. stages' = stages /\ stage' = stage /\ \A s : Provides(s)' = Provides(s)
    BY DEF Provides
  <2>5. QED
    BY <2>2, <2>3, <2>4 DEF Provided
<1>9. QED
  BY <1>5, <1>6, <1>7, <1>8 DEF IInv

LEMMA LocksOfStage ==
  ASSUME StagesFit, Shapes, ~ Done, NEW n
  PROVE  stage \in DOMAIN stages /\ Require \subseteq Range(KeyClasses)
         /\ Require \ KeysOf(n) \in SUBSET Range(KeyClasses)
<1>1. stage \in 1 .. Len(stages) /\ stages \in Seq(Stage)
  BY DEF StagesFit, Shapes, Done
<1>2. stages[stage] \in Stage
  BY <1>1
<1>3. QED
  BY <1>1, <1>2 DEF Require, Stage

LEMMA KeysAreKeys ==
  ASSUME IsMaze(maze), NEW n \in Nodes
  PROVE  KeysOf(n) \in SUBSET Range(KeyClasses)
<1>1. maze.nodes \in Seq(Node) /\ n \in DOMAIN maze.nodes
  BY DEF IsMaze, Nodes
<1>2. maze.nodes[n] \in Node
  BY <1>1
<1>3. QED
  BY <1>2 DEF KeysOf, Node

LEMMA BudsNumber == BudsPerStage \in Nat
BY MazeAssumption DEF BudsPerStage

(* A line from a node with the locks that the stage adds *)
LEMMA LineGrows ==
  ASSUME StagesFit, Shapes, OfStages, ~ Done, NEW n \in Nodes, NEW backs \in Seq(BOOLEAN),
         NEW w, IsMaze(w), Extends(maze, w), Ways(w),
         w.nodes = Line(maze, n, backs, Require \ KeysOf(n)).nodes
  PROVE  Grows(w)
<1> DEFINE locks == Require \ KeysOf(n)
           v == Line(maze, n, backs, locks)
<1>1. stage \in DOMAIN stages /\ Require \subseteq Range(KeyClasses) /\ IsMaze(maze)
  BY LocksOfStage DEF Shapes
<1>2. locks \in SUBSET Range(KeyClasses) /\ n \in DOMAIN maze.nodes
  BY <1>1 DEF Nodes
<1>3. IsMaze(v) /\ HasLine(maze, v, n, backs, locks)
  BY <1>1, <1>2, LineIs
<1>4. KeysIn(maze, n) = KeysOf(n)
  BY DEF KeysIn, KeysOf
<1> HIDE DEF v
<1>5. w.nodes = v.nodes
  BY DEF v
<1>6. ASSUME NEW x \in DOMAIN w.nodes \ Nodes
      PROVE  w.nodes[x] = [keys |-> KeysOf(n) \cup locks, items |-> {}]
  <2>1. /\ Len(w.nodes) = Len(maze.nodes) + Len(backs)
        /\ \A i \in 1 .. Len(backs) :
             w.nodes[Len(maze.nodes) + i] = [keys |-> KeysOf(n) \cup locks, items |-> {}]
    BY <1>3, <1>4, <1>5 DEF HasLine
  <2> HIDE DEF locks
  <2>2. /\ DOMAIN w.nodes = 1 .. Len(w.nodes) /\ Len(maze.nodes) \in Nat /\ Len(backs) \in Nat
        /\ Nodes = 1 .. Len(maze.nodes)
    BY <1>1 DEF IsMaze, Nodes
  <2>3. x - Len(maze.nodes) \in 1 .. Len(backs) /\ x = Len(maze.nodes) + (x - Len(maze.nodes))
    BY <1>6, <2>1, <2>2
  <2>4. QED
    BY <2>1, <2>3
<1>7. ASSUME NEW x \in DOMAIN w.nodes \ Nodes
      PROVE  w.nodes[x].items = {} /\ KeysIn(w, x) = KeysOf(n) \cup Require
  <2> DEFINE node == [keys |-> KeysOf(n) \cup locks, items |-> {}]
  <2>1. w.nodes[x] = node
    BY <1>6, <1>7
  <2>2. node.keys = KeysOf(n) \cup Require /\ node.items = {}
    OBVIOUS
  <2> HIDE DEF node
  <2>3. QED
    BY <2>1, <2>2 DEF KeysIn
<1>8. ASSUME NEW k \in KeysOf(n) \cup Require
      PROVE  \E t \in DOMAIN stages : t <= stage /\ k \in stages[t].require
  <2>1. CASE k \in KeysOf(n)
    BY <2>1 DEF OfStages
  <2>2. CASE k \in Require
    BY <1>1, <2>2 DEF Require, Shapes, StagesFit
  <2>3. QED
    BY <2>1, <2>2
<1>9. QED
  BY <1>7, <1>8 DEF Grows

-----------------------------------------------------------------------------
LEMMA OneBack == <<TRUE>> \in Seq(BOOLEAN) /\ \A i \in 1 .. Len(<<TRUE>>) : <<TRUE>>[i]
<1>1. <<TRUE>> \in Seq(BOOLEAN) /\ Len(<<TRUE>>) = 1
  OBVIOUS
<1>2. <<TRUE>>[1] = TRUE
  OBVIOUS
<1>3. \A i \in 1 .. 1 : i = 1
  OBVIOUS
<1>4. QED
  BY <1>1, <1>2, <1>3, Zenon

LEMMA BudKeeps ==
  ASSUME IInv, NEW n \in Nodes, Bud(n)
  PROVE  IInv'
<1>1. StagesFit /\ Shapes /\ OfStages /\ Ways(maze) /\ ~ Done /\ IsMaze(maze)
  BY DEF IInv, Bud, Shapes
<1>2. maze' = Line(maze, n, <<TRUE>>, Require \ KeysOf(n))
  BY DEF Bud, Dug
<1>3. Require \ KeysOf(n) \in SUBSET Range(KeyClasses)
  BY <1>1, LocksOfStage
<1>4. IsMaze(maze') /\ Extends(maze, maze') /\ Ways(maze')
  BY <1>1, <1>2, <1>3, OneBack, LineIs, BothWays DEF Nodes
<1>5. Grows(maze')
  BY <1>1, <1>2, <1>4, OneBack, LineGrows
<1>6. buds' \in 0 .. BudsPerStage /\ UNCHANGED <<stages, stage, first, stageStart>>
  BY <1>1, BudsNumber DEF Bud, Shapes
<1>7. QED
  BY <1>1, <1>5, <1>6, GrowthKeeps

(* A link both ways has the locks that either node has not; a one-way link *)
(* has none, and leads from a node of the stage.                           *)
LEMMA ConnectKeeps ==
  ASSUME IInv, NEW n \in Nodes, Connect(n)
  PROVE  IInv'
<1>1. StagesFit /\ Shapes /\ OfStages /\ Ways(maze) /\ ~ Done /\ IsMaze(maze)
  BY DEF IInv, Connect, Complicate, Complicating, Shapes
<1>2. PICK other \in FewestLinks :
        \/ maze' = Linked(maze, n, other, TRUE, LoopLocks(n, other))
        \/ maze' = Linked(maze, n, other, FALSE, {})
  BY DEF Connect
<1>3. other \in Nodes /\ n > first
  BY DEF FewestLinks, Connect, Complicate
<1>4. KeysOf(n) \in SUBSET Range(KeyClasses) /\ KeysOf(other) \in SUBSET Range(KeyClasses)
      /\ KeysIn(maze, n) = KeysOf(n) /\ KeysIn(maze, other) = KeysOf(other)
  BY <1>1, <1>3, KeysAreKeys DEF KeysIn, KeysOf
<1>5. PICK back \in BOOLEAN, locks \in SUBSET Range(KeyClasses) :
        /\ maze' = Linked(maze, n, other, back, locks)
        /\ Passes(maze, n, other, locks) /\ (back => Passes(maze, other, n, locks))
  <2>1. CASE maze' = Linked(maze, n, other, TRUE, LoopLocks(n, other))
    <3>1. LoopLocks(n, other) \in SUBSET Range(KeyClasses)
      BY <1>4 DEF LoopLocks
    <3>2. Passes(maze, n, other, LoopLocks(n, other)) /\ Passes(maze, other, n, LoopLocks(n, other))
      BY <1>4 DEF LoopLocks, Passes
    <3>3. QED
      BY <2>1, <3>1, <3>2
  <2>2. CASE maze' = Linked(maze, n, other, FALSE, {})
    <3>1. Require \subseteq KeysOf(n)
      BY <1>1, <1>3 DEF OfStages
    <3>2. ASSUME NEW I \in SUBSET Items, InOrder(I), KeysOf(n) \subseteq I
          PROVE  KeysOf(other) \subseteq I
      BY <1>1, <1>3, <3>1, <3>2, OpenToNewNodes
    <3>3. Passes(maze, n, other, {})
      BY <1>4, <3>2 DEF Passes
    <3>4. QED
      BY <2>2, <3>3
  <2>3. QED
    BY <1>2, <2>1, <2>2
<1>6. IsMaze(maze') /\ Extends(maze, maze') /\ HasLink(maze, maze', n, other, back, locks)
  BY <1>1, <1>3, <1>5, OneMoreLink DEF Nodes
<1>7. Ways(maze')
  <2>1. /\ \A x \in DOMAIN maze.nodes \ {1} : Leads(maze', x) /\ Returns(maze', x)
        /\ \A l \in Range(maze.links) : PassedInOrder(maze', l)
    BY <1>1, <1>6, WaysStay
  <2> DEFINE l == [from |-> n, to |-> other, back |-> back, locks |-> locks]
  <2>2. maze'.nodes = maze.nodes /\ Range(maze'.links) = Range(maze.links) \cup {l}
    BY <1>6 DEF HasLink
  <2>3. l.from = n /\ l.to = other /\ l.back = back /\ l.locks = locks
    OBVIOUS
  <2> HIDE DEF l
  <2>4. \A x : KeysIn(maze', x) = KeysIn(maze, x)
    BY <2>2 DEF KeysIn
  <2>5. PassedInOrder(maze', l)
    BY <1>5, <2>3, <2>4, ZenonT(40) DEF PassedInOrder, Passes
  <2>6. QED
    BY <2>1, <2>2, <2>5 DEF Ways
<1>8. DOMAIN maze'.nodes = Nodes
  BY <1>6 DEF HasLink, Nodes
<1>9. Grows(maze')
  BY <1>6, <1>7, <1>8 DEF Grows
<1>10. buds' \in 0 .. BudsPerStage /\ UNCHANGED <<stages, stage, first, stageStart>>
  BY <1>1 DEF Connect, Complicate, Shapes
<1>11. QED
  BY <1>1, <1>9, <1>10, GrowthKeeps

LEMMA ExtendKeeps ==
  ASSUME IInv, NEW n \in Nodes, Extend(n)
  PROVE  IInv'
<1>1. StagesFit /\ Shapes /\ OfStages /\ Ways(maze) /\ ~ Done /\ IsMaze(maze)
  BY DEF IInv, Extend, Complicate, Complicating, Shapes
<1> DEFINE locks == Require \ KeysOf(n)
<1>2. locks \in SUBSET Range(KeyClasses)
  BY <1>1, LocksOfStage
<1>3. PICK length \in 1 .. 3 :
        \/ maze' = DigPath(maze, n, length, locks)
        \/ \E backs \in [1 .. length -> BOOLEAN],
              end \in {m \in Nodes : KeysOf(m) \subseteq KeysOf(n)} :
             maze' = DigOneWayLoop(maze, n, backs, end, locks)
  BY DEF Extend
<1> HIDE DEF locks
<1>4. Grows(maze')
  <2>1. CASE maze' = DigPath(maze, n, length, locks)
    <3> DEFINE K == (length + 1) \div 2
               backs == [i \in 1 .. K |-> TRUE]
    <3>1. K \in Nat
      OBVIOUS
    <3> HIDE DEF K
    <3>2. backs \in Seq(BOOLEAN) /\ Len(backs) = K /\ \A i \in 1 .. Len(backs) : backs[i]
      BY <3>1
    <3>3. maze' = Line(maze, n, backs, locks)
      BY <2>1 DEF DigPath, K
    <3> HIDE DEF backs
    <3>4. IsMaze(maze') /\ Extends(maze, maze') /\ Ways(maze')
      BY <1>1, <1>2, <3>2, <3>3, LineIs, BothWays DEF Nodes
    <3>5. QED
      BY <1>1, <3>2, <3>3, <3>4, LineGrows DEF locks
  <2>2. CASE ~ (maze' = DigPath(maze, n, length, locks))
    <3>1. PICK backs \in [1 .. length -> BOOLEAN],
               end \in {m \in Nodes : KeysOf(m) \subseteq KeysOf(n)} :
            maze' = DigOneWayLoop(maze, n, backs, end, locks)
      BY <1>3, <2>2
    <3>2. backs \in Seq(BOOLEAN) /\ Len(backs) # 0
      <4>1. length \in Nat /\ length # 0
        OBVIOUS
      <4>2. QED
        BY <4>1
    <3>3. end \in DOMAIN maze.nodes /\ n \in DOMAIN maze.nodes /\ KeysIn(maze, end) \subseteq KeysIn(maze, n)
      BY DEF Nodes, KeysIn, KeysOf
    <3>4. /\ IsMaze(maze') /\ Extends(maze, maze') /\ Ways(maze')
          /\ maze'.nodes = Line(maze, n, backs, locks).nodes
      BY <1>1, <1>2, <3>1, <3>2, <3>3, LoopWays
    <3>5. QED
      BY <1>1, <3>2, <3>4, LineGrows DEF locks
  <2>3. QED
    BY <2>1, <2>2
<1>5. buds' \in 0 .. BudsPerStage /\ UNCHANGED <<stages, stage, first, stageStart>>
  BY <1>1 DEF Extend, Complicate, Shapes
<1>6. QED
  BY <1>1, <1>4, <1>5, GrowthKeeps

-----------------------------------------------------------------------------
(* The end of a stage *)

(* Maze w is m with the item at node x. *)
HasItem(m, w, x, item) ==
  /\ w.links = m.links
  /\ DOMAIN w.nodes = DOMAIN m.nodes /\ Len(w.nodes) = Len(m.nodes)
  /\ w.nodes[x].items = {item}
  /\ \A n \in DOMAIN m.nodes : KeysIn(w, n) = KeysIn(m, n)
  /\ \A n \in DOMAIN m.nodes \ {x} : w.nodes[n].items = m.nodes[n].items

LEMMA ItemPut ==
  ASSUME NEW m, IsMaze(m), NEW x \in DOMAIN m.nodes, NEW item \in Items,
         NEW w, w = [m EXCEPT !.nodes[x].items = {item}]
  PROVE  IsMaze(w) /\ HasItem(m, w, x, item)
<1> DEFINE room == [keys |-> KeysIn(m, x), items |-> {item}]
<1>1. m \in [nodes : Seq(Node), links : Seq(Link)] /\ m.nodes \in Seq(Node) /\ m.nodes[x] \in Node
  BY DEF IsMaze
<1>2. room \in Node /\ room.keys = KeysIn(m, x) /\ room.items = {item}
  BY <1>1 DEF Node, KeysIn
<1>3. room = [m.nodes[x] EXCEPT !.items = {item}]
  <2> DEFINE old == m.nodes[x]
  <2>1. old \in [keys : SUBSET Range(KeyClasses), items : SUBSET Items]
    BY <1>1 DEF Node
  <2> HIDE DEF old
  <2>2. [keys |-> old.keys, items |-> {item}] = [old EXCEPT !.items = {item}]
    BY <2>1
  <2>3. QED
    BY <2>2 DEF KeysIn, old
<1> HIDE DEF room
<1>4. w = [nodes |-> [m.nodes EXCEPT ![x] = room], links |-> m.links]
  BY <1>1, <1>3
<1>5. w.links = m.links /\ w.nodes = [m.nodes EXCEPT ![x] = room]
  BY <1>4
<1>6. w.nodes \in Seq(Node) /\ DOMAIN w.nodes = DOMAIN m.nodes /\ Len(w.nodes) = Len(m.nodes)
  <2> DEFINE f == m.nodes
             K == Len(m.nodes)
  <2>1. K \in Nat /\ f \in [1 .. K -> Node] /\ x \in 1 .. K
    BY <1>1
  <2> HIDE DEF f, K
  <2>2. [f EXCEPT ![x] = room] \in [1 .. K -> Node]
    BY <1>2, <2>1
  <2>3. w.nodes \in [1 .. K -> Node] /\ DOMAIN m.nodes = 1 .. K
    BY <1>5, <2>1, <2>2 DEF f
  <2>4. w.nodes \in Seq(Node) /\ DOMAIN w.nodes = 1 .. K /\ Len(w.nodes) = K
    <3> DEFINE g == w.nodes
    <3>1. g \in [1 .. K -> Node]
      BY <2>3
    <3> HIDE DEF g
    <3>2. g \in Seq(Node) /\ DOMAIN g = 1 .. K /\ Len(g) = K
      BY <2>1, <3>1
    <3>3. QED
      BY <3>2 DEF g
  <2>5. QED
    BY <2>3, <2>4 DEF K
<1>7. \A n \in DOMAIN m.nodes : w.nodes[n] = IF n = x THEN room ELSE m.nodes[n]
  BY <1>1, <1>5
<1>8. w.nodes # <<>>
  BY <1>1, <1>6
<1>9. IsMaze(w)
  BY <1>1, <1>4, <1>5, <1>6, <1>8 DEF IsMaze
<1>10. \A n \in DOMAIN m.nodes : KeysIn(w, n) = KeysIn(m, n)
  BY <1>2, <1>7 DEF KeysIn
<1>11. w.nodes[x].items = {item} /\ \A n \in DOMAIN m.nodes \ {x} : w.nodes[n].items = m.nodes[n].items
  BY <1>2, <1>7
<1>12. QED
  BY <1>5, <1>6, <1>9, <1>10, <1>11, Zenon DEF HasItem

(* What lies where does not lead anywhere. *)
LEMMA SameWays ==
  ASSUME NEW m, IsMaze(m), Ways(m), NEW w, IsMaze(w), w.links = m.links,
         DOMAIN w.nodes = DOMAIN m.nodes, Len(w.nodes) = Len(m.nodes),
         \A n \in DOMAIN m.nodes : KeysIn(w, n) = KeysIn(m, n)
  PROVE  Ways(w)
<1>1. DOMAIN m.nodes = 1 .. Len(m.nodes) /\ Len(m.nodes) \in Nat
  BY DEF IsMaze
<1>2. \A n, I : Exits(w, n, I) = Exits(m, n, I)
  BY DEF Exits
<1>3. ASSUME NEW n \in DOMAIN m.nodes \ {1}
      PROVE  Leads(w, n) /\ Returns(w, n)
  <2>1. PICK p \in 1 .. n - 1 :
          n \in Exits(m, p, KeysIn(m, n)) /\ KeysIn(m, p) \subseteq KeysIn(m, n)
    BY DEF Ways, Leads
  <2>2. p \in DOMAIN m.nodes
    BY <1>1, <2>1
  <2>3. PICK e \in n .. Len(m.nodes), h \in 1 .. n - 1 :
          /\ \A i \in n .. e - 1 : i + 1 \in Exits(m, i, KeysIn(m, i))
          /\ h \in Exits(m, e, KeysIn(m, e))
    BY DEF Ways, Returns
  <2>4. e \in DOMAIN m.nodes /\ \A i \in n .. e - 1 : i \in DOMAIN m.nodes
    BY <1>1, <2>3
  <2>5. Leads(w, n)
    BY <1>2, <2>1, <2>2 DEF Leads
  <2>6. /\ \A i \in n .. e - 1 : i + 1 \in Exits(w, i, KeysIn(w, i))
        /\ h \in Exits(w, e, KeysIn(w, e))
    BY <1>2, <2>3, <2>4
  <2>7. QED
    BY <2>3, <2>5, <2>6 DEF Returns
<1>4. ASSUME NEW l \in Range(m.links)
      PROVE  PassedInOrder(w, l)
  <2>1. KeysIn(w, l.from) = KeysIn(m, l.from) /\ KeysIn(w, l.to) = KeysIn(m, l.to)
    BY DEF IsMaze
  <2>2. PassedInOrder(m, l)
    BY DEF Ways
  <2>3. QED
    BY <2>1, <2>2, Zenon DEF PassedInOrder, Passes
<1>5. QED
  BY <1>3, <1>4 DEF Ways

LEMMA EndKeeps ==
  ASSUME IInv, EndStage
  PROVE  IInv'
<1>1. StagesFit /\ Shapes /\ OfStages /\ Provided /\ Ways(maze) /\ ~ Done /\ IsMaze(maze)
  BY DEF IInv, EndStage, Shapes
<1> DEFINE item == Provides(stage)
           L == Len(maze.nodes)
<1>2. /\ stage' = stage + 1 /\ stages' = stages /\ buds' = 0
      /\ first' = Len(maze'.nodes) /\ stageStart' = Len(maze'.nodes)
  BY DEF EndStage
<1>3. stage \in DOMAIN stages /\ stage \in 1 .. Len(stages) /\ Len(stages) \in Nat /\ DOMAIN stages = 1 .. Len(stages)
      /\ item \in Items
  <2>1. stage \in DOMAIN stages /\ stages \in Seq(Stage)
    BY <1>1, LocksOfStage DEF StagesFit
  <2>2. stages[stage] \in Stage
    BY <2>1
  <2>3. QED
    BY <2>1, <2>2 DEF Provides, Stage
<1>4. PICK n \in FarNodes :
        maze' = [Line(maze, n, <<TRUE>>, Require \ KeysOf(n)) EXCEPT
                   !.nodes[Len(Line(maze, n, <<TRUE>>, Require \ KeysOf(n)).nodes)].items = {item}]
  BY Zenon DEF EndStage, EndLocks, Dug, Provides
<1>5. n \in Nodes /\ Nodes = 1 .. L /\ L \in Nat /\ L # 0
  BY <1>1 DEF FarNodes, IsMaze, Nodes
<1>6. PICK z \in Nat : z = L + 1
  BY <1>5
<1> DEFINE locks == Require \ KeysOf(n)
           dug == Line(maze, n, <<TRUE>>, locks)
           keys == KeysOf(n) \cup Require
<1>7. locks \in SUBSET Range(KeyClasses)
  BY <1>1, LocksOfStage
<1>8. IsMaze(dug) /\ Extends(maze, dug) /\ HasLine(maze, dug, n, <<TRUE>>, locks) /\ Ways(dug)
  BY <1>1, <1>5, <1>7, OneBack, LineIs, BothWays DEF Nodes
<1>9. maze' = [dug EXCEPT !.nodes[Len(dug.nodes)].items = {item}]
  BY <1>4
<1>10. KeysOf(n) \cup locks = keys
  OBVIOUS
<1> HIDE DEF locks, dug, item
<1>11. Len(dug.nodes) = z /\ KeysIn(dug, z) = keys /\ DOMAIN dug.nodes = 1 .. z
  <2> DEFINE node == [keys |-> KeysIn(maze, n) \cup locks, items |-> {}]
  <2>1. Len(dug.nodes) = L + Len(<<TRUE>>) /\ \A i \in 1 .. Len(<<TRUE>>) : dug.nodes[L + i] = node
    BY <1>8, Zenon DEF HasLine
  <2>2. Len(<<TRUE>>) = 1 /\ 1 \in 1 .. 1
    OBVIOUS
  <2>3. node.keys = keys
    BY <1>10 DEF KeysIn, KeysOf
  <2> HIDE DEF node
  <2>4. dug.nodes[L + 1] = node /\ Len(dug.nodes) = L + 1
    BY <2>1, <2>2, Zenon
  <2>5. QED
    BY <1>8, <1>6, <2>3, <2>4 DEF KeysIn, IsMaze
<1> HIDE DEF keys
<1>12. IsMaze(maze') /\ HasItem(dug, maze', z, item)
  <2>1. z \in DOMAIN dug.nodes /\ maze' = [dug EXCEPT !.nodes[z].items = {item}]
    BY <1>9, <1>11, <1>6
  <2>2. QED
    BY <1>3, <1>8, <2>1, ItemPut
<1>13. /\ Nodes' = 1 .. z /\ KeysOf(z)' = keys /\ maze'.nodes[z].items = {item}
       /\ \A x \in Nodes : KeysOf(x)' = KeysOf(x) /\ maze'.nodes[x].items = maze.nodes[x].items
  <2>0. /\ DOMAIN maze'.nodes = DOMAIN dug.nodes /\ maze'.nodes[z].items = {item}
        /\ \A x \in DOMAIN dug.nodes : KeysIn(maze', x) = KeysIn(dug, x)
        /\ \A x \in DOMAIN dug.nodes \ {z} : maze'.nodes[x].items = dug.nodes[x].items
    BY <1>12, Zenon DEF HasItem
  <2>1. Nodes' = 1 .. z /\ z \in 1 .. z
    BY <1>11, <1>6, <2>0 DEF Nodes
  <2>2. ASSUME NEW x \in Nodes
        PROVE  x \in DOMAIN dug.nodes /\ dug.nodes[x] = maze.nodes[x] /\ x # z
    BY <1>5, <1>8, <1>6 DEF Extends, Nodes
  <2>3. ASSUME NEW x \in Nodes
        PROVE  KeysOf(x)' = KeysOf(x) /\ maze'.nodes[x].items = maze.nodes[x].items
    BY <2>0, <2>2 DEF KeysOf, KeysIn
  <2>4. KeysOf(z)' = keys
    BY <1>11, <2>0, <2>1 DEF KeysOf, KeysIn
  <2>5. QED
    BY <2>0, <2>1, <2>3, <2>4
<1>14. \A x \in Nodes' : x \in Nodes \/ x = z
  BY <1>5, <1>13, <1>6
<1>15. Len(maze'.nodes) = z /\ z \in Nodes'
  BY <1>11, <1>12, <1>13, <1>6 DEF HasItem
<1>16. StagesFit' /\ Ways(maze)'
  <2>1. /\ maze'.links = dug.links /\ DOMAIN maze'.nodes = DOMAIN dug.nodes
        /\ Len(maze'.nodes) = Len(dug.nodes)
        /\ \A x \in DOMAIN dug.nodes : KeysIn(maze', x) = KeysIn(dug, x)
    BY <1>12, Zenon DEF HasItem
  <2>2. Ways(maze')
    BY <1>8, <1>12, <2>1, SameWays
  <2>3. QED
    BY <1>1, <1>2, <2>2, StagesStay
<1>17. Shapes'
  <2>1. IsMaze(maze)' /\ BudsPerStage' = BudsPerStage /\ BudsPerStage \in Nat
    BY <1>12, BudsNumber DEF BudsPerStage
  <2>2. (first \in Nodes)' /\ (stageStart \in Nodes)'
    BY <1>2, <1>13, <1>15
  <2>3. QED
    BY <1>2, <1>3, <2>1, <2>2 DEF Shapes
<1>18. ASSUME NEW k \in keys
       PROVE  /\ \E t \in DOMAIN stages : t <= stage /\ k \in stages[t].require
              /\ \E t \in 1 .. stage - 1 : k = Provides(t)
  <2>1. PICK t \in DOMAIN stages : t <= stage /\ k \in stages[t].require
    <3>1. CASE k \in KeysOf(n)
      BY <1>1, <1>5, <3>1 DEF OfStages
    <3>2. CASE k \in Require
      BY <1>3, <3>2 DEF Require
    <3>3. QED
      BY <3>1, <3>2 DEF keys
  <2>2. PICK u \in 1 .. t - 1 : k = Provides(u)
    BY <1>1, <2>1 DEF StagesFit
  <2>3. u \in 1 .. stage - 1
    BY <1>3, <2>1, <2>2
  <2>4. QED
    BY <2>1, <2>2, <2>3
<1>19. OfStages'
  <2>1. KeysOf(1)' = {}
    BY <1>1, <1>5, <1>13 DEF OfStages
  <2>2. ASSUME NEW x \in Nodes', NEW k \in KeysOf(x)'
        PROVE  \E t \in DOMAIN stages : t <= stage + 1 /\ k \in stages[t].require
    <3>1. \E t \in DOMAIN stages : t <= stage /\ k \in stages[t].require
      <4>1. CASE x \in Nodes
        <5>1. k \in KeysOf(x)
          BY <1>13, <2>2, <4>1
        <5>2. QED
          BY <1>1, <4>1, <5>1 DEF OfStages
      <4>2. CASE x = z
        BY <1>13, <1>18, <2>2, <4>2
      <4>3. QED
        BY <1>14, <4>1, <4>2
    <3>2. QED
      BY <1>3, <3>1
  <2>3. \A x \in Nodes' : ~ (x > first')
    BY <1>2, <1>13, <1>6, <1>15
  <2>4. QED
    BY <1>2, <2>1, <2>2, <2>3 DEF OfStages
<1>20. Provided'
  <2>1. \A s : Provides(s)' = Provides(s)
    BY <1>2 DEF Provides
  <2>2. ASSUME NEW s \in DOMAIN stages, Provides(s) \in maze'.nodes[z].items
        PROVE  s = stage
    <3>1. Provides(s) = Provides(stage)
      BY <1>13, <2>2 DEF item
    <3>2. QED
      BY <1>1, <1>3, <3>1 DEF StagesFit
  <2>3. stages[stage].require \subseteq keys
    BY DEF keys, Require
  <2>4. ASSUME NEW x \in Nodes', NEW s \in DOMAIN stages, Provides(s) \in maze'.nodes[x].items
        PROVE  s < stage + 1 /\ stages[s].require \subseteq KeysOf(x)'
    <3>1. CASE x \in Nodes
      <4>1. s < stage /\ stages[s].require \subseteq KeysOf(x)
        BY <1>1, <1>13, <2>4, <3>1 DEF Provided
      <4>2. QED
        BY <1>3, <1>13, <3>1, <4>1
    <3>2. CASE x = z
      <4>1. s = stage
        BY <2>2, <2>4, <3>2
      <4>2. KeysOf(x)' = keys
        BY <1>13, <3>2
      <4>3. stages[s].require \subseteq KeysOf(x)'
        BY <2>3, <4>1, <4>2
      <4>4. QED
        BY <1>3, <4>1, <4>3
    <3>3. QED
      BY <1>14, <3>1, <3>2
  <2>5. ASSUME NEW s \in DOMAIN stages, s < stage
        PROVE  \E x \in Nodes' :
                 /\ Provides(s) \in maze'.nodes[x].items
                 /\ \A y \in Nodes' : Provides(s) \in maze'.nodes[y].items => y = x
                 /\ \A k \in KeysOf(x)' : \E t \in 1 .. s - 1 : k = Provides(t)
    <3>1. PICK x \in Nodes :
            /\ Provides(s) \in maze.nodes[x].items
            /\ \A y \in Nodes : Provides(s) \in maze.nodes[y].items => y = x
            /\ \A k \in KeysOf(x) : \E t \in 1 .. s - 1 : k = Provides(t)
      BY <1>1, <2>5, Zenon DEF Provided
    <3>2. x \in Nodes' /\ Provides(s) \in maze'.nodes[x].items /\ KeysOf(x)' = KeysOf(x)
      BY <1>13, <1>14, <1>6, <1>5, <3>1
    <3>3. s # stage
      BY <1>3, <2>5
    <3>4. \A y \in Nodes' : Provides(s) \in maze'.nodes[y].items => y = x
      BY <1>13, <1>14, <2>2, <3>1, <3>3
    <3>5. QED
      BY <3>1, <3>2, <3>4
  <2>6. /\ z \in Nodes' /\ Provides(stage) \in maze'.nodes[z].items
        /\ \A y \in Nodes' : Provides(stage) \in maze'.nodes[y].items => y = z
        /\ \A k \in KeysOf(z)' : \E t \in 1 .. stage - 1 : k = Provides(t)
    <3>1. z \in Nodes' /\ Provides(stage) \in maze'.nodes[z].items
      BY <1>13, <1>15 DEF item
    <3>2. ASSUME NEW y \in Nodes, Provides(stage) \in maze'.nodes[y].items
          PROVE  FALSE
      <4>1. stage < stage
        BY <1>1, <1>3, <1>13, <3>2 DEF Provided
      <4>2. QED
        BY <1>3, <4>1
    <3>3. QED
      BY <1>13, <1>14, <1>18, <3>1, <3>2
  <2>7. ASSUME NEW s \in DOMAIN stages, s < stage + 1
        PROVE  \E x \in Nodes' :
                 /\ Provides(s) \in maze'.nodes[x].items
                 /\ \A y \in Nodes' : Provides(s) \in maze'.nodes[y].items => y = x
                 /\ \A k \in KeysOf(x)' : \E t \in 1 .. s - 1 : k = Provides(t)
    <3>1. s < stage \/ s = stage
      BY <1>3, <2>7
    <3>2. CASE s < stage
      BY <2>5, <3>2, Zenon
    <3>3. CASE s = stage
      BY <2>6, <3>3, Zenon
    <3>4. QED
      BY <3>1, <3>2, <3>3
  <2>8. \A x \in Nodes', s \in DOMAIN stages : Provides(s) \in maze'.nodes[x].items =>
          s < stage + 1 /\ stages[s].require \subseteq KeysOf(x)'
    BY <2>4
  <2>9. stages' = stages /\ stage' = stage + 1
    BY <1>2
  <2>10. \A x \in Nodes', s \in DOMAIN stages' : Provides(s)' \in maze'.nodes[x].items =>
           s < stage' /\ stages'[s].require \subseteq KeysOf(x)'
    BY <2>1, <2>8, <2>9
  <2>11. ASSUME NEW s \in DOMAIN stages', s < stage'
         PROVE  \E x \in Nodes' :
                  /\ Provides(s)' \in maze'.nodes[x].items
                  /\ \A y \in Nodes' : Provides(s)' \in maze'.nodes[y].items => y = x
                  /\ \A k \in KeysOf(x)' : \E t \in 1 .. s - 1 : k = Provides(t)'
    <3>1. PICK x \in Nodes' :
            /\ Provides(s) \in maze'.nodes[x].items
            /\ \A y \in Nodes' : Provides(s) \in maze'.nodes[y].items => y = x
            /\ \A k \in KeysOf(x)' : \E t \in 1 .. s - 1 : k = Provides(t)
      BY <2>7, <2>9, <2>11
    <3>2. QED
      BY <2>1, <3>1
  <2>12. QED
    BY <2>10, <2>11, Zenon DEF Provided
<1>21. QED
  BY <1>16, <1>17, <1>19, <1>20 DEF IInv

-----------------------------------------------------------------------------
LEMMA StepKept == IInv /\ [Next]_vars => IInv'
<1> SUFFICES ASSUME IInv, [Next]_vars PROVE IInv'
  OBVIOUS
<1>1. CASE EndStage
  BY <1>1, EndKeeps
<1>2. CASE \E n \in Nodes : Bud(n)
  BY <1>2, BudKeeps
<1>3. CASE \E n \in Nodes : Connect(n)
  BY <1>3, ConnectKeeps
<1>4. CASE \E n \in Nodes : Extend(n)
  BY <1>4, ExtendKeeps
<1>5. CASE UNCHANGED vars
  <2>1. UNCHANGED <<maze, stages, stage, first, stageStart, buds>>
    BY <1>5 DEF vars
  <2>2. StagesFit' /\ Ways(maze)'
    BY <2>1, StagesStay DEF IInv
  <2>3. Nodes' = Nodes /\ BudsPerStage' = BudsPerStage /\ Require' = Require /\ Done' = Done
        /\ \A n : KeysOf(n)' = KeysOf(n) /\ Provides(n)' = Provides(n)
    BY <2>1 DEF Nodes, BudsPerStage, Require, Done, KeysOf, Provides
  <2>4. Shapes' /\ OfStages'
    BY <2>1, <2>3 DEF IInv, Shapes, OfStages
  <2>5. Provided'
    BY <2>1, <2>3 DEF IInv, Provided
  <2>6. QED
    BY <2>2, <2>4, <2>5 DEF IInv
<1>6. QED
  BY <1>1, <1>2, <1>3, <1>4, <1>5 DEF Next

(* All that the generator makes is in order. *)
THEOREM Invariance == Spec => []IInv
BY InitKept, StepKept, PTL DEF Spec

-----------------------------------------------------------------------------
(* Keys lie in one place. *)

LEMMA Typed == IInv => TypeOK
<1> SUFFICES ASSUME IInv PROVE TypeOK
  OBVIOUS
<1>1. StagesFit /\ Shapes /\ Provided /\ IsMaze(maze)
  BY DEF IInv, Shapes
<1>2. \A n \in Nodes : KeysOf(n) \subseteq Range(KeyClasses)
  BY <1>1, KeysAreKeys
<1>3. ASSUME NEW l \in Range(maze.links)
      PROVE  {l.from, l.to} \subseteq Nodes /\ l.locks \subseteq Range(KeyClasses)
  <2>1. maze.links \in Seq(Link) /\ {l.from, l.to} \subseteq Nodes
    BY <1>1 DEF IsMaze, Nodes
  <2>2. l \in Link
    BY <2>1 DEF Range
  <2>3. QED
    BY <2>1, <2>2 DEF Link
<1>4. Len(stages) \in Nat /\ DOMAIN stages = 1 .. Len(stages) /\ stage \in Nat
  BY <1>1 DEF StagesFit, Shapes
<1>5. ASSUME NEW s \in DOMAIN stages
      PROVE  Cardinality({n \in Nodes : stages[s].provide \in maze.nodes[n].items}) = IF s < stage THEN 1 ELSE 0
  <2> DEFINE N == {n \in Nodes : stages[s].provide \in maze.nodes[n].items}
  <2>1. CASE s < stage
    <3>1. PICK n \in Nodes : /\ Provides(s) \in maze.nodes[n].items
                             /\ \A m \in Nodes : Provides(s) \in maze.nodes[m].items => m = n
      BY <1>1, <2>1, Zenon DEF Provided
    <3>2. N = {n}
      BY <3>1 DEF Provides
    <3>3. Cardinality(N) = 1
      BY <3>2, FS_Singleton
    <3>4. QED
      BY <2>1, <3>3
  <2>2. CASE ~ (s < stage)
    <3>1. N = {}
      BY <1>1, <2>2 DEF Provided, Provides
    <3>2. Cardinality(N) = 0
      BY <3>1, FS_EmptySet
    <3>3. QED
      BY <2>2, <3>2
  <2>3. QED
    BY <2>1, <2>2
<1>6. QED
  BY <1>1, <1>2, <1>3, <1>5 DEF TypeOK, Shapes

-----------------------------------------------------------------------------
(* Players *)

LEMMA FinitePlayers ==
  ASSUME IsMaze(maze)
  PROVE  IsFiniteSet(AnyPlayer)
<1>1. Len(maze.nodes) \in Nat /\ Nodes = 1 .. Len(maze.nodes)
  BY DEF IsMaze, Nodes
<1>2. IsFiniteSet(Nodes)
  BY <1>1, FS_Interval
<1>3. IsFiniteSet(Range(KeyClasses))
  <2>1. KeyClasses \in Surjection(1 .. Len(KeyClasses), Range(KeyClasses))
    <3>1. KeyClasses \in [1 .. Len(KeyClasses) -> STRING]
      BY MazeAssumption
    <3>2. KeyClasses \in [1 .. Len(KeyClasses) -> Range(KeyClasses)]
      BY <3>1, KeyOf
    <3>3. QED
      BY <3>2, KeyOf DEF Surjection
  <2>2. IsFiniteSet(1 .. Len(KeyClasses))
    BY KeyOf, FS_Interval
  <2>3. QED
    BY <2>1, <2>2, FS_Surjection
<1>4. IsFiniteSet({Start, End})
  <2>1. {Start, End} = {Start} \cup {End}
    OBVIOUS
  <2>2. IsFiniteSet({Start}) /\ IsFiniteSet({End})
    BY FS_Singleton
  <2>3. QED
    BY <2>1, <2>2, FS_Union
<1>5. IsFiniteSet(Items)
  BY <1>3, <1>4, FS_Union DEF Items
<1>6. IsFiniteSet(SUBSET Items)
  BY <1>5, FS_SUBSET
<1>7. QED
  BY <1>2, <1>6, FS_Product DEF AnyPlayer

LEMMA ItemsOfNode ==
  ASSUME IsMaze(maze), NEW n \in Nodes
  PROVE  maze.nodes[n].items \subseteq Items
<1>1. maze.nodes \in Seq(Node) /\ n \in DOMAIN maze.nodes
  BY DEF IsMaze, Nodes
<1>2. maze.nodes[n] \in Node
  BY <1>1
<1>3. QED
  BY <1>2 DEF Node

LEMMA MovesAre ==
  ASSUME IsMaze(maze), NEW p \in AnyPlayer
  PROVE  /\ Moves(p) \subseteq AnyPlayer
         /\ \A q \in Moves(p) : q[1] \in Exits(maze, p[1], p[2]) /\ q[1] \in Nodes
                                /\ q[2] = p[2] \cup maze.nodes[q[1]].items
         /\ \A n \in Exits(maze, p[1], p[2]) :
              \E q \in Moves(p) : q[1] = n /\ q[2] = p[2] \cup maze.nodes[n].items
<1>1. p[2] \subseteq Items
  BY DEF AnyPlayer
<1>2. ASSUME NEW n \in Exits(maze, p[1], p[2])
      PROVE  /\ n \in Nodes /\ Arrived(n, p[2]) \in Moves(p) /\ Arrived(n, p[2]) \in AnyPlayer
             /\ Arrived(n, p[2])[1] = n /\ Arrived(n, p[2])[2] = p[2] \cup maze.nodes[n].items
  <2>1. n \in Nodes
    BY ExitsInMaze DEF Nodes
  <2>2. p[2] \cup maze.nodes[n].items \in SUBSET Items
    BY <1>1, <2>1, ItemsOfNode
  <2>3. QED
    BY <2>1, <2>2 DEF Arrived, Moves, AnyPlayer
<1>3. \A q \in Moves(p) : \E n \in Exits(maze, p[1], p[2]) : q = Arrived(n, p[2])
  BY DEF Moves
<1>4. QED
  BY <1>2, <1>3

(* Who gets somewhere holds what is there and the keys of the node, and in *)
(* the order of the stages.                                                *)
Good(p) ==
  /\ p \in AnyPlayer /\ KeysOf(p[1]) \subseteq p[2] /\ InOrder(p[2])
  /\ maze.nodes[p[1]].items \subseteq p[2]

LEMMA GoodFirst ==
  ASSUME IInv
  PROVE  Good(Arrived(1, {}))
<1>1. IsMaze(maze) /\ Provided /\ KeysOf(1) = {}
  BY DEF IInv, Shapes, OfStages
<1>2. 1 \in Nodes
  BY <1>1 DEF IsMaze, Nodes
<1> DEFINE p == Arrived(1, {})
<1>3. p = <<1, maze.nodes[1].items>> /\ maze.nodes[1].items \in SUBSET Items
  BY <1>1, <1>2, ItemsOfNode DEF Arrived
<1> HIDE DEF p
<1>4. p \in AnyPlayer /\ p[1] = 1 /\ p[2] = maze.nodes[1].items
  BY <1>2, <1>3 DEF AnyPlayer
<1>5. InOrder(p[2])
  BY <1>1, <1>2, <1>4 DEF InOrder, Provided, Provides
<1>6. QED
  BY <1>1, <1>4, <1>5 DEF Good, p

LEMMA GoodMoves ==
  ASSUME IInv, NEW p, Good(p), NEW q \in Moves(p)
  PROVE  Good(q)
<1>1. IsMaze(maze) /\ Provided /\ Ways(maze) /\ p \in AnyPlayer
  BY DEF IInv, Shapes, Good
<1>2. /\ q \in AnyPlayer /\ q[1] \in Exits(maze, p[1], p[2]) /\ q[1] \in Nodes
      /\ q[2] = p[2] \cup maze.nodes[q[1]].items
  BY <1>1, MovesAre
<1>3. p[2] \in SUBSET Items
  BY <1>1 DEF AnyPlayer
<1>4. PICK l \in Range(maze.links) :
        /\ l.locks \subseteq p[2]
        /\ \/ l.from = p[1] /\ l.to = q[1]
           \/ l.to = p[1] /\ l.back /\ l.from = q[1]
  BY <1>2, ExitsAre
<1>5. PassedInOrder(maze, l)
  BY <1>1 DEF Ways
<1>6. KeysIn(maze, p[1]) \subseteq p[2] /\ InOrder(p[2])
  BY DEF Good, KeysOf, KeysIn
<1>7. KeysOf(q[1]) \subseteq p[2]
  <2>1. CASE l.from = p[1] /\ l.to = q[1]
    <3>1. Passes(maze, p[1], q[1], l.locks)
      BY <1>5, <2>1 DEF PassedInOrder
    <3>2. QED
      BY <1>3, <1>4, <1>6, <3>1 DEF Passes, KeysIn, KeysOf
  <2>2. CASE l.to = p[1] /\ l.back /\ l.from = q[1]
    <3>1. Passes(maze, p[1], q[1], l.locks)
      BY <1>5, <2>2 DEF PassedInOrder
    <3>2. QED
      BY <1>3, <1>4, <1>6, <3>1 DEF Passes, KeysIn, KeysOf
  <2>3. QED
    BY <1>4, <2>1, <2>2
<1>8. ASSUME NEW s \in DOMAIN stages, stages[s].provide \in q[2]
      PROVE  stages[s].require \subseteq q[2]
  <2>1. CASE stages[s].provide \in p[2]
    BY <1>2, <1>6, <2>1 DEF InOrder
  <2>2. CASE stages[s].provide \in maze.nodes[q[1]].items
    <3>1. stages[s].require \subseteq KeysOf(q[1])
      BY <1>1, <1>2, <2>2 DEF Provided, Provides
    <3>2. QED
      BY <1>2, <1>7, <3>1
  <2>3. QED
    BY <1>2, <1>8, <2>1, <2>2
<1>9. QED
  BY <1>2, <1>7, <1>8 DEF Good, InOrder

(* Players are good, and their moves are players.                          *)
LEMMA PlayersAre ==
  ASSUME IInv
  PROVE  /\ \A p \in Players : Good(p) /\ Moves(p) \subseteq Players
         /\ Players \subseteq AnyPlayer
<1> DEFINE more == [S \in SUBSET AnyPlayer |-> UNION {Moves(p) : p \in S}]
           from == {Arrived(1, {})}
           good == {p \in AnyPlayer : Good(p)}
<1>1. IsMaze(maze)
  BY DEF IInv, Shapes
<1>2. IsFiniteSet(AnyPlayer)
  BY <1>1, FinitePlayers
<1>3. \A p \in AnyPlayer : Moves(p) \subseteq AnyPlayer
  BY <1>1, MovesAre
<1>4. Additive(AnyPlayer, more)
  <2>1. more \in [SUBSET AnyPlayer -> SUBSET AnyPlayer]
    BY <1>3
  <2>2. more[{}] = {}
    OBVIOUS
  <2>3. ASSUME NEW A \in SUBSET AnyPlayer, NEW B \in SUBSET AnyPlayer
        PROVE  more[A \cup B] = more[A] \cup more[B]
    OBVIOUS
  <2>4. QED
    BY <2>1, <2>2, <2>3 DEF Additive
<1>5. from \in SUBSET good /\ good \in SUBSET AnyPlayer
  BY GoodFirst DEF Good
<1>6. more[good] \subseteq good
  <2>1. ASSUME NEW p \in good, NEW q \in Moves(p) PROVE q \in good
    BY <2>1, GoodMoves DEF Good
  <2>2. more[good] = UNION {Moves(p) : p \in good}
    BY <1>5
  <2>3. QED
    BY <2>1, <2>2
<1>7. Players = Grown(AnyPlayer, more, from)
  BY DEF Players
<1> HIDE DEF from
<1>8. \A S \in SUBSET AnyPlayer : more[S] = UNION {Moves(p) : p \in S}
  OBVIOUS
<1> HIDE DEF more
<1>9. /\ Players \subseteq AnyPlayer /\ more[Players] \subseteq Players
      /\ \A C \in SUBSET AnyPlayer : from \subseteq C /\ more[C] \subseteq C => Players \subseteq C
  BY <1>2, <1>4, <1>5, <1>7, GrownIsLeast, Zenon
<1>10. Players \subseteq good
  BY <1>5, <1>6, <1>9
<1>11. ASSUME NEW p \in Players PROVE Moves(p) \subseteq Players
  <2>1. more[Players] = UNION {Moves(x) : x \in Players}
    BY <1>8, <1>9
  <2>2. QED
    BY <1>9, <2>1
<1>12. QED
  BY <1>9, <1>10, <1>11

LEMMA HoldsKeys == IInv => RequiredKeysAreHeld
BY Typed, PlayersAre DEF RequiredKeysAreHeld, Good

(* Keys lie in one place, and nobody gets to a node without the keys that  *)
(* it requires, through whatever loops and one-way links.                  *)
THEOREM KeysAreHeld == Spec => []RequiredKeysAreHeld
BY Invariance, HoldsKeys, PTL

-----------------------------------------------------------------------------
(* No traps *)

(* A set of players that none of them leaves *)
Closed(S) == \A p \in S : Good(p) /\ Moves(p) \subseteq S

LEMMA Goes ==
  ASSUME IsMaze(maze), NEW S, Closed(S), NEW p \in S
  PROVE  \A K, n : K \subseteq p[2] /\ n \in Exits(maze, p[1], K) =>
           \E q \in S : q[1] = n /\ p[2] \subseteq q[2]
<1> SUFFICES ASSUME NEW K, NEW n, K \subseteq p[2], n \in Exits(maze, p[1], K)
             PROVE  \E q \in S : q[1] = n /\ p[2] \subseteq q[2]
  OBVIOUS
<1>1. p \in AnyPlayer /\ Moves(p) \subseteq S
  BY DEF Closed, Good
<1>2. n \in Exits(maze, p[1], p[2])
  BY MoreExits
<1>3. QED
  BY <1>1, <1>2, MovesAre

(* From anywhere one gets back to the first node.                          *)
LEMMA GoesHome ==
  ASSUME IInv, NEW S, Closed(S), NEW p \in S
  PROVE  \E q \in S : q[1] = 1 /\ p[2] \subseteq q[2]
<1> DEFINE T == {x \in Nat : \E q \in S : q[1] = x /\ p[2] \subseteq q[2]}
<1>1. IsMaze(maze) /\ Ways(maze)
  BY DEF IInv, Shapes
<1>2. Nodes = 1 .. Len(maze.nodes) /\ Len(maze.nodes) \in Nat
  BY <1>1 DEF IsMaze, Nodes
<1>3. \A q \in S : q \in AnyPlayer /\ q[1] \in Nodes /\ q[1] \in Nat /\ KeysIn(maze, q[1]) \subseteq q[2]
  BY <1>2 DEF Closed, Good, AnyPlayer, KeysOf, KeysIn
<1>4. T \in SUBSET Nat /\ p[1] \in T
  BY <1>3
<1>5. PICK n \in T : \A y \in T : n <= y
  BY <1>4, LeastNumber, Zenon
<1>6. PICK q \in S : q[1] = n /\ p[2] \subseteq q[2]
  BY <1>5
<1>7. n \in 1 .. Len(maze.nodes)
  BY <1>2, <1>3, <1>6
<1>8. CASE n # 1
  <2>1. Returns(maze, n)
    BY <1>1, <1>2, <1>7, <1>8 DEF Ways, Nodes
  <2>2. PICK e \in n .. Len(maze.nodes), h \in 1 .. n - 1 :
          /\ \A i \in n .. e - 1 : i + 1 \in Exits(maze, i, KeysIn(maze, i))
          /\ h \in Exits(maze, e, KeysIn(maze, e))
    BY <2>1 DEF Returns
  <2> DEFINE U == {i \in Nat : i \in n .. e /\ ~ \E r \in S : r[1] = i /\ p[2] \subseteq r[2]}
  <2>3. ASSUME U # {}
        PROVE  FALSE
    <3>1. U \in SUBSET Nat /\ U # {}
      BY <2>3
    <3>2. PICK i \in U : \A j \in U : i <= j
      BY <3>1, LeastNumber, Zenon
    <3>3. i # n
      BY <1>6, <3>2
    <3>4. i - 1 \in n .. e - 1 /\ i - 1 \in Nat /\ i - 1 \in n .. e /\ ~ (i <= i - 1) /\ (i - 1) + 1 = i
      BY <1>7, <2>2, <3>2, <3>3
    <3>5. i - 1 \notin U
      BY <3>2, <3>4
    <3>6. PICK r \in S : r[1] = i - 1 /\ p[2] \subseteq r[2]
      BY <3>4, <3>5
    <3>7. i \in Exits(maze, r[1], KeysIn(maze, r[1])) /\ KeysIn(maze, r[1]) \subseteq r[2]
      BY <1>3, <2>2, <3>4, <3>6
    <3>8. \A K, x : K \subseteq r[2] /\ x \in Exits(maze, r[1], K) =>
            \E t \in S : t[1] = x /\ r[2] \subseteq t[2]
      BY <1>1, Goes
    <3>9. \E t \in S : t[1] = i /\ r[2] \subseteq t[2]
      BY <3>7, <3>8
    <3>10. QED
      BY <3>2, <3>6, <3>9
  <2>4. e \in Nat /\ e \in n .. e
    BY <1>7, <2>2
  <2>5. PICK r \in S : r[1] = e /\ p[2] \subseteq r[2]
    BY <2>3, <2>4
  <2>6. h \in Exits(maze, r[1], KeysIn(maze, r[1])) /\ KeysIn(maze, r[1]) \subseteq r[2]
    BY <1>3, <2>2, <2>5
  <2>7. PICK t \in S : t[1] = h /\ r[2] \subseteq t[2]
    <3>1. \A K, x : K \subseteq r[2] /\ x \in Exits(maze, r[1], K) =>
            \E t \in S : t[1] = x /\ r[2] \subseteq t[2]
      BY <1>1, Goes
    <3>2. QED
      BY <2>6, <3>1
  <2>8. h \in T /\ ~ (n <= h)
    BY <1>7, <2>2, <2>5, <2>7
  <2>9. QED
    BY <1>5, <2>8
<1>9. QED
  BY <1>6, <1>8

(* From the first node one gets to any whose keys one holds.               *)
LEMMA GoesAnywhere ==
  ASSUME IInv, NEW S, Closed(S), NEW p \in S, p[1] = 1,
         NEW x \in Nodes, KeysOf(x) \subseteq p[2]
  PROVE  \E q \in S : q[1] = x /\ p[2] \subseteq q[2]
<1> DEFINE T == {n \in Nodes : KeysOf(n) \subseteq p[2] /\ ~ \E q \in S : q[1] = n /\ p[2] \subseteq q[2]}
<1> SUFFICES ASSUME x \in T PROVE FALSE
  OBVIOUS
<1>1. IsMaze(maze) /\ Ways(maze)
  BY DEF IInv, Shapes
<1>2. Nodes = 1 .. Len(maze.nodes) /\ Len(maze.nodes) \in Nat
  BY <1>1 DEF IsMaze, Nodes
<1>3. T \in SUBSET Nat /\ T # {}
  BY <1>2
<1>4. PICK n \in T : \A y \in T : n <= y
  BY <1>3, LeastNumber, Zenon
<1>5. n # 1
  BY <1>4
<1>6. PICK m \in 1 .. n - 1 : n \in Exits(maze, m, KeysIn(maze, n)) /\ KeysIn(maze, m) \subseteq KeysIn(maze, n)
  BY <1>1, <1>2, <1>4, <1>5 DEF Ways, Leads, Nodes
<1>7. m \in Nodes /\ ~ (n <= m)
  BY <1>2, <1>4, <1>6
<1>8. KeysIn(maze, n) \subseteq p[2] /\ KeysOf(m) \subseteq p[2]
  BY <1>4, <1>6 DEF KeysIn, KeysOf
<1>9. PICK q \in S : q[1] = m /\ p[2] \subseteq q[2]
  BY <1>4, <1>7, <1>8
<1>10. KeysIn(maze, n) \subseteq q[2] /\ n \in Exits(maze, q[1], KeysIn(maze, n))
  BY <1>6, <1>8, <1>9
<1>11. \E r \in S : r[1] = n /\ q[2] \subseteq r[2]
  <2>1. \A K, y : K \subseteq q[2] /\ y \in Exits(maze, q[1], K) =>
          \E r \in S : r[1] = y /\ q[2] \subseteq r[2]
    BY <1>1, Goes
  <2>2. QED
    BY <1>10, <2>1
<1>12. QED
  BY <1>4, <1>9, <1>11

(* One who holds what the stages before provide gets what the next does.   *)
LEMMA Collects ==
  ASSUME IInv, NEW S, Closed(S), NEW s \in DOMAIN stages, s < stage, NEW p \in S,
         \A t \in 1 .. s - 1 : Provides(t) \in p[2]
  PROVE  \E q \in S : p[2] \subseteq q[2] /\ Provides(s) \in q[2]
<1>1. IsMaze(maze) /\ Provided
  BY DEF IInv, Shapes
<1>2. PICK q \in S : q[1] = 1 /\ p[2] \subseteq q[2]
  BY GoesHome
<1>3. PICK n \in Nodes : /\ Provides(s) \in maze.nodes[n].items
                         /\ \A k \in KeysOf(n) : \E t \in 1 .. s - 1 : k = Provides(t)
  BY <1>1, Zenon DEF Provided
<1>4. KeysOf(n) \subseteq q[2]
  BY <1>2, <1>3
<1>5. PICK r \in S : r[1] = n /\ q[2] \subseteq r[2]
  BY <1>2, <1>4, GoesAnywhere
<1>6. maze.nodes[n].items \subseteq r[2]
  BY <1>5 DEF Closed, Good
<1>7. QED
  BY <1>2, <1>3, <1>5, <1>6

(* Players who never get to the end leave their number.                    *)
LEMMA EndReached ==
  ASSUME IInv, Done, NEW S, Closed(S), S # {}
  PROVE  \E p \in S : End \in p[2]
<1> DEFINE Holds(p, s) == \A t \in 1 .. s : Provides(t) \in p[2]
           T == {s \in Nat : s <= Len(stages) /\ ~ \E p \in S : Holds(p, s)}
<1>1. Len(stages) \in Nat /\ DOMAIN stages = 1 .. Len(stages) /\ Provides(Len(stages)) = End /\ Len(stages) # 0
  <2>1. Len(KeyClasses) \in Nat
    BY MazeAssumption
  <2>2. QED
    BY <2>1 DEF IInv, StagesFit
<1>2. ASSUME T # {}
      PROVE  FALSE
  <2>1. T \in SUBSET Nat
    OBVIOUS
  <2>2. PICK s \in T : \A j \in T : s <= j
    BY <1>2, <2>1, LeastNumber, Zenon
  <2>3. s # 0
    BY <2>2
  <2>4. s - 1 \in Nat /\ s - 1 <= Len(stages) /\ ~ (s <= s - 1) /\ s \in DOMAIN stages
    BY <1>1, <2>2, <2>3
  <2>5. PICK p \in S : Holds(p, s - 1)
    BY <2>2, <2>4
  <2>6. s < stage
    BY <1>1, <2>4 DEF Done, IInv, Shapes
  <2>7. PICK q \in S : p[2] \subseteq q[2] /\ Provides(s) \in q[2]
    BY <2>4, <2>5, <2>6, Collects
  <2>8. \A t \in 1 .. s : t \in 1 .. s - 1 \/ t = s
    BY <2>4
  <2>9. Holds(q, s)
    BY <2>5, <2>7, <2>8
  <2>10. QED
    BY <2>2, <2>9
<1>3. PICK p \in S : Holds(p, Len(stages))
  BY <1>1, <1>2
<1>4. Provides(Len(stages)) \in p[2]
  BY <1>1, <1>3
<1>5. QED
  BY <1>1, <1>4

LEMMA AllGetThere == IInv => NeverStuck
<1> SUFFICES ASSUME IInv, Done PROVE NeverStuck
  BY DEF NeverStuck
<1> DEFINE players == Players
           moves == UNION {{<<p, q>> : q \in Moves(p)} : p \in players}
           before == [S \in SUBSET players |-> {m[1] : m \in {l \in moves : l[2] \in S}}]
           goals == {p \in players : End \in p[2]}
           grown == Grown(players, before, goals)
<1>1. IsFiniteSet(players)
  <2>1. IsMaze(maze)
    BY DEF IInv, Shapes
  <2>2. QED
    BY <2>1, PlayersAre, FinitePlayers, FS_Subset
<1>2. \A p \in players : Good(p) /\ Moves(p) \subseteq players
  BY PlayersAre
<1> HIDE DEF players
<1>3. \A m : m \in moves <=> \E p \in players : \E q \in Moves(p) : m = <<p, q>>
  OBVIOUS
<1> HIDE DEF moves
<1>4. \A m \in moves : m[1] \in players /\ m[2] \in Moves(m[1])
  BY <1>3
<1>5. Additive(players, before)
  <2>1. before \in [SUBSET players -> SUBSET players]
    BY <1>4
  <2>2. before[{}] = {}
    OBVIOUS
  <2>3. ASSUME NEW A \in SUBSET players, NEW B \in SUBSET players
        PROVE  before[A \cup B] = before[A] \cup before[B]
    OBVIOUS
  <2>4. QED
    BY <2>1, <2>2, <2>3 DEF Additive
<1>6. \A S \in SUBSET players : before[S] = {m[1] : m \in {l \in moves : l[2] \in S}}
  OBVIOUS
<1> HIDE DEF before
<1>7. goals \in SUBSET players
  OBVIOUS
<1> HIDE DEF goals
<1>8. goals \subseteq grown /\ grown \subseteq players /\ before[grown] \subseteq grown
  BY <1>1, <1>5, <1>7, GrownIsLeast, Zenon
<1> HIDE DEF grown
<1>9. ASSUME NEW p \in players \ grown, NEW q \in Moves(p)
      PROVE  q \in players \ grown
  <2>1. q \in players /\ <<p, q>> \in moves
    BY <1>2, <1>3
  <2>2. ASSUME q \in grown PROVE FALSE
    <3>1. <<p, q>>[1] = p /\ <<p, q>>[2] = q
      OBVIOUS
    <3>2. <<p, q>> \in {l \in moves : l[2] \in grown}
      BY <2>1, <2>2, <3>1, Zenon
    <3>3. before[grown] = {m[1] : m \in {l \in moves : l[2] \in grown}}
      BY <1>6, <1>8
    <3>4. p \in before[grown]
      BY <3>1, <3>2, <3>3
    <3>5. QED
      BY <1>8, <3>4
  <2>3. QED
    BY <2>1, <2>2
<1>10. Closed(players \ grown)
  BY <1>2, <1>9 DEF Closed
<1>11. ASSUME players \ grown # {}
       PROVE  FALSE
  <2>1. PICK p \in players \ grown : End \in p[2]
    BY <1>10, <1>11, EndReached
  <2>2. p \in goals
    BY <2>1 DEF goals
  <2>3. QED
    BY <1>8, <2>1, <2>2
<1>12. players = grown
  BY <1>8, <1>11
<1>13. QED
  BY <1>12 DEF NeverStuck, players, moves, before, goals, grown

(* However one plays, one can still get to the end.                        *)
THEOREM NoTraps == Spec => []NeverStuck
BY Invariance, AllGetThere, PTL

-----------------------------------------------------------------------------
(* Steps from a value, one after the other *)

Run(f, n, S, a, next) ==
  /\ f \in [0 .. n -> S] /\ f[0] = a
  /\ \A i \in 0 .. n - 1 : f[i + 1] = next[f[i]]

(* As far as two of them go, they are the same. *)
LEMMA RunsOnce ==
  ASSUME NEW S, NEW a \in S, NEW next \in [S -> S], NEW n \in Nat, NEW m \in Nat, NEW f, NEW g,
         Run(f, n, S, a, next), Run(g, m, S, a, next), NEW k \in Nat, k <= n, k <= m
  PROVE  f[k] = g[k]
<1> DEFINE T == {i \in Nat : i <= n /\ i <= m /\ f[i] # g[i]}
<1> SUFFICES ASSUME k \in T PROVE FALSE
  OBVIOUS
<1>1. PICK i \in T : \A j \in T : i <= j
  BY LeastNumber, Zenon
<1>2. i # 0
  BY <1>1 DEF Run
<1>3. i - 1 \in Nat /\ ~ (i <= i - 1) /\ i - 1 \in 0 .. n - 1 /\ i - 1 \in 0 .. m - 1
      /\ (i - 1) + 1 = i /\ i - 1 <= n /\ i - 1 <= m
  BY <1>2
<1>4. f[i - 1] = g[i - 1]
  BY <1>1, <1>3
<1>5. f[i] = next[f[i - 1]] /\ g[i] = next[g[i - 1]]
  BY <1>3 DEF Run
<1>6. QED
  BY <1>1, <1>4, <1>5

(* There are as many steps as one likes. *)
LEMMA Runs ==
  ASSUME NEW S, NEW a \in S, NEW next \in [S -> S], NEW n \in Nat
  PROVE  \E f : Run(f, n, S, a, next)
<1> DEFINE T == {i \in Nat : ~ \E f : Run(f, i, S, a, next)}
<1> SUFFICES ASSUME n \in T PROVE FALSE
  OBVIOUS
<1>1. PICK i \in T : \A j \in T : i <= j
  BY LeastNumber, Zenon
<1>2. CASE i = 0
  <2> DEFINE f == [j \in 0 .. 0 |-> a]
  <2>1. Run(f, 0, S, a, next)
    BY DEF Run
  <2>2. QED
    BY <1>2, <2>1
<1>3. CASE i # 0
  <2>1. i \in Nat /\ i - 1 \in Nat /\ ~ (i <= i - 1)
    BY <1>3
  <2>2. PICK g : Run(g, i - 1, S, a, next)
    BY <1>1, <2>1
  <2> DEFINE f == [j \in 0 .. i |-> IF j = i THEN next[g[i - 1]] ELSE g[j]]
  <2>3. g \in [0 .. i - 1 -> S] /\ g[0] = a /\ \A j \in 0 .. i - 2 : g[j + 1] = next[g[j]]
    BY <2>1, <2>2 DEF Run
  <2>4. f \in [0 .. i -> S] /\ f[0] = a
    BY <2>1, <2>3
  <2>5. ASSUME NEW j \in 0 .. i - 1 PROVE f[j + 1] = next[f[j]]
    BY <2>1, <2>3
  <2> HIDE DEF f
  <2>6. Run(f, i, S, a, next)
    BY <2>4, <2>5 DEF Run
  <2>7. QED
    BY <2>6
<1>4. QED
  BY <1>2, <1>3

RunsForever(f, S, a, next) ==
  /\ f \in [Nat -> S] /\ f[0] = a
  /\ \A n \in Nat : f[n + 1] = next[f[n]]

(* And they never end. *)
LEMMA RunsOn ==
  ASSUME NEW S, NEW a \in S, NEW next \in [S -> S]
  PROVE  \E f : RunsForever(f, S, a, next)
<1> DEFINE Some(n) == CHOOSE f : Run(f, n, S, a, next)
           h == [n \in Nat |-> Some(n)[n]]
<1>1. \A n \in Nat : Run(Some(n), n, S, a, next)
  BY Runs
<1> HIDE DEF Some
<1>2. ASSUME NEW n \in Nat
      PROVE  h[n] \in S /\ h[n + 1] = next[h[n]]
  <2>1. Run(Some(n), n, S, a, next) /\ Run(Some(n + 1), n + 1, S, a, next)
    BY <1>1
  <2>2. Some(n)[n] = Some(n + 1)[n]
    BY <2>1, RunsOnce
  <2>3. Some(n + 1)[n + 1] = next[Some(n + 1)[n]] /\ Some(n)[n] \in S
    BY <2>1 DEF Run
  <2>4. QED
    BY <2>2, <2>3
<1>3. h[0] = a
  BY <1>1 DEF Run
<1>4. h \in [Nat -> S]
  BY <1>2
<1>5. QED
  BY <1>2, <1>3, <1>4 DEF RunsForever

-----------------------------------------------------------------------------
(* The sets of players after more and more moves *)

(* PlayersWithin exists, and grows by the moves of those it has. *)
LEMMA WithinMoves ==
  ASSUME IsMaze(maze)
  PROVE  /\ PlayersWithin[0] = {Arrived(1, {})}
         /\ \A n \in Nat : PlayersWithin[n + 1] = PlayersWithin[n] \cup UNION {Moves(p) : p \in PlayersWithin[n]}
<1> DEFINE start == {Arrived(1, {})}
           next == [S \in SUBSET AnyPlayer |-> S \cup UNION {Moves(p) : p \in S}]
           Wider(S) == S \cup UNION {Moves(p) : p \in S}
           Body(f) == [n \in Nat |-> IF n = 0 THEN start ELSE Wider(f[n - 1])]
<1>1. start \in SUBSET AnyPlayer
  <2>1. 1 \in Nodes
    BY DEF IsMaze, Nodes
  <2>2. maze.nodes[1].items \in SUBSET Items
    BY <2>1, ItemsOfNode
  <2>3. QED
    BY <2>1, <2>2 DEF AnyPlayer, Arrived
<1>2. next \in [SUBSET AnyPlayer -> SUBSET AnyPlayer]
  <2>1. \A p \in AnyPlayer : Moves(p) \subseteq AnyPlayer
    BY MovesAre
  <2>2. QED
    BY <2>1
<1>3. \A S \in SUBSET AnyPlayer : next[S] = Wider(S)
  OBVIOUS
<1> HIDE DEF start, next, Wider
<1>4. PICK f \in [Nat -> SUBSET AnyPlayer] : f[0] = start /\ \A n \in Nat : f[n + 1] = next[f[n]]
  <2>1. \E f : RunsForever(f, SUBSET AnyPlayer, start, next)
    BY <1>1, <1>2, RunsOn, Zenon
  <2>2. QED
    BY <2>1, Zenon DEF RunsForever
<1>5. f = Body(f)
  <2>1. ASSUME NEW n \in Nat PROVE f[n] = IF n = 0 THEN start ELSE Wider(f[n - 1])
    <3>1. CASE n = 0
      BY <1>4, <3>1
    <3>2. CASE n # 0
      <4>1. n - 1 \in Nat /\ (n - 1) + 1 = n
        BY <3>2
      <4>2. f[n] = next[f[n - 1]] /\ f[n - 1] \in SUBSET AnyPlayer
        BY <1>4, <4>1
      <4>3. QED
        BY <1>3, <3>2, <4>2
    <3>3. QED
      BY <3>1, <3>2
  <2>2. QED
    BY <2>1
<1>6. PlayersWithin = CHOOSE g : g = Body(g)
  BY DEF PlayersWithin, Wider, start
<1>7. PlayersWithin = Body(PlayersWithin)
  <2> HIDE DEF Body
  <2>1. QED
    BY <1>5, <1>6
<1>8. PlayersWithin[0] = start
  BY <1>7
<1>9. ASSUME NEW n \in Nat PROVE PlayersWithin[n + 1] = Wider(PlayersWithin[n])
  <2>1. n + 1 \in Nat /\ n + 1 # 0 /\ (n + 1) - 1 = n
    OBVIOUS
  <2>2. Body(PlayersWithin)[n + 1] = Wider(PlayersWithin[(n + 1) - 1])
    BY <2>1
  <2>3. QED
    BY <1>7, <2>1, <2>2
<1>10. QED
  BY <1>8, <1>9 DEF start, Wider

-----------------------------------------------------------------------------
(* The solver's search, step by step *)

(* One step, if there is a state left *)
Stepped(m, s) == SolveStep(m, s, Head(s.queue))
Searched(f, m, n, s) == IF n = 0 \/ s.queue = <<>> THEN s ELSE f[n - 1][Stepped(m, s)]

(* Solve takes as many steps as there can be states, unless none is left. *)
LEMMA SolveUnfolds ==
  ASSUME NEW m, NEW S, S = Searches(m),
         \A s \in S : s.queue # <<>> => Stepped(m, s) \in S
  PROVE  \E f : /\ \A n \in Nat, s \in S : f[n][s] = Searched(f, m, n, s)
                /\ Solve(m) = f[Cardinality((DOMAIN m.nodes) \X SUBSET Items)][NewSearch]
<1> DEFINE same == [s \in S |-> s]
           Back(g) == [s \in S |-> IF s.queue = <<>> THEN s ELSE g[Stepped(m, s)]]
           next == [g \in [S -> S] |-> Back(g)]
           Body(f) == [n \in Nat |-> [s \in S |-> Searched(f, m, n, s)]]
           c == CHOOSE f : f = Body(f)
<1>1. same \in [S -> S] /\ \A s \in S : same[s] = s
  OBVIOUS
<1>2. ASSUME NEW g \in [S -> S] PROVE Back(g) \in [S -> S]
  OBVIOUS
<1>3. next \in [[S -> S] -> [S -> S]] /\ \A g \in [S -> S] : next[g] = Back(g)
  <2> HIDE DEF Back
  <2>1. QED
    BY <1>2
<1> HIDE DEF next, same
<1>4. PICK f : RunsForever(f, [S -> S], same, next)
  BY <1>1, <1>3, RunsOn, Zenon
<1>5. f \in [Nat -> [S -> S]] /\ f[0] = same /\ \A n \in Nat : f[n + 1] = next[f[n]]
  BY <1>4, Zenon DEF RunsForever
<1>6. ASSUME NEW n \in Nat
      PROVE  f[n] = [s \in S |-> Searched(f, m, n, s)]
  <2>1. CASE n = 0
    <3>1. \A s \in S : Searched(f, m, n, s) = s
      BY <2>1 DEF Searched
    <3>2. QED
      BY <1>1, <1>5, <2>1, <3>1
  <2>2. CASE n # 0
    <3>1. n - 1 \in Nat /\ (n - 1) + 1 = n
      BY <2>2
    <3>2. f[n] = Back(f[n - 1])
      <4>1. f[n - 1] \in [S -> S]
        BY <1>5, <3>1
      <4>2. f[n] = next[f[n - 1]]
        BY <1>5, <3>1
      <4>3. QED
        BY <1>3, <4>1, <4>2, Zenon
    <3>3. \A s \in S : Searched(f, m, n, s) = IF s.queue = <<>> THEN s ELSE f[n - 1][Stepped(m, s)]
      BY <2>2, Zenon DEF Searched
    <3>4. QED
      BY <3>2, <3>3
  <2>3. QED
    BY <2>1, <2>2
<1>7. f = Body(f)
  <2>1. f = [n \in Nat |-> f[n]]
    BY <1>5
  <2> DEFINE G(n) == f[n]
             H(n) == [s \in S |-> Searched(f, m, n, s)]
  <2>2. \A n \in Nat : G(n) = H(n)
    BY <1>6, Zenon
  <2>3. [n \in Nat |-> G(n)] = [n \in Nat |-> H(n)]
    <3> HIDE DEF G, H
    <3>1. QED
      BY <2>2
  <2>4. QED
    BY <2>1, <2>3, Zenon
<1>8. c = Body(c)
  <2> HIDE DEF Body
  <2>1. QED
    BY <1>7
<1>9. ASSUME NEW n \in Nat, NEW s \in S PROVE c[n][s] = Searched(c, m, n, s)
  <2> HIDE DEF c
  <2>1. Body(c)[n][s] = Searched(c, m, n, s)
    OBVIOUS
  <2>2. QED
    BY <1>8, <2>1, Zenon
<1>10. Solve(m) = c[Cardinality((DOMAIN m.nodes) \X SUBSET Items)][NewSearch]
  BY Zenon DEF Solve, Searched, Stepped
<1>11. QED
  <2> HIDE DEF c
  <2>1. QED
    BY <1>9, <1>10, Zenon

(* A finite set is enqueued as it is. *)
LEMMA SequenceOfSet ==
  ASSUME NEW S, IsFiniteSet(S)
  PROVE  SetToSeq(S) \in Seq(S) /\ Range(SetToSeq(S)) = S /\ Len(SetToSeq(S)) = Cardinality(S)
<1> DEFINE n == Cardinality(S)
           f == SetToSeq(S)
<1>1. n \in Nat /\ \E g : g \in Bijection(1 .. n, S)
  BY FS_CardinalityType, Fun_ExistsBij
<1>2. PICK g : g \in Bijection(1 .. n, S)
  BY <1>1
<1>3. g \in [1 .. n -> S] /\ IsInjective(g)
  <2>1. g \in [1 .. n -> S] /\ \A a, b \in 1 .. n : g[a] = g[b] => a = b
    BY <1>2, Fun_BijectionProperties
  <2>2. QED
    BY <2>1 DEF IsInjective
<1>4. f \in [1 .. n -> S] /\ IsInjective(f)
  BY <1>3 DEF SetToSeq
<1> HIDE DEF f
<1>5. f \in Injection(1 .. n, S)
  <2>1. \A a, b \in 1 .. n : f[a] = f[b] => a = b
    BY <1>4 DEF IsInjective
  <2>2. QED
    BY <1>4, <2>1, Fun_IsInj
<1>6. Cardinality(1 .. n) = n
  BY <1>1, FS_Interval
<1> HIDE DEF n
<1>7. f \in Surjection(1 .. n, S)
  BY <1>5, <1>6, FS_Injection DEF n
<1>8. f \in Seq(S) /\ DOMAIN f = 1 .. n /\ Len(f) = n
  BY <1>1, <1>4
<1>9. \A x \in S : \E i \in 1 .. n : f[i] = x
  BY <1>7 DEF Surjection
<1>10. Range(f) = S
  BY <1>4, <1>8, <1>9 DEF Range
<1>11. QED
  BY <1>8, <1>10 DEF f, n

(* The player of a state of the search; the one whose state is next *)
SolveState == [node : Nodes, items : SUBSET Items, length : Nat]
PlayerOf(x) == Arrived(x.node, x.items)
Player(s) == PlayerOf(Head(s.queue))

(* What a step finds, and what it enqueues *)
Found(s) ==
  IF /\ End \in maze.nodes[Head(s.queue).node].items
     /\ s.shortest = <<>> \/ Head(s.queue).length < s.shortest[1]
  THEN <<Head(s.queue).length>> ELSE s.shortest
NewNodes(s) ==
  {n \in Exits(maze, Player(s)[1], Player(s)[2]) :
     /\ <<n, Player(s)[2]>> \notin s.enqueued
     /\ Found(s) = <<>> \/ Head(s.queue).length + 1 <= Found(s)[1]}
NewStates(s) ==
  {[node |-> n, items |-> Player(s)[2], length |-> Head(s.queue).length + 1] : n \in NewNodes(s)}
NewPairs(s) == {<<n, Player(s)[2]>> : n \in NewNodes(s)}

(* It has what it had, and what lies in the node. *)
LEMMA PlayerHolds == \A x : PlayerOf(x)[2] = x.items \cup maze.nodes[x.node].items
BY DEF PlayerOf, Arrived

(* A search by its parts *)
LEMMA SearchesAre ==
  /\ Searches(maze) = [queue : Seq(SolveState), enqueued : SUBSET AnyPlayer,
                       shortest : Seq(Nat), deadEnds : SUBSET Nodes]
  /\ \A s \in Searches(maze) :
       /\ s.queue \in Seq(SolveState) /\ s.enqueued \in SUBSET AnyPlayer
       /\ s.shortest \in Seq(Nat) /\ s.deadEnds \in SUBSET Nodes
BY DEF Searches, SolveState, AnyPlayer, Nodes

(* A step by its parts *)
LEMMA SteppedIs ==
  ASSUME NEW s
  PROVE  Stepped(maze, s) =
           [queue |-> Tail(s.queue) \o SetToSeq(NewStates(s)),
            enqueued |-> s.enqueued \cup NewPairs(s),
            shortest |-> Found(s),
            deadEnds |-> s.deadEnds \cup IF Exits(maze, Player(s)[1], Player(s)[2]) = {}
                                         THEN {Player(s)[1]} ELSE {}]
<1>1. /\ Player(s)[1] = Head(s.queue).node
      /\ Player(s)[2] = Head(s.queue).items \cup maze.nodes[Head(s.queue).node].items
  BY DEF Player, PlayerOf, Arrived
<1>2. QED
  BY <1>1, Zenon DEF Stepped, SolveStep, NewStates, NewPairs, NewNodes, Found

(* What is enqueued are states of the maze that were not enqueued before. *)
LEMMA StatesTake ==
  ASSUME IsMaze(maze), NEW s \in Searches(maze), s.queue # <<>>
  PROVE  /\ Head(s.queue) \in SolveState /\ Player(s) \in AnyPlayer
         /\ Found(s) \in Seq(Nat)
         /\ NewStates(s) \subseteq SolveState /\ NewPairs(s) \subseteq AnyPlayer
         /\ NewPairs(s) \cap s.enqueued = {}
         /\ IsFiniteSet(NewPairs(s)) /\ IsFiniteSet(NewStates(s))
         /\ Cardinality(NewStates(s)) <= Cardinality(NewPairs(s))
<1> DEFINE x == Head(s.queue)
<1>1. x \in SolveState /\ x.node \in Nodes /\ x.items \in SUBSET Items /\ x.length \in Nat /\ s.shortest \in Seq(Nat)
  <2>1. s.queue \in Seq(SolveState) /\ s.shortest \in Seq(Nat)
    BY SearchesAre
  <2>2. x \in SolveState
    BY <2>1
  <2>3. QED
    BY <2>1, <2>2 DEF SolveState
<1> HIDE DEF x
<1>2. Player(s) \in AnyPlayer /\ Player(s)[2] \in SUBSET Items
  <2>1. maze.nodes[x.node].items \subseteq Items
    BY <1>1, ItemsOfNode
  <2>2. Player(s) = <<x.node, x.items \cup maze.nodes[x.node].items>>
    BY DEF Player, PlayerOf, Arrived, x
  <2>3. QED
    BY <1>1, <2>1, <2>2 DEF AnyPlayer
<1>3. NewNodes(s) \subseteq Nodes
  BY ExitsInMaze DEF NewNodes, Nodes
<1>4. NewPairs(s) \subseteq AnyPlayer /\ NewPairs(s) \cap s.enqueued = {}
  <2>1. NewPairs(s) \subseteq AnyPlayer
    BY <1>2, <1>3 DEF NewPairs, AnyPlayer
  <2>2. \A n \in NewNodes(s) : <<n, Player(s)[2]>> \notin s.enqueued
    BY DEF NewNodes
  <2>3. QED
    BY <2>1, <2>2 DEF NewPairs
<1>5. NewStates(s) \subseteq SolveState
  BY <1>1, <1>2, <1>3 DEF NewStates, SolveState, x
<1>6. IsFiniteSet(NewPairs(s))
  BY <1>4, FinitePlayers, FS_Subset
<1>7. IsFiniteSet(NewStates(s)) /\ Cardinality(NewStates(s)) <= Cardinality(NewPairs(s))
  <2> DEFINE State(n) == [node |-> n, items |-> Player(s)[2], length |-> x.length + 1]
             f == [p \in NewPairs(s) |-> State(p[1])]
  <2>1. NewStates(s) = {State(n) : n \in NewNodes(s)}
    BY DEF NewStates, x
  <2> HIDE DEF State
  <2>2. \A p \in NewPairs(s) : f[p] \in NewStates(s)
    BY <2>1 DEF NewPairs
  <2>3. ASSUME NEW y \in NewStates(s)
        PROVE  \E p \in NewPairs(s) : f[p] = y
    <3>1. PICK n \in NewNodes(s) : y = State(n)
      BY <2>1
    <3>2. <<n, Player(s)[2]>> \in NewPairs(s) /\ <<n, Player(s)[2]>>[1] = n
      BY DEF NewPairs
    <3>3. QED
      BY <3>1, <3>2
  <2>4. f \in [NewPairs(s) -> NewStates(s)]
    BY <2>2
  <2> HIDE DEF f
  <2>5. f \in Surjection(NewPairs(s), NewStates(s))
    BY <2>3, <2>4 DEF Surjection
  <2>6. QED
    BY <1>6, <2>5, FS_Surjection
<1>8. Found(s) \in Seq(Nat)
  BY <1>1 DEF Found, x
<1>9. QED
  BY <1>1, <1>2, <1>4, <1>5, <1>6, <1>7, <1>8 DEF x

(* A step leaves a search, in which fewer states can still come.           *)
ToCome(s) == Cardinality(AnyPlayer) - Cardinality(s.enqueued) + Len(s.queue)

LEMMA StepsSearch ==
  ASSUME IsMaze(maze), NEW s \in Searches(maze), s.queue # <<>>, NEW t, t = Stepped(maze, s)
  PROVE  /\ t \in Searches(maze)
         /\ t.shortest = Found(s) /\ t.enqueued = s.enqueued \cup NewPairs(s)
         /\ Exits(maze, Player(s)[1], Player(s)[2]) # {} => t.deadEnds = s.deadEnds
         /\ \E w \in Seq(SolveState) : t.queue = Tail(s.queue) \o w /\ Range(w) = NewStates(s)
         /\ ToCome(t) \in Int /\ ToCome(s) \in Int /\ ToCome(t) < ToCome(s)
<1> DEFINE w == SetToSeq(NewStates(s))
           E == s.enqueued
           N == NewPairs(s)
<1>1. s.queue \in Seq(SolveState) /\ E \in SUBSET AnyPlayer /\ s.deadEnds \in SUBSET Nodes
  BY SearchesAre
<1>2. /\ Player(s) \in AnyPlayer /\ Found(s) \in Seq(Nat)
      /\ NewStates(s) \subseteq SolveState /\ N \subseteq AnyPlayer /\ N \cap E = {}
      /\ IsFiniteSet(N) /\ IsFiniteSet(NewStates(s))
      /\ Cardinality(NewStates(s)) <= Cardinality(N)
  BY StatesTake
<1>3. w \in Seq(SolveState) /\ Range(w) = NewStates(s) /\ Len(w) = Cardinality(NewStates(s))
  <2>1. w \in Seq(NewStates(s)) /\ Range(w) = NewStates(s) /\ Len(w) = Cardinality(NewStates(s))
    BY <1>2, SequenceOfSet
  <2> HIDE DEF w
  <2>2. QED
    BY <1>2, <2>1
<1> DEFINE deadEnds == s.deadEnds \cup IF Exits(maze, Player(s)[1], Player(s)[2]) = {}
                                       THEN {Player(s)[1]} ELSE {}
<1>4. t = [queue |-> Tail(s.queue) \o w, enqueued |-> E \cup N, shortest |-> Found(s), deadEnds |-> deadEnds]
  BY SteppedIs, Zenon
<1>5. deadEnds \in SUBSET Nodes /\ (Exits(maze, Player(s)[1], Player(s)[2]) # {} => deadEnds = s.deadEnds)
  BY <1>1, <1>2 DEF AnyPlayer
<1> HIDE DEF w, E, N, deadEnds
<1>6. t.queue = Tail(s.queue) \o w /\ t.enqueued = E \cup N /\ t.shortest = Found(s) /\ t.deadEnds = deadEnds
  BY <1>4
<1>7. /\ Tail(s.queue) \in Seq(SolveState) /\ Len(Tail(s.queue)) = Len(s.queue) - 1 /\ Len(s.queue) \in Nat
      /\ Tail(s.queue) \o w \in Seq(SolveState)
      /\ Len(Tail(s.queue) \o w) = Len(s.queue) - 1 + Len(w) /\ Len(w) \in Nat
  BY <1>1, <1>3
<1>8. t \in Searches(maze)
  <2>1. E \cup N \in SUBSET AnyPlayer
    BY <1>1, <1>2
  <2>2. QED
    BY <1>2, <1>4, <1>5, <1>7, <2>1, SearchesAre
<1>9. /\ Cardinality(E \cup N) = Cardinality(E) + Cardinality(N)
      /\ Cardinality(E) \in Nat /\ Cardinality(N) \in Nat /\ Cardinality(AnyPlayer) \in Nat
  <2>1. IsFiniteSet(AnyPlayer) /\ IsFiniteSet(E)
    BY <1>1, FinitePlayers, FS_Subset
  <2>2. Cardinality(E) \in Nat /\ Cardinality(N) \in Nat /\ Cardinality(AnyPlayer) \in Nat
    BY <1>2, <2>1, FS_CardinalityType
  <2>3. E \cap N = {}
    BY <1>2
  <2>4. Cardinality(E \cup N) = Cardinality(E) + Cardinality(N) - Cardinality(E \cap N)
    BY <1>2, <2>1, FS_Union
  <2>5. Cardinality(E \cap N) = 0
    BY <2>3, FS_EmptySet
  <2>6. QED
    BY <2>2, <2>4, <2>5
<1>10. Cardinality(NewStates(s)) \in Nat
  BY <1>2, FS_CardinalityType
<1>11. ToCome(t) = Cardinality(AnyPlayer) - (Cardinality(E) + Cardinality(N)) + (Len(s.queue) - 1 + Len(w))
       /\ ToCome(s) = Cardinality(AnyPlayer) - Cardinality(E) + Len(s.queue)
  BY <1>6, <1>7, <1>9 DEF ToCome, E
<1>12. ToCome(t) \in Int /\ ToCome(s) \in Int /\ ToCome(t) < ToCome(s)
  <2>1. \A a, e, n, l, k \in Nat :
          k <= n => a - (e + n) + (l - 1 + k) \in Int /\ a - e + l \in Int
                    /\ a - (e + n) + (l - 1 + k) < a - e + l
    OBVIOUS
  <2>2. Len(w) <= Cardinality(N)
    BY <1>2, <1>3
  <2>3. QED
    BY <1>7, <1>9, <1>11, <2>1, <2>2
<1>13. QED
  BY <1>3, <1>5, <1>6, <1>8, <1>12 DEF E, N

-----------------------------------------------------------------------------
(* The search goes breadth first. *)

(* Players after so many moves are good ones, as all are. *)
LEMMA Within ==
  ASSUME IInv, NEW n \in Nat
  PROVE  \A p \in PlayersWithin[n] : Good(p)
<1> DEFINE T == {i \in Nat : \E p \in PlayersWithin[i] : ~ Good(p)}
<1> SUFFICES ASSUME n \in T PROVE FALSE
  OBVIOUS
<1>1. PICK i \in T : \A j \in T : i <= j
  BY LeastNumber, Zenon
<1>2. /\ PlayersWithin[0] = {Arrived(1, {})}
      /\ \A j \in Nat : PlayersWithin[j + 1] = PlayersWithin[j] \cup UNION {Moves(p) : p \in PlayersWithin[j]}
  <2>1. IsMaze(maze)
    BY DEF IInv, Shapes
  <2>2. QED
    BY <2>1, WithinMoves
<1>3. PICK p \in PlayersWithin[i] : ~ Good(p)
  BY <1>1
<1>4. i # 0
  BY <1>2, <1>3, GoodFirst
<1>5. i - 1 \in Nat /\ ~ (i <= i - 1) /\ (i - 1) + 1 = i
  BY <1>4
<1>6. \A q \in PlayersWithin[i - 1] : Good(q)
  BY <1>1, <1>5
<1>7. p \in PlayersWithin[i - 1] \cup UNION {Moves(q) : q \in PlayersWithin[i - 1]}
  BY <1>2, <1>3, <1>5
<1>8. \E q \in PlayersWithin[i - 1] : p \in Moves(q)
  BY <1>3, <1>6, <1>7
<1>9. QED
  BY <1>3, <1>6, <1>8, GoodMoves

(* What is in a queue *)
LEMMA RangeOfQueue ==
  ASSUME NEW S, NEW q \in Seq(S)
  PROVE  /\ q # <<>> => Range(q) = {Head(q)} \cup Range(Tail(q))
         /\ \A r \in Seq(S) : Range(q \o r) = Range(q) \cup Range(r)
<1>1. ASSUME q # <<>>
      PROVE  Range(q) = {Head(q)} \cup Range(Tail(q))
  <2>1. /\ Len(q) \in Nat \ {0} /\ DOMAIN q = 1 .. Len(q) /\ Head(q) = q[1]
        /\ DOMAIN Tail(q) = 1 .. Len(q) - 1 /\ \A i \in 1 .. Len(q) - 1 : Tail(q)[i] = q[i + 1]
    BY <1>1
  <2>2. ASSUME NEW i \in 1 .. Len(q) PROVE q[i] \in {Head(q)} \cup Range(Tail(q))
    <3>1. CASE i = 1
      BY <2>1, <3>1
    <3>2. CASE i # 1
      <4>1. i - 1 \in 1 .. Len(q) - 1 /\ (i - 1) + 1 = i
        BY <2>1, <3>2
      <4>2. Tail(q)[i - 1] = q[i]
        BY <2>1, <4>1
      <4>3. QED
        BY <2>1, <4>1, <4>2 DEF Range
    <3>3. QED
      BY <3>1, <3>2
  <2>3. \A i \in 1 .. Len(q) - 1 : i + 1 \in 1 .. Len(q)
    BY <2>1
  <2>4. \A i \in 1 .. Len(q) - 1 : Tail(q)[i] \in Range(q)
    BY <2>1, <2>3 DEF Range
  <2>5. Range(q) \subseteq {Head(q)} \cup Range(Tail(q))
    BY <2>1, <2>2 DEF Range
  <2>6. Range(Tail(q)) \subseteq Range(q)
    BY <2>1, <2>4 DEF Range
  <2>7. Head(q) \in Range(q)
    BY <2>1 DEF Range
  <2>8. QED
    BY <2>5, <2>6, <2>7
<1>2. ASSUME NEW r \in Seq(S)
      PROVE  Range(q \o r) = Range(q) \cup Range(r)
  <2>1. /\ Len(q) \in Nat /\ Len(r) \in Nat /\ DOMAIN q = 1 .. Len(q) /\ DOMAIN r = 1 .. Len(r)
        /\ DOMAIN (q \o r) = 1 .. Len(q) + Len(r)
        /\ \A i \in 1 .. Len(q) : (q \o r)[i] = q[i] /\ i \in 1 .. Len(q) + Len(r)
        /\ \A i \in 1 .. Len(r) : (q \o r)[Len(q) + i] = r[i] /\ Len(q) + i \in 1 .. Len(q) + Len(r)
    OBVIOUS
  <2>2. ASSUME NEW i \in 1 .. Len(q) + Len(r) PROVE (q \o r)[i] \in Range(q) \cup Range(r)
    <3>1. CASE i \in 1 .. Len(q)
      BY <2>1, <3>1 DEF Range
    <3>2. CASE i \notin 1 .. Len(q)
      <4>1. i - Len(q) \in 1 .. Len(r) /\ Len(q) + (i - Len(q)) = i
        BY <2>1, <3>2
      <4>2. (q \o r)[i] = r[i - Len(q)]
        BY <2>1, <4>1
      <4>3. QED
        BY <2>1, <4>1, <4>2 DEF Range
    <3>3. QED
      BY <3>1, <3>2
  <2>3. Range(q \o r) \subseteq Range(q) \cup Range(r)
    BY <2>1, <2>2 DEF Range
  <2>4. \A i \in 1 .. Len(q) : q[i] \in Range(q \o r)
    BY <2>1 DEF Range
  <2>5. \A i \in 1 .. Len(r) : r[i] \in Range(q \o r)
    BY <2>1 DEF Range
  <2>6. Range(q) \subseteq Range(q \o r) /\ Range(r) \subseteq Range(q \o r)
    BY <2>1, <2>4, <2>5 DEF Range
  <2>7. QED
    BY <2>3, <2>6
<1>3. QED
  BY <1>1, <1>2

(* States are enqueued in the order of their lengths, of which there are   *)
(* two at most.                                                            *)
Sorted(q) ==
  \A i, j \in 1 .. Len(q) : i <= j => q[i].length <= q[j].length /\ q[j].length <= q[i].length + 1

(* Hence all lengths are that of the head or the next. *)
LEMMA SortedHead ==
  ASSUME NEW q \in Seq(SolveState), q # <<>>, Sorted(q)
  PROVE  /\ Head(q).length \in Nat
         /\ \A x \in Range(q) : x.length \in Nat /\ (x.length = Head(q).length \/ x.length = Head(q).length + 1)
<1>1. Len(q) \in Nat /\ Len(q) # 0 /\ Head(q) = q[1] /\ DOMAIN q = 1 .. Len(q)
      /\ \A i \in 1 .. Len(q) : q[i] \in SolveState
  OBVIOUS
<1>2. \A i \in 1 .. Len(q) : q[i].length \in Nat
  BY <1>1 DEF SolveState
<1>3. 1 \in 1 .. Len(q) /\ \A i \in 1 .. Len(q) : 1 <= i
  BY <1>1
<1>4. ASSUME NEW i \in 1 .. Len(q)
      PROVE  q[i].length = q[1].length \/ q[i].length = q[1].length + 1
  <2>1. q[1].length <= q[i].length /\ q[i].length <= q[1].length + 1
    BY <1>3 DEF Sorted
  <2>2. q[1].length \in Nat /\ q[i].length \in Nat
    BY <1>2, <1>3
  <2>3. QED
    BY <2>1, <2>2
<1>5. QED
  BY <1>1, <1>2, <1>3, <1>4 DEF Range

(* States that are one longer than the head go to the end. *)
LEMMA StaysSorted ==
  ASSUME NEW q \in Seq(SolveState), q # <<>>, Sorted(q), NEW w \in Seq(SolveState),
         \A x \in Range(w) : x.length = Head(q).length + 1
  PROVE  Sorted(Tail(q) \o w)
<1> DEFINE m == Len(q) - 1
           t == Tail(q) \o w
           L == Head(q).length
<1>1. /\ m \in Nat /\ Len(w) \in Nat /\ Len(t) = m + Len(w)
      /\ \A i \in 1 .. m : t[i] = q[i + 1] /\ i + 1 \in 1 .. Len(q)
      /\ \A i \in 1 .. Len(w) : t[m + i] = w[i]
  <2>1. Tail(q) \in Seq(SolveState) /\ Len(Tail(q)) = m /\ m \in Nat /\ Len(w) \in Nat
        /\ \A i \in 1 .. m : Tail(q)[i] = q[i + 1] /\ i + 1 \in 1 .. Len(q)
    OBVIOUS
  <2> HIDE DEF m
  <2>2. QED
    BY <2>1
<1>2. L \in Nat /\ \A x \in Range(q) : x.length \in Nat /\ (x.length = L \/ x.length = L + 1)
  BY SortedHead
<1>3. ASSUME NEW i \in m + 1 .. m + Len(w) PROVE t[i].length = L + 1
  <2>1. i - m \in 1 .. Len(w) /\ m + (i - m) = i
    BY <1>1
  <2>2. t[i] = w[i - m] /\ w[i - m] \in Range(w)
    BY <1>1, <2>1 DEF Range
  <2>3. QED
    BY <2>2
<1>4. ASSUME NEW i \in 1 .. m
      PROVE  t[i].length \in Nat /\ (t[i].length = L \/ t[i].length = L + 1)
  <2>1. q[i + 1] \in Range(q)
    BY <1>1 DEF Range
  <2>2. QED
    BY <1>1, <1>2, <2>1
<1> HIDE DEF t, m, L
<1>5. ASSUME NEW i \in 1 .. Len(t), NEW j \in 1 .. Len(t), i <= j
      PROVE  t[i].length <= t[j].length /\ t[j].length <= t[i].length + 1
  <2>1. CASE j \in 1 .. m
    <3>1. i \in 1 .. m /\ i + 1 <= j + 1 /\ i + 1 \in 1 .. Len(q) /\ j + 1 \in 1 .. Len(q)
      BY <1>1, <1>5, <2>1
    <3>2. q[i + 1].length <= q[j + 1].length /\ q[j + 1].length <= q[i + 1].length + 1
      BY <3>1 DEF Sorted
    <3>3. QED
      BY <1>1, <2>1, <3>1, <3>2
  <2>2. CASE j \notin 1 .. m
    <3>1. j \in m + 1 .. m + Len(w) /\ (i \in 1 .. m \/ i \in m + 1 .. m + Len(w))
      BY <1>1, <1>5, <2>2
    <3>2. t[j].length = L + 1 /\ t[i].length \in Nat /\ (t[i].length = L \/ t[i].length = L + 1)
      BY <1>2, <1>3, <1>4, <3>1
    <3>3. QED
      BY <1>2, <3>2
  <2>3. QED
    BY <2>1, <2>2
<1>6. QED
  BY <1>5 DEF Sorted, t

(* The end is elsewhere than where players start. *)
FirstRoom == End \notin maze.nodes[1].items

(* There is a way out of every room of a maze that is done. *)
LEMMA HasExit ==
  ASSUME IInv, FirstRoom, Done, NEW p, Good(p)
  PROVE  Exits(maze, p[1], p[2]) # {}
<1>1. IsMaze(maze) /\ Ways(maze)
  BY DEF IInv, Shapes
<1>2. Nodes = 1 .. Len(maze.nodes) /\ Len(maze.nodes) \in Nat /\ p \in AnyPlayer /\ p[1] \in Nodes
  BY <1>1 DEF IsMaze, Nodes, Good, AnyPlayer
<1>3. CASE p[1] # 1
  <2>1. Returns(maze, p[1])
    BY <1>1, <1>2, <1>3 DEF Ways, Nodes
  <2>2. PICK e \in p[1] .. Len(maze.nodes), h \in 1 .. p[1] - 1 :
          /\ \A i \in p[1] .. e - 1 : i + 1 \in Exits(maze, i, KeysIn(maze, i))
          /\ h \in Exits(maze, e, KeysIn(maze, e))
    BY <2>1 DEF Returns
  <2>3. KeysIn(maze, p[1]) \subseteq p[2]
    BY DEF Good, KeysOf, KeysIn
  <2>4. Exits(maze, p[1], KeysIn(maze, p[1])) \subseteq Exits(maze, p[1], p[2])
    BY <2>3, MoreExits
  <2>5. CASE e = p[1]
    BY <2>2, <2>4, <2>5
  <2>6. CASE e # p[1]
    <3>1. p[1] \in p[1] .. e - 1
      BY <1>2, <2>2, <2>6
    <3>2. p[1] + 1 \in Exits(maze, p[1], KeysIn(maze, p[1]))
      BY <2>2, <3>1
    <3>3. QED
      BY <2>4, <3>2
  <2>7. QED
    BY <2>5, <2>6
<1>4. CASE p[1] = 1
  <2> DEFINE o == Arrived(1, {})
  <2>1. Good(o) /\ o[1] = 1 /\ o[2] = maze.nodes[1].items
    BY GoodFirst DEF Arrived
  <2>2. o[2] \subseteq p[2]
    BY <1>4, <2>1 DEF Good
  <2> HIDE DEF o
  <2>3. Exits(maze, 1, o[2]) \subseteq Exits(maze, p[1], p[2])
    BY <1>4, <2>2, MoreExits
  <2>4. ASSUME Exits(maze, p[1], p[2]) = {}
        PROVE  FALSE
    <3>1. Moves(o) = {}
      BY <2>1, <2>3, <2>4 DEF Moves
    <3>2. Closed({o})
      BY <2>1, <3>1 DEF Closed
    <3>3. \E q \in {o} : End \in q[2]
      BY <3>2, EndReached
    <3>4. QED
      BY <2>1, <3>3 DEF FirstRoom
  <2>5. QED
    BY <2>4
<1>5. QED
  BY <1>3, <1>4

(* The states that were visited, and those left *)
Pair(x) == <<x.node, x.items>>
Visited(V) == {Arrived(v[1], v[2]) : v \in V}
Waiting(s, length) == {PlayerOf(x) : x \in {y \in Range(s.queue) : y.length = length}}

Seeks(s, V) ==
  /\ s \in Searches(maze) /\ Sorted(s.queue) /\ s.deadEnds = {}
  /\ s.enqueued = V \cup {Pair(x) : x \in Range(s.queue)} /\ <<1, {}>> \in s.enqueued
  /\ \A x \in Range(s.queue) : PlayerOf(x) \in PlayersWithin[x.length]
  /\ \A p \in Visited(V) : Good(p)

(* As long as there is no solution all moves of those visited are, or will *)
(* be: first the ones after fewer moves.                                   *)
NotFound(s, V) ==
  /\ s.shortest = <<>>
  /\ \A p \in Visited(V) : End \notin p[2] /\ Moves(p) \subseteq Visited(s.enqueued)
  /\ \A x \in Range(s.queue) : End \notin x.items
  /\ s.queue # <<>> =>
       /\ PlayersWithin[Head(s.queue).length] \subseteq Visited(V) \cup Waiting(s, Head(s.queue).length)
       /\ Head(s.queue).length > 0 => PlayersWithin[Head(s.queue).length - 1] \subseteq Visited(V)

IsShortest(k) ==
  /\ \A p \in PlayersWithin[k - 1] : End \notin p[2]
  /\ \E p \in PlayersWithin[k - 1] : \E q \in Moves(p) : End \in q[2]
FoundShortest(s) ==
  \E k \in Nat \ {0} :
    s.shortest = <<k>> /\ IsShortest(k) /\ \A x \in Range(s.queue) : k <= x.length

LEMMA StepHas ==
  ASSUME IInv, NEW s, NEW V, Seeks(s, V), s.queue # <<>>, NEW t, t = Stepped(maze, s)
  PROVE  /\ Head(s.queue) \in Range(s.queue) /\ Head(s.queue) \in SolveState /\ Head(s.queue).length \in Nat
         /\ Player(s) = PlayerOf(Head(s.queue))
         /\ Player(s) \in PlayersWithin[Head(s.queue).length] /\ Good(Player(s))
         /\ Range(s.queue) = {Head(s.queue)} \cup Range(Tail(s.queue))
         /\ Range(t.queue) = Range(Tail(s.queue)) \cup NewStates(s)
         /\ Visited(V \cup {Pair(Head(s.queue))}) = Visited(V) \cup {Player(s)}
         /\ \A x \in NewStates(s) : x.length = Head(s.queue).length + 1 /\ x.items = Player(s)[2]
                                    /\ PlayerOf(x) \in Moves(Player(s))
         /\ Sorted(t.queue) /\ t \in Searches(maze) /\ t.queue \in Seq(SolveState)
         /\ t.enqueued = s.enqueued \cup NewPairs(s) /\ t.shortest = Found(s)
         /\ NewPairs(s) = {Pair(x) : x \in NewStates(s)}
<1> DEFINE h == Head(s.queue)
<1>1. IsMaze(maze) /\ s \in Searches(maze) /\ Sorted(s.queue)
  BY DEF IInv, Shapes, Seeks
<1>2. s.queue \in Seq(SolveState)
  BY <1>1, SearchesAre
<1>3. Range(s.queue) = {h} \cup Range(Tail(s.queue)) /\ Tail(s.queue) \in Seq(SolveState) /\ h \in SolveState
  BY <1>2, RangeOfQueue
<1>4. h.length \in Nat /\ h \in Range(s.queue)
  BY <1>3 DEF SolveState
<1>5. Player(s) = PlayerOf(h) /\ PlayerOf(h) \in PlayersWithin[h.length]
  BY <1>4 DEF Player, Seeks
<1>6. Good(Player(s))
  BY <1>4, <1>5, Within
<1>7. PICK w \in Seq(SolveState) : t.queue = Tail(s.queue) \o w /\ Range(w) = NewStates(s)
  BY <1>1, StepsSearch
<1>8. t.enqueued = s.enqueued \cup NewPairs(s) /\ t.shortest = Found(s) /\ t \in Searches(maze)
  BY <1>1, StepsSearch
<1>9. Range(t.queue) = Range(Tail(s.queue)) \cup NewStates(s)
  <2> DEFINE q == Tail(s.queue)
  <2> HIDE DEF q
  <2>1. q \in Seq(SolveState) /\ t.queue = q \o w
    BY <1>3, <1>7 DEF q
  <2>2. Range(q \o w) = Range(q) \cup Range(w)
    BY <2>1, RangeOfQueue
  <2>3. QED
    BY <1>7, <2>1, <2>2 DEF q
<1>10. Visited(V \cup {Pair(h)}) = Visited(V) \cup {Player(s)}
  <2>1. Pair(h)[1] = h.node /\ Pair(h)[2] = h.items
    BY DEF Pair
  <2>2. Player(s) = Arrived(Pair(h)[1], Pair(h)[2])
    BY <1>5, <2>1 DEF PlayerOf
  <2>3. QED
    BY <2>2, Zenon DEF Visited
<1>11. ASSUME NEW x \in NewStates(s)
       PROVE  /\ x.length = h.length + 1 /\ x.items = Player(s)[2]
              /\ PlayerOf(x) \in Moves(Player(s))
  <2>1. PICK n \in NewNodes(s) : x = [node |-> n, items |-> Player(s)[2], length |-> h.length + 1]
    BY DEF NewStates
  <2>2. n \in Exits(maze, Player(s)[1], Player(s)[2]) /\ x.node = n
    BY <2>1 DEF NewNodes
  <2>3. x.length = h.length + 1 /\ x.items = Player(s)[2]
    BY <2>1
  <2>4. PlayerOf(x) = Arrived(n, Player(s)[2])
    BY <2>2, <2>3 DEF PlayerOf
  <2>5. QED
    BY <2>2, <2>3, <2>4 DEF Moves
<1>12. Sorted(t.queue)
  <2>1. \A x \in Range(w) : x.length = h.length + 1
    BY <1>7, <1>11
  <2>2. QED
    BY <1>1, <1>2, <1>7, <2>1, StaysSorted
<1>13. NewPairs(s) = {Pair(x) : x \in NewStates(s)}
  <2> DEFINE State(n) == [node |-> n, items |-> Player(s)[2], length |-> h.length + 1]
  <2>1. NewStates(s) = {State(n) : n \in NewNodes(s)}
    BY DEF NewStates
  <2>2. \A n \in NewNodes(s) : Pair(State(n)) = <<n, Player(s)[2]>>
    BY DEF Pair
  <2> HIDE DEF State
  <2>3. QED
    BY <2>1, <2>2 DEF NewPairs
<1>14. t.queue \in Seq(SolveState)
  BY <1>8, SearchesAre
<1>15. QED
  BY <1>3, <1>4, <1>5, <1>6, <1>8, <1>9, <1>10, <1>11, <1>12, <1>13, <1>14

(* A move more *)
LEMMA MovesWithin ==
  ASSUME IInv, NEW n \in Nat, NEW p \in PlayersWithin[n]
  PROVE  Moves(p) \subseteq PlayersWithin[n + 1]
<1>1. IsMaze(maze)
  BY DEF IInv, Shapes
<1>2. PlayersWithin[n + 1] = PlayersWithin[n] \cup UNION {Moves(q) : q \in PlayersWithin[n]}
  BY <1>1, WithinMoves
<1>3. QED
  BY <1>2

LEMMA SeeksOn ==
  ASSUME IInv, FirstRoom, Done, NEW s, NEW V, Seeks(s, V), s.queue # <<>>, NEW t, t = Stepped(maze, s)
  PROVE  Seeks(t, V \cup {Pair(Head(s.queue))})
<1> DEFINE h == Head(s.queue)
           W == V \cup {Pair(h)}
<1>1. /\ Good(Player(s)) /\ h.length \in Nat /\ Player(s) \in PlayersWithin[h.length]
      /\ Range(s.queue) = {h} \cup Range(Tail(s.queue))
      /\ Range(t.queue) = Range(Tail(s.queue)) \cup NewStates(s)
      /\ Visited(W) = Visited(V) \cup {Player(s)}
      /\ \A x \in NewStates(s) : x.length = h.length + 1 /\ PlayerOf(x) \in Moves(Player(s))
      /\ Sorted(t.queue) /\ t \in Searches(maze)
      /\ t.enqueued = s.enqueued \cup NewPairs(s)
      /\ NewPairs(s) = {Pair(x) : x \in NewStates(s)}
  BY StepHas
<1>2. s \in Searches(maze) /\ IsMaze(maze) /\ s.deadEnds = {}
      /\ s.enqueued = V \cup {Pair(x) : x \in Range(s.queue)} /\ <<1, {}>> \in s.enqueued
      /\ (\A x \in Range(s.queue) : PlayerOf(x) \in PlayersWithin[x.length])
      /\ (\A p \in Visited(V) : Good(p))
  BY DEF Seeks, IInv, Shapes
<1>3. t.deadEnds = {}
  <2>1. Exits(maze, Player(s)[1], Player(s)[2]) # {}
    BY <1>1, HasExit
  <2>2. QED
    BY <1>2, <2>1, StepsSearch
<1>4. t.enqueued = W \cup {Pair(x) : x \in Range(t.queue)}
  BY <1>1, <1>2
<1>5. ASSUME NEW x \in Range(t.queue) PROVE PlayerOf(x) \in PlayersWithin[x.length]
  <2>1. CASE x \in Range(Tail(s.queue))
    BY <1>1, <1>2, <2>1
  <2>2. CASE x \in NewStates(s)
    <3>1. Moves(Player(s)) \subseteq PlayersWithin[h.length + 1]
      BY <1>1, MovesWithin
    <3>2. QED
      BY <1>1, <2>2, <3>1
  <2>3. QED
    BY <1>1, <2>1, <2>2
<1>6. \A p \in Visited(W) : Good(p)
  BY <1>1, <1>2
<1> HIDE DEF W, h
<1>7. QED
  BY <1>1, <1>2, <1>3, <1>4, <1>5, <1>6 DEF Seeks, W, h

(* Whoever was enqueued was visited or waits. *)
LEMMA VisitedOrWaits ==
  ASSUME NEW s, NEW V, Seeks(s, V)
  PROVE  Visited(s.enqueued) = Visited(V) \cup {PlayerOf(x) : x \in Range(s.queue)}
<1>1. \A x : Arrived(Pair(x)[1], Pair(x)[2]) = PlayerOf(x)
  BY DEF Pair, PlayerOf
<1>2. s.enqueued = V \cup {Pair(x) : x \in Range(s.queue)}
  BY DEF Seeks
<1>3. Visited(s.enqueued) \subseteq Visited(V) \cup {PlayerOf(x) : x \in Range(s.queue)}
  BY <1>1, <1>2 DEF Visited
<1>4. Visited(V) \subseteq Visited(s.enqueued)
  BY <1>2 DEF Visited
<1>5. ASSUME NEW x \in Range(s.queue) PROVE PlayerOf(x) \in Visited(s.enqueued)
  <2>1. Pair(x) \in s.enqueued
    BY <1>2
  <2>2. QED
    BY <1>1, <2>1, Zenon DEF Visited
<1>6. QED
  BY <1>3, <1>4, <1>5

(* A node without the end: the search is for longer ways. *)
LEMMA KeepsLooking ==
  ASSUME IInv, FirstRoom, Done, NEW s, NEW V, Seeks(s, V), s.queue # <<>>, NotFound(s, V),
         End \notin maze.nodes[Head(s.queue).node].items, NEW t, t = Stepped(maze, s)
  PROVE  NotFound(t, V \cup {Pair(Head(s.queue))})
<1> DEFINE h == Head(s.queue)
           p == Player(s)
           W == V \cup {Pair(h)}
           L == h.length
<1>1. /\ h \in Range(s.queue) /\ L \in Nat /\ p = PlayerOf(h)
      /\ Range(s.queue) = {h} \cup Range(Tail(s.queue))
      /\ Range(t.queue) = Range(Tail(s.queue)) \cup NewStates(s)
      /\ Visited(W) = Visited(V) \cup {p}
      /\ \A x \in NewStates(s) : x.length = L + 1 /\ x.items = p[2]
      /\ Sorted(t.queue) /\ t.queue \in Seq(SolveState)
      /\ t.enqueued = s.enqueued \cup NewPairs(s) /\ t.shortest = Found(s)
  BY StepHas
<1>2. s.queue \in Seq(SolveState) /\ Sorted(s.queue)
  BY SearchesAre DEF Seeks
<1>3. Seeks(t, W)
  BY SeeksOn
<1>4. /\ s.shortest = <<>>
      /\ \A q \in Visited(V) : End \notin q[2] /\ Moves(q) \subseteq Visited(s.enqueued)
      /\ \A x \in Range(s.queue) : End \notin x.items
      /\ PlayersWithin[L] \subseteq Visited(V) \cup Waiting(s, L)
      /\ L > 0 => PlayersWithin[L - 1] \subseteq Visited(V)
  BY DEF NotFound
<1>5. t.shortest = <<>> /\ Found(s) = <<>>
  BY <1>1, <1>4 DEF Found
<1>6. End \notin p[2]
  <2>1. p[2] = h.items \cup maze.nodes[h.node].items
    BY <1>1, PlayerHolds, Zenon
  <2>2. QED
    BY <1>1, <1>4, <2>1
<1>7. Visited(s.enqueued) \subseteq Visited(t.enqueued)
  BY <1>1 DEF Visited
<1>8. Moves(p) \subseteq Visited(t.enqueued)
  <2>1. ASSUME NEW n \in Exits(maze, p[1], p[2]) PROVE <<n, p[2]>> \in t.enqueued
    <3>1. CASE <<n, p[2]>> \in s.enqueued
      BY <1>1, <3>1
    <3>2. CASE <<n, p[2]>> \notin s.enqueued
      <4>1. n \in NewNodes(s)
        BY <1>5, <3>2, Zenon DEF NewNodes
      <4>2. <<n, p[2]>> \in NewPairs(s)
        BY <4>1 DEF NewPairs
      <4>3. QED
        BY <1>1, <4>2
    <3>3. QED
      BY <3>1, <3>2
  <2>2. \A n : Arrived(<<n, p[2]>>[1], <<n, p[2]>>[2]) = Arrived(n, p[2])
    OBVIOUS
  <2>3. \A n \in Exits(maze, p[1], p[2]) : Arrived(n, p[2]) \in Visited(t.enqueued)
    BY <2>1, <2>2, Zenon DEF Visited
  <2>4. QED
    BY <2>3 DEF Moves
<1> HIDE DEF p, W
<1>9. \A q \in Visited(W) : End \notin q[2] /\ Moves(q) \subseteq Visited(t.enqueued)
  BY <1>1, <1>4, <1>6, <1>7, <1>8
<1>10. \A x \in Range(t.queue) : End \notin x.items
  BY <1>1, <1>4, <1>6
<1>11. Visited(t.enqueued) = Visited(W) \cup {PlayerOf(x) : x \in Range(t.queue)}
  BY <1>3, VisitedOrWaits
<1>12. ASSUME t.queue # <<>>
       PROVE  /\ PlayersWithin[Head(t.queue).length] \subseteq Visited(W) \cup Waiting(t, Head(t.queue).length)
              /\ Head(t.queue).length > 0 => PlayersWithin[Head(t.queue).length - 1] \subseteq Visited(W)
  <2> DEFINE M == Head(t.queue).length
  <2>1. M \in Nat /\ Head(t.queue) \in Range(t.queue)
        /\ \A x \in Range(t.queue) : x.length \in Nat /\ (x.length = M \/ x.length = M + 1)
    <3>1. Head(t.queue) \in Range(t.queue)
      BY <1>1, <1>12, RangeOfQueue
    <3>2. QED
      BY <1>1, <1>12, <3>1, SortedHead
  <2>2. \A x \in Range(s.queue) : x.length = L \/ x.length = L + 1
    BY <1>2, SortedHead
  <2>3. \A x \in Range(t.queue) : x.length = L \/ x.length = L + 1
    BY <1>1, <2>2
  <2>4. Waiting(s, L) \subseteq {p} \cup Waiting(t, L)
    BY <1>1 DEF Waiting
  <2>5. PlayersWithin[L] \subseteq Visited(W) \cup Waiting(t, L)
    BY <1>1, <1>4, <2>4
  <2> HIDE DEF M, L
  <2>6. CASE M = L
    <3>1. L > 0 => PlayersWithin[L - 1] \subseteq Visited(W)
      BY <1>1, <1>4 DEF L
    <3>2. QED
      BY <2>5, <2>6, <3>1 DEF M
  <2>7. CASE M = L + 1
    <3>1. \A x \in Range(t.queue) : x.length = L + 1
      BY <1>1, <2>1, <2>3, <2>7
    <3>2. Waiting(t, L) = {}
      <4>1. \A x \in Range(t.queue) : x.length # L
        BY <1>1, <3>1
      <4>2. QED
        BY <4>1 DEF Waiting
    <3>3. PlayersWithin[L] \subseteq Visited(W)
      BY <2>5, <3>2
    <3>4. PlayersWithin[L + 1] = PlayersWithin[L] \cup UNION {Moves(q) : q \in PlayersWithin[L]}
      <4>1. IsMaze(maze)
        BY DEF IInv, Shapes
      <4>2. QED
        BY <1>1, <4>1, WithinMoves DEF L
    <3>5. PlayersWithin[L + 1] \subseteq Visited(W) \cup Visited(t.enqueued)
      BY <1>9, <3>3, <3>4
    <3>6. {PlayerOf(x) : x \in Range(t.queue)} \subseteq Waiting(t, L + 1)
      BY <3>1 DEF Waiting
    <3>7. PlayersWithin[M] \subseteq Visited(W) \cup Waiting(t, M)
      BY <1>11, <2>7, <3>5, <3>6
    <3>8. M - 1 = L
      BY <1>1, <2>7 DEF L
    <3>9. QED
      BY <3>3, <3>7, <3>8 DEF M
  <2>8. QED
    BY <2>1, <2>3, <2>6, <2>7 DEF M
<1>13. NotFound(t, W)
  BY <1>5, <1>9, <1>10, <1>12 DEF NotFound
<1>14. QED
  BY <1>13 DEF W

(* The first solution that is found is a shortest one, for all within      *)
(* fewer moves were visited.                                               *)
LEMMA Finds ==
  ASSUME IInv, FirstRoom, Done, NEW s, NEW V, Seeks(s, V), s.queue # <<>>, NotFound(s, V),
         End \in maze.nodes[Head(s.queue).node].items, NEW t, t = Stepped(maze, s)
  PROVE  FoundShortest(t)
<1> DEFINE h == Head(s.queue)
           p == Player(s)
           k == h.length
<1>1. /\ k \in Nat /\ p = PlayerOf(h) /\ p \in PlayersWithin[k]
      /\ Range(s.queue) = {h} \cup Range(Tail(s.queue))
      /\ Range(t.queue) = Range(Tail(s.queue)) \cup NewStates(s)
      /\ \A x \in NewStates(s) : x.length = k + 1
      /\ t.shortest = Found(s)
  BY StepHas
<1>2. \A x \in Range(s.queue) : x.length \in Nat /\ (x.length = k \/ x.length = k + 1)
  <2>1. s.queue \in Seq(SolveState) /\ Sorted(s.queue)
    BY SearchesAre DEF Seeks
  <2>2. QED
    BY <2>1, SortedHead
<1>3. s.shortest = <<>> /\ (\A q \in Visited(V) : End \notin q[2])
      /\ (k > 0 => PlayersWithin[k - 1] \subseteq Visited(V))
  BY DEF NotFound
<1>4. t.shortest = <<k>>
  BY <1>1, <1>3 DEF Found
<1>5. End \in p[2]
  <2>1. p[2] = h.items \cup maze.nodes[h.node].items
    BY <1>1, PlayerHolds, Zenon
  <2>2. QED
    BY <2>1
<1> HIDE DEF p, h, k
<1>6. /\ PlayersWithin[0] = {Arrived(1, {})}
      /\ \A n \in Nat : PlayersWithin[n + 1] = PlayersWithin[n] \cup UNION {Moves(q) : q \in PlayersWithin[n]}
  <2>1. IsMaze(maze)
    BY DEF IInv, Shapes
  <2>2. QED
    BY <2>1, WithinMoves
<1>7. k # 0
  <2>1. ASSUME k = 0 PROVE FALSE
    <3>1. p = Arrived(1, {})
      BY <1>1, <1>6, <2>1
    <3>2. QED
      BY <1>5, <3>1 DEF Arrived, FirstRoom
  <2>2. QED
    BY <2>1
<1>8. k - 1 \in Nat /\ (k - 1) + 1 = k /\ k > 0
  BY <1>1, <1>7
<1>9. \A q \in PlayersWithin[k - 1] : End \notin q[2]
  BY <1>3, <1>8
<1>10. p \in PlayersWithin[k - 1] \cup UNION {Moves(q) : q \in PlayersWithin[k - 1]}
  BY <1>1, <1>6, <1>8
<1>11. \E q \in PlayersWithin[k - 1] : p \in Moves(q)
  BY <1>5, <1>9, <1>10
<1>12. IsShortest(k)
  BY <1>5, <1>9, <1>11 DEF IsShortest
<1>13. \A x \in Range(t.queue) : k <= x.length
  BY <1>1, <1>2
<1>14. QED
  BY <1>1, <1>4, <1>7, <1>12, <1>13 DEF FoundShortest

(* Longer ways change nothing. *)
LEMMA StaysFound ==
  ASSUME IInv, NEW s, NEW V, Seeks(s, V), s.queue # <<>>, FoundShortest(s), NEW t, t = Stepped(maze, s)
  PROVE  FoundShortest(t)
<1> DEFINE h == Head(s.queue)
<1>1. /\ h \in Range(s.queue) /\ h.length \in Nat
      /\ Range(s.queue) = {h} \cup Range(Tail(s.queue))
      /\ Range(t.queue) = Range(Tail(s.queue)) \cup NewStates(s)
      /\ \A x \in NewStates(s) : x.length = h.length + 1
      /\ t.shortest = Found(s)
  BY StepHas
<1>2. PICK k \in Nat \ {0} :
        s.shortest = <<k>> /\ IsShortest(k) /\ \A x \in Range(s.queue) : k <= x.length
  BY DEF FoundShortest
<1>3. k <= h.length
  BY <1>1, <1>2
<1>4. s.shortest[1] = k /\ s.shortest # <<>>
  BY <1>2
<1>5. Found(s) = <<k>>
  BY <1>1, <1>2, <1>3, <1>4 DEF Found
<1>6. \A x \in Range(t.queue) : k <= x.length
  BY <1>1, <1>2, <1>3
<1>7. QED
  BY <1>1, <1>2, <1>5, <1>6 DEF FoundShortest

(* Nothing is left unless the end was found: players do not get caught.    *)
LEMMA NothingLeft ==
  ASSUME IInv, Done, NEW s, NEW V, Seeks(s, V), NotFound(s, V), s.queue = <<>>
  PROVE  FALSE
<1>1. Range(s.queue) = {}
  BY DEF Range
<1>2. s.enqueued = V /\ <<1, {}>> \in V
  BY <1>1 DEF Seeks
<1>3. \A p \in Visited(V) : Good(p) /\ Moves(p) \subseteq Visited(V) /\ End \notin p[2]
  BY <1>2 DEF NotFound, Seeks
<1>4. Visited(V) # {}
  BY <1>2 DEF Visited
<1>5. \E p \in Visited(V) : End \in p[2]
  BY <1>3, <1>4, EndReached DEF Closed
<1>6. QED
  BY <1>3, <1>5

(* Some way through the states: a solution found is a shortest one. *)
Searching(s) == \E V : Seeks(s, V) /\ (NotFound(s, V) \/ FoundShortest(s))

(* It begins at the first node. *)
LEMMA SearchBegins ==
  ASSUME IInv
  PROVE  Searching(NewSearch) /\ NewSearch \in Searches(maze) /\ ToCome(NewSearch) = Cardinality(AnyPlayer)
<1> DEFINE x == [node |-> 1, items |-> {}, length |-> 0]
           o == Arrived(1, {})
<1>1. IsMaze(maze)
  BY DEF IInv, Shapes
<1>2. 1 \in Nodes
  BY <1>1 DEF IsMaze, Nodes
<1>3. x \in SolveState /\ x.node = 1 /\ x.items = {} /\ x.length = 0
  BY <1>2 DEF SolveState
<1>4. PlayerOf(x) = o /\ Pair(x) = <<1, {}>>
  BY <1>3 DEF PlayerOf, Pair
<1>5. NewSearch = [queue |-> <<x>>, enqueued |-> {<<1, {}>>}, shortest |-> <<>>, deadEnds |-> {}]
  BY DEF NewSearch
<1> HIDE DEF x, o
<1>6. /\ NewSearch.queue = <<x>> /\ NewSearch.enqueued = {<<1, {}>>}
      /\ NewSearch.shortest = <<>> /\ NewSearch.deadEnds = {}
  BY <1>5
<1>7. <<x>> \in Seq(SolveState) /\ Len(<<x>>) = 1 /\ Head(<<x>>) = x /\ <<x>> # <<>> /\ <<x>>[1] = x
      /\ DOMAIN <<x>> = 1 .. 1
  BY <1>3
<1>8. Range(<<x>>) = {x}
  BY <1>7 DEF Range
<1>9. NewSearch \in Searches(maze)
  <2>1. {<<1, {}>>} \in SUBSET AnyPlayer
    BY <1>2 DEF AnyPlayer
  <2>2. <<>> \in Seq(Nat) /\ {} \in SUBSET Nodes
    OBVIOUS
  <2>3. QED
    BY <1>5, <1>7, <2>1, <2>2, SearchesAre
<1>10. PlayersWithin[0] = {o}
  BY <1>1, WithinMoves DEF o
<1>11. Visited({}) = {}
  BY DEF Visited
<1>12. Sorted(<<x>>)
  <2>1. \A i \in 1 .. 1 : i = 1
    OBVIOUS
  <2>2. \A i \in 1 .. 1 : <<x>>[i].length = 0
    BY <1>3, <1>7, <2>1
  <2>3. QED
    BY <1>7, <2>2 DEF Sorted
<1>13. Seeks(NewSearch, {})
  <2>1. NewSearch.enqueued = {} \cup {Pair(y) : y \in Range(NewSearch.queue)} /\ <<1, {}>> \in NewSearch.enqueued
    BY <1>4, <1>6, <1>8
  <2>2. \A y \in Range(NewSearch.queue) : PlayerOf(y) \in PlayersWithin[y.length]
    BY <1>3, <1>4, <1>6, <1>8, <1>10
  <2>3. Sorted(NewSearch.queue) /\ NewSearch.deadEnds = {}
    BY <1>6, <1>12
  <2>4. QED
    BY <1>9, <1>11, <2>1, <2>2, <2>3 DEF Seeks
<1>14. NotFound(NewSearch, {})
  <2>1. PlayersWithin[0] \subseteq Waiting(NewSearch, 0)
    BY <1>3, <1>4, <1>6, <1>8, <1>10 DEF Waiting
  <2>2. Head(NewSearch.queue).length = 0
    BY <1>3, <1>6, <1>7
  <2>3. \A y \in Range(NewSearch.queue) : End \notin y.items
    BY <1>3, <1>6, <1>8
  <2>4. QED
    BY <1>6, <1>11, <2>1, <2>2, <2>3 DEF NotFound
<1>15. ToCome(NewSearch) = Cardinality(AnyPlayer)
  <2>1. Cardinality({<<1, {}>>}) = 1
    BY FS_Singleton
  <2>2. Cardinality(AnyPlayer) \in Nat
    BY <1>1, FinitePlayers, FS_CardinalityType
  <2>3. QED
    BY <1>6, <1>7, <2>1, <2>2 DEF ToCome
<1>16. QED
  BY <1>9, <1>13, <1>14, <1>15 DEF Searching

(* Each step goes on with it. *)
LEMMA SearchGoesOn ==
  ASSUME IInv, FirstRoom, Done, NEW s, Searching(s), s.queue # <<>>
  PROVE  Searching(Stepped(maze, s))
<1> DEFINE t == Stepped(maze, s)
           h == Head(s.queue)
<1>1. PICK V : Seeks(s, V) /\ (NotFound(s, V) \/ FoundShortest(s))
  BY DEF Searching
<1>2. Seeks(t, V \cup {Pair(h)})
  BY <1>1, SeeksOn
<1>3. CASE FoundShortest(s)
  BY <1>1, <1>2, <1>3, StaysFound DEF Searching
<1>4. CASE NotFound(s, V) /\ End \in maze.nodes[h.node].items
  <2>1. FoundShortest(t)
    BY <1>1, <1>4, Finds
  <2>2. QED
    BY <1>2, <2>1 DEF Searching
<1>5. CASE NotFound(s, V) /\ End \notin maze.nodes[h.node].items
  <2>1. NotFound(t, V \cup {Pair(h)})
    BY <1>1, <1>5, KeepsLooking
  <2>2. QED
    BY <1>2, <2>1 DEF Searching
<1>6. QED
  BY <1>1, <1>3, <1>4, <1>5

(* As fewer states can still come each time, Solve ends. *)
LEMMA SearchEnds ==
  ASSUME IInv, FirstRoom, Done
  PROVE  Solve(maze).queue = <<>> /\ Searching(Solve(maze))
<1>1. IsMaze(maze)
  BY DEF IInv, Shapes
<1>2. \A s \in Searches(maze) : s.queue # <<>> => Stepped(maze, s) \in Searches(maze)
  BY <1>1, StepsSearch
<1> DEFINE S == Searches(maze)
           all == Cardinality((DOMAIN maze.nodes) \X SUBSET Items)
<1>3. PICK f : /\ \A n \in Nat, s \in S : f[n][s] = Searched(f, maze, n, s)
               /\ Solve(maze) = f[all][NewSearch]
  <2>1. \E f : /\ \A n \in Nat, s \in S : f[n][s] = Searched(f, maze, n, s)
               /\ Solve(maze) = f[all][NewSearch]
    BY <1>2, SolveUnfolds
  <2>2. QED
    BY <2>1
<1>4. all = Cardinality(AnyPlayer) /\ all \in Nat
  <2>1. all = Cardinality(AnyPlayer)
    BY DEF AnyPlayer, Nodes
  <2>2. QED
    BY <1>1, <2>1, FinitePlayers, FS_CardinalityType
<1> HIDE DEF all, S
<1> DEFINE Ends(s) == s.queue = <<>> /\ Searching(s)
           T == {n \in Nat : \E s : Searching(s) /\ ToCome(s) <= n /\ ~ Ends(f[n][s])}
<1>5. ASSUME T # {}
      PROVE  FALSE
  <2>1. T \in SUBSET Nat
    OBVIOUS
  <2>2. PICK n \in T : \A j \in T : n <= j
    BY <1>5, <2>1, LeastNumber, Zenon
  <2>3. PICK s : Searching(s) /\ ToCome(s) <= n /\ ~ Ends(f[n][s])
    BY <2>2
  <2>4. s \in S
    BY <2>3 DEF Searching, Seeks, S
  <2>5. f[n][s] = Searched(f, maze, n, s)
    BY <1>3, <2>4
  <2>6. s.queue # <<>>
    <3>1. ASSUME s.queue = <<>> PROVE FALSE
      <4>1. f[n][s] = s
        BY <2>5, <3>1 DEF Searched
      <4>2. QED
        BY <2>3, <3>1, <4>1
    <3>2. QED
      BY <3>1
  <2> DEFINE t == Stepped(maze, s)
  <2>7. ToCome(t) \in Int /\ ToCome(s) \in Int /\ ToCome(t) < ToCome(s)
    BY <1>1, <2>4, <2>6, StepsSearch DEF S
  <2>8. ToCome(s) > 0
    <3>1. s.queue \in Seq(SolveState) /\ s.enqueued \in SUBSET AnyPlayer
      BY <2>4, SearchesAre DEF S
    <3>2. Len(s.queue) \in Nat /\ Len(s.queue) # 0
      BY <2>6, <3>1
    <3>3. Cardinality(s.enqueued) <= Cardinality(AnyPlayer) /\ IsFiniteSet(s.enqueued)
      BY <1>1, <3>1, FinitePlayers, FS_Subset
    <3>4. Cardinality(s.enqueued) \in Nat
      BY <3>3, FS_CardinalityType
    <3>5. QED
      BY <1>4, <3>2, <3>3, <3>4 DEF ToCome
  <2>9. Searching(t)
    BY <2>3, <2>6, SearchGoesOn
  <2> HIDE DEF t
  <2>10. n \in Nat /\ n # 0 /\ n - 1 \in Nat /\ ToCome(t) <= n - 1 /\ ~ (n <= n - 1)
    BY <2>3, <2>7, <2>8
  <2>11. f[n][s] = f[n - 1][t]
    BY <2>5, <2>6, <2>10 DEF Searched, t
  <2> HIDE DEF Ends
  <2>12. n - 1 \in T
    BY <2>3, <2>9, <2>10, <2>11
  <2>13. QED
    BY <2>2, <2>10, <2>12
<1>6. Searching(NewSearch) /\ ToCome(NewSearch) <= all
  BY <1>4, SearchBegins
<1>7. Ends(f[all][NewSearch])
  <2> HIDE DEF Ends
  <2>1. QED
    BY <1>4, <1>5, <1>6
<1>8. QED
  BY <1>3, <1>7

(* SolverFindsShortest of every maze that is done *)
LEMMA Solves == IInv /\ FirstRoom => SolverFindsShortest
<1> SUFFICES ASSUME IInv, FirstRoom, Done PROVE SolverFindsShortest
  BY DEF SolverFindsShortest
<1> DEFINE s == Solve(maze)
<1>1. s.queue = <<>> /\ Searching(s)
  BY SearchEnds
<1> HIDE DEF s
<1>2. PICK V : Seeks(s, V) /\ (NotFound(s, V) \/ FoundShortest(s))
  BY <1>1 DEF Searching
<1>3. FoundShortest(s) /\ s.deadEnds = {}
  BY <1>1, <1>2, NothingLeft DEF Seeks
<1>4. PICK k \in Nat \ {0} : s.shortest = <<k>> /\ IsShortest(k)
  BY <1>3 DEF FoundShortest
<1>5. s.shortest # <<>> /\ s.shortest[1] = k
  BY <1>4
<1>6. IsShortest(s.shortest[1])
  BY <1>4, <1>5
<1>7. IsGood(s)
  BY <1>3, <1>5 DEF IsGood
<1>8. QED
  BY <1>1, <1>6, <1>7, Zenon DEF SolverFindsShortest, IsShortest, s

(* The end never comes to lie in the first room. *)
Longer(m, w, nodes) ==
  /\ w.nodes[1] = m.nodes[1] /\ DOMAIN w.nodes = 1 .. Len(w.nodes)
  /\ Len(w.nodes) = Len(m.nodes) + nodes /\ Len(m.nodes) \in Nat \ {0}

(* A line of nodes is added at the end. *)
LEMMA LineIsLonger ==
  ASSUME NEW m, IsMaze(m), NEW n, NEW backs \in Seq(BOOLEAN), NEW locks
  PROVE  Longer(m, Line(m, n, backs, locks), Len(backs))
<1> DEFINE node == [keys |-> m.nodes[n].keys \cup locks, items |-> {}]
           nodes == [i \in DOMAIN backs |-> node]
           Entry == Node \cup {node}
<1>1. Line(m, n, backs, locks).nodes = m.nodes \o nodes
  BY DEF Line
<1> HIDE DEF node
<1>2. m.nodes \in Seq(Node) /\ m.nodes # <<>>
  BY DEF IsMaze
<1>3. m.nodes \in Seq(Entry) /\ Len(m.nodes) \in Nat \ {0}
  BY <1>2
<1>4. Len(backs) \in Nat /\ DOMAIN backs = 1 .. Len(backs)
  OBVIOUS
<1>5. nodes \in Seq(Entry) /\ Len(nodes) = Len(backs)
  BY <1>4
<1> HIDE DEF nodes, Entry
<1>6. /\ (m.nodes \o nodes)[1] = m.nodes[1] /\ DOMAIN (m.nodes \o nodes) = 1 .. Len(m.nodes \o nodes)
      /\ Len(m.nodes \o nodes) = Len(m.nodes) + Len(nodes)
  <2> DEFINE a == m.nodes
  <2>1. a \in Seq(Entry) /\ nodes \in Seq(Entry) /\ Len(a) \in Nat \ {0}
    BY <1>3, <1>5
  <2> HIDE DEF a
  <2>2. Len(a \o nodes) = Len(a) + Len(nodes) /\ DOMAIN (a \o nodes) = 1 .. Len(a \o nodes)
    BY <2>1
  <2>3. (a \o nodes)[1] = a[1]
    BY <2>1
  <2>4. QED
    BY <2>2, <2>3 DEF a
<1> DEFINE w == Line(m, n, backs, locks)
<1>7. w.nodes = m.nodes \o nodes
  BY <1>1
<1> HIDE DEF w
<1>8. Longer(m, w, Len(backs))
  BY <1>3, <1>5, <1>6, <1>7, Zenon DEF Longer
<1>9. QED
  BY <1>8 DEF w

(* No step puts anything into the first room. *)
LEMMA FirstRoomStays == IInv /\ FirstRoom /\ [Next]_vars => FirstRoom'
<1> SUFFICES ASSUME IInv, FirstRoom, [Next]_vars PROVE FirstRoom'
  OBVIOUS
<1>1. IsMaze(maze)
  BY DEF IInv, Shapes
<1> SUFFICES maze'.nodes[1] = maze.nodes[1]
  BY DEF FirstRoom
<1>2. <<TRUE>> \in Seq(BOOLEAN) /\ Len(<<TRUE>>) = 1
  OBVIOUS
<1>3. ASSUME NEW n \in Nodes, Bud(n)
      PROVE  maze'.nodes[1] = maze.nodes[1]
  <2>1. maze' = Line(maze, n, <<TRUE>>, Require \ KeysOf(n))
    BY <1>3 DEF Bud, Dug
  <2>2. Longer(maze, Line(maze, n, <<TRUE>>, Require \ KeysOf(n)), Len(<<TRUE>>))
    BY <1>1, <1>2, LineIsLonger
  <2>3. QED
    BY <2>1, <2>2, Zenon DEF Longer
<1>4. ASSUME NEW n \in Nodes, Connect(n)
      PROVE  maze'.nodes[1] = maze.nodes[1]
  <2>1. \A a, b, back, locks : Linked(maze, a, b, back, locks).nodes = maze.nodes
    BY <1>1 DEF Linked, IsMaze
  <2>2. QED
    BY <1>4, <2>1 DEF Connect
<1>5. ASSUME NEW n \in Nodes, Extend(n)
      PROVE  maze'.nodes[1] = maze.nodes[1]
  <2> DEFINE locks == Require \ KeysOf(n)
  <2>1. PICK length \in 1 .. 3 :
          \/ maze' = DigPath(maze, n, length, locks)
          \/ \E backs \in [1 .. length -> BOOLEAN],
                end \in {m \in Nodes : KeysOf(m) \subseteq KeysOf(n)} :
               maze' = DigOneWayLoop(maze, n, backs, end, locks)
    BY <1>5 DEF Extend
  <2> HIDE DEF locks
  <2>2. CASE maze' = DigPath(maze, n, length, locks)
    <3> DEFINE K == (length + 1) \div 2
               backs == [i \in 1 .. K |-> TRUE]
    <3>1. K \in Nat
      OBVIOUS
    <3> HIDE DEF K
    <3>2. backs \in Seq(BOOLEAN)
      BY <3>1
    <3>3. maze' = Line(maze, n, backs, locks)
      BY <2>2 DEF DigPath, K
    <3> HIDE DEF backs
    <3>4. Longer(maze, Line(maze, n, backs, locks), Len(backs))
      BY <1>1, <3>2, LineIsLonger
    <3>5. QED
      BY <3>3, <3>4, Zenon DEF Longer
  <2>3. CASE \E backs \in [1 .. length -> BOOLEAN], end \in Nodes :
               maze' = DigOneWayLoop(maze, n, backs, end, locks)
    <3>1. PICK backs \in [1 .. length -> BOOLEAN], end \in Nodes :
            maze' = DigOneWayLoop(maze, n, backs, end, locks)
      BY <2>3
    <3>2. backs \in Seq(BOOLEAN)
      <4>1. length \in Nat
        OBVIOUS
      <4>2. QED
        BY <4>1
    <3>3. maze'.nodes = Line(maze, n, backs, locks).nodes
      BY <3>1 DEF DigOneWayLoop, Linked, Line
    <3>4. Longer(maze, Line(maze, n, backs, locks), Len(backs))
      BY <1>1, <3>2, LineIsLonger
    <3>5. QED
      BY <3>3, <3>4, Zenon DEF Longer
  <2>4. QED
    BY <2>1, <2>2, <2>3
<1>6. ASSUME EndStage
      PROVE  maze'.nodes[1] = maze.nodes[1]
  <2>1. PICK n \in FarNodes :
          maze' = [Line(maze, n, <<TRUE>>, EndLocks(n)) EXCEPT
                     !.nodes[Len(Line(maze, n, <<TRUE>>, EndLocks(n)).nodes)].items = {stages[stage].provide}]
    BY <1>6, Zenon DEF EndStage, Dug
  <2> DEFINE dug == Line(maze, n, <<TRUE>>, EndLocks(n))
             last == Len(dug.nodes)
  <2>2. dug.nodes[1] = maze.nodes[1] /\ last = Len(maze.nodes) + 1 /\ Len(maze.nodes) \in Nat \ {0}
        /\ DOMAIN dug.nodes = 1 .. last
    <3>1. Longer(maze, dug, Len(<<TRUE>>))
      BY <1>1, <1>2, LineIsLonger
    <3> HIDE DEF dug
    <3>2. QED
      BY <1>2, <3>1 DEF Longer
  <2>3. dug = [nodes |-> dug.nodes, links |-> dug.links]
    BY DEF Line
  <2> HIDE DEF dug
  <2>4. last # 1 /\ 1 \in DOMAIN dug.nodes
    BY <2>2
  <2>5. maze' = [dug EXCEPT !.nodes[last].items = {stages[stage].provide}]
    BY <2>1 DEF dug
  <2> HIDE DEF last
  <2>6. maze'.nodes[1] = dug.nodes[1]
    BY <2>3, <2>4, <2>5
  <2>7. QED
    BY <2>2, <2>6
<1>7. CASE UNCHANGED vars
  BY <1>7 DEF vars
<1>8. QED
  BY <1>3, <1>4, <1>5, <1>6, <1>7 DEF Next

(* The start is not the end. *)
LEMMA FirstRoomFirst == Init => FirstRoom
<1> SUFFICES ASSUME Init PROVE FirstRoom
  OBVIOUS
<1>1. maze.nodes = <<[keys |-> {}, items |-> {Start}]>>
  BY DEF Init
<1>2. maze.nodes[1].items = {Start}
  BY <1>1
<1>3. QED
  BY <1>2, MazeAssumption DEF FirstRoom

(* The solver visits a maze breadth first and never more often than there  *)
(* are player states; it finds no dead end, and a shortest way to the end. *)
THEOREM MazesAreSolved == Spec => []SolverFindsShortest
<1>1. Spec => []FirstRoom
  BY FirstRoomFirst, FirstRoomStays, Invariance, PTL DEF Spec
<1>2. QED
  BY <1>1, Invariance, Solves, PTL
=============================================================================
