--------------------------- MODULE EntityBusProofs ---------------------------
(***************************************************************************)
(* What entities keep of the changes that they were told to make, and what *)
(* the search through wires finds: for all entities, programs, rooms,      *)
(* wires and sequences of actions.                                         *)
(***************************************************************************)
EXTENDS EntityBus, FiniteSetTheorems, FunctionTheorems, WellFoundedInduction, TLAPS

-----------------------------------------------------------------------------
(* Sequences of anything *)

Listed(s) == s \in Seq(Range(s))

(* A sequence of members of any set is one of those that it has. *)
LEMMA ListOfAny ==
  ASSUME NEW S, NEW s \in Seq(S)
  PROVE  Listed(s) /\ Range(s) \subseteq S
<1>1. Len(s) \in Nat /\ s \in [1 .. Len(s) -> S] /\ DOMAIN s = 1 .. Len(s)
  OBVIOUS
<1>2. Range(s) \subseteq S
  BY <1>1 DEF Range
<1>3. s \in [1 .. Len(s) -> Range(s)]
  BY <1>1 DEF Range
<1>4. QED
  BY <1>1, <1>2, <1>3 DEF Listed

(* What is in a sequence is its first or one of the rest. *)
LEMMA HeadAndTail ==
  ASSUME NEW s, Listed(s), s # <<>>
  PROVE  /\ Listed(Tail(s))
         /\ s[1] \in Range(s) /\ Head(s) = s[1]
         /\ Range(s) = {s[1]} \cup Range(Tail(s))
<1> DEFINE S == Range(s)
<1>1. s \in Seq(S) /\ Len(s) \in Nat /\ Len(s) >= 1 /\ DOMAIN s = 1 .. Len(s)
  BY DEF Listed
<1>2. /\ Tail(s) \in Seq(S) /\ Len(Tail(s)) = Len(s) - 1
      /\ \A i \in 1 .. Len(s) - 1 : Tail(s)[i] = s[i + 1]
      /\ DOMAIN Tail(s) = 1 .. Len(s) - 1
  BY <1>1
<1>3. Range(s) = {s[1]} \cup Range(Tail(s))
  <2>1. ASSUME NEW x \in Range(s) PROVE x \in {s[1]} \cup Range(Tail(s))
    <3>1. PICK i \in 1 .. Len(s) : x = s[i]
      BY <1>1, <2>1 DEF Range
    <3>2. CASE i # 1
      <4>1. i - 1 \in 1 .. Len(s) - 1 /\ Tail(s)[i - 1] = s[i]
        BY <1>1, <1>2, <3>2
      <4>2. QED
        BY <1>2, <3>1, <4>1 DEF Range
    <3>3. QED
      BY <3>1, <3>2
  <2>2. ASSUME NEW x \in Range(Tail(s)) PROVE x \in Range(s)
    <3>1. PICK i \in 1 .. Len(s) - 1 : x = Tail(s)[i]
      BY <1>2, <2>2 DEF Range
    <3>2. i + 1 \in 1 .. Len(s) /\ x = s[i + 1]
      BY <1>1, <1>2, <3>1
    <3>3. QED
      BY <1>1, <3>2 DEF Range
  <2>3. s[1] \in Range(s)
    BY <1>1 DEF Range
  <2>4. QED
    BY <2>1, <2>2, <2>3
<1> HIDE DEF S
<1>4. Listed(Tail(s))
  BY <1>2, ListOfAny, Zenon
<1>5. s[1] \in Range(s) /\ Head(s) = s[1]
  BY <1>1, <1>3
<1>6. QED
  BY <1>3, <1>4, <1>5

(* What is in a sequence that is made of two *)
LEMMA Joint ==
  ASSUME NEW s, Listed(s), NEW t, Listed(t)
  PROVE  Listed(s \o t) /\ Range(s \o t) = Range(s) \cup Range(t)
<1> DEFINE S == Range(s) \cup Range(t)
           u == s \o t
<1>1. /\ s \in Seq(S) /\ t \in Seq(S) /\ Len(s) \in Nat /\ Len(t) \in Nat
      /\ DOMAIN s = 1 .. Len(s) /\ DOMAIN t = 1 .. Len(t)
  BY DEF Listed
<1>2. /\ u \in Seq(S) /\ Len(u) = Len(s) + Len(t) /\ DOMAIN u = 1 .. Len(s) + Len(t)
      /\ \A i \in 1 .. Len(s) : u[i] = s[i]
      /\ \A i \in 1 .. Len(t) : u[Len(s) + i] = t[i]
  BY <1>1
<1> HIDE DEF u
<1>3. Listed(u) /\ Range(u) \subseteq S
  BY <1>2, ListOfAny
<1>4. ASSUME NEW x \in Range(s) PROVE x \in Range(u)
  <2>1. PICK i \in 1 .. Len(s) : x = s[i]
    BY <1>1, <1>4 DEF Range
  <2>2. i \in DOMAIN u /\ x = u[i]
    BY <1>1, <1>2, <2>1
  <2>3. QED
    BY <2>2 DEF Range
<1>5. ASSUME NEW x \in Range(t) PROVE x \in Range(u)
  <2>1. PICK i \in 1 .. Len(t) : x = t[i]
    BY <1>1, <1>5 DEF Range
  <2>2. Len(s) + i \in DOMAIN u /\ x = u[Len(s) + i]
    BY <1>1, <1>2, <2>1
  <2>3. QED
    BY <2>2 DEF Range
<1>6. QED
  BY <1>3, <1>4, <1>5 DEF u

LEMMA OnlyOne ==
  ASSUME NEW x
  PROVE  Listed(<<x>>) /\ Range(<<x>>) = {x}
<1>1. <<x>> \in Seq({x}) /\ DOMAIN <<x>> = 1 .. 1 /\ <<x>>[1] = x
  OBVIOUS
<1>2. Listed(<<x>>)
  BY <1>1, ListOfAny, Zenon
<1>3. Range(<<x>>) = {x}
  BY <1>1 DEF Range
<1>4. QED
  BY <1>2, <1>3

LEMMA NoneAtAll == Listed(<<>>) /\ Range(<<>>) = {}
<1>1. Range(<<>>) = {}
  BY DEF Range
<1>2. QED
  BY <1>1 DEF Listed

LEMMA OneMore ==
  ASSUME NEW s, Listed(s), NEW x
  PROVE  Listed(Append(s, x)) /\ Range(Append(s, x)) = Range(s) \cup {x}
<1> DEFINE S == Range(s) \cup {x}
<1>1. s \in Seq(S)
  BY DEF Listed
<1>2. Append(s, x) = s \o <<x>>
  BY <1>1
<1>3. QED
  BY <1>2, Joint, OnlyOne

(* The first of a sequence is replaced, and others come before it. *)
LEMMA Pushed ==
  ASSUME NEW s, Listed(s), s # <<>>, NEW f, Listed(f), NEW c
  PROVE  /\ Listed(f \o <<c>> \o Tail(s))
         /\ Range(f \o <<c>> \o Tail(s)) = Range(f) \cup {c} \cup Range(Tail(s))
<1>1. Listed(Tail(s)) /\ Listed(<<c>>) /\ Range(<<c>>) = {c}
  BY HeadAndTail, OnlyOne
<1>2. Listed(f \o <<c>>) /\ Range(f \o <<c>>) = Range(f) \cup {c}
  BY <1>1, Joint
<1>3. QED
  BY <1>1, <1>2, Joint

LEMMA TopReplaced ==
  ASSUME NEW s, Listed(s), s # <<>>, NEW c
  PROVE  Listed(<<c>> \o Tail(s)) /\ Range(<<c>> \o Tail(s)) = {c} \cup Range(Tail(s))
  BY HeadAndTail, OnlyOne, Joint

-----------------------------------------------------------------------------
(* Finite sets, and the sequences made of them *)

LEMMA FiniteImage ==
  ASSUME NEW S, IsFiniteSet(S), NEW f, DOMAIN f = S
  PROVE  IsFiniteSet({f[x] : x \in S})
<1> DEFINE T == {f[x] : x \in S}
           g == [x \in S |-> f[x]]
<1>1. g \in Surjection(S, T)
  <2>1. g \in [S -> T] /\ \A y \in T : \E x \in S : g[x] = y
    OBVIOUS
  <2>2. QED
    BY <2>1, Fun_IsSurj
<1>2. QED
  BY <1>1, FS_Surjection

(* SetToSeq of a finite set has each of its members. *)
LEMMA SequenceOfSet ==
  ASSUME NEW S, IsFiniteSet(S)
  PROVE  /\ SetToSeq(S) \in Seq(S) /\ Listed(SetToSeq(S)) /\ Range(SetToSeq(S)) = S
<1> DEFINE n == Cardinality(S)
           f == SetToSeq(S)
<1>1. n \in Nat /\ \E g : g \in Bijection(1 .. n, S)
  BY FS_CardinalityType, Fun_ExistsBij
<1>2. PICK g : g \in Bijection(1 .. n, S)
  BY <1>1
<1>3. g \in [1 .. n -> S] /\ IsInjective(g)
  <2>1. g \in [1 .. n -> S] /\ \A a, b \in 1 .. n : g[a] = g[b] => a = b
    BY <1>2, Fun_BijectionProperties
  <2>2. QED
    BY <2>1 DEF IsInjective
<1>4. f \in [1 .. n -> S] /\ IsInjective(f)
  BY <1>3 DEF SetToSeq
<1> HIDE DEF f
<1>5. f \in Injection(1 .. n, S)
  <2>1. \A a, b \in 1 .. n : f[a] = f[b] => a = b
    BY <1>4 DEF IsInjective
  <2>2. QED
    BY <1>4, <2>1, Fun_IsInj
<1>6. Cardinality(1 .. n) = n
  BY <1>1, FS_Interval
<1> HIDE DEF n
<1>7. f \in Surjection(1 .. n, S)
  BY <1>5, <1>6, FS_Injection DEF n
<1>8. f \in Seq(S) /\ DOMAIN f = 1 .. n
  BY <1>1, <1>4
<1>9. \A x \in S : \E i \in 1 .. n : f[i] = x
  BY <1>7 DEF Surjection
<1>10. S \subseteq Range(f)
  BY <1>8, <1>9 DEF Range
<1>11. QED
  BY <1>8, <1>10, ListOfAny DEF f

(* A set of numbers has a least one. *)
LEMMA LeastNumber ==
  ASSUME NEW T \in SUBSET Nat, T # {}
  PROVE  \E x \in T : \A y \in T : x <= y
<1> DEFINE R == {p \in Nat \X Nat : p[1] < p[2]}
<1>1. IsWellFoundedOn(R, Nat)
  BY NatLessThanWellFounded DEF OpToRel
<1>2. \A x, y \in Nat : x < y => <<x, y>> \in R
  OBVIOUS
<1> HIDE DEF R
<1>3. PICK x \in T : \A y \in T : ~ (<<y, x>> \in R)
  BY <1>1, WFMin
<1>4. ASSUME NEW y \in T PROVE x <= y
  <2>1. x \in Nat /\ y \in Nat /\ ~ (<<y, x>> \in R)
    BY <1>3
  <2>2. ~ (y < x)
    BY <1>2, <2>1
  <2>3. QED
    BY <2>1, <2>2
<1>5. QED
  BY <1>4

-----------------------------------------------------------------------------
(* Steps from a value, one after the other *)

RunsTo(f, n, S, a, next) ==
  /\ f \in [0 .. n -> S] /\ f[0] = a
  /\ \A i \in 0 .. n - 1 : f[i + 1] = next[f[i]]

(* As far as two of them go, they are the same. *)
LEMMA RunsOnce ==
  ASSUME NEW S, NEW a \in S, NEW next \in [S -> S], NEW n \in Nat, NEW m \in Nat, NEW f, NEW g,
         RunsTo(f, n, S, a, next), RunsTo(g, m, S, a, next), NEW k \in Nat, k <= n, k <= m
  PROVE  f[k] = g[k]
<1> DEFINE T == {i \in Nat : i <= n /\ i <= m /\ f[i] # g[i]}
<1> SUFFICES ASSUME k \in T PROVE FALSE
  OBVIOUS
<1>1. PICK i \in T : \A j \in T : i <= j
  BY LeastNumber, Zenon
<1>2. i # 0
  BY <1>1 DEF RunsTo
<1>3. i - 1 \in Nat /\ ~ (i <= i - 1) /\ i - 1 \in 0 .. n - 1 /\ i - 1 \in 0 .. m - 1
      /\ (i - 1) + 1 = i /\ i - 1 <= n /\ i - 1 <= m
  BY <1>2
<1>4. f[i - 1] = g[i - 1]
  BY <1>1, <1>3
<1>5. f[i] = next[f[i - 1]] /\ g[i] = next[g[i - 1]]
  BY <1>3 DEF RunsTo
<1>6. QED
  BY <1>1, <1>4, <1>5

(* There are as many steps as one likes. *)
LEMMA Runs ==
  ASSUME NEW S, NEW a \in S, NEW next \in [S -> S], NEW n \in Nat
  PROVE  \E f : RunsTo(f, n, S, a, next)
<1> DEFINE T == {i \in Nat : ~ \E f : RunsTo(f, i, S, a, next)}
<1> SUFFICES ASSUME n \in T PROVE FALSE
  OBVIOUS
<1>1. PICK i \in T : \A j \in T : i <= j
  BY LeastNumber, Zenon
<1>2. CASE i = 0
  <2> DEFINE f == [j \in 0 .. 0 |-> a]
  <2>1. RunsTo(f, 0, S, a, next)
    BY DEF RunsTo
  <2>2. QED
    BY <1>2, <2>1
<1>3. CASE i # 0
  <2>1. i \in Nat /\ i - 1 \in Nat /\ ~ (i <= i - 1)
    BY <1>3
  <2>2. PICK g : RunsTo(g, i - 1, S, a, next)
    BY <1>1, <2>1
  <2> DEFINE f == [j \in 0 .. i |-> IF j = i THEN next[g[i - 1]] ELSE g[j]]
  <2>3. g \in [0 .. i - 1 -> S] /\ g[0] = a /\ \A j \in 0 .. i - 2 : g[j + 1] = next[g[j]]
    BY <2>1, <2>2 DEF RunsTo
  <2>4. f \in [0 .. i -> S] /\ f[0] = a
    BY <2>1, <2>3
  <2>5. ASSUME NEW j \in 0 .. i - 1 PROVE f[j + 1] = next[f[j]]
    BY <2>1, <2>3
  <2> HIDE DEF f
  <2>6. RunsTo(f, i, S, a, next)
    BY <2>4, <2>5 DEF RunsTo
  <2>7. QED
    BY <2>6
<1>4. QED
  BY <1>2, <1>3

RunsForever(f, S, a, next) ==
  /\ f \in [Nat -> S] /\ f[0] = a
  /\ \A n \in Nat : f[n + 1] = next[f[n]]

(* And they never end. *)
LEMMA RunsOn ==
  ASSUME NEW S, NEW a \in S, NEW next \in [S -> S]
  PROVE  \E f : RunsForever(f, S, a, next)
<1> DEFINE Some(n) == CHOOSE f : RunsTo(f, n, S, a, next)
           h == [n \in Nat |-> Some(n)[n]]
<1>1. \A n \in Nat : RunsTo(Some(n), n, S, a, next)
  BY Runs
<1> HIDE DEF Some
<1>2. ASSUME NEW n \in Nat
      PROVE  h[n] \in S /\ h[n + 1] = next[h[n]]
  <2>1. RunsTo(Some(n), n, S, a, next) /\ RunsTo(Some(n + 1), n + 1, S, a, next)
    BY <1>1
  <2>2. Some(n)[n] = Some(n + 1)[n]
    BY <2>1, RunsOnce
  <2>3. Some(n + 1)[n + 1] = next[Some(n + 1)[n]] /\ Some(n)[n] \in S
    BY <2>1 DEF RunsTo
  <2>4. QED
    BY <2>2, <2>3
<1>3. h[0] = a
  BY <1>1 DEF RunsTo
<1>4. h \in [Nat -> S]
  BY <1>2
<1>5. QED
  BY <1>2, <1>3, <1>4 DEF RunsForever

(* What holds of a number and goes on from there holds of all after it. *)
LEMMA UpFrom ==
  ASSUME NEW T \in SUBSET Nat, NEW k \in T, \A i \in T : k <= i => i + 1 \in T
  PROVE  \A i \in Nat : k <= i => i \in T
<1> DEFINE U == {i \in Nat : k <= i /\ i \notin T}
<1> SUFFICES ASSUME U # {} PROVE FALSE
  OBVIOUS
<1>1. PICK i \in U : \A j \in U : i <= j
  BY LeastNumber, Zenon
<1>2. i \in Nat /\ k \in Nat /\ i # k /\ k <= i
  BY <1>1
<1>3. i - 1 \in Nat /\ k <= i - 1 /\ (i - 1) + 1 = i /\ ~ (i <= i - 1)
  BY <1>2
<1>4. i - 1 \in T
  BY <1>1, <1>3
<1>5. QED
  BY <1>1, <1>3, <1>4

(* There is one such sequence only. *)
LEMMA ForeverOnce ==
  ASSUME NEW S, NEW a \in S, NEW next \in [S -> S], NEW f, NEW g,
         RunsForever(f, S, a, next), RunsForever(g, S, a, next)
  PROVE  \A k \in Nat : f[k] = g[k]
<1> DEFINE T == {k \in Nat : f[k] = g[k]}
<1>1. 0 \in T
  BY DEF RunsForever
<1>2. \A k \in T : k + 1 \in T
  BY DEF RunsForever
<1> HIDE DEF T
<1>3. T \in SUBSET Nat
  BY DEF T
<1>4. \A k \in Nat : 0 <= k => k \in T
  BY <1>1, <1>2, <1>3, UpFrom
<1>5. QED
  BY <1>4 DEF T

(* What a loop is left with, as a function of what it begins with *)
Answers(f, S, next, over, answer) ==
  /\ f = [s \in S |-> f[s]]
  /\ \A s \in S : f[s] = IF s \in over THEN answer[s] ELSE f[next[s]]

(* A loop answers with what it is left with: there is a function that does, *)
(* whatever it does where the loop is never left.                          *)
LEMMA LoopAnswers ==
  ASSUME NEW S, NEW next \in [S -> S], NEW over \in SUBSET S, NEW answer
  PROVE  \E f : Answers(f, S, next, over, answer)
<1> DEFINE From(s) == CHOOSE g : RunsForever(g, S, s, next)
           Turns(s) == {k \in Nat : From(s)[k] \in over}
           First(s) == CHOOSE k \in Turns(s) : \A j \in Turns(s) : k <= j
           f == [s \in S |-> IF Turns(s) = {} THEN {} ELSE answer[From(s)[First(s)]]]
<1>1. \A s \in S : RunsForever(From(s), S, s, next)
  BY RunsOn
<1> HIDE DEF From
<1>2. \A s \in S : /\ From(s)[0] = s
                   /\ \A k \in Nat : From(s)[k] \in S /\ From(s)[k + 1] = next[From(s)[k]]
  BY <1>1 DEF RunsForever
<1>3. ASSUME NEW s \in S, Turns(s) # {}
      PROVE  First(s) \in Turns(s) /\ \A j \in Turns(s) : First(s) <= j
  <2>1. Turns(s) \in SUBSET Nat
    OBVIOUS
  <2> HIDE DEF Turns
  <2>2. \E k \in Turns(s) : \A j \in Turns(s) : k <= j
    BY <1>3, <2>1, LeastNumber, Zenon
  <2>3. QED
    BY <2>2
<1>4. \A s \in S : Turns(s) \in SUBSET Nat
  OBVIOUS
<1>5. ASSUME NEW s \in S, NEW k \in Turns(s), \A j \in Turns(s) : k <= j
      PROVE  f[s] = answer[From(s)[k]]
  <2>1. First(s) \in Turns(s) /\ First(s) <= k /\ k <= First(s)
    BY <1>3, <1>5
  <2>2. First(s) = k
    <3> HIDE DEF First, Turns
    <3>1. QED
      BY <1>4, <2>1
  <2> HIDE DEF First, Turns
  <2>3. QED
    BY <2>2
<1>6. ASSUME NEW s \in S, s \in over PROVE f[s] = answer[s]
  <2>1. 0 \in Turns(s) /\ \A j \in Turns(s) : 0 <= j
    BY <1>2, <1>6
  <2> HIDE DEF f, Turns
  <2>2. f[s] = answer[From(s)[0]]
    BY <1>5, <2>1
  <2>3. QED
    BY <1>2, <2>2
<1>7. ASSUME NEW s \in S, s \notin over PROVE f[s] = f[next[s]]
  <2> DEFINE t == next[s]
             g == [k \in Nat |-> From(s)[k + 1]]
  <2>1. t \in S
    OBVIOUS
  <2> HIDE DEF t
  <2>2. RunsForever(g, S, t, next)
    <3>1. g[0] = t
      <4>1. g[0] = From(s)[0 + 1]
        OBVIOUS
      <4>2. QED
        BY <1>2, <4>1 DEF t
    <3>2. \A k \in Nat : g[k] \in S /\ g[k + 1] = next[g[k]]
      BY <1>2
    <3>3. g \in [Nat -> S]
      BY <3>2
    <3> HIDE DEF g
    <3>4. QED
      BY <3>1, <3>2, <3>3 DEF RunsForever
  <2>3. \A k \in Nat : From(t)[k] = g[k]
    <3> HIDE DEF g
    <3>1. QED
      BY <1>1, <2>1, <2>2, ForeverOnce
  <2>4. \A k \in Nat : From(t)[k] = From(s)[k + 1]
    BY <2>3
  <2>5. 0 \notin Turns(s)
    BY <1>2, <1>7
  <2>6. \A k \in Turns(t) : k \in Nat /\ k + 1 \in Turns(s)
    BY <2>4
  <2>7. \A k \in Turns(s) : k \in Nat /\ k - 1 \in Turns(t) /\ (k - 1) + 1 = k
    <3>1. TAKE k \in Turns(s)
    <3>2. k \in Nat /\ k # 0
      BY <2>5
    <3>3. k - 1 \in Nat /\ (k - 1) + 1 = k
      BY <3>2
    <3>4. From(t)[k - 1] = From(s)[k]
      BY <2>4, <3>3
    <3>5. QED
      BY <3>2, <3>3, <3>4
  <2> HIDE DEF Turns
  <2>8. CASE Turns(t) = {}
    <3>1. Turns(s) = {}
      BY <2>7, <2>8
    <3>2. QED
      BY <2>1, <2>8, <3>1 DEF t
  <2>9. CASE Turns(t) # {}
    <3> DEFINE k == First(t)
    <3>1. k \in Turns(t) /\ \A j \in Turns(t) : k <= j
      BY <1>3, <2>1, <2>9
    <3> HIDE DEF k
    <3>2. k + 1 \in Turns(s) /\ k \in Nat
      BY <2>6, <3>1
    <3>3. \A j \in Turns(s) : k + 1 <= j
      BY <2>7, <3>1, <3>2
    <3> HIDE DEF f
    <3>4. f[s] = answer[From(s)[k + 1]] /\ f[t] = answer[From(t)[k]]
      BY <1>5, <2>1, <3>1, <3>2, <3>3
    <3>5. QED
      BY <2>4, <3>2, <3>4 DEF t
  <2>10. QED
    BY <2>8, <2>9
<1>8. f = [s \in S |-> f[s]]
  OBVIOUS
<1> HIDE DEF f
<1>9. Answers(f, S, next, over, answer)
  BY <1>6, <1>7, <1>8 DEF Answers
<1>10. QED
  BY <1>9

-----------------------------------------------------------------------------
(* The search through wires *)

(* The shape of a network *)
LEMMA NetworkHas ==
  ASSUME NEW net, IsNetwork(net)
  PROVE  /\ Len(net.nodes) \in Nat /\ DOMAIN net.nodes = 1 .. Len(net.nodes)
         /\ DOMAIN net.links \in SUBSET Nat /\ IsFiniteSet(DOMAIN net.links)
         /\ \A l \in DOMAIN net.links : net.links[l].resistance \in Nat
         /\ \A n : \A l \in DOMAIN net.links : OtherEnd(net.links[l], n) \in DOMAIN net.nodes
<1> DEFINE N == DOMAIN net.nodes
           Node == [position : Int \X Int, facing : Int \X Int]
           Link == [ends : N \X N, resistance : Nat]
<1>1. net.nodes \in Seq(Node) /\ net.links \in Seq(Link)
  BY DEF IsNetwork
<1>2. Len(net.nodes) \in Nat /\ DOMAIN net.nodes = 1 .. Len(net.nodes)
  <2> HIDE DEF Node
  <2>1. QED
    BY <1>1
<1> HIDE DEF N
<1>3. \A k \in Link : k.resistance \in Nat /\ k.ends[1] \in N /\ k.ends[2] \in N
  OBVIOUS
<1> HIDE DEF Link
<1>4. /\ Len(net.links) \in Nat /\ DOMAIN net.links = 1 .. Len(net.links)
      /\ \A l \in DOMAIN net.links : net.links[l] \in Link
  BY <1>1
<1>5. IsFiniteSet(DOMAIN net.links) /\ DOMAIN net.links \in SUBSET Nat
  BY <1>4, FS_Interval
<1>6. \A n : \A l \in DOMAIN net.links : OtherEnd(net.links[l], n) \in N
  BY <1>3, <1>4 DEF OtherEnd
<1>7. QED
  BY <1>2, <1>3, <1>4, <1>5, <1>6 DEF N

(* The ways have the starts and go on along links; and whatever does so    *)
(* has all of them.                                                        *)
LEMMA WaysAre ==
  ASSUME NEW net, IsNetwork(net), NEW starts \in SUBSET DOMAIN net.nodes
  PROVE  /\ FollowsLinks(net, starts, Ways(net, starts))
         /\ \A W \in SUBSET ((DOMAIN net.nodes) \X Nat) :
              FollowsLinks(net, starts, W) => Ways(net, starts) \subseteq W
<1> DEFINE N == DOMAIN net.nodes
           A == Ways(net, starts)
<1>1. \A w : w \in A <=> w \in N \X Nat /\ \A W \in SUBSET (N \X Nat) : FollowsLinks(net, starts, W) => w \in W
  BY DEF Ways
<1> HIDE DEF A
<1>2. \A n \in starts : <<n, 0>> \in A
  BY <1>1 DEF FollowsLinks
<1>3. ASSUME NEW w \in A, NEW l \in LinksAt(net, w[1])
      PROVE  <<OtherEnd(net.links[l], w[1]), w[2] + net.links[l].resistance>> \in A
  <2> DEFINE v == <<OtherEnd(net.links[l], w[1]), w[2] + net.links[l].resistance>>
  <2>1. l \in DOMAIN net.links /\ w \in N \X Nat
    BY <1>1 DEF LinksAt
  <2>2. v \in N \X Nat
    <3>1. OtherEnd(net.links[l], w[1]) \in N /\ net.links[l].resistance \in Nat
      BY <2>1, NetworkHas
    <3>2. QED
      BY <2>1, <3>1
  <2>3. ASSUME NEW W \in SUBSET (N \X Nat), FollowsLinks(net, starts, W)
        PROVE  v \in W
    <3>1. w \in W
      BY <1>1, <2>3
    <3>2. QED
      BY <2>3, <3>1 DEF FollowsLinks
  <2> HIDE DEF v
  <2>4. v \in A
    BY <1>1, <2>2, <2>3
  <2>5. QED
    BY <2>4 DEF v
<1>4. FollowsLinks(net, starts, A)
  BY <1>2, <1>3 DEF FollowsLinks
<1>5. QED
  BY <1>1, <1>4 DEF A

IsOver(s) == s.left = {} /\ s.queue = <<>>

(* A step of the search visits a node, *)
Visits(net, s, t) ==
  /\ s.left = {} /\ s.queue # <<>>
  /\ t.resistance = s.resistance /\ t.queue = Tail(s.queue)
  /\ t.waiting = s.waiting \ {s.queue[1]}
  /\ t.left = {s.queue[1]} \X LinksAt(net, s.queue[1])

(* or looks at a link, the other end of which is nearer as it is, *)
LooksAt(net, s, t, n, l) ==
  LET m == OtherEnd(net.links[l], n)
  IN  /\ m = n \/ (s.resistance[m] # NotReached
                     /\ s.resistance[m] <= s.resistance[n] + net.links[l].resistance)
      /\ t.resistance = s.resistance /\ t.queue = s.queue
      /\ t.waiting = s.waiting /\ t.left = s.left \ {<<n, l>>}

(* or finds a shorter way. *)
FindsWay(net, s, t, n, l) ==
  LET m == OtherEnd(net.links[l], n)
      r == s.resistance[n] + net.links[l].resistance
  IN  /\ m # n /\ ~ (s.resistance[m] # NotReached /\ s.resistance[m] <= r)
      /\ t.resistance = [s.resistance EXCEPT ![m] = r]
      /\ t.queue = IF m \in s.waiting THEN s.queue ELSE Append(s.queue, m)
      /\ t.waiting = s.waiting \cup {m} /\ t.left = s.left \ {<<n, l>>}

(* There is nothing else. *)
LEMMA SearchSteps ==
  ASSUME NEW net, IsNetwork(net), NEW s \in Searches(net), ~ IsOver(s), NEW t, t = Searched(net, s)
  PROVE  /\ t \in Searches(net)
         /\ Visits(net, s, t)
              \/ \E n, l : <<n, l>> \in s.left /\ (LooksAt(net, s, t, n, l) \/ FindsWay(net, s, t, n, l))
<1> DEFINE N == DOMAIN net.nodes
           L == DOMAIN net.links
           R == Nat \cup {NotReached}
<1>1. s \in [resistance : [N -> R], queue : Seq(N), waiting : SUBSET N, left : SUBSET (N \X L)]
  BY DEF Searches
<1>2. /\ L \in SUBSET Nat /\ \A l \in L : net.links[l].resistance \in Nat
      /\ \A n : \A l \in L : OtherEnd(net.links[l], n) \in N
  BY NetworkHas
<1>3. LinksAt(net, s.queue[1]) \subseteq L
  BY DEF LinksAt
<1>4. \A x \in R, i \in Nat : x + i \in R
  BY DEF NotReached
<1> HIDE DEF N, L, R
<1>5. CASE s.left = {}
  <2>1. s.queue # <<>>
    BY <1>5 DEF IsOver
  <2>2. s.queue[1] \in N /\ Tail(s.queue) \in Seq(N) /\ Head(s.queue) = s.queue[1]
    BY <1>1, <2>1
  <2>3. t = [s EXCEPT !.queue = Tail(@), !.waiting = @ \ {s.queue[1]},
                      !.left = {s.queue[1]} \X LinksAt(net, s.queue[1])]
    BY <1>5, <2>2 DEF Searched
  <2> DEFINE left == {s.queue[1]} \X LinksAt(net, s.queue[1])
  <2>4. left \in SUBSET (N \X L)
    BY <1>3, <2>2
  <2> DEFINE w == s.waiting \ {s.queue[1]}
             q == Tail(s.queue)
  <2>5. t = [s EXCEPT !.queue = q, !.waiting = w, !.left = left] /\ w \in SUBSET N
    BY <1>1, <2>3
  <2> HIDE DEF left, w, q
  <2>6. /\ t \in [resistance : [N -> R], queue : Seq(N), waiting : SUBSET N, left : SUBSET (N \X L)]
        /\ t.resistance = s.resistance /\ t.queue = q /\ t.waiting = w /\ t.left = left
    <3>1. q \in Seq(N)
      BY <2>2 DEF q
    <3>2. QED
      BY <1>1, <2>4, <2>5, <3>1
  <2>7. QED
    BY <1>5, <2>1, <2>6 DEF Searches, Visits, N, L, R, left, w, q
<1>6. CASE s.left # {}
  <2> DEFINE x == CHOOSE y \in s.left : \A z \in s.left : y[2] <= z[2]
             T == {y[2] : y \in s.left}
  <2>1. x \in s.left
    <3>1. T \in SUBSET Nat /\ T # {}
      BY <1>1, <1>2, <1>6
    <3>2. PICK k \in T : \A j \in T : k <= j
      <4> HIDE DEF T
      <4>1. QED
        BY <3>1, LeastNumber, Zenon
    <3>3. PICK y \in s.left : k = y[2]
      OBVIOUS
    <3>4. \A z \in s.left : y[2] <= z[2]
      BY <3>2, <3>3
    <3>5. QED
      BY <3>3, <3>4
  <2>2. t = [Relaxed(net, x[1], s, x[2]) EXCEPT !.left = @ \ {x}]
    BY <1>6, Zenon DEF Searched
  <2> HIDE DEF x
  <2> DEFINE n == x[1]
             l == x[2]
             m == OtherEnd(net.links[l], n)
             r == s.resistance[n] + net.links[l].resistance
  <2>3. n \in N /\ l \in L /\ x = <<n, l>>
    BY <1>1, <2>1
  <2>4. m \in N /\ r \in R
    BY <1>1, <1>2, <1>4, <2>3
  <2>5. Relaxed(net, n, s, l) =
          IF m = n \/ (s.resistance[m] # NotReached /\ s.resistance[m] <= r) THEN s
          ELSE [s EXCEPT !.resistance[m] = r,
                         !.queue = IF m \in s.waiting THEN @ ELSE Append(@, m),
                         !.waiting = @ \cup {m}]
    BY Zenon DEF Relaxed
  <2>6. t = [Relaxed(net, n, s, l) EXCEPT !.left = @ \ {<<n, l>>}]
    BY <2>2, <2>3
  <2> HIDE DEF n, l, m, r
  <2>7. CASE m = n \/ (s.resistance[m] # NotReached /\ s.resistance[m] <= r)
    <3>1. t = [s EXCEPT !.left = @ \ {<<n, l>>}]
      BY <2>5, <2>6, <2>7
    <3>2. /\ t \in [resistance : [N -> R], queue : Seq(N), waiting : SUBSET N, left : SUBSET (N \X L)]
          /\ t.resistance = s.resistance /\ t.queue = s.queue
          /\ t.waiting = s.waiting /\ t.left = s.left \ {<<n, l>>}
      BY <1>1, <3>1
    <3>3. LooksAt(net, s, t, n, l)
      BY <2>7, <3>2 DEF LooksAt, m, r
    <3>4. QED
      BY <2>1, <2>3, <3>2, <3>3 DEF Searches, N, L, R
  <2>8. CASE ~ (m = n \/ (s.resistance[m] # NotReached /\ s.resistance[m] <= r))
    <3> DEFINE q == IF m \in s.waiting THEN s.queue ELSE Append(s.queue, m)
    <3>1. q \in Seq(N)
      BY <1>1, <2>4
    <3> HIDE DEF q
    <3>2. t = [s EXCEPT !.resistance[m] = r, !.queue = q, !.waiting = @ \cup {m},
                        !.left = @ \ {<<n, l>>}]
      BY <2>5, <2>6, <2>8 DEF q
    <3>3. /\ t \in [resistance : [N -> R], queue : Seq(N), waiting : SUBSET N, left : SUBSET (N \X L)]
          /\ t.resistance = [s.resistance EXCEPT ![m] = r] /\ t.queue = q
          /\ t.waiting = s.waiting \cup {m} /\ t.left = s.left \ {<<n, l>>}
      <4> DEFINE f == [s.resistance EXCEPT ![m] = r]
                 w == s.waiting \cup {m}
                 left == s.left \ {<<n, l>>}
      <4>1. f \in [N -> R] /\ w \in SUBSET N /\ left \in SUBSET (N \X L)
        BY <1>1, <2>4
      <4>2. t = [s EXCEPT !.resistance = f, !.queue = q, !.waiting = w, !.left = left]
        BY <3>2
      <4> HIDE DEF f, w, left
      <4>3. /\ t \in [resistance : [N -> R], queue : Seq(N), waiting : SUBSET N, left : SUBSET (N \X L)]
            /\ t.resistance = f /\ t.queue = q /\ t.waiting = w /\ t.left = left
        BY <1>1, <3>1, <4>1, <4>2
      <4>4. QED
        BY <4>3 DEF f, w, left
    <3>4. FindsWay(net, s, t, n, l)
      BY <2>8, <3>3 DEF FindsWay, m, r, q
    <3>5. QED
      BY <2>1, <2>3, <3>3, <3>4 DEF Searches, N, L, R
  <2>9. QED
    BY <2>7, <2>8
<1>7. QED
  BY <1>5, <1>6

(* What a search knows at any time: what was found are ways from the       *)
(* starts, and each link of a node that waits for no visit was looked at.  *)
Found(s, n) == s.resistance[n] # NotReached
Near(net, s, n, l) ==
  LET m == OtherEnd(net.links[l], n)
  IN  Found(s, m) /\ s.resistance[m] <= s.resistance[n] + net.links[l].resistance
Finding(net, starts, s) ==
  /\ s \in Searches(net)
  /\ \A n \in starts : s.resistance[n] = 0
  /\ s.waiting \subseteq Range(s.queue)
  /\ \A n \in Range(s.queue) : Found(s, n)
  /\ \A x \in s.left : Found(s, x[1]) /\ x[2] \in LinksAt(net, x[1])
  /\ \A n \in DOMAIN net.nodes : Found(s, n) =>
       /\ <<n, s.resistance[n]>> \in Ways(net, starts)
       /\ n \notin Range(s.queue) =>
            \A l \in LinksAt(net, n) : <<n, l>> \in s.left \/ Near(net, s, n, l)

(* At first only the starts are found. *)
LEMMA FindingBegins ==
  ASSUME NEW net, IsNetwork(net), NEW starts \in SUBSET DOMAIN net.nodes
  PROVE  Finding(net, starts, Begun(net, starts))
<1> DEFINE N == DOMAIN net.nodes
           s == Begun(net, starts)
<1>1. IsFiniteSet(starts)
  <2>1. IsFiniteSet(N)
    BY NetworkHas, FS_Interval
  <2>2. QED
    BY <2>1, FS_Subset
<1>2. SetToSeq(starts) \in Seq(starts) /\ Range(SetToSeq(starts)) = starts
  BY <1>1, SequenceOfSet
<1>3. SetToSeq(starts) \in Seq(N)
  BY <1>2
<1>4. /\ s.queue = SetToSeq(starts) /\ s.waiting = {} /\ s.left = {}
      /\ s.resistance \in [N -> Nat \cup {NotReached}]
      /\ \A n \in N : s.resistance[n] = IF n \in starts THEN 0 ELSE NotReached
      /\ s = [resistance |-> s.resistance, queue |-> s.queue, waiting |-> s.waiting, left |-> s.left]
  BY DEF Begun
<1> HIDE DEF s
<1>5. s \in Searches(net)
  BY <1>3, <1>4 DEF Searches
<1>6. 0 # NotReached
  BY DEF NotReached
<1>7. \A n \in starts : <<n, 0>> \in Ways(net, starts)
  BY WaysAre DEF FollowsLinks
<1>8. QED
  BY <1>2, <1>4, <1>5, <1>6, <1>7 DEF Finding, Found, s

(* Each step keeps what is known, and a shorter way makes nothing farther. *)
LEMMA FindingGoesOn ==
  ASSUME NEW net, IsNetwork(net), NEW starts \in SUBSET DOMAIN net.nodes,
         NEW s, Finding(net, starts, s), ~ IsOver(s), NEW t, t = Searched(net, s)
  PROVE  /\ Finding(net, starts, t)
         /\ \A n \in DOMAIN net.nodes :
              Found(s, n) => Found(t, n) /\ t.resistance[n] <= s.resistance[n]
<1> DEFINE N == DOMAIN net.nodes
           A == Ways(net, starts)
<1>1. /\ s \in Searches(net) /\ t \in Searches(net)
      /\ Visits(net, s, t)
           \/ \E n, l : <<n, l>> \in s.left /\ (LooksAt(net, s, t, n, l) \/ FindsWay(net, s, t, n, l))
  BY SearchSteps DEF Finding
<1>2. /\ \A n \in N : s.resistance[n] \in Nat \cup {NotReached} /\ t.resistance[n] \in Nat \cup {NotReached}
      /\ s.resistance \in [N -> Nat \cup {NotReached}] /\ s.queue \in Seq(N) /\ t.queue \in Seq(N)
      /\ s.left \subseteq N \X DOMAIN net.links /\ s.waiting \subseteq N
  BY <1>1 DEF Searches
<1>3. /\ \A l \in DOMAIN net.links : net.links[l].resistance \in Nat
      /\ \A n : \A l \in DOMAIN net.links : OtherEnd(net.links[l], n) \in N
      /\ \A n : LinksAt(net, n) \subseteq DOMAIN net.links
  BY NetworkHas DEF LinksAt
<1>4. \A n \in N : Found(s, n) => s.resistance[n] \in Nat
  BY <1>2 DEF Found
<1>5. Listed(s.queue)
  BY <1>2, ListOfAny
<1>6. /\ \A n \in starts : s.resistance[n] = 0
      /\ s.waiting \subseteq Range(s.queue)
      /\ \A n \in Range(s.queue) : Found(s, n)
      /\ \A x \in s.left : Found(s, x[1]) /\ x[2] \in LinksAt(net, x[1])
  BY DEF Finding
<1>7. ASSUME NEW n \in N, Found(s, n)
      PROVE  /\ <<n, s.resistance[n]>> \in A
             /\ n \notin Range(s.queue) =>
                  \A l \in LinksAt(net, n) : <<n, l>> \in s.left \/ Near(net, s, n, l)
  BY <1>7 DEF Finding
<1> HIDE DEF N, A
<1>8. ASSUME Visits(net, s, t)
      PROVE  Finding(net, starts, t)
             /\ \A o \in N : Found(s, o) => Found(t, o) /\ t.resistance[o] <= s.resistance[o]
  <2> DEFINE n == s.queue[1]
  <2>1. n \in Range(s.queue) /\ Range(s.queue) = {n} \cup Range(t.queue)
    BY <1>5, <1>8, HeadAndTail DEF Visits
  <2>2. t.resistance = s.resistance /\ t.waiting = s.waiting \ {n} /\ t.left = {n} \X LinksAt(net, n) /\ s.left = {}
    BY <1>8 DEF Visits
  <2>3. Found(s, n)
    BY <1>6, <2>1
  <2> HIDE DEF n
  <2>4. \A o : Found(t, o) = Found(s, o)
    BY <2>2 DEF Found
  <2>5. \A o, l : Near(net, t, o, l) = Near(net, s, o, l)
    BY <2>2, <2>4 DEF Near
  <2>6. ASSUME NEW o \in N, Found(t, o), o \notin Range(t.queue), NEW l \in LinksAt(net, o)
        PROVE  <<o, l>> \in t.left \/ Near(net, t, o, l)
    <3>1. CASE o = n
      BY <2>2, <2>6, <3>1
    <3>2. CASE o # n
      BY <1>7, <2>1, <2>2, <2>4, <2>5, <2>6, <3>2
    <3>3. QED
      BY <3>1, <3>2
  <2>7. \A o \in N : Found(t, o) => <<o, t.resistance[o]>> \in A
    BY <1>7, <2>2, <2>4
  <2>8. \A o \in N : Found(s, o) => Found(t, o) /\ t.resistance[o] <= s.resistance[o]
    BY <1>4, <2>2, <2>4
  <2>9. /\ \A o \in starts : t.resistance[o] = 0
        /\ t.waiting \subseteq Range(t.queue)
        /\ \A o \in Range(t.queue) : Found(t, o)
        /\ \A x \in t.left : Found(t, x[1]) /\ x[2] \in LinksAt(net, x[1])
    BY <1>6, <2>1, <2>2, <2>3, <2>4
  <2>10. QED
    BY <1>1, <2>6, <2>7, <2>8, <2>9 DEF Finding, N, A
<1>9. ASSUME NEW n, NEW l, <<n, l>> \in s.left, LooksAt(net, s, t, n, l)
      PROVE  Finding(net, starts, t)
             /\ \A o \in N : Found(s, o) => Found(t, o) /\ t.resistance[o] <= s.resistance[o]
  <2> DEFINE m == OtherEnd(net.links[l], n)
  <2>1. /\ m = n \/ (Found(s, m) /\ s.resistance[m] <= s.resistance[n] + net.links[l].resistance)
        /\ t.resistance = s.resistance /\ t.queue = s.queue
        /\ t.waiting = s.waiting /\ t.left = s.left \ {<<n, l>>}
    BY <1>9 DEF LooksAt, Found
  <2>2. n \in N /\ l \in DOMAIN net.links /\ Found(s, n)
    BY <1>2, <1>6, <1>9
  <2>3. Near(net, s, n, l)
    <3>1. net.links[l].resistance \in Nat /\ s.resistance[n] \in Nat
      BY <1>3, <1>4, <2>2
    <3>2. CASE m = n
      <4>1. s.resistance[m] <= s.resistance[n] + net.links[l].resistance
        BY <3>1, <3>2
      <4>2. QED
        BY <2>2, <3>2, <4>1 DEF Near
    <3>3. CASE m # n
      BY <2>1, <3>3 DEF Near
    <3>4. QED
      BY <3>2, <3>3
  <2> HIDE DEF m
  <2>4. \A o : Found(t, o) = Found(s, o)
    BY <2>1 DEF Found
  <2>5. \A o, k : Near(net, t, o, k) = Near(net, s, o, k)
    BY <2>1, <2>4 DEF Near
  <2>6. ASSUME NEW o \in N, Found(t, o), o \notin Range(t.queue), NEW k \in LinksAt(net, o)
        PROVE  <<o, k>> \in t.left \/ Near(net, t, o, k)
    BY <1>7, <2>1, <2>3, <2>4, <2>5, <2>6
  <2>7. \A o \in N : Found(t, o) => <<o, t.resistance[o]>> \in A
    BY <1>7, <2>1, <2>4
  <2>8. \A o \in N : Found(s, o) => Found(t, o) /\ t.resistance[o] <= s.resistance[o]
    BY <1>4, <2>1, <2>4
  <2>9. /\ \A o \in starts : t.resistance[o] = 0
        /\ t.waiting \subseteq Range(t.queue)
        /\ \A o \in Range(t.queue) : Found(t, o)
        /\ \A x \in t.left : Found(t, x[1]) /\ x[2] \in LinksAt(net, x[1])
    BY <1>6, <2>1, <2>4
  <2>10. QED
    BY <1>1, <2>6, <2>7, <2>8, <2>9 DEF Finding, N, A
<1>10. ASSUME NEW n, NEW l, <<n, l>> \in s.left, FindsWay(net, s, t, n, l)
       PROVE  Finding(net, starts, t)
              /\ \A o \in N : Found(s, o) => Found(t, o) /\ t.resistance[o] <= s.resistance[o]
  <2> DEFINE m == OtherEnd(net.links[l], n)
             r == s.resistance[n] + net.links[l].resistance
  <2>1. /\ m # n /\ ~ (Found(s, m) /\ s.resistance[m] <= r)
        /\ t.resistance = [s.resistance EXCEPT ![m] = r]
        /\ t.queue = IF m \in s.waiting THEN s.queue ELSE Append(s.queue, m)
        /\ t.waiting = s.waiting \cup {m} /\ t.left = s.left \ {<<n, l>>}
    BY <1>10 DEF FindsWay, Found
  <2>2. n \in N /\ l \in LinksAt(net, n) /\ Found(s, n) /\ m \in N
    <3>1. n \in N /\ l \in LinksAt(net, n) /\ Found(s, n)
      BY <1>2, <1>6, <1>10
    <3>2. QED
      BY <1>3, <3>1
  <2>3. r \in Nat
    BY <1>3, <1>4, <2>2
  <2>4. <<m, r>> \in A
    <3> DEFINE w == <<n, s.resistance[n]>>
    <3>1. w \in A /\ l \in LinksAt(net, w[1])
      BY <1>7, <2>2
    <3>2. <<OtherEnd(net.links[l], w[1]), w[2] + net.links[l].resistance>> \in A
      BY <3>1, WaysAre DEF FollowsLinks, A
    <3>3. QED
      BY <3>2
  <2>5. \A o \in N : t.resistance[o] = IF o = m THEN r ELSE s.resistance[o]
    BY <1>2, <2>1, <2>2
  <2>6. n # m /\ (Found(s, m) => r <= s.resistance[m])
    BY <1>4, <2>1, <2>2, <2>3
  <2>7. Range(t.queue) = Range(s.queue) \cup {m}
    <3>1. CASE m \in s.waiting
      BY <1>6, <2>1, <3>1
    <3>2. CASE m \notin s.waiting
      BY <1>5, <2>1, <3>2, OneMore
    <3>3. QED
      BY <3>1, <3>2
  <2>8. l \in DOMAIN net.links /\ t.left = s.left \ {<<n, l>>} /\ t.waiting = s.waiting \cup {m}
    BY <1>3, <2>1, <2>2
  <2>9. Near(net, t, n, l)
    <3>1. t.resistance[m] = r /\ t.resistance[n] = s.resistance[n] /\ r # NotReached
      BY <2>2, <2>3, <2>5, <2>6 DEF NotReached
    <3>2. r <= s.resistance[n] + net.links[l].resistance
      BY <2>3
    <3>3. QED
      BY <3>1, <3>2 DEF Near, Found
  <2> HIDE DEF m, r
  <2>10. r # NotReached
    BY <2>3 DEF NotReached
  <2>11. \A o \in N : Found(t, o) <=> Found(s, o) \/ o = m
    BY <2>5, <2>10 DEF Found
  <2>12. \A o \in N : Found(s, o) => Found(t, o) /\ t.resistance[o] <= s.resistance[o]
    BY <1>4, <2>5, <2>6, <2>11
  <2>13. ASSUME NEW o \in N, o # m, Found(s, o), NEW k \in LinksAt(net, o), Near(net, s, o, k)
         PROVE  Near(net, t, o, k)
    <3> DEFINE p == OtherEnd(net.links[k], o)
               d == net.links[k].resistance
    <3>1. p \in N /\ d \in Nat /\ s.resistance[o] \in Nat
      BY <1>3, <1>4, <2>13
    <3>2. Found(s, p) /\ s.resistance[p] <= s.resistance[o] + d
      BY <2>13 DEF Near
    <3>3. t.resistance[o] = s.resistance[o]
      BY <2>5, <2>13
    <3> HIDE DEF p, d
    <3>4. Found(t, p) /\ t.resistance[p] <= s.resistance[p] /\ s.resistance[p] \in Nat /\ t.resistance[p] \in Nat
      BY <1>2, <1>4, <2>12, <3>1, <3>2 DEF Found
    <3>5. t.resistance[p] <= t.resistance[o] + d
      BY <3>1, <3>2, <3>3, <3>4
    <3>6. QED
      BY <3>4, <3>5 DEF Near, p, d
  <2>14. ASSUME NEW o \in N, Found(t, o), o \notin Range(t.queue), NEW k \in LinksAt(net, o)
         PROVE  <<o, k>> \in t.left \/ Near(net, t, o, k)
    <3>1. o # m /\ Found(s, o) /\ o \notin Range(s.queue)
      BY <2>7, <2>11, <2>14
    <3>2. <<o, k>> \in s.left \/ Near(net, s, o, k)
      BY <1>7, <2>14, <3>1
    <3>3. CASE o = n /\ k = l
      BY <2>9, <3>3
    <3>4. CASE ~ (o = n /\ k = l)
      BY <2>8, <2>13, <2>14, <3>1, <3>2, <3>4
    <3>5. QED
      BY <3>3, <3>4
  <2>15. \A o \in N : Found(t, o) => <<o, t.resistance[o]>> \in A
    BY <1>7, <2>4, <2>5, <2>11
  <2>16. \A o \in starts : t.resistance[o] = 0
    <3>1. starts \subseteq N /\ 0 # NotReached
      BY DEF N, NotReached
    <3>2. m \notin starts
      <4>1. ASSUME m \in starts PROVE FALSE
        <5>1. s.resistance[m] = 0 /\ Found(s, m)
          BY <1>6, <3>1, <4>1 DEF Found
        <5>2. r = 0
          BY <2>3, <2>6, <5>1
        <5>3. QED
          BY <2>1, <5>1, <5>2 DEF m, r
      <4>2. QED
        BY <4>1
    <3>3. QED
      BY <1>6, <2>5, <3>1, <3>2
  <2>17. \A o \in Range(t.queue) : Found(t, o)
    <3>1. Range(s.queue) \subseteq N
      BY <1>2, ListOfAny
    <3>2. QED
      BY <1>6, <2>2, <2>7, <2>11, <3>1 DEF m
  <2>18. \A x \in t.left : Found(t, x[1]) /\ x[2] \in LinksAt(net, x[1])
    BY <1>2, <1>6, <2>8, <2>11
  <2>19. QED
    BY <1>1, <1>6, <2>7, <2>8, <2>12, <2>14, <2>15, <2>16, <2>17, <2>18 DEF Finding, N, A
<1>11. QED
  BY <1>1, <1>8, <1>9, <1>10 DEF N

(* The search, step after step; when it is over, it stays as it is. *)
NextSearch(net) == [s \in Searches(net) |-> IF IsOver(s) THEN s ELSE Searched(net, s)]
SearchRuns(net, starts, g) == RunsForever(g, Searches(net), Begun(net, starts), NextSearch(net))

LEMMA NextSearchIs ==
  ASSUME NEW net, IsNetwork(net), NEW starts \in SUBSET DOMAIN net.nodes
  PROVE  /\ NextSearch(net) \in [Searches(net) -> Searches(net)]
         /\ Begun(net, starts) \in Searches(net)
<1>1. \A s \in Searches(net) : ~ IsOver(s) => Searched(net, s) \in Searches(net)
  BY SearchSteps
<1>2. QED
  BY <1>1, FindingBegins DEF NextSearch, Finding

LEMMA FindingAlways ==
  ASSUME NEW net, IsNetwork(net), NEW starts \in SUBSET DOMAIN net.nodes,
         NEW g, SearchRuns(net, starts, g)
  PROVE  \A k \in Nat : Finding(net, starts, g[k])
<1> DEFINE T == {k \in Nat : Finding(net, starts, g[k])}
<1>1. 0 \in T
  BY FindingBegins DEF SearchRuns, RunsForever
<1>2. ASSUME NEW k \in T PROVE k + 1 \in T
  <2>1. g[k] \in Searches(net) /\ g[k + 1] = NextSearch(net)[g[k]] /\ Finding(net, starts, g[k])
    BY DEF SearchRuns, RunsForever
  <2>2. g[k + 1] = IF IsOver(g[k]) THEN g[k] ELSE Searched(net, g[k])
    BY <2>1 DEF NextSearch
  <2>3. Finding(net, starts, g[k + 1])
    BY <2>1, <2>2, FindingGoesOn
  <2>4. QED
    BY <2>3
<1>3. T \in SUBSET Nat
  OBVIOUS
<1> HIDE DEF T
<1>4. \A k \in Nat : 0 <= k => k \in T
  BY <1>1, <1>2, <1>3, UpFrom
<1>5. QED
  BY <1>4 DEF T

(* What is left to do goes down as long as no shorter way is found. *)
ToDo(net, s) == Len(s.queue) * (Cardinality(DOMAIN net.links) + 1) + Cardinality(s.left)

LEMMA LessToDo ==
  ASSUME NEW net, IsNetwork(net), NEW s \in Searches(net), ~ IsOver(s), NEW t, t = Searched(net, s),
         \A x \in s.left : s.resistance[x[1]] \in Nat, t.resistance = s.resistance
  PROVE  ToDo(net, s) \in Nat /\ ToDo(net, t) \in Nat /\ ToDo(net, t) < ToDo(net, s)
<1> DEFINE N == DOMAIN net.nodes
           L == DOMAIN net.links
           C == Cardinality(L)
<1>1. IsFiniteSet(N) /\ IsFiniteSet(L) /\ C \in Nat
  <2>1. IsFiniteSet(N) /\ IsFiniteSet(L)
    BY NetworkHas, FS_Interval
  <2>2. QED
    BY <2>1, FS_CardinalityType
<1>2. /\ t \in Searches(net)
      /\ Visits(net, s, t)
           \/ \E n, l : <<n, l>> \in s.left /\ (LooksAt(net, s, t, n, l) \/ FindsWay(net, s, t, n, l))
  BY SearchSteps
<1>3. /\ s.queue \in Seq(N) /\ t.queue \in Seq(N) /\ s.left \subseteq N \X L /\ t.left \subseteq N \X L
      /\ s.resistance \in [N -> Nat \cup {NotReached}]
  BY <1>2 DEF Searches
<1>4. /\ \A l \in L : net.links[l].resistance \in Nat
      /\ \A n : \A l \in L : OtherEnd(net.links[l], n) \in N
      /\ \A n : LinksAt(net, n) \subseteq L
  BY NetworkHas DEF LinksAt
<1> HIDE DEF N, L
<1>5. Len(s.queue) \in Nat /\ Len(t.queue) \in Nat
  BY <1>3
<1>6. IsFiniteSet(s.left) /\ IsFiniteSet(t.left) /\ Cardinality(s.left) \in Nat /\ Cardinality(t.left) \in Nat
  <2>1. IsFiniteSet(N \X L)
    BY <1>1, FS_Product
  <2>2. QED
    BY <1>3, <2>1, FS_Subset, FS_CardinalityType
<1>7. CASE Visits(net, s, t)
  <2>1. s.left = {} /\ s.queue # <<>> /\ t.queue = Tail(s.queue) /\ t.left = {s.queue[1]} \X LinksAt(net, s.queue[1])
    BY <1>7 DEF Visits
  <2>2. Len(t.queue) = Len(s.queue) - 1
    BY <1>3, <2>1
  <2>3. Cardinality(s.left) = 0
    BY <2>1, FS_EmptySet
  <2>4. Cardinality(t.left) <= C
    <3> DEFINE A == {s.queue[1]}
               B == LinksAt(net, s.queue[1])
    <3>1. IsFiniteSet(A) /\ Cardinality(A) = 1 /\ IsFiniteSet(B) /\ Cardinality(B) \in Nat /\ Cardinality(B) <= C
      BY <1>1, <1>4, FS_Singleton, FS_Subset, FS_CardinalityType
    <3> HIDE DEF A, B
    <3>2. Cardinality(A \X B) = Cardinality(A) * Cardinality(B)
      BY <3>1, FS_Product
    <3>3. t.left = A \X B
      BY <2>1 DEF A, B
    <3>4. QED
      BY <1>1, <3>1, <3>2, <3>3
  <2> DEFINE M == C + 1
             a == Len(s.queue)
             d == Cardinality(t.left)
  <2>5. ToDo(net, s) = a * M /\ ToDo(net, t) = (a - 1) * M + d
    BY <1>1, <1>5, <2>2, <2>3 DEF ToDo, L
  <2>6. M \in Nat /\ a \in Nat /\ a - 1 \in Nat /\ d \in Nat /\ d < M
    <3>1. d \in Nat /\ d <= C /\ C \in Nat /\ a \in Nat /\ Len(t.queue) = a - 1 /\ Len(t.queue) \in Nat
      BY <1>1, <1>5, <1>6, <2>2, <2>4
    <3> HIDE DEF C, a, d
    <3>2. QED
      BY <3>1
  <2> HIDE DEF M, a, d
  <2>7. (a - 1) * M = a * M - M /\ a * M \in Nat /\ (a - 1) * M \in Nat
    BY <2>6
  <2>8. QED
    BY <2>5, <2>6, <2>7
<1>8. ASSUME NEW n, NEW l, <<n, l>> \in s.left, LooksAt(net, s, t, n, l)
      PROVE  ToDo(net, s) \in Nat /\ ToDo(net, t) \in Nat /\ ToDo(net, t) < ToDo(net, s)
  <2>1. t.queue = s.queue /\ t.left = s.left \ {<<n, l>>}
    BY <1>8 DEF LooksAt
  <2>2. Cardinality(t.left) = Cardinality(s.left) - 1
    BY <1>6, <1>8, <2>1, FS_RemoveElement
  <2> DEFINE q == Len(s.queue) * (C + 1)
             d == Cardinality(s.left)
  <2>3. ToDo(net, s) = q + d /\ ToDo(net, t) = q + (d - 1)
    BY <2>1, <2>2 DEF ToDo, L
  <2>4. q \in Nat /\ d \in Nat /\ d - 1 \in Nat
    BY <1>1, <1>5, <1>6, <2>2
  <2> HIDE DEF q, d
  <2>5. QED
    BY <2>3, <2>4
<1>9. ASSUME NEW n, NEW l, <<n, l>> \in s.left, FindsWay(net, s, t, n, l)
      PROVE  FALSE
  <2> DEFINE m == OtherEnd(net.links[l], n)
             r == s.resistance[n] + net.links[l].resistance
  <2>1. /\ ~ (s.resistance[m] # NotReached /\ s.resistance[m] <= r)
        /\ t.resistance = [s.resistance EXCEPT ![m] = r]
    BY <1>9 DEF FindsWay
  <2>2. s.resistance[n] \in Nat /\ l \in L
    BY <1>3, <1>9
  <2>3. m \in N /\ r \in Nat
    BY <1>4, <2>2
  <2> HIDE DEF m, r
  <2>4. t.resistance[m] = r
    BY <1>3, <2>1, <2>3
  <2>5. QED
    BY <2>1, <2>3, <2>4 DEF NotReached
<1>10. QED
  BY <1>2, <1>7, <1>8, <1>9

(* The search ends: resistances only go down, so in the end they stay, and *)
(* then there is less to do after each step.                               *)
LEMMA SearchEnds ==
  ASSUME NEW net, IsNetwork(net), NEW starts \in SUBSET DOMAIN net.nodes,
         NEW g, SearchRuns(net, starts, g)
  PROVE  \E k \in Nat : IsOver(g[k])
<1> SUFFICES ASSUME \A k \in Nat : ~ IsOver(g[k]) PROVE FALSE
  OBVIOUS
<1> DEFINE N == DOMAIN net.nodes
           Stays(n, K) == \A k \in Nat : K <= k => g[k].resistance[n] = g[K].resistance[n]
<1>1. \A k \in Nat : /\ g[k] \in Searches(net) /\ Finding(net, starts, g[k])
                     /\ g[k + 1] = Searched(net, g[k])
  <2>1. \A k \in Nat : g[k] \in Searches(net) /\ g[k + 1] = NextSearch(net)[g[k]]
    BY DEF SearchRuns, RunsForever
  <2>2. \A k \in Nat : g[k + 1] = Searched(net, g[k])
    BY <2>1 DEF NextSearch
  <2>3. QED
    BY <2>1, <2>2, FindingAlways
<1>2. \A k \in Nat, n \in N : Found(g[k], n) =>
        Found(g[k + 1], n) /\ g[k + 1].resistance[n] <= g[k].resistance[n]
  BY <1>1, FindingGoesOn
<1>3. \A k \in Nat, n \in N : Found(g[k], n) => g[k].resistance[n] \in Nat
  BY <1>1 DEF Searches, Found
<1>4. ASSUME NEW j \in Nat, NEW n \in N, Found(g[j], n)
      PROVE  \A k \in Nat : j <= k => Found(g[k], n) /\ g[k].resistance[n] <= g[j].resistance[n]
  <2> DEFINE T == {k \in Nat : Found(g[k], n) /\ g[k].resistance[n] <= g[j].resistance[n]}
  <2>1. j \in T
    BY <1>3, <1>4
  <2>2. \A k \in T : k + 1 \in T
    <3>1. TAKE k \in T
    <3>2. Found(g[k + 1], n) /\ g[k + 1].resistance[n] <= g[k].resistance[n]
      BY <1>2
    <3>3. g[k + 1].resistance[n] \in Nat /\ g[k].resistance[n] \in Nat /\ g[j].resistance[n] \in Nat
      BY <1>3, <1>4, <3>2
    <3>4. QED
      BY <3>2, <3>3
  <2>3. T \in SUBSET Nat
    OBVIOUS
  <2> HIDE DEF T
  <2>4. \A k \in Nat : j <= k => k \in T
    BY <2>1, <2>2, <2>3, UpFrom
  <2>5. QED
    BY <2>4 DEF T
<1>5. ASSUME NEW n \in N
      PROVE  \E K \in Nat : Stays(n, K)
  <2>1. CASE \A k \in Nat : ~ Found(g[k], n)
    <3>1. \A k \in Nat : g[k].resistance[n] = NotReached
      BY <2>1 DEF Found
    <3>2. Stays(n, 0)
      BY <3>1
    <3>3. QED
      BY <3>2
  <2>2. ASSUME NEW j \in Nat, Found(g[j], n)
        PROVE  \E K \in Nat : Stays(n, K)
    <3> DEFINE T == {g[k].resistance[n] : k \in {i \in Nat : j <= i}}
    <3>1. \A k \in Nat : j <= k => Found(g[k], n) /\ g[k].resistance[n] \in Nat
      BY <1>3, <1>4, <2>2
    <3>2. T \in SUBSET Nat /\ T # {}
      BY <3>1
    <3>3. PICK x \in T : \A y \in T : x <= y
      <4> HIDE DEF T
      <4>1. QED
        BY <3>2, LeastNumber, Zenon
    <3>4. PICK K \in Nat : j <= K /\ x = g[K].resistance[n]
      BY <3>3
    <3>5. ASSUME NEW k \in Nat, K <= k
          PROVE  g[k].resistance[n] = g[K].resistance[n]
      <4>1. Found(g[K], n)
        BY <3>1, <3>4
      <4>2. g[k].resistance[n] <= g[K].resistance[n]
        BY <1>4, <3>5, <4>1
      <4>3. j <= k
        BY <3>4, <3>5
      <4>4. g[k].resistance[n] \in T
        BY <4>3
      <4>5. g[K].resistance[n] <= g[k].resistance[n]
        BY <3>3, <3>4, <4>4
      <4>6. g[k].resistance[n] \in Nat /\ g[K].resistance[n] \in Nat
        BY <3>1, <3>4, <4>3
      <4>7. QED
        BY <4>2, <4>5, <4>6
    <3>6. QED
      BY <3>5
  <2>3. QED
    BY <2>1, <2>2
<1>6. ASSUME NEW n, NEW K \in Nat, NEW J \in Nat, Stays(n, K), K <= J
      PROVE  Stays(n, J)
  BY <1>6
<1> HIDE DEF Stays
<1>7. \E K \in Nat : \A n \in N : Stays(n, K)
  <2> DEFINE T == {i \in Nat : \E K \in Nat : \A n \in N : n <= i => Stays(n, K)}
  <2>1. Len(net.nodes) \in Nat /\ N = 1 .. Len(net.nodes)
    BY NetworkHas
  <2> HIDE DEF N
  <2>2. 0 \in T
    <3>1. \A n \in N : ~ (n <= 0)
      BY <2>1
    <3>2. QED
      BY <3>1
  <2>3. ASSUME NEW i \in T PROVE i + 1 \in T
    <3>1. PICK K \in Nat : \A n \in N : n <= i => Stays(n, K)
      OBVIOUS
    <3>2. PICK J \in Nat : i + 1 \in N => Stays(i + 1, J)
      BY <1>5
    <3> DEFINE M == IF K <= J THEN J ELSE K
    <3>3. M \in Nat /\ K <= M /\ J <= M
      OBVIOUS
    <3> HIDE DEF M
    <3>4. ASSUME NEW n \in N, n <= i + 1 PROVE Stays(n, M)
      <4>1. n <= i \/ n = i + 1
        BY <2>1, <3>4
      <4>2. QED
        BY <1>6, <3>1, <3>2, <3>3, <4>1
    <3>5. QED
      BY <3>3, <3>4
  <2>4. T \in SUBSET Nat
    OBVIOUS
  <2> HIDE DEF T
  <2>5. \A i \in Nat : 0 <= i => i \in T
    BY <2>2, <2>3, <2>4, UpFrom
  <2>6. Len(net.nodes) \in T
    BY <2>1, <2>5
  <2>7. PICK K \in Nat : \A n \in N : n <= Len(net.nodes) => Stays(n, K)
    BY <2>6 DEF T
  <2>8. QED
    BY <2>1, <2>7
<1>8. PICK K \in Nat : \A n \in N : Stays(n, K)
  BY <1>7
<1>9. ASSUME NEW k \in Nat, K <= k
      PROVE  /\ ToDo(net, g[k]) \in Nat /\ ToDo(net, g[k + 1]) < ToDo(net, g[k])
  <2> DEFINE s == g[k]
             t == g[k + 1]
  <2>1. s \in Searches(net) /\ t \in Searches(net) /\ t = Searched(net, s) /\ ~ IsOver(s) /\ Finding(net, starts, s)
    BY <1>1
  <2>2. \A n \in N : t.resistance[n] = s.resistance[n]
    <3>1. K <= k + 1
      BY <1>9
    <3>2. QED
      BY <1>8, <1>9, <3>1 DEF Stays
  <2> HIDE DEF s, t
  <2>3. t.resistance = s.resistance
    BY <2>1, <2>2 DEF Searches
  <2>4. \A x \in s.left : s.resistance[x[1]] \in Nat
    BY <2>1 DEF Finding, Found, Searches
  <2>5. QED
    BY <2>1, <2>3, <2>4, LessToDo DEF s, t
<1>10. PICK k \in Nat : K <= k /\ \A j \in Nat : K <= j => ToDo(net, g[k]) <= ToDo(net, g[j])
  <2> DEFINE T == {ToDo(net, g[k]) : k \in {i \in Nat : K <= i}}
  <2>1. T \in SUBSET Nat /\ T # {}
    BY <1>9
  <2>2. PICK x \in T : \A y \in T : x <= y
    <3> HIDE DEF T
    <3>1. QED
      BY <2>1, LeastNumber, Zenon
  <2>3. QED
    BY <2>2
<1>11. K <= k + 1 /\ k + 1 \in Nat /\ K <= (k + 1)
  BY <1>10
<1>12. ToDo(net, g[k]) <= ToDo(net, g[k + 1]) /\ ToDo(net, g[k + 1]) < ToDo(net, g[k])
       /\ ToDo(net, g[k]) \in Nat /\ ToDo(net, g[k + 1]) \in Nat
  BY <1>9, <1>10, <1>11
<1>13. QED
  BY <1>12

(* What the recursive function of Visited computes *)
LEMMA VisitedIs ==
  ASSUME NEW net, IsNetwork(net), NEW starts \in SUBSET DOMAIN net.nodes
  PROVE  \E s : Finding(net, starts, s) /\ IsOver(s) /\ Visited(net, starts) = s.resistance
<1> DEFINE S == Searches(net)
           next == NextSearch(net)
           first == Begun(net, starts)
           over == {s \in S : IsOver(s)}
           answer == [s \in S |-> s.resistance]
           Loop(f) == [s \in S |-> IF s \in over THEN answer[s] ELSE f[next[s]]]
           Body(f) == [s \in S |-> IF s.left = {} /\ s.queue = <<>> THEN s.resistance ELSE f[Searched(net, s)]]
           v == CHOOSE f : f = Body(f)
<1>1. next \in [S -> S] /\ first \in S /\ over \in SUBSET S
  BY NextSearchIs
<1>2. \A f : Loop(f) = Body(f)
  <2>1. ASSUME NEW f, NEW s \in S
        PROVE  (IF s \in over THEN answer[s] ELSE f[next[s]])
                 = (IF s.left = {} /\ s.queue = <<>> THEN s.resistance ELSE f[Searched(net, s)])
    BY DEF NextSearch, IsOver
  <2> HIDE DEF next, over, answer, S
  <2>2. QED
    BY <2>1
<1>3. Visited(net, starts) = v[first]
  BY Zenon DEF Visited
<1> HIDE DEF S, next, first, over, answer
<1>4. \E f : f = Loop(f)
  <2> HIDE DEF Loop, Body, v
  <2>1. PICK f : Answers(f, S, next, over, answer)
    BY <1>1, LoopAnswers, Zenon
  <2>2. f = Loop(f)
    BY <2>1 DEF Loop, Answers
  <2>3. QED
    BY <2>2
<1>5. v = Loop(v)
  <2> HIDE DEF Body, Loop
  <2>1. QED
    BY <1>2, <1>4
<1> HIDE DEF v, Body
<1>6. \A s \in S : v[s] = IF s \in over THEN answer[s] ELSE v[next[s]]
  <2> DEFINE V(s) == IF s \in over THEN answer[s] ELSE v[next[s]]
  <2>1. v = [s \in S |-> V(s)]
    BY <1>5
  <2> HIDE DEF V
  <2>2. \A s \in S : v[s] = V(s)
    BY <2>1
  <2>3. QED
    BY <2>2 DEF V
<1>7. PICK g : SearchRuns(net, starts, g)
  BY <1>1, RunsOn DEF SearchRuns, S, next, first
<1>8. g[0] = first /\ \A k \in Nat : g[k] \in S /\ g[k + 1] = next[g[k]]
  BY <1>7 DEF SearchRuns, RunsForever, S, next, first
<1>9. PICK n \in Nat : IsOver(g[n])
  BY <1>7, SearchEnds
<1>10. PICK n0 \in Nat : g[n0] \in over /\ \A k \in Nat : g[k] \in over => n0 <= k
  <2> DEFINE T == {k \in Nat : g[k] \in over}
  <2>1. T \in SUBSET Nat /\ T # {}
    BY <1>8, <1>9 DEF over
  <2> HIDE DEF T
  <2>2. PICK k \in T : \A j \in T : k <= j
    BY <2>1, LeastNumber, Zenon
  <2>3. QED
    BY <2>2 DEF T
<1>11. \A k \in Nat : k <= n0 => v[g[k]] = v[first]
  <2> DEFINE T == {k \in Nat : k <= n0 => v[g[k]] = v[first]}
  <2>1. 0 \in T
    BY <1>8
  <2>2. ASSUME NEW k \in T PROVE k + 1 \in T
    <3>1. ASSUME k + 1 <= n0 PROVE v[g[k + 1]] = v[first]
      <4>1. k \in Nat /\ k <= n0 /\ ~ (n0 <= k)
        BY <3>1
      <4>2. g[k] \notin over /\ v[g[k]] = v[first] /\ g[k] \in S /\ g[k + 1] = next[g[k]]
        BY <1>8, <1>10, <4>1
      <4>3. QED
        BY <1>6, <4>2
    <3>2. QED
      BY <3>1
  <2>3. T \in SUBSET Nat
    OBVIOUS
  <2> HIDE DEF T
  <2>4. \A k \in Nat : 0 <= k => k \in T
    BY <2>1, <2>2, <2>3, UpFrom
  <2>5. QED
    BY <2>4 DEF T
<1>12. v[first] = answer[g[n0]]
  <2>1. v[g[n0]] = v[first] /\ g[n0] \in S
    BY <1>8, <1>11
  <2>2. QED
    BY <1>6, <1>10, <2>1
<1>13. Finding(net, starts, g[n0])
  BY <1>7, FindingAlways
<1>14. QED
  BY <1>3, <1>8, <1>10, <1>12, <1>13 DEF answer, over

(* findConductorEndpoints finds all ends that a way from the starts leads  *)
(* to, each with the least resistance of all ways, also where the better   *)
(* way to a node is found after it was visited, and in networks with       *)
(* loops, parallel links and links without resistance.                     *)
THEOREM EndpointsAreNearest ==
  ASSUME NEW net, IsNetwork(net), NEW starts \in SUBSET DOMAIN net.nodes
  PROVE  LET ends == Endpoints(net, starts)
         IN  /\ DOMAIN ends = {n \in DOMAIN net.nodes : /\ net.nodes[n].facing # Inside
                                                        /\ \E r : <<n, r>> \in Ways(net, starts)}
             /\ \A n \in DOMAIN ends :
                  /\ <<n, ends[n]>> \in Ways(net, starts)
                  /\ \A r : <<n, r>> \in Ways(net, starts) => ends[n] <= r
<1> DEFINE N == DOMAIN net.nodes
           A == Ways(net, starts)
           ends == Endpoints(net, starts)
<1>1. PICK s : Finding(net, starts, s) /\ IsOver(s) /\ Visited(net, starts) = s.resistance
  BY VisitedIs
<1>2. /\ \A n \in starts : s.resistance[n] = 0
      /\ \A n \in N : Found(s, n) => s.resistance[n] \in Nat
      /\ \A n \in N : Found(s, n) => <<n, s.resistance[n]>> \in A
      /\ \A n \in N : Found(s, n) => \A l \in LinksAt(net, n) : Near(net, s, n, l)
  <2>1. s \in Searches(net) /\ s.left = {} /\ Range(s.queue) = {}
    BY <1>1, NoneAtAll DEF Finding, IsOver
  <2>2. QED
    BY <1>1, <2>1 DEF Finding, Searches, Found
<1> DEFINE W == {w \in N \X Nat : Found(s, w[1]) /\ s.resistance[w[1]] <= w[2]}
<1>3. FollowsLinks(net, starts, W)
  <2>1. ASSUME NEW n \in starts PROVE <<n, 0>> \in W
    <3>1. n \in N /\ s.resistance[n] = 0 /\ 0 # NotReached
      BY <1>2 DEF NotReached
    <3>2. QED
      BY <3>1 DEF Found
  <2>2. ASSUME NEW w \in W, NEW l \in LinksAt(net, w[1])
        PROVE  <<OtherEnd(net.links[l], w[1]), w[2] + net.links[l].resistance>> \in W
    <3> DEFINE n == w[1]
               m == OtherEnd(net.links[l], n)
               d == net.links[l].resistance
    <3>1. n \in N /\ w[2] \in Nat /\ Found(s, n) /\ s.resistance[n] <= w[2] /\ s.resistance[n] \in Nat
      BY <1>2
    <3>2. l \in DOMAIN net.links
      BY DEF LinksAt
    <3>3. m \in N /\ d \in Nat
      BY <3>2, NetworkHas
    <3>4. Found(s, m) /\ s.resistance[m] <= s.resistance[n] + d
      BY <1>2, <3>1 DEF Near
    <3> HIDE DEF n, m, d
    <3>5. s.resistance[m] \in Nat
      BY <1>2, <3>3, <3>4
    <3>6. <<m, w[2] + d>> \in W
      BY <3>1, <3>3, <3>4, <3>5
    <3>7. QED
      BY <3>6 DEF m, n, d
  <2> HIDE DEF W
  <2>3. QED
    BY <2>1, <2>2 DEF FollowsLinks
<1>4. A \subseteq W
  <2>1. W \in SUBSET (N \X Nat)
    OBVIOUS
  <2> HIDE DEF W
  <2>2. QED
    BY <1>3, <2>1, WaysAre
<1>5. \A n, r : <<n, r>> \in A => n \in N /\ Found(s, n) /\ s.resistance[n] <= r
  BY <1>4
<1>6. /\ DOMAIN ends = {n \in N : Found(s, n) /\ net.nodes[n].facing # Inside}
      /\ \A n \in DOMAIN ends : ends[n] = s.resistance[n]
  BY <1>1 DEF Endpoints, Found
<1> HIDE DEF ends, A, N
<1>7. \A n \in N : Found(s, n) <=> \E r : <<n, r>> \in A
  BY <1>2, <1>5
<1>8. DOMAIN ends = {n \in N : net.nodes[n].facing # Inside /\ \E r : <<n, r>> \in A}
  BY <1>6, <1>7
<1>9. \A n \in DOMAIN ends : <<n, ends[n]>> \in A /\ \A r : <<n, r>> \in A => ends[n] <= r
  BY <1>2, <1>5, <1>6
<1>10. QED
  BY <1>8, <1>9 DEF ends, A, N

-----------------------------------------------------------------------------
(* The invariant *)

TilesOf(r) == {t \in Tiles : TreeOf[t] = r}

IsEntity(v) == v \in [class : {v.class}, state : {v.state}, subs : {v.subs}]

(* What tile t is in a version of its tree *)
In(tree, t) == tree.palette[tree.at[t]]

IsTree(tree, r) ==
  /\ tree \in [palette : {tree.palette}, at : {tree.at}]
  /\ Listed(tree.palette)
  /\ \A v \in Range(tree.palette) : IsEntity(v)
  /\ tree.at \in [TilesOf(r) -> DOMAIN tree.palette]

IsCall(c) ==
  c \in [e : Entities, found : {c.found}, entity : {c.entity}, own : {c.own},
         keys : {c.keys}, queue : {c.queue}, tree : {c.tree}]

IsTold(a) ==
  /\ a.kind = "message" => a.entity \in Entities
  /\ a.kind = "signal" => a.room \in Rooms

Shapes ==
  /\ singles \in [Singles -> Range(singles)]
  /\ \A s \in Singles : IsEntity(singles[s])
  /\ told \in [Entities -> Range(told)]
  /\ trees \in [Trees -> Range(trees)]
  /\ \A r \in Trees : IsTree(trees[r], r)
  /\ Listed(stack) /\ \A c \in Range(stack) : IsCall(c)

Lists ==
  /\ Listed(actions) /\ \A a \in Range(actions) : IsTold(a)
  /\ Listed(enqueued) /\ \A a \in Range(enqueued) : IsTold(a)
  /\ inputs \subseteq Inputs

(* A call only adds to the state of the tile as it was found, and only     *)
(* what the tile was told.  A version of the tree that is being rewritten  *)
(* has nothing that its tiles were not told.                               *)
CallOfTile(c) ==
  /\ IsEntity(c.found) /\ IsEntity(c.entity)
  /\ c.found.state \subseteq c.entity.state
  /\ c.entity.state \subseteq told[c.e]
  /\ c.own = TRUE \/ c.entity = c.found
  /\ \/ c.tree = NoTree
     \/ /\ IsTree(c.tree, TreeOf[c.e])
        /\ In(c.tree, c.e) = c.found
        /\ \A t \in TilesOf(TreeOf[c.e]) : In(c.tree, t).state \subseteq told[t]

Calls == \A c \in Range(stack) : c.e \in Tiles => CallOfTile(c)

(* A call under way has added x to the state of tile t. *)
Adds(c, t, x) == c.e = t /\ x \in c.entity.state /\ x \notin c.found.state

OnlyTold == \A t \in Tiles : Tile(t).state \subseteq told[t]

(* What a tile was told is in the tree, or a call that added it will put   *)
(* it there, unless a call already put an older version of the tile back.  *)
AllTold ==
  \A t \in Tiles \ stale : \A x \in told[t] :
    \/ x = "enabled"
    \/ x \in Tile(t).state
    \/ \E c \in Range(stack) : Adds(c, t, x)

IInv == Shapes /\ Lists /\ SinglesKeepChanges /\ Calls /\ OnlyTold /\ AllTold

-----------------------------------------------------------------------------
(* Entities, calls and versions of trees *)

LEMMA MoreState ==
  ASSUME NEW v, IsEntity(v), NEW S, NEW w, w = [v EXCEPT !.state = @ \cup S]
  PROVE  IsEntity(w) /\ w.state = v.state \cup S /\ w.subs = v.subs
  BY DEF IsEntity

LEMMA MoreSubs ==
  ASSUME NEW v, IsEntity(v), NEW S, NEW w, w = [v EXCEPT !.subs = @ \cup S]
  PROVE  IsEntity(w) /\ w.subs = v.subs \cup S /\ w.state = v.state
  BY DEF IsEntity

(* The same call, with other messages or programs left *)
GoesOn(c, d) ==
  /\ IsCall(d)
  /\ d.e = c.e /\ d.found = c.found /\ d.entity = c.entity /\ d.own = c.own /\ d.tree = c.tree

LEMMA SameCall ==
  ASSUME NEW c, IsCall(c)
  PROVE  GoesOn(c, c)
  BY DEF GoesOn

LEMMA OtherQueue ==
  ASSUME NEW c, IsCall(c), NEW q, NEW d, d = [c EXCEPT !.queue = q]
  PROVE  GoesOn(c, d)
  BY DEF GoesOn, IsCall

LEMMA OtherKeys ==
  ASSUME NEW c, IsCall(c), NEW k, NEW d, d = [c EXCEPT !.keys = k]
  PROVE  GoesOn(c, d)
  BY DEF GoesOn, IsCall

LEMMA GoesOnGoesOn ==
  ASSUME NEW b, NEW c, NEW d, GoesOn(b, c), GoesOn(c, d)
  PROVE  GoesOn(b, d)
  BY DEF GoesOn

LEMMA OtherEntity ==
  ASSUME NEW c, IsCall(c), NEW v, NEW d, d = [c EXCEPT !.entity = v, !.own = TRUE]
  PROVE  /\ IsCall(d) /\ d.entity = v /\ d.own = TRUE
         /\ d.e = c.e /\ d.found = c.found /\ d.tree = c.tree
  BY DEF IsCall

(* Calls that begin with what the entity is now *)
Begins(c) ==
  /\ IsCall(c)
  /\ c.found = Current(c.e) /\ c.entity = c.found
  /\ c.tree = NoTree \/ (c.e \in Tiles /\ c.tree = trees[TreeOf[c.e]])

LEMMA CallBegins ==
  ASSUME NEW e \in Entities, NEW k, NEW m
  PROVE  Begins(Replacing(e, k)) /\ Begins(Mutating(e, m))
<1>1. ASSUME NEW l, NEW q, NEW tree
      PROVE  LET c == Call(e, l, q, tree)
             IN  /\ IsCall(c) /\ c.e = e /\ c.tree = tree
                 /\ c.found = Current(e) /\ c.entity = Current(e)
  BY DEF IsCall, Call
<1>2. Begins(Replacing(e, k))
  <2> DEFINE c == Replacing(e, k)
  <2>1. c = Call(e, k, <<>>, NoTree)
    BY DEF Replacing
  <2> HIDE DEF c
  <2>2. /\ IsCall(c) /\ c.e = e /\ c.tree = NoTree
        /\ c.found = Current(e) /\ c.entity = Current(e)
    BY <1>1, <2>1
  <2>3. Begins(c)
    BY <2>2 DEF Begins
  <2>4. QED
    BY <2>3 DEF c
<1>3. Begins(Mutating(e, m))
  <2> DEFINE c == Mutating(e, m)
             tree == IF e \in Tiles THEN trees[TreeOf[e]] ELSE NoTree
  <2>1. c = Call(e, <<>>, <<m>>, tree)
    BY DEF Mutating
  <2> HIDE DEF c
  <2>2. /\ IsCall(c) /\ c.e = e /\ c.tree = tree
        /\ c.found = Current(e) /\ c.entity = Current(e)
    BY <1>1, <2>1
  <2>3. Begins(c)
    BY <2>2 DEF Begins
  <2>4. QED
    BY <2>3 DEF c
<1>4. QED
  BY <1>2, <1>3

(* An entity that is put into a tree: the tile is then one with its state, *)
(* and other tiles are what they were.                                     *)
LEMMA PutIntoTree ==
  ASSUME NEW r, NEW tree, IsTree(tree, r), NEW t \in TilesOf(r), NEW v, IsEntity(v),
         NEW put, put = Rewritten(tree, t, v)
  PROVE  /\ IsTree(put, r)
         /\ In(put, t).state = v.state
         /\ \A u \in TilesOf(r) \ {t} : In(put, u) = In(tree, u)
<1> DEFINE pal == tree.palette
           S == Range(pal)
           Same(i) == Alike(pal[i], v)
<1>1. /\ tree = [palette |-> pal, at |-> tree.at] /\ tree.at \in [TilesOf(r) -> DOMAIN pal]
      /\ Listed(pal) /\ \A w \in S : IsEntity(w)
  BY DEF IsTree
<1>2. pal \in Seq(S) /\ Len(pal) \in Nat /\ DOMAIN pal = 1 .. Len(pal)
  BY <1>1 DEF Listed
<1>3. CASE \E i \in DOMAIN pal : Same(i)
  <2> DEFINE First(i) == Same(i) /\ \A j \in 1 .. i - 1 : ~ Same(j)
             at == CHOOSE i \in DOMAIN pal : First(i)
  <2>1. \E i \in DOMAIN pal : First(i)
    <3> DEFINE T == {i \in DOMAIN pal : Same(i)}
    <3>1. T \in SUBSET Nat /\ T # {}
      BY <1>2, <1>3
    <3>2. PICK i \in T : \A j \in T : i <= j
      BY <3>1, LeastNumber
    <3>3. ASSUME NEW j \in 1 .. i - 1 PROVE ~ Same(j)
      <4> HIDE DEF Same
      <4>1. i \in 1 .. Len(pal) /\ j \in DOMAIN pal /\ ~ (i <= j)
        BY <1>2, <3>2
      <4>2. QED
        BY <3>2, <4>1
    <3>4. QED
      BY <3>2, <3>3
  <2>2. at \in DOMAIN pal /\ Same(at)
    BY <2>1
  <2>3. put = [tree EXCEPT !.at[t] = at]
    BY <1>3 DEF Rewritten
  <2> HIDE DEF at, Same
  <2>4. put = [palette |-> pal, at |-> [tree.at EXCEPT ![t] = at]]
    BY <1>1, <2>3
  <2>5. pal[at].state = v.state
    BY <2>2 DEF Same, Alike
  <2>6. put.palette = pal /\ put.at = [tree.at EXCEPT ![t] = at]
    BY <2>4
  <2>7. /\ put.at \in [TilesOf(r) -> DOMAIN pal] /\ put.at[t] = at
        /\ \A u \in TilesOf(r) \ {t} : put.at[u] = tree.at[u]
    BY <1>1, <2>2, <2>6
  <2>8. IsTree(put, r)
    BY <1>1, <2>4, <2>6, <2>7 DEF IsTree
  <2>9. QED
    BY <2>5, <2>6, <2>7, <2>8 DEF In
<1>4. CASE ~ \E i \in DOMAIN pal : Same(i)
  <2> DEFINE new == Append(pal, v)
             n == Len(pal) + 1
  <2>1. put = [tree EXCEPT !.palette = new, !.at[t] = n]
    BY <1>4 DEF Rewritten
  <2>2. /\ Listed(new) /\ Range(new) = S \cup {v}
    BY <1>1, OneMore
  <2>3. /\ DOMAIN new = 1 .. n /\ new[n] = v /\ \A i \in DOMAIN pal : i \in DOMAIN new /\ new[i] = pal[i]
        /\ n \in 1 .. n
    <3>1. pal \in Seq(S \cup {v})
      BY <1>2
    <3>2. QED
      BY <1>2, <3>1
  <2> HIDE DEF new, n
  <2>4. put = [palette |-> new, at |-> [tree.at EXCEPT ![t] = n]]
    BY <1>1, <2>1
  <2>5. put.palette = new /\ put.at = [tree.at EXCEPT ![t] = n]
    BY <2>4
  <2>6. /\ put.at \in [TilesOf(r) -> DOMAIN new] /\ put.at[t] = n
        /\ \A u \in TilesOf(r) \ {t} : put.at[u] = tree.at[u] /\ tree.at[u] \in DOMAIN pal
    BY <1>1, <2>3, <2>5
  <2>7. IsTree(put, r)
    BY <1>1, <2>2, <2>4, <2>5, <2>6 DEF IsTree
  <2>8. QED
    BY <2>3, <2>5, <2>6, <2>7 DEF In
<1>5. QED
  BY <1>3, <1>4

-----------------------------------------------------------------------------
(* What steps do to the invariant *)

Kept == Shapes /\ SinglesKeepChanges /\ Calls /\ OnlyTold /\ AllTold

LEMMA TileIs ==
  ASSUME Shapes, NEW t \in Tiles
  PROVE  /\ TreeOf[t] \in Trees /\ t \in TilesOf(TreeOf[t]) /\ t \in Entities /\ t \notin Singles
         /\ Tile(t) = In(trees[TreeOf[t]], t) /\ IsTree(trees[TreeOf[t]], TreeOf[t])
         /\ IsEntity(Tile(t))
<1>1. /\ TreeOf[t] \in Trees /\ t \in TilesOf(TreeOf[t]) /\ t \in Entities /\ t \notin Singles
  BY BusAssumption DEF TilesOf, Entities
<1>2. Tile(t) = In(trees[TreeOf[t]], t)
  BY DEF Tile, In
<1> DEFINE tree == trees[TreeOf[t]]
<1>3. IsTree(tree, TreeOf[t])
  BY <1>1 DEF Shapes
<1> HIDE DEF tree
<1>4. tree.at[t] \in DOMAIN tree.palette
  BY <1>1, <1>3 DEF IsTree
<1>5. In(tree, t) \in Range(tree.palette)
  BY <1>4 DEF In, Range
<1>6. QED
  BY <1>1, <1>2, <1>3, <1>5 DEF IsTree, tree

(* Calls begin or go on, and nothing else happens. *)
LEMMA CallsMove ==
  ASSUME Kept, UNCHANGED <<singles, trees, told, stale>>, Listed(stack'),
         \A d \in Range(stack') : Begins(d) \/ \E c \in Range(stack) : GoesOn(c, d),
         \A c \in Range(stack) : \E d \in Range(stack') : GoesOn(c, d)
  PROVE  Kept'
<1>1. \A t \in Tiles : Tile(t)' = Tile(t)
  BY DEF Tile
<1>2. Shapes'
  <2>1. \A d \in Range(stack') : IsCall(d)
    BY DEF Begins, GoesOn
  <2>2. QED
    BY <2>1 DEF Kept, Shapes
<1>3. SinglesKeepChanges' /\ OnlyTold'
  BY <1>1 DEF Kept, SinglesKeepChanges, OnlyTold
<1>4. Calls'
  <2>1. ASSUME NEW d \in Range(stack'), d.e \in Tiles
        PROVE  CallOfTile(d)
    <3>1. CASE Begins(d)
      <4> DEFINE t == d.e
      <4>1. /\ TreeOf[t] \in Trees /\ t \notin Singles
            /\ Tile(t) = In(trees[TreeOf[t]], t) /\ IsTree(trees[TreeOf[t]], TreeOf[t])
            /\ IsEntity(Tile(t))
        BY <2>1, TileIs DEF Kept
      <4>2. d.found = Tile(t) /\ d.entity = Tile(t)
        BY <3>1, <4>1 DEF Begins, Current
      <4>3. Tile(t).state \subseteq told[t]
        BY <2>1 DEF Kept, OnlyTold
      <4>4. CASE d.tree = NoTree
        BY <4>1, <4>2, <4>3, <4>4 DEF CallOfTile
      <4>5. CASE d.tree = trees[TreeOf[t]]
        <5>1. ASSUME NEW u \in TilesOf(TreeOf[t])
              PROVE  In(d.tree, u).state \subseteq told[u]
          <6>1. u \in Tiles /\ TreeOf[u] = TreeOf[t]
            BY DEF TilesOf
          <6>2. In(d.tree, u) = Tile(u)
            BY <4>5, <6>1 DEF Tile, In
          <6>3. QED
            BY <6>1, <6>2 DEF Kept, OnlyTold
        <5>2. In(d.tree, t) = d.found /\ IsTree(d.tree, TreeOf[t])
          BY <4>1, <4>2, <4>5
        <5>3. QED
          BY <4>1, <4>2, <4>3, <5>1, <5>2 DEF CallOfTile
      <4>6. QED
        BY <3>1, <4>4, <4>5 DEF Begins
    <3>2. CASE \E c \in Range(stack) : GoesOn(c, d)
      <4>1. PICK c \in Range(stack) : GoesOn(c, d)
        BY <3>2
      <4>2. CallOfTile(c)
        BY <2>1, <4>1 DEF Kept, Calls, GoesOn
      <4>3. QED
        BY <4>1, <4>2 DEF CallOfTile, GoesOn
    <3>3. QED
      BY <3>1, <3>2
  <2>2. ASSUME NEW d, CallOfTile(d) PROVE CallOfTile(d)'
    BY <2>2 DEF CallOfTile
  <2>3. QED
    BY <2>1, <2>2 DEF Calls
<1>5. AllTold'
  <2>1. ASSUME NEW t \in Tiles \ stale, NEW x \in told[t], NEW c \in Range(stack), Adds(c, t, x)
        PROVE  \E d \in Range(stack') : Adds(d, t, x)
    <3>1. PICK d \in Range(stack') : GoesOn(c, d)
      OBVIOUS
    <3>2. Adds(d, t, x)
      BY <2>1, <3>1 DEF Adds, GoesOn
    <3>3. QED
      BY <3>2
  <2>2. QED
    BY <1>1, <2>1 DEF Kept, AllTold
<1>6. QED
  BY <1>2, <1>3, <1>4, <1>5 DEF Kept

(* What is alone is changed in place, by the innermost call. *)
LEMMA SingleChanges ==
  ASSUME Kept, stack # <<>>, NEW rest, GoesOn(stack[1], rest), rest.e \in Singles,
         NEW v, IsEntity(v), NEW S,
         v.state \cup v.subs = singles[rest.e].state \cup singles[rest.e].subs \cup S,
         singles' = [singles EXCEPT ![rest.e] = v],
         stack' = <<rest>> \o Tail(stack),
         told' = [told EXCEPT ![rest.e] = @ \cup S],
         UNCHANGED <<trees, stale>>
  PROVE  Kept'
<1> DEFINE e == rest.e
<1>1. /\ e \in Entities /\ e \notin Tiles
      /\ singles \in [Singles -> Range(singles)] /\ told \in [Entities -> Range(told)]
  BY BusAssumption DEF Entities, Kept, Shapes
<1>2. /\ told'[e] = told[e] \cup S /\ \A f \in Entities \ {e} : told'[f] = told[f]
      /\ told' = [f \in Entities |-> told'[f]]
  BY <1>1
<1>3. /\ singles'[e] = v /\ \A f \in Singles \ {e} : singles'[f] = singles[f]
      /\ singles' = [f \in Singles |-> singles'[f]]
  BY <1>1
<1>4. /\ Listed(stack') /\ Range(stack') = {rest} \cup Range(Tail(stack))
      /\ stack[1] \in Range(stack) /\ Range(stack) = {stack[1]} \cup Range(Tail(stack))
  <2>1. Listed(stack)
    BY DEF Kept, Shapes
  <2>2. QED
    BY <2>1, HeadAndTail, TopReplaced
<1>5. \A t \in Tiles : Tile(t)' = Tile(t) /\ told'[t] = told[t] /\ t \in Entities
  BY <1>1, <1>2 DEF Tile, Entities
<1>6. Shapes'
  <2>1. singles' \in [Singles -> Range(singles')] /\ told' \in [Entities -> Range(told')]
    BY <1>2, <1>3 DEF Range
  <2>2. \A f \in Singles : IsEntity(singles'[f])
    BY <1>3 DEF Kept, Shapes
  <2>3. \A c \in Range(stack') : IsCall(c)
    BY <1>4 DEF Kept, Shapes, GoesOn
  <2>4. QED
    BY <1>4, <2>1, <2>2, <2>3 DEF Kept, Shapes
<1>7. SinglesKeepChanges'
  <2>1. ASSUME NEW f \in Singles PROVE told'[f] = singles'[f].state \cup singles'[f].subs
    <3>1. told[f] = singles[f].state \cup singles[f].subs /\ f \in Entities
      BY DEF Kept, SinglesKeepChanges, Entities
    <3>2. CASE f = e
      BY <1>2, <1>3, <3>1, <3>2
    <3>3. CASE f # e
      BY <1>2, <1>3, <3>1, <3>3
    <3>4. QED
      BY <3>2, <3>3
  <2>2. QED
    BY <2>1 DEF SinglesKeepChanges
<1>8. OnlyTold'
  BY <1>5 DEF Kept, OnlyTold
<1>9. Calls'
  <2>1. ASSUME NEW c \in Range(stack'), c.e \in Tiles PROVE CallOfTile(c)'
    <3>1. c \in Range(stack)
      BY <1>1, <1>4, <2>1
    <3>2. CallOfTile(c)
      BY <2>1, <3>1 DEF Kept, Calls
    <3>3. \A t \in TilesOf(TreeOf[c.e]) : told'[t] = told[t]
      BY <1>5 DEF TilesOf
    <3>4. told'[c.e] = told[c.e]
      BY <1>5, <2>1
    <3>5. QED
      BY <3>2, <3>3, <3>4 DEF CallOfTile
  <2>2. QED
    BY <2>1 DEF Calls
<1>10. AllTold'
  <2>1. ASSUME NEW t \in Tiles \ stale, NEW x \in told[t], NEW c \in Range(stack), Adds(c, t, x)
        PROVE  \E d \in Range(stack') : Adds(d, t, x)
    <3>1. c.e = t
      BY <2>1 DEF Adds
    <3>2. c # stack[1]
      BY <1>1, <3>1 DEF GoesOn
    <3>3. c \in Range(stack')
      BY <1>4, <3>2
    <3>4. QED
      BY <2>1, <3>3
  <2>2. QED
    BY <1>5, <2>1 DEF Kept, AllTold
<1>11. QED
  BY <1>6, <1>7, <1>8, <1>9, <1>10 DEF Kept

(* The innermost call changes its copy of a tile. *)
LEMMA TileChanges ==
  ASSUME Kept, stack # <<>>, NEW rest, GoesOn(stack[1], rest), rest.e \in Tiles,
         NEW v, IsEntity(v), NEW S,
         stack[1].entity.state \subseteq v.state,
         v.state \subseteq stack[1].entity.state \cup S, S \subseteq v.state \cup {"enabled"},
         NEW d, d = [rest EXCEPT !.entity = v, !.own = TRUE],
         stack' = <<d>> \o Tail(stack),
         told' = [told EXCEPT ![rest.e] = @ \cup S],
         UNCHANGED <<singles, trees, stale>>
  PROVE  Kept'
<1> DEFINE e == rest.e
<1>1. e \in Entities /\ e \notin Singles /\ told \in [Entities -> Range(told)]
  BY BusAssumption DEF Entities, Kept, Shapes
<1>2. /\ told'[e] = told[e] \cup S /\ \A f \in Entities \ {e} : told'[f] = told[f]
      /\ told' = [f \in Entities |-> told'[f]]
  BY <1>1
<1>3. /\ Listed(stack') /\ Range(stack') = {d} \cup Range(Tail(stack))
      /\ stack[1] \in Range(stack) /\ Range(stack) = {stack[1]} \cup Range(Tail(stack))
  <2>1. Listed(stack)
    BY DEF Kept, Shapes
  <2>2. QED
    BY <2>1, HeadAndTail, TopReplaced
<1>4. /\ IsCall(d) /\ d.entity = v /\ d.own = TRUE /\ d.e = e
      /\ d.found = stack[1].found /\ d.tree = stack[1].tree /\ stack[1].e = e
  <2>1. IsCall(rest)
    BY DEF GoesOn
  <2>2. /\ IsCall(d) /\ d.entity = v /\ d.own = TRUE
        /\ d.e = rest.e /\ d.found = rest.found /\ d.tree = rest.tree
    BY <2>1 DEF IsCall
  <2>3. QED
    BY <2>2, Zenon DEF GoesOn
<1>5. \A t \in Tiles : Tile(t)' = Tile(t) /\ told[t] \subseteq told'[t]
  BY <1>1, <1>2 DEF Tile, Entities
<1>6. Shapes'
  <2>1. told' \in [Entities -> Range(told')]
    BY <1>2 DEF Range
  <2>2. \A c \in Range(stack') : IsCall(c)
    BY <1>3, <1>4 DEF Kept, Shapes
  <2>3. QED
    BY <1>3, <2>1, <2>2 DEF Kept, Shapes
<1>7. SinglesKeepChanges'
  BY <1>1, <1>2 DEF Kept, SinglesKeepChanges, Entities
<1>8. OnlyTold'
  BY <1>5 DEF Kept, OnlyTold
<1>9. CallOfTile(stack[1])
  BY <1>3, <1>4 DEF Kept, Calls
<1>10. Calls'
  <2>1. ASSUME NEW c \in Range(stack'), c.e \in Tiles PROVE CallOfTile(c)'
    <3>1. \A t \in TilesOf(TreeOf[c.e]) : told[t] \subseteq told'[t]
      BY <1>5 DEF TilesOf
    <3>2. CASE c = d
      <4>1. v.state \subseteq told'[e]
        BY <1>2, <1>4, <1>9 DEF CallOfTile
      <4>2. d.found.state \subseteq v.state /\ IsEntity(d.found)
        BY <1>4, <1>9 DEF CallOfTile
      <4>3. \/ d.tree = NoTree
            \/ /\ IsTree(d.tree, TreeOf[e]) /\ In(d.tree, e) = d.found
               /\ \A t \in TilesOf(TreeOf[e]) : In(d.tree, t).state \subseteq told[t]
        BY <1>4, <1>9 DEF CallOfTile
      <4>4. \/ d.tree = NoTree
            \/ /\ IsTree(d.tree, TreeOf[e]) /\ In(d.tree, e) = d.found
               /\ \A t \in TilesOf(TreeOf[e]) : In(d.tree, t).state \subseteq told'[t]
        BY <1>4, <3>1, <3>2, <4>3
      <4>5. QED
        BY <1>4, <3>2, <4>1, <4>2, <4>4 DEF CallOfTile
    <3>3. CASE c \in Range(Tail(stack))
      <4>1. CallOfTile(c)
        BY <1>3, <2>1, <3>3 DEF Kept, Calls
      <4>2. told[c.e] \subseteq told'[c.e]
        BY <1>5, <2>1
      <4>3. QED
        BY <3>1, <4>1, <4>2 DEF CallOfTile
    <3>4. QED
      BY <1>3, <3>2, <3>3
  <2>2. QED
    BY <2>1 DEF Calls
<1>11. AllTold'
  <2>1. ASSUME NEW t \in Tiles \ stale, NEW x \in told'[t]
        PROVE  \/ x = "enabled"
               \/ x \in Tile(t).state
               \/ \E c \in Range(stack') : Adds(c, t, x)
    <3>1. CASE x \in told[t]
      <4>1. CASE \E c \in Range(stack) : Adds(c, t, x)
        <5>1. PICK c \in Range(stack) : Adds(c, t, x)
          BY <4>1
        <5>2. CASE c = stack[1]
          <6>1. Adds(d, t, x)
            BY <1>4, <5>1, <5>2 DEF Adds
          <6>2. QED
            BY <1>3, <6>1
        <5>3. CASE c # stack[1]
          BY <1>3, <5>1, <5>3
        <5>4. QED
          BY <5>2, <5>3
      <4>2. QED
        BY <3>1, <4>1 DEF Kept, AllTold
    <3>2. CASE x \notin told[t]
      <4>1. t = e /\ x \in S
        BY <1>2, <2>1, <3>2 DEF Entities
      <4>2. x \notin d.found.state
        BY <1>4, <1>9, <3>2, <4>1 DEF CallOfTile
      <4>3. x = "enabled" \/ Adds(d, t, x)
        BY <1>4, <4>1, <4>2 DEF Adds
      <4>4. QED
        BY <1>3, <4>3
    <3>3. QED
      BY <3>1, <3>2
  <2>2. QED
    BY <1>5, <2>1 DEF AllTold
<1>12. QED
  BY <1>6, <1>7, <1>8, <1>10, <1>11 DEF Kept

(* A call that ends leaves what is alone as it is, and puts the tile that  *)
(* it changed into a version of the tree: the current one, or the one that *)
(* it began with, which then replaces what others changed meanwhile.       *)
LEMMA ReturnKeeps ==
  ASSUME Kept, Return
  PROVE  Kept'
<1> DEFINE call == stack[1]
           e == call.e
           r == TreeOf[e]
           replaces == call.tree = NoTree
           base == IF replaces THEN trees[r] ELSE call.tree
           put == Rewritten(base, e, call.entity)
           rest == Range(Tail(stack))
           late == IF replaces THEN {e} \ {t \in Tiles : Tile(t) = call.found}
                   ELSE {t \in DOMAIN base.at : base.palette[base.at[t]] # Tile(t)}
<1>1. /\ stack # <<>> /\ stack' = Tail(stack) /\ singles' = singles /\ told' = told
      /\ \/ /\ e \in Singles \/ (replaces /\ ~ call.own) \/ put = trees[r]
            /\ trees' = trees /\ stale' = stale
         \/ /\ e \notin Singles
            /\ trees' = [trees EXCEPT ![r] = put]
            /\ stale' = stale \cup late
  BY DEF Return
<1>2. /\ Listed(stack') /\ Range(stack') = rest /\ call \in Range(stack)
      /\ Range(stack) = {call} \cup rest
  <2>1. Listed(stack)
    BY DEF Kept, Shapes
  <2>2. QED
    BY <1>1, <2>1, HeadAndTail
<1>3. IsCall(call) /\ e \in Entities
  BY <1>2 DEF Kept, Shapes, IsCall
<1>4. \A c \in rest : IsCall(c) /\ (c.e \in Tiles => CallOfTile(c))
  BY <1>2 DEF Kept, Shapes, Calls
<1>5. ASSUME NEW c, CallOfTile(c) PROVE CallOfTile(c)'
  BY <1>1, <1>5 DEF CallOfTile
<1>6. Calls' /\ SinglesKeepChanges'
  BY <1>1, <1>2, <1>4, <1>5 DEF Kept, Calls, SinglesKeepChanges
(* The tile that the call handled *)
<1>7. ASSUME e \in Tiles
      PROVE  /\ CallOfTile(call) /\ r \in Trees /\ e \in TilesOf(r) /\ e \notin Singles
             /\ IsTree(base, r) /\ Tile(e) = In(trees[r], e)
             /\ IsTree(put, r) /\ In(put, e).state = call.entity.state
             /\ \A u \in TilesOf(r) \ {e} : In(put, u) = In(base, u)
             /\ \A u \in TilesOf(r) : In(base, u).state \subseteq told[u]
  <2>1. CallOfTile(call)
    BY <1>2, <1>7 DEF Kept, Calls
  <2>2. /\ r \in Trees /\ e \in TilesOf(r) /\ e \notin Singles
        /\ Tile(e) = In(trees[r], e) /\ IsTree(trees[r], r)
    BY <1>7, TileIs DEF Kept
  <2>3. IsTree(base, r)
    BY <2>1, <2>2 DEF CallOfTile
  <2>4. ASSUME NEW u \in TilesOf(r) PROVE In(base, u).state \subseteq told[u]
    <3>1. u \in Tiles /\ TreeOf[u] = r
      BY DEF TilesOf
    <3>2. In(trees[r], u) = Tile(u)
      BY <3>1 DEF In, Tile
    <3>3. In(trees[r], u).state \subseteq told[u]
      BY <3>1, <3>2 DEF Kept, OnlyTold
    <3>4. QED
      BY <2>1, <3>3 DEF CallOfTile
  <2>5. IsEntity(call.entity)
    BY <2>1 DEF CallOfTile
  <2> HIDE DEF base, put, call, e, r
  <2>6. /\ IsTree(put, r) /\ In(put, e).state = call.entity.state
        /\ \A u \in TilesOf(r) \ {e} : In(put, u) = In(base, u)
    BY <2>2, <2>3, <2>5, PutIntoTree DEF put
  <2>7. QED
    BY <2>1, <2>2, <2>3, <2>4, <2>6
<1>8. CASE /\ e \in Singles \/ (replaces /\ ~ call.own) \/ put = trees[r]
           /\ trees' = trees /\ stale' = stale
  <2>1. \A t \in Tiles : Tile(t)' = Tile(t)
    BY <1>8 DEF Tile
  <2>2. Shapes' /\ OnlyTold'
    BY <1>1, <1>2, <1>4, <1>8, <2>1 DEF Kept, Shapes, OnlyTold
  <2>3. ASSUME NEW t \in Tiles \ stale, NEW x \in told[t], Adds(call, t, x)
        PROVE  x \in Tile(t).state
    <3>1. e = t /\ e \in Tiles /\ x \in call.entity.state /\ x \notin call.found.state
      BY <2>3 DEF Adds
    <3>2. e \notin Singles /\ CallOfTile(call)
      BY <1>7, <3>1
    <3>3. CASE ~ call.own
      <4>1. call.own # TRUE
        BY <3>3
      <4>2. QED
        BY <3>1, <3>2, <4>1 DEF CallOfTile
    <3>4. CASE put = trees[r]
      <4>1. In(trees[r], e).state = call.entity.state
        BY <1>7, <3>1, <3>4
      <4>2. QED
        BY <1>7, <3>1, <4>1
    <3>5. QED
      BY <1>8, <3>2, <3>3, <3>4
  <2>4. AllTold'
    <3>1. ASSUME NEW t \in Tiles \ stale, NEW x \in told[t], NEW c \in Range(stack), Adds(c, t, x)
          PROVE  x \in Tile(t).state \/ \E d \in rest : Adds(d, t, x)
      BY <1>2, <2>3, <3>1
    <3>2. QED
      BY <1>1, <1>2, <1>8, <2>1, <3>1 DEF Kept, AllTold
  <2>5. QED
    BY <1>6, <2>2, <2>4 DEF Kept
<1>9. CASE /\ e \notin Singles
           /\ trees' = [trees EXCEPT ![r] = put]
           /\ stale' = stale \cup late
  <2>1. e \in Tiles
    BY <1>3, <1>9 DEF Entities
  <2>2. /\ CallOfTile(call) /\ r \in Trees /\ e \in TilesOf(r)
        /\ IsTree(base, r) /\ Tile(e) = In(trees[r], e)
        /\ IsTree(put, r) /\ In(put, e).state = call.entity.state
        /\ \A u \in TilesOf(r) \ {e} : In(put, u) = In(base, u)
        /\ \A u \in TilesOf(r) : In(base, u).state \subseteq told[u]
    BY <1>7, <2>1
  <2>3. trees \in [Trees -> Range(trees)]
    BY DEF Kept, Shapes
  <2> HIDE DEF call, e, r, base, put, late
  <2>4. /\ trees'[r] = put /\ \A q \in Trees \ {r} : trees'[q] = trees[q]
        /\ trees' = [q \in Trees |-> trees'[q]]
    BY <1>9, <2>2, <2>3
  <2>5. ASSUME NEW t \in Tiles
        PROVE  /\ TreeOf[t] = r => t \in TilesOf(r) /\ Tile(t)' = In(put, t)
               /\ TreeOf[t] # r => Tile(t)' = Tile(t)
    <3>1. TreeOf[t] \in Trees
      BY BusAssumption
    <3>2. QED
      BY <2>4, <3>1 DEF TilesOf, Tile, In
  <2>6. Shapes'
    <3>1. trees' \in [Trees -> Range(trees')]
      BY <2>4 DEF Range
    <3>2. \A q \in Trees : IsTree(trees'[q], q)
      BY <2>2, <2>4 DEF Kept, Shapes
    <3>3. QED
      BY <1>1, <1>2, <1>4, <3>1, <3>2 DEF Kept, Shapes
  <2>7. OnlyTold'
    <3>1. ASSUME NEW t \in Tiles PROVE Tile(t)'.state \subseteq told[t]
      <4>1. CASE TreeOf[t] # r
        BY <2>5, <4>1 DEF Kept, OnlyTold
      <4>2. CASE t = e
        BY <2>1, <2>2, <2>5, <4>2 DEF CallOfTile, e, r
      <4>3. CASE TreeOf[t] = r /\ t # e
        BY <2>2, <2>5, <4>3
      <4>4. QED
        BY <4>1, <4>2, <4>3
    <3>2. QED
      BY <1>1, <3>1 DEF OnlyTold
  <2>8. ASSUME NEW t \in TilesOf(r), t \notin late, t # e \/ call.tree # NoTree
        PROVE  In(base, t) = Tile(t)
    <3>1. t \in Tiles /\ TreeOf[t] = r
      BY DEF TilesOf
    <3>2. CASE call.tree = NoTree
      BY <3>1, <3>2 DEF base, In, Tile
    <3>3. CASE call.tree # NoTree
      <4>1. t \in DOMAIN base.at
        BY <2>2 DEF IsTree
      <4>2. QED
        BY <2>8, <3>3, <4>1 DEF late, In
    <3>4. QED
      BY <3>2, <3>3
  <2>9. e \notin late => Tile(e) = call.found
    <3>1. CASE call.tree = NoTree
      BY <3>1 DEF late
    <3>2. CASE call.tree # NoTree
      <4>1. In(base, e) = call.found
        BY <2>2, <3>2 DEF CallOfTile, base, e, r
      <4>2. QED
        BY <2>2, <2>8, <3>2, <4>1
    <3>3. QED
      BY <3>1, <3>2
  <2>10. AllTold'
    <3>1. ASSUME NEW t \in Tiles, t \notin stale, t \notin late, NEW x \in told[t]
          PROVE  \/ x = "enabled"
                 \/ x \in Tile(t)'.state
                 \/ \E c \in rest : Adds(c, t, x)
      <4>1. \/ x = "enabled"
            \/ x \in Tile(t).state
            \/ \E c \in Range(stack) : Adds(c, t, x)
        BY <3>1 DEF Kept, AllTold
      <4>2. CASE x \in Tile(t).state
        <5>1. CASE TreeOf[t] # r
          BY <2>5, <4>2, <5>1
        <5>2. CASE t = e
          <6>1. x \in call.found.state
            BY <2>9, <3>1, <4>2, <5>2
          <6>2. x \in call.entity.state
            BY <2>2, <6>1 DEF CallOfTile
          <6>3. Tile(t)' = In(put, t)
            BY <2>5, <5>2 DEF r, e
          <6>4. QED
            BY <2>2, <5>2, <6>2, <6>3
        <5>3. CASE TreeOf[t] = r /\ t # e
          BY <2>2, <2>5, <2>8, <3>1, <4>2, <5>3
        <5>4. QED
          BY <5>1, <5>2, <5>3
      <4>3. CASE \E c \in Range(stack) : Adds(c, t, x)
        <5>1. PICK c \in Range(stack) : Adds(c, t, x)
          BY <4>3
        <5>2. CASE c = call
          <6>1. t = e /\ x \in call.entity.state
            BY <5>1, <5>2 DEF Adds, e
          <6>2. Tile(t)' = In(put, t)
            BY <2>5, <6>1 DEF r, e
          <6>3. QED
            BY <2>2, <6>1, <6>2
        <5>3. CASE c \in rest
          BY <5>1, <5>3
        <5>4. QED
          BY <1>2, <5>2, <5>3
      <4>4. QED
        BY <4>1, <4>2, <4>3
    <3>2. QED
      BY <1>1, <1>2, <1>9, <3>1 DEF AllTold
  <2>11. QED
    BY <1>6, <2>6, <2>7, <2>10 DEF Kept
<1>10. QED
  BY <1>1, <1>8, <1>9

LEMMA StackIs ==
  ASSUME Kept, stack # <<>>
  PROVE  /\ Listed(stack) /\ Listed(Tail(stack)) /\ stack[1] \in Range(stack)
         /\ Range(stack) = {stack[1]} \cup Range(Tail(stack))
         /\ IsCall(stack[1]) /\ stack[1].e \in Entities
         /\ GoesOn(stack[1], Rest)
<1>1. Listed(stack) /\ \A c \in Range(stack) : IsCall(c)
  BY DEF Kept, Shapes
<1>2. /\ Listed(Tail(stack)) /\ stack[1] \in Range(stack)
      /\ Range(stack) = {stack[1]} \cup Range(Tail(stack))
  BY <1>1, HeadAndTail
<1>3. IsCall(stack[1])
  BY <1>1, <1>2
<1>4. stack[1].e \in Entities
  BY <1>3 DEF IsCall
<1>5. GoesOn(stack[1], Rest)
  BY <1>3, OtherQueue DEF Rest
<1>6. QED
  BY <1>1, <1>2, <1>3, <1>4, <1>5

(* The innermost call goes on, after others that begin. *)
LEMMA OneGoesOn ==
  ASSUME Kept, stack # <<>>, NEW rest, GoesOn(stack[1], rest),
         NEW f, Listed(f), \A d \in Range(f) : Begins(d),
         stack' = f \o <<rest>> \o Tail(stack),
         UNCHANGED <<singles, trees, told, stale>>
  PROVE  Kept'
<1>1. /\ Listed(stack) /\ Range(stack) = {stack[1]} \cup Range(Tail(stack))
      /\ \A c \in Range(stack) : GoesOn(c, c)
  BY StackIs, SameCall DEF Kept, Shapes
<1>2. Listed(stack') /\ Range(stack') = Range(f) \cup {rest} \cup Range(Tail(stack))
  BY <1>1, Pushed
<1>3. \A d \in Range(stack') : Begins(d) \/ \E c \in Range(stack) : GoesOn(c, d)
  BY <1>1, <1>2
<1>4. \A c \in Range(stack) : \E d \in Range(stack') : GoesOn(c, d)
  BY <1>1, <1>2
<1>5. QED
  BY <1>2, <1>3, <1>4, CallsMove

LEMMA TopGoesOn ==
  ASSUME Kept, stack # <<>>, NEW rest, GoesOn(stack[1], rest),
         stack' = <<rest>> \o Tail(stack),
         UNCHANGED <<singles, trees, told, stale>>
  PROVE  Kept'
<1>1. /\ Listed(stack) /\ Range(stack) = {stack[1]} \cup Range(Tail(stack))
      /\ \A c \in Range(stack) : GoesOn(c, c)
  BY StackIs, SameCall DEF Kept, Shapes
<1>2. Listed(stack') /\ Range(stack') = {rest} \cup Range(Tail(stack))
  BY <1>1, TopReplaced
<1>3. \A d \in Range(stack') : Begins(d) \/ \E c \in Range(stack) : GoesOn(c, d)
  BY <1>1, <1>2
<1>4. \A c \in Range(stack) : \E d \in Range(stack') : GoesOn(c, d)
  BY <1>1, <1>2
<1>5. QED
  BY <1>2, <1>3, <1>4, CallsMove

(* Calls begin when there was none. *)
LEMMA CallsBegin ==
  ASSUME Kept, stack = <<>>, Listed(stack'), \A d \in Range(stack') : Begins(d),
         UNCHANGED <<singles, trees, told, stale>>
  PROVE  Kept'
<1>1. Range(stack) = {}
  BY NoneAtAll
<1>2. QED
  BY <1>1, CallsMove

LEMMA NothingMoves ==
  ASSUME Kept, UNCHANGED <<singles, trees, told, stale, stack>>
  PROVE  Kept'
<1>1. Listed(stack') /\ \A c \in Range(stack) : GoesOn(c, c)
  BY SameCall DEF Kept, Shapes
<1>2. QED
  BY <1>1, CallsMove

(* What a program, a morpher or an eye changes *)
LEMMA ChangesAreTold ==
  ASSUME Kept, stack # <<>>, NEW rest, GoesOn(stack[1], rest), NEW S, NEW v,
         \/ v = [Handled EXCEPT !.state = @ \cup S]
         \/ S = {"enabled"} /\ v = [Handled EXCEPT !.subs = @ \cup S],
         Changed(v, rest), told' = [told EXCEPT ![rest.e] = @ \cup S],
         UNCHANGED <<trees, stale>>
  PROVE  Kept'
<1> DEFINE e == rest.e
<1>1. e = stack[1].e /\ e \in Entities /\ rest.entity = stack[1].entity
  BY StackIs DEF GoesOn
<1>2. CASE e \in Singles
  <2>1. IsEntity(singles[e]) /\ Handled = singles[e]
    BY <1>1, <1>2 DEF Kept, Shapes, Handled
  <2>2. IsEntity(v) /\ v.state \cup v.subs = singles[e].state \cup singles[e].subs \cup S
    <3>1. CASE v = [Handled EXCEPT !.state = @ \cup S]
      <4>1. IsEntity(v) /\ v.state = singles[e].state \cup S /\ v.subs = singles[e].subs
        BY <2>1, <3>1, MoreState
      <4>2. QED
        BY <4>1
    <3>2. CASE v = [Handled EXCEPT !.subs = @ \cup S]
      <4>1. IsEntity(v) /\ v.subs = singles[e].subs \cup S /\ v.state = singles[e].state
        BY <2>1, <3>2, MoreSubs
      <4>2. QED
        BY <4>1
    <3>3. QED
      BY <3>1, <3>2
  <2>3. singles' = [singles EXCEPT ![e] = v] /\ stack' = <<rest>> \o Tail(stack)
    BY <1>2 DEF Changed
  <2>4. QED
    BY <1>2, <2>2, <2>3, SingleChanges
<1>3. CASE e \notin Singles
  <2>1. e \in Tiles
    BY <1>1, <1>3 DEF Entities
  <2>2. CallOfTile(stack[1]) /\ Handled = stack[1].entity
    BY <1>1, <1>3, <2>1, StackIs DEF Kept, Calls, Handled
  <2>3. IsEntity(Handled)
    BY <2>2 DEF CallOfTile
  <2>4. /\ IsEntity(v) /\ stack[1].entity.state \subseteq v.state
        /\ v.state \subseteq stack[1].entity.state \cup S /\ S \subseteq v.state \cup {"enabled"}
    <3>1. CASE v = [Handled EXCEPT !.state = @ \cup S]
      <4>1. IsEntity(v) /\ v.state = Handled.state \cup S
        BY <2>3, <3>1, MoreState
      <4>2. QED
        BY <2>2, <4>1
    <3>2. CASE S = {"enabled"} /\ v = [Handled EXCEPT !.subs = @ \cup S]
      <4>1. IsEntity(v) /\ v.state = Handled.state
        BY <2>3, <3>2, MoreSubs
      <4>2. QED
        BY <2>2, <3>2, <4>1
    <3>3. QED
      BY <3>1, <3>2
  <2>5. /\ stack' = <<[rest EXCEPT !.entity = v, !.own = TRUE]>> \o Tail(stack)
        /\ UNCHANGED singles
    BY <1>3 DEF Changed
  <2>6. QED
    BY <2>1, <2>4, <2>5, TileChanges
<1>4. QED
  BY <1>2, <1>3

LEMMA RunKeeps ==
  ASSUME Kept, stack # <<>>, NEW rest, GoesOn(stack[1], rest), NEW k, Run(k, rest),
         UNCHANGED <<trees, stale>>
  PROVE  Kept'
<1> DEFINE program == Subsystems[ClassOf[rest.e]][k].program
           S == SetOf(program)
           after == [rest EXCEPT !.queue = @ \o SentBy(program)]
           v == [Handled EXCEPT !.state = @ \cup S]
<1>1. /\ IF S = {} THEN stack' = <<after>> \o Tail(stack) /\ UNCHANGED singles
         ELSE Changed(v, after)
      /\ told' = [told EXCEPT ![rest.e] = @ \cup S]
  BY DEF Run
<1>2. IsCall(rest) /\ rest.e \in Entities
  BY DEF GoesOn, IsCall
<1> HIDE DEF S, v
<1>3. GoesOn(rest, after)
  BY <1>2, OtherQueue
<1> HIDE DEF after
<1>4. GoesOn(stack[1], after) /\ after.e = rest.e
  BY <1>3, GoesOnGoesOn DEF GoesOn
<1>5. CASE S = {}
  <2>1. told' = told
    BY <1>1, <1>2, <1>5 DEF Kept, Shapes
  <2>2. QED
    BY <1>1, <1>4, <1>5, <2>1, TopGoesOn
<1>6. CASE S # {}
  <2>1. Changed(v, after) /\ told' = [told EXCEPT ![after.e] = @ \cup S]
    BY <1>1, <1>4, <1>6
  <2>2. QED
    BY <1>4, <2>1, ChangesAreTold DEF v
<1>7. QED
  BY <1>5, <1>6

-----------------------------------------------------------------------------
(* The sets that become sequences are finite. *)

LEMMA ListOfImages ==
  ASSUME NEW n \in Nat, NEW f, f = [i \in 1 .. n |-> f[i]]
  PROVE  Listed(f) /\ Range(f) = {f[i] : i \in 1 .. n}
<1> DEFINE S == {f[i] : i \in 1 .. n}
<1>1. f \in Seq(S) /\ DOMAIN f = 1 .. n
  OBVIOUS
<1>2. Listed(f)
  BY <1>1, ListOfAny
<1>3. QED
  BY <1>1, <1>2 DEF Range

LEMMA PokedIsFinite ==
  ASSUME NEW F \in SUBSET Entities, NEW kind
  PROVE  LET poked == UNION {{<<f, b>> : b \in KeysOfKind(f, kind)} : f \in F}
         IN  IsFiniteSet(poked) /\ \A p \in poked : p[1] \in Entities
<1> DEFINE poked == UNION {{<<f, b>> : b \in KeysOfKind(f, kind)} : f \in F}
           keysOf == [e \in Entities |-> Keys(e)]
           all == UNION {keysOf[e] : e \in Entities}
<1>1. IsFiniteSet({keysOf[e] : e \in Entities})
  <2>1. IsFiniteSet(Entities) /\ DOMAIN keysOf = Entities
    BY BusAssumption
  <2> HIDE DEF keysOf
  <2>2. QED
    BY <2>1, FiniteImage
<1>2. \A K \in {keysOf[e] : e \in Entities} : IsFiniteSet(K)
  BY BusAssumption
<1>3. IsFiniteSet(all)
  BY <1>1, <1>2, FS_UNION
<1>4. \A f \in F : \A b \in KeysOfKind(f, kind) : f \in Entities /\ b \in all
  BY DEF KeysOfKind
<1> HIDE DEF all
<1>5. poked \subseteq Entities \X all
  BY <1>4
<1>6. IsFiniteSet(Entities \X all)
  BY <1>3, BusAssumption, FS_Product
<1>7. IsFiniteSet(poked)
  BY <1>5, <1>6, FS_Subset
<1>8. \A p \in poked : p[1] \in Entities
  BY <1>5
<1>9. QED
  BY <1>7, <1>8

LEMMA EntitiesAtAre ==
  ASSUME NEW room, NEW pos, NEW sample
  PROVE  EntitiesAt(room, pos, sample) \subseteq Entities
  BY DEF EntitiesAt

LEMMA RootsAre ==
  ASSUME NEW e \in Entities
  PROVE  RootOf(e) \in Singles \cup Trees /\ RoomOf[RootOf(e)] \in Rooms
<1>1. RootOf(e) \in Singles \cup Trees
  BY BusAssumption DEF RootOf, Entities
<1>2. QED
  BY <1>1, BusAssumption

LEMMA RoomFixed ==
  ASSUME NEW room \in Rooms, NEW pos
  PROVE  FixLocation(room, pos)[1] \in Rooms
<1> DEFINE across == {n \in Neighbors[room] : InBounds(n.room, Minus(pos, n.offset))}
           m == CHOOSE n \in across : TRUE
<1>1. CASE InBounds(room, pos) \/ across = {}
  <2>1. FixLocation(room, pos) = <<room, pos>>
    BY <1>1 DEF FixLocation
  <2>2. QED
    BY <2>1
<1>2. CASE ~ (InBounds(room, pos) \/ across = {})
  <2>1. m \in across
    BY <1>2
  <2>2. m.room \in Rooms
    BY <2>1, BusAssumption
  <2>3. FixLocation(room, pos) = <<m.room, Minus(pos, m.offset)>>
    BY <1>2 DEF FixLocation
  <2>4. QED
    BY <2>2, <2>3
<1>3. QED
  BY <1>1, <1>2

(* The signals that leave a root *)
LEMMA OnwardIsFinite ==
  ASSUME NEW signal, NEW r \in Singles \cup Trees, NEW at
  PROVE  IsFiniteSet(Onward(signal, r, at)) /\ \A a \in Onward(signal, r, at) : IsTold(a)
<1> DEFINE net == Networks[r]
           starts == FindNodes(net, Minus(at, Position[r]), signal.direction)
           ends == Endpoints(net, starts)
           Place(n) == FixLocation(RoomOf[r], Plus(Position[r], net.nodes[n].position))
           N == {m \in DOMAIN ends \ starts : signal.power - ends[m] >= 0}
           f == [n \in N |-> [kind |-> "signal", room |-> Place(n)[1], at |-> Place(n)[2],
                              direction |-> net.nodes[n].facing, power |-> signal.power - ends[n]]]
<1>1. Onward(signal, r, at) = {f[n] : n \in N}
  BY DEF Onward
<1>2. IsFiniteSet(DOMAIN net.nodes)
  BY NetworksAssumption, NetworkHas, FS_Interval
<1>3. N \subseteq DOMAIN net.nodes
  <2>1. DOMAIN ends \subseteq DOMAIN net.nodes
    BY DEF Endpoints
  <2>2. QED
    BY <2>1
<1>4. RoomOf[r] \in Rooms
  BY BusAssumption
<1>5. ASSUME NEW n \in N PROVE IsTold(f[n])
  <2> DEFINE p == Plus(Position[r], net.nodes[n].position)
  <2> HIDE DEF p, net
  <2>1. FixLocation(RoomOf[r], p)[1] \in Rooms
    BY <1>4, RoomFixed
  <2>2. f[n].kind = "signal" /\ f[n].room = FixLocation(RoomOf[r], p)[1]
    BY DEF p
  <2> HIDE DEF f
  <2>3. QED
    BY <2>1, <2>2 DEF IsTold
<1> HIDE DEF f, N, net
<1>6. DOMAIN f = N
  BY DEF f
<1>7. IsFiniteSet(N)
  BY <1>2, <1>3, FS_Subset
<1>8. IsFiniteSet({f[n] : n \in N})
  BY <1>6, <1>7, FiniteImage
<1>9. QED
  BY <1>1, <1>5, <1>8

(* The roots that a signal is looked for in *)
LEMMA LookedAtIsFinite ==
  ASSUME NEW signal, signal.room \in Rooms
  PROVE  IsFiniteSet(LookedAt(signal)) /\ \A l \in LookedAt(signal) : l[1] \in Singles \cup Trees
<1> DEFINE R == Singles \cup Trees
           shifted == [n \in Neighbors[signal.room] |-> Minus(signal.at, n.offset)]
           P == {signal.at} \cup {shifted[n] : n \in Neighbors[signal.room]}
<1>1. LookedAt(signal) \subseteq R \X P
  BY DEF LookedAt
<1>2. IsFiniteSet({shifted[n] : n \in Neighbors[signal.room]})
  <2>1. IsFiniteSet(Neighbors[signal.room]) /\ DOMAIN shifted = Neighbors[signal.room]
    BY BusAssumption
  <2> HIDE DEF shifted
  <2>2. QED
    BY <2>1, FiniteImage
<1>3. IsFiniteSet(P)
  BY <1>2, FS_Singleton, FS_Union
<1>4. IsFiniteSet(R)
  <2>1. IsFiniteSet(Singles)
    BY BusAssumption, FS_Subset DEF Entities
  <2>2. QED
    BY <2>1, BusAssumption, FS_Union
<1>5. IsFiniteSet(R \X P)
  BY <1>3, <1>4, FS_Product
<1>6. IsFiniteSet(LookedAt(signal))
  BY <1>1, <1>5, FS_Subset
<1>7. QED
  BY <1>1, <1>6

(* All that go on from where a signal is *)
LEMMA SignalsAreFinite ==
  ASSUME NEW signal, signal.room \in Rooms
  PROVE  LET onward == UNION {Onward(signal, l[1], l[2]) : l \in LookedAt(signal)}
         IN  IsFiniteSet(onward) /\ \A a \in onward : IsTold(a)
<1> DEFINE L == LookedAt(signal)
           f == [l \in L |-> Onward(signal, l[1], l[2])]
<1>1. IsFiniteSet(L) /\ \A l \in L : l[1] \in Singles \cup Trees
  BY LookedAtIsFinite
<1> HIDE DEF L
<1>2. \A l \in L : IsFiniteSet(f[l]) /\ \A a \in f[l] : IsTold(a)
  BY <1>1, OnwardIsFinite
<1>3. UNION {Onward(signal, l[1], l[2]) : l \in L} = UNION {f[l] : l \in L}
  OBVIOUS
<1> HIDE DEF f
<1>4. IsFiniteSet({f[l] : l \in L})
  <2>1. DOMAIN f = L
    BY DEF f
  <2>2. QED
    BY <1>1, <2>1, FiniteImage
<1>5. IsFiniteSet(UNION {f[l] : l \in L})
  BY <1>2, <1>4, FS_UNION
<1>6. \A a \in UNION {f[l] : l \in L} : IsTold(a)
  BY <1>2
<1>7. QED
  BY <1>3, <1>5, <1>6 DEF L

-----------------------------------------------------------------------------
(* The initial state *)

LEMMA FirstTrees ==
  ASSUME Init, NEW r \in Trees
  PROVE  IsTree(trees[r], r) /\ \A t \in TilesOf(r) : In(trees[r], t).state = {}
<1> DEFINE tiles == {t \in Tiles : TreeOf[t] = r}
           S == {Fresh(t) : t \in tiles}
           palette == SetToSeq(S)
           at == [t \in tiles |-> CHOOSE i \in DOMAIN palette : palette[i] = Fresh(t)]
<1>1. trees[r] = [palette |-> palette, at |-> at]
  BY DEF Init
<1>2. IsFiniteSet(S)
  <2> DEFINE f == [t \in tiles |-> Fresh(t)]
  <2>1. IsFiniteSet(tiles)
    BY BusAssumption, FS_Subset DEF Entities
  <2>2. DOMAIN f = tiles /\ S = {f[t] : t \in tiles}
    OBVIOUS
  <2> HIDE DEF f, S
  <2>3. QED
    BY <2>1, <2>2, FiniteImage
<1> HIDE DEF S
<1>3. Listed(palette) /\ Range(palette) = S
  BY <1>2, SequenceOfSet
<1> HIDE DEF palette
<1>4. ASSUME NEW t \in tiles
      PROVE  at[t] \in DOMAIN palette /\ palette[at[t]] = Fresh(t)
  <2>1. Fresh(t) \in Range(palette)
    BY <1>3 DEF S
  <2>2. \E i \in DOMAIN palette : palette[i] = Fresh(t)
    BY <2>1 DEF Range
  <2>3. QED
    BY <2>2
<1>5. \A v \in S : IsEntity(v)
  BY DEF S, Fresh, IsEntity
<1>6. at = [t \in tiles |-> at[t]]
  OBVIOUS
<1> HIDE DEF at
<1>7. at \in [tiles -> DOMAIN palette]
  BY <1>4, <1>6
<1>8. tiles = TilesOf(r)
  BY DEF TilesOf
<1>9. IsTree(trees[r], r)
  <2>1. /\ trees[r].palette = palette /\ trees[r].at = at
        /\ trees[r] \in [palette : {trees[r].palette}, at : {trees[r].at}]
    BY <1>1
  <2>2. QED
    BY <1>3, <1>5, <1>7, <1>8, <2>1 DEF IsTree
<1>10. ASSUME NEW t \in TilesOf(r) PROVE In(trees[r], t).state = {}
  <2>1. In(trees[r], t) = Fresh(t)
    BY <1>1, <1>4, <1>8 DEF In
  <2>2. QED
    BY <2>1 DEF Fresh
<1>11. QED
  BY <1>9, <1>10

LEMMA InitKept ==
  ASSUME Init
  PROVE  IInv
<1>1. /\ singles = [s \in Singles |-> Fresh(s)] /\ told = [e \in Entities |-> {}]
      /\ actions = <<>> /\ enqueued = <<>> /\ stack = <<>> /\ inputs = Inputs
      /\ trees = [r \in Trees |-> trees[r]]
  BY DEF Init
<1>2. Range(<<>>) = {} /\ Listed(<<>>)
  BY NoneAtAll
<1>3. \A s \in Singles : IsEntity(singles[s]) /\ singles[s].state = {} /\ singles[s].subs = {}
  BY <1>1 DEF Fresh, IsEntity
<1>4. Shapes
  <2>1. /\ singles \in [Singles -> Range(singles)] /\ told \in [Entities -> Range(told)]
        /\ trees \in [Trees -> Range(trees)]
    BY <1>1 DEF Range
  <2>2. QED
    BY <1>1, <1>2, <1>3, <2>1, FirstTrees DEF Shapes
<1>5. Lists /\ Calls
  BY <1>1, <1>2 DEF Lists, Calls
<1>6. SinglesKeepChanges
  BY <1>1, <1>3 DEF SinglesKeepChanges, Entities
<1>7. OnlyTold
  <2>1. ASSUME NEW t \in Tiles PROVE Tile(t).state \subseteq told[t]
    <3>1. Tile(t) = In(trees[TreeOf[t]], t) /\ TreeOf[t] \in Trees /\ t \in TilesOf(TreeOf[t])
      BY <1>4, TileIs
    <3>2. QED
      BY <3>1, FirstTrees
  <2>2. QED
    BY <2>1 DEF OnlyTold
<1>8. AllTold
  BY <1>1 DEF AllTold, Entities
<1>9. QED
  BY <1>4, <1>5, <1>6, <1>7, <1>8 DEF IInv

-----------------------------------------------------------------------------
(* The steps *)

LEMMA ListsStay ==
  ASSUME Lists, UNCHANGED <<actions, enqueued, inputs>>
  PROVE  Lists'
  BY DEF Lists

LEMMA MoreEnqueued ==
  ASSUME Lists, NEW a, IsTold(a), enqueued' = Append(enqueued, a), UNCHANGED actions,
         inputs' \subseteq inputs
  PROVE  Lists'
<1>1. Listed(enqueued') /\ Range(enqueued') = Range(enqueued) \cup {a}
  BY OneMore DEF Lists
<1>2. QED
  BY <1>1 DEF Lists

(* What the innermost call does *)
LEMMA HandleKeeps ==
  ASSUME IInv, Handle
  PROVE  IInv'
<1>1. Kept /\ Lists
  BY DEF IInv, Kept
<1>2. stack # <<>>
  BY DEF Handle, RunNext, HandleOther, Return, HandleProgram, HandleMorpher, HandleVision,
         HandleBridge, HandlePort, HandlePoke, NextMessage
<1>3. /\ IsCall(stack[1]) /\ stack[1].e \in Entities /\ GoesOn(stack[1], Rest)
      /\ Rest.e = stack[1].e
  BY <1>1, <1>2, StackIs DEF GoesOn
<1>4. CASE RunNext
  <2> DEFINE rest == [stack[1] EXCEPT !.keys = Tail(@)]
             k == Head(stack[1].keys)
  <2>1. Run(k, rest) /\ UNCHANGED <<trees, actions, enqueued, inputs, stale>>
    BY <1>4 DEF RunNext
  <2> HIDE DEF k
  <2>2. GoesOn(stack[1], rest)
    BY <1>3, OtherKeys
  <2> HIDE DEF rest
  <2>3. Kept'
    BY <1>1, <1>2, <2>1, <2>2, RunKeeps
  <2>4. Lists'
    BY <1>1, <2>1, ListsStay
  <2>5. QED
    BY <2>3, <2>4 DEF IInv, Kept
<1>5. CASE HandleOther
  <2>1. /\ stack' = <<Rest>> \o Tail(stack)
        /\ UNCHANGED <<singles, trees, actions, enqueued, inputs, told, stale>>
    BY <1>5 DEF HandleOther
  <2>2. Kept'
    BY <1>1, <1>2, <1>3, <2>1, TopGoesOn
  <2>3. Lists'
    BY <1>1, <2>1, ListsStay
  <2>4. QED
    BY <2>2, <2>3 DEF IInv, Kept
<1>6. CASE Return
  <2>1. UNCHANGED <<actions, enqueued, inputs>>
    BY <1>6 DEF Return
  <2>2. Kept' /\ Lists'
    BY <1>1, <1>6, <2>1, ReturnKeeps, ListsStay
  <2>3. QED
    BY <2>2 DEF IInv, Kept
<1>7. ASSUME NEW k, HandleProgram(k) PROVE IInv'
  <2>1. Run(k, Rest) /\ UNCHANGED <<trees, actions, enqueued, inputs, stale>>
    BY <1>7 DEF HandleProgram
  <2>2. Kept'
    BY <1>1, <1>2, <1>3, <2>1, RunKeeps
  <2>3. Lists'
    BY <1>1, <2>1, ListsStay
  <2>4. QED
    BY <2>2, <2>3 DEF IInv, Kept
<1>8. ASSUME NEW k, HandleMorpher(k) PROVE IInv'
  <2> DEFINE v == [Handled EXCEPT !.state = @ \cup {"animation"}]
  <2>1. /\ Changed(v, Rest) /\ told' = [told EXCEPT ![Rest.e] = @ \cup {"animation"}]
        /\ UNCHANGED <<trees, actions, enqueued, inputs, stale>>
    BY <1>3, <1>8 DEF HandleMorpher
  <2>2. Kept'
    BY <1>1, <1>2, <1>3, <2>1, ChangesAreTold
  <2>3. Lists'
    BY <1>1, <2>1, ListsStay
  <2>4. QED
    BY <2>2, <2>3 DEF IInv, Kept
<1>9. ASSUME NEW k, HandleVision(k) PROVE IInv'
  <2> DEFINE v == [Handled EXCEPT !.subs = @ \cup {"enabled"}]
  <2>1. /\ Changed(v, Rest) /\ told' = [told EXCEPT ![Rest.e] = @ \cup {"enabled"}]
        /\ UNCHANGED <<trees, actions, enqueued, inputs, stale>>
    BY <1>3, <1>9 DEF HandleVision
  <2>2. Kept'
    BY <1>1, <1>2, <1>3, <2>1, ChangesAreTold
  <2>3. Lists'
    BY <1>1, <2>1, ListsStay
  <2>4. QED
    BY <2>2, <2>3 DEF IInv, Kept
<1>10. ASSUME NEW k, HandleBridge(k) PROVE IInv'
  <2> DEFINE a == [kind |-> "message", entity |-> Device(k).to, message |-> Message]
  <2>1. /\ NextMessage(k, "bridge") /\ enqueued' = Append(enqueued, a)
        /\ stack' = <<Rest>> \o Tail(stack)
        /\ UNCHANGED <<singles, trees, actions, inputs, told, stale>>
    BY <1>10 DEF HandleBridge
  <2>2. Device(k).to \in Entities
    BY <1>3, <2>1, BusAssumption DEF NextMessage, Device
  <2>3. IsTold(a)
    BY <2>2 DEF IsTold
  <2> HIDE DEF a
  <2>4. Kept'
    BY <1>1, <1>2, <1>3, <2>1, TopGoesOn
  <2>5. Lists'
    BY <1>1, <2>1, <2>3, MoreEnqueued
  <2>6. QED
    BY <2>4, <2>5 DEF IInv, Kept
<1>11. ASSUME NEW k, HandlePort(k) PROVE IInv'
  <2> DEFINE a == PortSignal(stack[1].e, k)
  <2>1. /\ enqueued' = Append(enqueued, a) /\ stack' = <<Rest>> \o Tail(stack)
        /\ UNCHANGED <<singles, trees, actions, inputs, told, stale>>
    BY <1>11 DEF HandlePort
  <2>2. IsTold(a)
    BY <1>3, RootsAre DEF PortSignal, IsTold
  <2> HIDE DEF a
  <2>3. Kept'
    BY <1>1, <1>2, <1>3, <2>1, TopGoesOn
  <2>4. Lists'
    BY <1>1, <2>1, <2>2, MoreEnqueued
  <2>5. QED
    BY <2>3, <2>4 DEF IInv, Kept
<1>12. ASSUME NEW k, HandlePoke(k) PROVE IInv'
  <2> DEFINE e == stack[1].e
             at == FixLocation(RoomOf[RootOf(e)], Plus(PositionOf(e), Device(k).offset))
             F == EntitiesAt(at[1], at[2], Line)
             poked == UNION {{<<f, b>> : b \in KeysOfKind(f, "button")} : f \in F}
             order == SetToSeq(poked)
             new == [i \in DOMAIN order |-> Replacing(order[i][1], <<order[i][2]>>)]
  <2>1. /\ stack' = new \o <<Rest>> \o Tail(stack)
        /\ UNCHANGED <<singles, trees, actions, enqueued, inputs, told, stale>>
    BY <1>12 DEF HandlePoke
  <2>2. IsFiniteSet(poked) /\ \A p \in poked : p[1] \in Entities
    <3>1. F \in SUBSET Entities
      BY EntitiesAtAre
    <3> HIDE DEF F
    <3>2. QED
      BY <3>1, PokedIsFinite
  <2> HIDE DEF poked
  <2>3. order \in Seq(poked)
    BY <2>2, SequenceOfSet
  <2> HIDE DEF order
  <2>4. DOMAIN order = 1 .. Len(order) /\ Len(order) \in Nat /\ \A i \in DOMAIN order : order[i][1] \in Entities
    BY <2>2, <2>3
  <2>5. \A i \in DOMAIN order : Begins(new[i])
    BY <2>4, CallBegins
  <2>6. new = [i \in 1 .. Len(order) |-> new[i]]
    BY <2>4
  <2> HIDE DEF new
  <2>7. Listed(new) /\ \A d \in Range(new) : Begins(d)
    BY <2>4, <2>5, <2>6, ListOfImages
  <2>8. Kept'
    BY <1>1, <1>2, <1>3, <2>1, <2>7, OneGoesOn
  <2>9. Lists'
    BY <1>1, <2>1, ListsStay
  <2>10. QED
    BY <2>8, <2>9 DEF IInv, Kept
<1>13. QED
  BY <1>4, <1>5, <1>6, <1>7, <1>8, <1>9, <1>10, <1>11, <1>12 DEF Handle

LEMMA BeginUpdateKeeps ==
  ASSUME IInv, BeginUpdate
  PROVE  IInv'
<1>1. /\ actions' = enqueued /\ enqueued' = <<>>
      /\ UNCHANGED <<singles, trees, stack, inputs, told, stale>>
  BY DEF BeginUpdate
<1>2. Lists'
  BY <1>1, NoneAtAll DEF IInv, Lists
<1>3. Kept'
  BY <1>1, NothingMoves DEF IInv, Kept
<1>4. QED
  BY <1>2, <1>3 DEF IInv, Kept

LEMMA NextAction ==
  ASSUME Lists, actions # <<>>
  PROVE  IsTold(Head(actions)) /\ Listed(Tail(actions)) /\ \A a \in Range(Tail(actions)) : IsTold(a)
  BY HeadAndTail DEF Lists

LEMMA InduceKeeps ==
  ASSUME IInv, Induce
  PROVE  IInv'
<1> DEFINE a == Head(actions)
           c == Mutating(a.entity, a.message)
<1>1. /\ stack = <<>> /\ actions # <<>> /\ a.kind = "message"
      /\ stack' = <<c>> /\ actions' = Tail(actions)
      /\ UNCHANGED <<singles, trees, enqueued, inputs, told, stale>>
  BY DEF Induce
<1>2. Kept /\ Lists
  BY DEF IInv, Kept
<1>3. IsTold(a) /\ Listed(actions') /\ \A b \in Range(actions') : IsTold(b)
  BY <1>1, <1>2, NextAction
<1>4. Lists'
  BY <1>1, <1>2, <1>3 DEF Lists
<1>5. a.entity \in Entities
  BY <1>1, <1>3 DEF IsTold
<1> HIDE DEF a
<1>6. Begins(c)
  BY <1>5, CallBegins
<1> HIDE DEF c
<1>7. Listed(stack') /\ \A d \in Range(stack') : Begins(d)
  BY <1>1, <1>6, OnlyOne
<1>8. Kept'
  BY <1>1, <1>2, <1>7, CallsBegin
<1>9. QED
  BY <1>4, <1>8 DEF IInv, Kept

LEMMA TransmitKeeps ==
  ASSUME IInv, Transmit
  PROVE  IInv'
<1> DEFINE signal == Head(actions)
           onward == UNION {Onward(signal, l[1], l[2]) : l \in LookedAt(signal)}
           reached == {e \in EntitiesAt(signal.room, signal.at, Box) : Ports(e) # {}}
           order == SetToSeq(reached)
           new == [i \in DOMAIN order |-> Replacing(order[i], SetToSeq(Ports(order[i])))]
<1>1. /\ stack = <<>> /\ actions # <<>> /\ signal.kind = "signal"
      /\ enqueued' = enqueued \o SetToSeq(onward)
      /\ stack' = new /\ actions' = Tail(actions)
      /\ UNCHANGED <<singles, trees, inputs, told, stale>>
  BY DEF Transmit
<1>2. Kept /\ Lists
  BY DEF IInv, Kept
<1>3. IsTold(signal) /\ Listed(actions') /\ \A b \in Range(actions') : IsTold(b)
  BY <1>1, <1>2, NextAction
<1>4. signal.room \in Rooms
  BY <1>1, <1>3 DEF IsTold
<1> HIDE DEF signal
<1>5. IsFiniteSet(onward) /\ \A a \in onward : IsTold(a)
  BY <1>4, SignalsAreFinite
<1> HIDE DEF onward
<1>6. Listed(SetToSeq(onward)) /\ Range(SetToSeq(onward)) = onward
  BY <1>5, SequenceOfSet
<1>7. Listed(enqueued') /\ Range(enqueued') = Range(enqueued) \cup onward
  BY <1>1, <1>2, <1>6, Joint DEF Lists
<1>8. Lists'
  BY <1>1, <1>2, <1>3, <1>5, <1>7 DEF Lists
<1>9. reached \subseteq Entities
  BY EntitiesAtAre
<1> HIDE DEF reached
<1>10. IsFiniteSet(reached)
  BY <1>9, BusAssumption, FS_Subset
<1>11. order \in Seq(reached)
  BY <1>10, SequenceOfSet
<1> HIDE DEF order
<1>12. DOMAIN order = 1 .. Len(order) /\ Len(order) \in Nat /\ \A i \in DOMAIN order : order[i] \in Entities
  BY <1>9, <1>11
<1>13. \A i \in DOMAIN order : Begins(new[i])
  BY <1>12, CallBegins
<1>14. new = [i \in 1 .. Len(order) |-> new[i]]
  BY <1>12
<1> HIDE DEF new
<1>15. Listed(new) /\ \A d \in Range(new) : Begins(d)
  BY <1>12, <1>13, <1>14, ListOfImages
<1>16. Kept'
  BY <1>1, <1>2, <1>15, CallsBegin
<1>17. QED
  BY <1>8, <1>16 DEF IInv, Kept

LEMMA InputKeeps ==
  ASSUME IInv, NEW i \in Inputs, Input(i)
  PROVE  IInv'
<1>1. /\ inputs' = inputs \ {i} /\ enqueued' = Append(enqueued, i)
      /\ UNCHANGED <<singles, trees, actions, stack, told, stale>>
  BY DEF Input
<1>2. IsTold(i)
  BY BusAssumption DEF IsTold
<1>3. Lists'
  BY <1>1, <1>2, MoreEnqueued DEF IInv
<1>4. Kept'
  BY <1>1, NothingMoves DEF IInv, Kept
<1>5. QED
  BY <1>3, <1>4 DEF IInv, Kept

-----------------------------------------------------------------------------
(* The invariant holds of every state. *)
THEOREM Invariance == Spec => []IInv
<1>1. Init => IInv
  BY InitKept
<1>2. IInv /\ [Next]_vars => IInv'
  <2> SUFFICES ASSUME IInv, [Next]_vars
               PROVE  IInv'
    OBVIOUS
  <2>1. CASE Handle
    BY <2>1, HandleKeeps
  <2>2. CASE BeginUpdate
    BY <2>2, BeginUpdateKeeps
  <2>3. CASE Induce
    BY <2>3, InduceKeeps
  <2>4. CASE Transmit
    BY <2>4, TransmitKeeps
  <2>5. ASSUME NEW i \in Inputs, Input(i) PROVE IInv'
    BY <2>5, InputKeeps
  <2>6. CASE UNCHANGED vars
    <3>1. UNCHANGED <<singles, trees, told, stale, stack, actions, enqueued, inputs>>
      BY <2>6 DEF vars
    <3>2. Kept' /\ Lists'
      BY <3>1, NothingMoves, ListsStay DEF IInv, Kept
    <3>3. QED
      BY <3>2 DEF IInv, Kept
  <2>7. QED
    BY <2>1, <2>2, <2>3, <2>4, <2>5, <2>6 DEF Next, Update
<1>3. QED
  BY <1>1, <1>2, PTL DEF Spec

(* What an entity that is alone was told to change it keeps, whatever      *)
(* other calls change it meanwhile: it is changed in place (thaw, and      *)
(* replaceEntity, which finds it as it is).                                *)
THEOREM SinglesKeep == Spec => []SinglesKeepChanges
<1>1. IInv => SinglesKeepChanges
  BY DEF IInv
<1>2. QED
  BY <1>1, Invariance, PTL

(* What a tile was told to change is in its tree when it was handled,      *)
(* unless a call put an older version back over the change of another; and *)
(* no change of one tile gets into another that shares its palette entry   *)
(* (rewriteTileTreeIntersecting, findTileEntity).                          *)
THEOREM TilesKeep == Spec => []TilesKeepChanges
<1>1. IInv => TilesKeepChanges
  <2> SUFFICES ASSUME IInv
               PROVE  TilesKeepChanges
    OBVIOUS
  <2>1. \A t \in Tiles : Tile(t).state \subseteq told[t]
    BY DEF IInv, OnlyTold
  <2>2. ASSUME stack = <<>>, NEW t \in Tiles \ stale
        PROVE  told[t] \ {"enabled"} \subseteq Tile(t).state
    <3>1. Range(stack) = {}
      BY <2>2, NoneAtAll
    <3>2. QED
      BY <3>1 DEF IInv, AllTold
  <2>3. QED
    BY <2>1, <2>2 DEF TilesKeepChanges
<1>2. QED
  BY <1>1, Invariance, PTL

(* transmitWireSignal: a signal goes on from each other end of the network *)
(* that it has the power to get to, and loses the least resistance of all  *)
(* ways there.                                                             *)
THEOREM SignalsTakeBestWays ==
  ASSUME NEW signal, signal.power \in Nat, NEW r \in Singles \cup Trees, NEW at
  PROVE  LET net == Networks[r]
             starts == FindNodes(net, Minus(at, Position[r]), signal.direction)
             ways == Ways(net, starts)
             Place(n) == FixLocation(RoomOf[r], Plus(Position[r], net.nodes[n].position))
             best == {w \in ways : /\ w[1] \notin starts /\ net.nodes[w[1]].facing # Inside
                                   /\ w[2] <= signal.power
                                   /\ \A v \in ways : v[1] = w[1] => w[2] <= v[2]}
         IN  Onward(signal, r, at) =
               {[kind |-> "signal", room |-> Place(w[1])[1], at |-> Place(w[1])[2],
                 direction |-> net.nodes[w[1]].facing, power |-> signal.power - w[2]] : w \in best}
<1> DEFINE net == Networks[r]
           starts == FindNodes(net, Minus(at, Position[r]), signal.direction)
           ways == Ways(net, starts)
           ends == Endpoints(net, starts)
           Place(n) == FixLocation(RoomOf[r], Plus(Position[r], net.nodes[n].position))
           best == {w \in ways : /\ w[1] \notin starts /\ net.nodes[w[1]].facing # Inside
                                 /\ w[2] <= signal.power
                                 /\ \A v \in ways : v[1] = w[1] => w[2] <= v[2]}
           N == {m \in DOMAIN ends \ starts : signal.power - ends[m] >= 0}
           Sent(n, c) == [kind |-> "signal", room |-> Place(n)[1], at |-> Place(n)[2],
                          direction |-> net.nodes[n].facing, power |-> signal.power - c]
<1>1. Onward(signal, r, at) = {Sent(n, ends[n]) : n \in N}
  BY DEF Onward
<1>2. IsNetwork(net) /\ starts \in SUBSET DOMAIN net.nodes
  BY NetworksAssumption DEF FindNodes
<1>3. ways \subseteq (DOMAIN net.nodes) \X Nat
  BY DEF Ways
<1> HIDE DEF net, starts
<1>4. /\ DOMAIN ends = {n \in DOMAIN net.nodes : net.nodes[n].facing # Inside /\ \E c : <<n, c>> \in ways}
      /\ \A n \in DOMAIN ends : <<n, ends[n]>> \in ways /\ \A c : <<n, c>> \in ways => ends[n] <= c
  BY <1>2, EndpointsAreNearest
<1> HIDE DEF ways, ends, Sent
<1>5. ASSUME NEW n \in N PROVE <<n, ends[n]>> \in best
  <2>1. <<n, ends[n]>> \in ways /\ ends[n] \in Nat
    BY <1>3, <1>4
  <2>2. ASSUME NEW v \in ways, v[1] = n PROVE ends[n] <= v[2]
    <3>1. v = <<n, v[2]>>
      BY <1>3, <2>2
    <3>2. <<n, v[2]>> \in ways
      BY <3>1
    <3>3. QED
      BY <1>4, <3>2
  <2>3. ends[n] <= signal.power
    BY <2>1
  <2>4. QED
    BY <1>4, <2>1, <2>2, <2>3
<1>6. ASSUME NEW w \in best PROVE w[1] \in N /\ w[2] = ends[w[1]]
  <2>1. w \in ways /\ w = <<w[1], w[2]>> /\ w[1] \in DOMAIN net.nodes /\ w[2] \in Nat
    BY <1>3
  <2>2. w[1] \in DOMAIN ends \ starts
    BY <1>4, <2>1
  <2>3. <<w[1], ends[w[1]]>> \in ways /\ ends[w[1]] <= w[2] /\ ends[w[1]] \in Nat
    BY <1>3, <1>4, <2>1, <2>2
  <2>4. w[2] <= ends[w[1]]
    BY <2>3
  <2>5. w[2] = ends[w[1]]
    BY <2>1, <2>3, <2>4
  <2>6. QED
    BY <2>1, <2>2, <2>5
<1> HIDE DEF N, best
<1>7. {Sent(n, ends[n]) : n \in N} = {Sent(w[1], w[2]) : w \in best}
  <2>1. \A n \in N : \E w \in best : Sent(n, ends[n]) = Sent(w[1], w[2])
    <3>1. TAKE n \in N
    <3> DEFINE w == <<n, ends[n]>>
    <3>2. w \in best /\ w[1] = n /\ w[2] = ends[n]
      BY <1>5
    <3>3. QED
      BY <3>2
  <2>2. \A w \in best : \E n \in N : Sent(n, ends[n]) = Sent(w[1], w[2])
    BY <1>6
  <2>3. QED
    BY <2>1, <2>2
<1>8. QED
  BY <1>1, <1>7 DEF net, starts, ways, best, Sent
=============================================================================
