------------------------ MODULE EthernetNetworkProofs ------------------------
(***************************************************************************)
(* That switches recall what they saw, and pass on no duplicates, and that *)
(* hosts get no second copies and, when the cables are prompt, what they   *)
(* should get, in every network: for every topology, table size, timeout,  *)
(* and set of frames.                                                      *)
(***************************************************************************)
EXTENDS EthernetNetwork, TLAPS, WellFoundedInduction

-----------------------------------------------------------------------------
(* What a table of two generations holds, for every size of the table and  *)
(* every sequence of additions.  The two generations are two windows on    *)
(* the sequence of additions: AddEntry either makes the newer window       *)
(* longer or, when that has maxTableSize additions, moves both.            *)

Log(Keys, Entries) == Seq([key: Keys, entry: Entries])

(* The map m holds the latest of the additions after `from' up to `to'.    *)
Holds(m, log, k, from, to) ==
  \/ m[k] = Unknown /\ \A i \in from + 1 .. to : log[i].key # k
  \/ \E i \in from + 1 .. to : IsLatest(log, k, i, from + 1, to) /\ m[k] = log[i].entry

(* The newer generation is a window on the last `size' additions, the      *)
(* older one on the maxTableSize additions before, if there were any.      *)
Represents(t, log, Keys, Entries) ==
  /\ t \in Table(Keys, Entries)
  /\ log \in Log(Keys, Entries)
  /\ t.size <= Len(log)
  /\ \A k \in Keys : Holds(t.newer, log, k, Len(log) - t.size, Len(log))
  /\ \/ Len(log) = t.size /\ \A k \in Keys : t.older[k] = Unknown
     \/ /\ t.size >= 1 /\ Len(log) - t.size >= MaxTableSize
        /\ \A k \in Keys : Holds(t.older, log, k, Len(log) - t.size - MaxTableSize,
                                 Len(log) - t.size)

-----------------------------------------------------------------------------
(* A new table represents no additions. *)
LEMMA EmptyRepresents ==
  ASSUME NEW Keys, NEW Entries
  PROVE  Represents(EmptyTable(Keys), <<>>, Keys, Entries)
  BY TableSizeAssumption
     DEF Represents, EmptyTable, NoEntries, Table, Log, Holds

(* An addition at the end of the sequence leaves what a window on other    *)
(* additions shows.                                                        *)
LEMMA WindowBefore ==
  ASSUME NEW Keys, NEW Entries, NEW log \in Log(Keys, Entries), NEW a \in [key: Keys, entry: Entries],
         NEW m, NEW k, NEW from \in Nat, NEW to \in Nat, to <= Len(log),
         Holds(m, log, k, from, to)
  PROVE  Holds(m, Append(log, a), k, from, to)
<1>1. \A i \in from + 1 .. to : Append(log, a)[i] = log[i]
  BY DEF Log
<1>2. QED
  BY <1>1 DEF Holds, IsLatest

(* The window of the newer generation grows by the addition. *)
LEMMA WindowGrows ==
  ASSUME NEW Keys, NEW Entries, NEW log \in Log(Keys, Entries),
         NEW m \in [Keys -> Entries \cup {Unknown}],
         NEW k \in Keys, NEW e \in Entries, NEW x \in Keys,
         NEW from \in Nat, from <= Len(log),
         Holds(m, log, x, from, Len(log))
  PROVE  Holds(Put(m, k, e), Append(log, [key |-> k, entry |-> e]), x, from, Len(log) + 1)
<1> DEFINE new == Append(log, [key |-> k, entry |-> e])
           to == Len(log)
<1>1. /\ \A i \in 1 .. to : new[i] = log[i]
      /\ new[to + 1] = [key |-> k, entry |-> e]
      /\ to \in Nat
  BY DEF Log
<1>2. /\ new[to + 1].key = k /\ new[to + 1].entry = e
      /\ Put(m, k, e)[x] = IF x = k THEN e ELSE m[x]
  BY <1>1 DEF Put
<1> HIDE DEF new, to
<1>3. CASE x = k
  <2>1. IsLatest(new, x, to + 1, from + 1, to + 1)
    BY <1>1, <1>2, <1>3 DEF IsLatest, to
  <2>2. QED
    BY <1>1, <1>2, <1>3, <2>1 DEF Holds, to, new
<1>4. CASE x # k
  <2>1. Holds(m, log, x, from, to)
    BY DEF to
  <2>2. CASE m[x] = Unknown /\ \A i \in from + 1 .. to : log[i].key # x
    <3>1. \A i \in from + 1 .. to + 1 : new[i].key # x
      BY <1>1, <1>2, <1>4, <2>2
    <3>2. QED
      BY <1>2, <1>4, <2>2, <3>1 DEF Holds, to, new
  <2>3. CASE \E i \in from + 1 .. to : IsLatest(log, x, i, from + 1, to) /\ m[x] = log[i].entry
    <3>1. PICK i \in from + 1 .. to : IsLatest(log, x, i, from + 1, to) /\ m[x] = log[i].entry
      BY <2>3
    <3>2. IsLatest(new, x, i, from + 1, to + 1) /\ m[x] = new[i].entry
      BY <1>1, <1>2, <1>4, <3>1, SMTT(30) DEF IsLatest
    <3>3. i \in from + 1 .. to + 1
      BY <1>1, <3>1
    <3>4. QED
      BY <1>2, <1>4, <3>2, <3>3 DEF Holds, to, new
  <2>4. QED
    BY <2>1, <2>2, <2>3 DEF Holds
<1>5. QED
  BY <1>3, <1>4

-----------------------------------------------------------------------------
(* addEntry keeps the windows what they are, whether or not the newer      *)
(* generation is full.                                                     *)
LEMMA AddRepresents ==
  ASSUME NEW Keys, NEW Entries, NEW t, NEW log, NEW k \in Keys, NEW e \in Entries,
         Represents(t, log, Keys, Entries)
  PROVE  Represents(AddEntry(t, k, e), Append(log, [key |-> k, entry |-> e]), Keys, Entries)
<1> DEFINE a == [key |-> k, entry |-> e]
           new == Append(log, a)
           u == AddEntry(t, k, e)
<1>1. /\ log \in Log(Keys, Entries) /\ a \in [key: Keys, entry: Entries]
      /\ new \in Log(Keys, Entries) /\ Len(new) = Len(log) + 1 /\ Len(log) \in Nat
  BY DEF Represents, Log
<1>2. /\ t \in Table(Keys, Entries) /\ t.size \in 0 .. MaxTableSize /\ t.size <= Len(log)
      /\ t.newer \in [Keys -> Entries \cup {Unknown}]
      /\ t.older \in [Keys -> Entries \cup {Unknown}]
      /\ DOMAIN t.newer = Keys
  BY DEF Represents, Table
<1>3. CASE t.size < MaxTableSize
  <2>1. u = [newer |-> Put(t.newer, k, e), older |-> t.older, size |-> t.size + 1]
    BY <1>3 DEF AddEntry
  <2>2. u \in Table(Keys, Entries) /\ u.size = t.size + 1
        /\ u.newer = Put(t.newer, k, e) /\ u.older = t.older
    BY <1>2, <1>3, <2>1, TableSizeAssumption DEF Table, Put
  <2>3. Len(new) - u.size = Len(log) - t.size /\ Len(log) - t.size \in Nat /\ u.size <= Len(new)
    BY <1>1, <1>2, <2>2, TableSizeAssumption
  <2>4. ASSUME NEW x \in Keys
        PROVE  Holds(u.newer, new, x, Len(new) - u.size, Len(new))
    <3>1. Holds(t.newer, log, x, Len(log) - t.size, Len(log))
      BY DEF Represents
    <3>2. Len(log) - t.size <= Len(log)
      BY <1>1, <1>2, TableSizeAssumption
    <3>3. Holds(Put(t.newer, k, e), new, x, Len(log) - t.size, Len(log) + 1)
      BY <1>1, <1>2, <2>3, <3>1, <3>2, WindowGrows
    <3>4. QED
      BY <1>1, <2>2, <2>3, <3>3
  <2>5. CASE Len(log) = t.size /\ \A x \in Keys : t.older[x] = Unknown
    <3>1. Len(new) = u.size /\ \A x \in Keys : u.older[x] = Unknown
      BY <1>1, <2>2, <2>5
    <3>2. QED
      BY <1>1, <2>2, <2>3, <2>4, <3>1 DEF Represents
  <2>6. CASE /\ t.size >= 1 /\ Len(log) - t.size >= MaxTableSize
             /\ \A x \in Keys : Holds(t.older, log, x, Len(log) - t.size - MaxTableSize,
                                      Len(log) - t.size)
    <3>1. Len(log) - t.size - MaxTableSize \in Nat /\ Len(log) - t.size <= Len(log)
      BY <1>1, <1>2, <2>6, TableSizeAssumption
    <3>2. \A x \in Keys : Holds(t.older, new, x, Len(log) - t.size - MaxTableSize,
                                Len(log) - t.size)
      BY <1>1, <2>3, <2>6, <3>1, WindowBefore
    <3>3. /\ u.size >= 1 /\ Len(new) - u.size >= MaxTableSize
          /\ \A x \in Keys : Holds(u.older, new, x, Len(new) - u.size - MaxTableSize,
                                   Len(new) - u.size)
      BY <1>2, <2>2, <2>3, <2>6, <3>2
    <3>4. QED
      BY <1>1, <2>2, <2>3, <2>4, <3>3 DEF Represents
  <2>7. QED
    BY <2>5, <2>6 DEF Represents
<1>4. CASE ~ (t.size < MaxTableSize)
  <2>0. t.size = MaxTableSize
    BY <1>2, <1>4, TableSizeAssumption
  <2>1. u = [newer |-> Put(NoEntries(Keys), k, e), older |-> t.newer, size |-> 1]
    BY <1>2, <1>4 DEF AddEntry
  <2>2. u \in Table(Keys, Entries) /\ u.size = 1
        /\ u.newer = Put(NoEntries(Keys), k, e) /\ u.older = t.newer
    BY <1>2, <2>1, TableSizeAssumption DEF Table, Put, NoEntries
  <2>3. ASSUME NEW x \in Keys
        PROVE  Holds(u.newer, new, x, Len(new) - u.size, Len(new))
    <3>1. Holds(NoEntries(Keys), log, x, Len(log), Len(log))
      BY <1>1 DEF Holds, NoEntries
    <3>2. NoEntries(Keys) \in [Keys -> Entries \cup {Unknown}]
      BY DEF NoEntries
    <3>3. Holds(Put(NoEntries(Keys), k, e), new, x, Len(log), Len(log) + 1)
      BY <1>1, <3>1, <3>2, WindowGrows
    <3>4. Len(new) - u.size = Len(log) /\ Len(new) = Len(log) + 1
      BY <1>1, <2>2
    <3>5. Holds(u.newer, new, x, Len(log), Len(new))
      BY <2>2, <3>3, <3>4
    <3>6. QED
      BY <3>4, <3>5
  <2>4. ASSUME NEW x \in Keys
        PROVE  Holds(u.older, new, x, Len(new) - u.size - MaxTableSize, Len(new) - u.size)
    <3>1. Holds(t.newer, log, x, Len(log) - MaxTableSize, Len(log))
      BY <2>0 DEF Represents
    <3>2. Len(log) - MaxTableSize \in Nat
      BY <1>1, <1>2, <2>0, TableSizeAssumption
    <3>3. Holds(t.newer, new, x, Len(log) - MaxTableSize, Len(log))
      BY <1>1, <3>1, <3>2, WindowBefore
    <3>4. Len(new) - u.size = Len(log)
      BY <1>1, <2>2
    <3>5. QED
      BY <2>2, <3>3, <3>4
  <2>5. Len(new) - u.size >= MaxTableSize /\ u.size <= Len(new)
    BY <1>1, <1>2, <2>0, <2>2, TableSizeAssumption
  <2>6. QED
    BY <1>1, <2>2, <2>3, <2>4, <2>5 DEF Represents
<1>5. QED
  BY <1>3, <1>4

-----------------------------------------------------------------------------
(* getEntry answers with the latest addition of a key, and may have        *)
(* forgotten it only if more than maxTableSize others were made since.     *)
THEOREM RepresentsRecalls ==
  ASSUME NEW Keys, NEW Entries, NEW t, NEW log, NEW k \in Keys,
         Unknown \notin Entries, Represents(t, log, Keys, Entries)
  PROVE  Recalls(t, log, k)
<1> DEFINE L == Len(log)
           mid == L - t.size
           first == mid - MaxTableSize
<1>1. /\ L \in Nat /\ t.size \in 0 .. MaxTableSize /\ t.size <= L
      /\ \A i \in 1 .. L : log[i] \in [key: Keys, entry: Entries]
      /\ t.newer[k] \in Entries \cup {Unknown}
  <2>1. t \in Table(Keys, Entries) /\ log \in Log(Keys, Entries) /\ t.size <= Len(log)
    BY DEF Represents
  <2>2. /\ t.size \in 0 .. MaxTableSize /\ t.newer \in [Keys -> Entries \cup {Unknown}]
        /\ log \in Seq([key: Keys, entry: Entries])
    BY <2>1 DEF Table, Log
  <2>3. /\ Len(log) \in Nat
        /\ \A i \in 1 .. Len(log) : log[i] \in [key: Keys, entry: Entries]
    <3> DEFINE S == [key: Keys, entry: Entries]
    <3>1. log \in Seq(S)
      BY <2>2
    <3> HIDE DEF S
    <3>2. Len(log) \in Nat /\ \A i \in 1 .. Len(log) : log[i] \in S
      BY <3>1
    <3>3. QED
      BY <3>2 DEF S
  <2>4. QED
    BY <2>1, <2>2, <2>3
<1>2. Holds(t.newer, log, k, mid, L)
  BY DEF Represents
<1>3. \/ L = t.size /\ t.older[k] = Unknown
      \/ t.size >= 1 /\ mid >= MaxTableSize /\ Holds(t.older, log, k, first, mid)
  BY DEF Represents
<1>4. /\ mid \in Nat /\ mid + t.size = L
      /\ MaxTableSize \in Nat
      /\ \A i \in 1 .. L : log[i].entry # Unknown
  BY <1>1, TableSizeAssumption
<1>5. SUFFICES \/ /\ GetEntry(t, k) = Unknown
                  /\ \A i \in 1 .. L : log[i].key = k => i + MaxTableSize < L
               \/ \E i \in 1 .. L : IsLatest(log, k, i, 1, L) /\ GetEntry(t, k) = log[i].entry
  BY DEF Recalls
<1> HIDE DEF L, mid, first
<1>6. CASE \E i \in mid + 1 .. L : IsLatest(log, k, i, mid + 1, L) /\ t.newer[k] = log[i].entry
  <2>1. PICK i \in mid + 1 .. L : IsLatest(log, k, i, mid + 1, L) /\ t.newer[k] = log[i].entry
    BY <1>6
  <2>2. i \in 1 .. L /\ IsLatest(log, k, i, 1, L)
    BY <1>1, <1>4, <2>1 DEF IsLatest
  <2>3. GetEntry(t, k) = log[i].entry
    BY <1>4, <2>1, <2>2 DEF GetEntry
  <2>4. QED
    BY <2>2, <2>3
<1>7. CASE t.newer[k] = Unknown /\ \A i \in mid + 1 .. L : log[i].key # k
  <2>1. GetEntry(t, k) = t.older[k]
    BY <1>7 DEF GetEntry
  <2>2. CASE L = t.size /\ t.older[k] = Unknown
    <3>1. mid = 0
      BY <1>1, <1>4, <2>2
    <3>2. \A i \in 1 .. L : log[i].key # k
      BY <1>7, <3>1
    <3>3. QED
      BY <2>1, <2>2, <3>2
  <2>3. CASE /\ t.size >= 1 /\ mid >= MaxTableSize
             /\ Holds(t.older, log, k, first, mid)
    <3>1. first \in Nat /\ first + MaxTableSize = mid
      BY <1>4, <2>3 DEF first
    <3>2. CASE t.older[k] = Unknown /\ \A i \in first + 1 .. mid : log[i].key # k
      <4>1. ASSUME NEW i \in 1 .. L, log[i].key = k
            PROVE  i + MaxTableSize < L
        <5>1. i <= mid
          BY <1>1, <1>4, <1>7, <4>1
        <5>2. ~ (i \in first + 1 .. mid)
          BY <3>2, <4>1
        <5>3. i <= first
          BY <1>1, <1>4, <3>1, <5>1, <5>2
        <5>4. QED
          BY <1>1, <1>4, <2>3, <3>1, <5>3
      <4>2. QED
        BY <2>1, <3>2, <4>1
    <3>3. CASE \E i \in first + 1 .. mid : /\ IsLatest(log, k, i, first + 1, mid)
                                           /\ t.older[k] = log[i].entry
      <4>1. PICK i \in first + 1 .. mid : /\ IsLatest(log, k, i, first + 1, mid)
                                          /\ t.older[k] = log[i].entry
        BY <3>3
      <4>2. i \in 1 .. L /\ log[i].key = k
        BY <1>1, <1>4, <3>1, <4>1 DEF IsLatest
      <4>3. ASSUME NEW j \in 1 .. L, log[j].key = k
            PROVE  j <= i
        <5>1. j <= mid
          BY <1>1, <1>4, <1>7, <4>3
        <5>2. QED
          BY <1>1, <1>4, <3>1, <4>1, <4>3, <5>1 DEF IsLatest
      <4>4. QED
        BY <2>1, <4>1, <4>2, <4>3 DEF IsLatest
    <3>4. QED
      BY <2>3, <3>2, <3>3 DEF Holds
  <2>4. QED
    BY <1>3, <2>2, <2>3
<1>8. QED
  BY <1>2, <1>6, <1>7 DEF Holds

-----------------------------------------------------------------------------
(* Networks *)

(* Every frame that a switch accepted, it accepted no later than now, and  *)
(* no earlier than those before it.                                        *)
AcceptedInOrder ==
  \A s \in Switches : \A j \in 1 .. Len(accepted[s]) :
    /\ accepted[s][j].at <= now
    /\ \A i \in 1 .. j : accepted[s][i].at <= accepted[s][j].at

TablesRepresent ==
  \A s \in Switches :
    /\ Represents(forward[s], ForwardLog(s), Addresses, ForwardRecord)
    /\ Represents(seen[s], SeenLog(s), Frames, Nat)

IInv == TypeOK /\ TablesRepresent /\ AcceptedInOrder /\ PassedOnOnce

-----------------------------------------------------------------------------
(* Type correctness *)

(* What a device takes from a cable is an item. *)
LEMMA ArrivingItem ==
  ASSUME TypeOK, NEW d \in Devices, NEW p \in Paths, Arrives(d, p)
  PROVE  /\ Item0(d, p) \in Item /\ Item0(d, p).frame \in Frames
         /\ <<peer[d][p], d>> \in Nodes \X Nodes
<1>1. peer[d][p] \in Nodes /\ d \in Nodes
  BY DEF TypeOK, Arrives, Nodes
<1>2. wire[<<peer[d][p], d>>] \in Seq(Item) /\ wire[<<peer[d][p], d>>] # <<>>
  BY <1>1 DEF TypeOK, Arrives
<1>3. Item0(d, p) \in Item
  BY <1>2 DEF Item0
<1>4. QED
  BY <1>1, <1>3 DEF Item

(* A device that forwards an item leaves items on the cables. *)
LEMMA ForwardedType ==
  ASSUME TypeOK, NEW d \in Devices, NEW p \in Paths, NEW out, Arrives(d, p), Forwarded(d, p, out)
  PROVE  wire' \in [Nodes \X Nodes -> Seq(Item)]
<1>1. Item0(d, p) \in Item
  BY ArrivingItem
<1>2. wire[<<peer[d][p], d>>] # <<>> /\ <<peer[d][p], d>> \in Nodes \X Nodes
  BY ArrivingItem DEF Arrives
<1>3. ASSUME NEW c \in Nodes \X Nodes
      PROVE  wire'[c] \in Seq(Item)
  <2>1. wire[c] \in Seq(Item)
    BY DEF TypeOK
  <2>2. c = <<peer[d][p], d>> => Tail(wire[c]) \in Seq(Item)
    BY <1>2, <2>1
  <2>3. Append(wire[c], Item0(d, p)) \in Seq(Item)
    BY <1>1, <2>1
  <2>4. \/ c = <<peer[d][p], d>> /\ wire'[c] = Tail(wire[c])
        \/ wire'[c] = Append(wire[c], Item0(d, p))
        \/ wire'[c] = wire[c]
    BY DEF Forwarded
  <2>5. QED
    BY <2>1, <2>2, <2>3, <2>4
<1>4. QED
  BY <1>3 DEF Forwarded

(* An addition to a table of the right type gives one. *)
LEMMA AddType ==
  ASSUME NEW Keys, NEW Entries, NEW t \in Table(Keys, Entries), NEW k \in Keys, NEW e \in Entries
  PROVE  AddEntry(t, k, e) \in Table(Keys, Entries)
<1>1. /\ t.newer \in [Keys -> Entries \cup {Unknown}]
      /\ t.older \in [Keys -> Entries \cup {Unknown}]
      /\ t.size \in 0 .. MaxTableSize /\ DOMAIN t.newer = Keys
  BY DEF Table
<1>2. \A m \in [Keys -> Entries \cup {Unknown}] :
        Put(m, k, e) \in [Keys -> Entries \cup {Unknown}]
  BY DEF Put
<1>3. NoEntries(Keys) \in [Keys -> Entries \cup {Unknown}]
  BY DEF NoEntries
<1>4. CASE t.size < MaxTableSize
  <2>1. t.size + 1 \in 0 .. MaxTableSize
    BY <1>1, <1>4, TableSizeAssumption
  <2>2. AddEntry(t, k, e) = [newer |-> Put(t.newer, k, e), older |-> t.older, size |-> t.size + 1]
    BY <1>4 DEF AddEntry
  <2>3. QED
    BY <1>1, <1>2, <2>1, <2>2 DEF Table
<1>5. CASE ~ (t.size < MaxTableSize)
  <2>1. 1 \in 0 .. MaxTableSize
    BY TableSizeAssumption
  <2>2. AddEntry(t, k, e) =
          [newer |-> Put(NoEntries(Keys), k, e), older |-> t.newer, size |-> 1]
    BY <1>1, <1>5 DEF AddEntry
  <2>3. QED
    BY <1>1, <1>2, <1>3, <2>1, <2>2 DEF Table
<1>6. QED
  BY <1>4, <1>5

(* A function that is changed at a point, if that is in its domain. *)
LEMMA ExceptType ==
  ASSUME NEW S, NEW T, NEW g \in [S -> T], NEW n, NEW v, n \in S => v \in T
  PROVE  [g EXCEPT ![n] = v] \in [S -> T]
  OBVIOUS

(* Whether everyone has waited stays a Boolean. *)
LEMMA PromptType ==
  ASSUME KeepsPrompt
  PROVE  prompt' \in BOOLEAN
  BY DEF KeepsPrompt

LEMMA TypeInit == Init => TypeOK
<1> SUFFICES ASSUME Init PROVE TypeOK
  OBVIOUS
<1>1. peer \in [Devices -> [Paths -> Nodes \cup {NoOne}]] /\ nextPath \in [Devices -> Nat]
  <2>1. \A p \in Paths : p \in Nat /\ p >= 1
    BY DEF Paths
  <2>2. ASSUME NEW d \in Devices
        PROVE  /\ Len(Topology[d]) \in Nat
               /\ \A p \in Paths : p <= Len(Topology[d]) => Topology[d][p] \in Nodes
    <3>1. Topology[d] \in Seq(Nodes)
      BY TopologyAssumption
    <3>2. QED
      BY <2>1, <3>1
  <2>3. QED
    BY <2>2 DEF Init
<1>2. forward \in [Switches -> Table(Addresses, ForwardRecord)]
      /\ seen \in [Switches -> Table(Frames, Nat)]
  BY EmptyRepresents DEF Init, Represents
<1>3. QED
  BY <1>1, <1>2, NetworkAssumption DEF Init, TypeOK

LEMMA TypeStep == TypeOK /\ [Next]_vars => TypeOK'
<1> SUFFICES ASSUME TypeOK, [Next]_vars PROVE TypeOK'
  OBVIOUS
<1>1. ASSUME NEW s \in Switches, NEW p \in Paths, Drop(s, p)
      PROVE  TypeOK'
  <2>1. wire' \in [Nodes \X Nodes -> Seq(Item)]
    BY <1>1, ForwardedType DEF Drop, Devices
  <2>2. QED
    BY <1>1, <2>1 DEF Drop, TypeOK, deviceVars, historyVars
<1>2. ASSUME NEW s \in Switches, NEW p \in Paths, NEW fresh, Accept(s, p, fresh)
      PROVE  TypeOK'
  <2> DEFINE f == Item0(s, p).frame
             e == [path |-> p, at |-> now]
             r == [frame |-> f, path |-> p, at |-> now]
  <2>1. Arrives(s, p) /\ s \in Devices
    BY <1>2 DEF Accept, Devices
  <2>2. f \in Frames /\ f.src \in Addresses /\ now \in Nat /\ e \in ForwardRecord /\ r \in Accepted
    <3>1. f \in Frames
      BY <2>1, ArrivingItem
    <3>2. f.src \in Addresses
      BY <3>1, NetworkAssumption DEF Addresses
    <3>3. now \in Nat
      BY DEF TypeOK
    <3> HIDE DEF f
    <3>4. QED
      BY <3>1, <3>2, <3>3 DEF ForwardRecord, Accepted
  <2>3. wire' \in [Nodes \X Nodes -> Seq(Item)]
    BY <1>2, <2>1, ForwardedType DEF Accept
  <2>4. forward' \in [Switches -> Table(Addresses, ForwardRecord)]
    <3>1. AddEntry(forward[s], f.src, e) \in Table(Addresses, ForwardRecord)
      BY <2>2, AddType DEF TypeOK
    <3>2. forward' = [forward EXCEPT ![s] = AddEntry(forward[s], f.src, e)]
      BY <1>2 DEF Accept
    <3>3. QED
      BY <3>1, <3>2 DEF TypeOK
  <2>5. seen' \in [Switches -> Table(Frames, Nat)]
    <3>1. AddEntry(seen[s], f, now) \in Table(Frames, Nat)
      BY <2>2, AddType DEF TypeOK
    <3>2. seen' = [seen EXCEPT ![s] = AddEntry(seen[s], f, now)]
      BY <1>2 DEF Accept
    <3>3. QED
      BY <3>1, <3>2 DEF TypeOK
  <2>6. accepted' \in [Switches -> Seq(Accepted)]
    <3>1. Append(accepted[s], r) \in Seq(Accepted)
      BY <2>2 DEF TypeOK
    <3>2. accepted' = [accepted EXCEPT ![s] = Append(accepted[s], r)]
      BY <1>2 DEF Accept
    <3>3. QED
      BY <3>1, <3>2 DEF TypeOK
  <2>7. UNCHANGED <<now, peer, nextPath, moves, prompt, sends, got, staleUntil>>
    BY <1>2 DEF Accept
  <2>8. QED
    BY <2>3, <2>4, <2>5, <2>6, <2>7 DEF TypeOK
<1>3. ASSUME NEW r \in Repeaters, NEW p \in Paths, PacketRepeated(r, p)
      PROVE  TypeOK'
  <2>1. wire' \in [Nodes \X Nodes -> Seq(Item)]
    BY <1>3, ForwardedType DEF PacketRepeated, Devices
  <2>2. QED
    BY <1>3, <2>1 DEF PacketRepeated, TypeOK, deviceVars, historyVars
<1>4. ASSUME NEW h \in Hosts, NEW d \in Devices, HostReceives(h, d)
      PROVE  TypeOK'
  <2>1. <<d, h>> \in Nodes \X Nodes
    BY DEF Nodes
  <2>2. wire' \in [Nodes \X Nodes -> Seq(Item)]
    <3>1. wire[<<d, h>>] \in Seq(Item) /\ wire[<<d, h>>] # <<>>
      BY <1>4, <2>1 DEF HostReceives, TypeOK
    <3>2. Tail(wire[<<d, h>>]) \in Seq(Item)
      BY <3>1
    <3>3. QED
      BY <1>4, <3>2 DEF HostReceives, TypeOK
  <2>3. got' \in [Hosts -> [1 .. MaxSends -> Nat]]
    <3>1. PICK i : got' = IF i.frame.dst \in {h, Broadcast}
                          THEN [got EXCEPT ![h][i.n] = @ + 1] ELSE got
      BY <1>4 DEF HostReceives
    <3>2. got \in [Hosts -> [1 .. MaxSends -> Nat]]
      BY DEF TypeOK
    <3>3. [got EXCEPT ![h][i.n] = @ + 1] \in [Hosts -> [1 .. MaxSends -> Nat]]
      <4>1. [got[h] EXCEPT ![i.n] = got[h][i.n] + 1] \in [1 .. MaxSends -> Nat]
        <5>1. got[h] \in [1 .. MaxSends -> Nat]
          BY <3>2
        <5> DEFINE v == got[h][i.n] + 1
        <5>2. i.n \in 1 .. MaxSends => v \in Nat
          <6> DEFINE S == 1 .. MaxSends
                     g == got[h]
                     n == i.n
          <6>1. g \in [S -> Nat]
            BY <5>1
          <6> HIDE DEF S, g, n
          <6>2. n \in S => g[n] + 1 \in Nat
            BY <6>1
          <6>3. QED
            BY <6>2 DEF S, g, n
        <5> HIDE DEF v
        <5>3. [got[h] EXCEPT ![i.n] = v] \in [1 .. MaxSends -> Nat]
          BY <5>1, <5>2, ExceptType
        <5>4. QED
          BY <5>3 DEF v
      <4>2. [got EXCEPT ![h][i.n] = @ + 1] =
              [got EXCEPT ![h] = [got[h] EXCEPT ![i.n] = got[h][i.n] + 1]]
        BY <3>2
      <4>3. QED
        BY <3>2, <4>1, <4>2
    <3>4. QED
      BY <3>1, <3>2, <3>3
  <2>4. QED
    BY <1>4, <2>2, <2>3 DEF HostReceives, TypeOK, deviceVars
<1>5. ASSUME NEW f \in Frames, NEW d \in Devices, HostSends(f, d)
      PROVE  TypeOK'
  <2> DEFINE i == [frame |-> f, n |-> Len(sends) + 1]
             r == [frame |-> f, at |-> now, due |-> Due(f, d)]
  <2>1. sends' \in Seq([frame: Frames, at: Nat, due: SUBSET Hosts])
    <3>1. r \in [frame: Frames, at: Nat, due: SUBSET Hosts]
      BY DEF TypeOK, Due
    <3>2. sends' = Append(sends, r)
      BY <1>5 DEF HostSends
    <3> HIDE DEF r
    <3>3. QED
      BY <3>1, <3>2 DEF TypeOK
  <2>2. wire' \in [Nodes \X Nodes -> Seq(Item)]
    <3>1. <<f.src, d>> \in Nodes \X Nodes
      BY NetworkAssumption DEF Nodes
    <3>2. i \in Item
      BY DEF Item, TypeOK
    <3>3. wire' = [wire EXCEPT ![<<f.src, d>>] = Append(@, i)]
      BY <1>5 DEF HostSends
    <3> HIDE DEF i
    <3>4. Append(wire[<<f.src, d>>], i) \in Seq(Item)
      BY <3>1, <3>2 DEF TypeOK
    <3>5. QED
      BY <3>3, <3>4 DEF TypeOK
  <2>3. QED
    BY <1>5, <2>1, <2>2, PromptType DEF HostSends, TypeOK, deviceVars
<1>6. ASSUME NEW h \in Hosts, NEW d \in Devices, Unplug(h, d)
      PROVE  TypeOK'
  <2>1. peer' \in [Devices -> [Paths -> Nodes \cup {NoOne}]]
    <3>1. peer' = [peer EXCEPT ![d] = [p \in Paths |-> IF peer[d][p] = h THEN NoOne
                                                       ELSE peer[d][p]]]
      BY <1>6 DEF Unplug
    <3>2. QED
      BY <3>1 DEF TypeOK
  <2>2. wire' \in [Nodes \X Nodes -> Seq(Item)]
    <3>1. <<>> \in Seq(Item)
      OBVIOUS
    <3>2. wire' = [wire EXCEPT ![<<h, d>>] = <<>>]
      BY <1>6 DEF Unplug
    <3>3. QED
      BY <3>1, <3>2 DEF TypeOK
  <2>3. staleUntil' \in [Hosts -> Nat] /\ moves' \in 0 .. MaxMoves
    BY <1>6, NetworkAssumption, SMTT(30) DEF Unplug, TypeOK
  <2>4. QED
    BY <1>6, <2>1, <2>2, <2>3, PromptType DEF Unplug, TypeOK
<1>7. ASSUME NEW h \in Hosts, NEW d \in Devices, Plug(h, d)
      PROVE  TypeOK'
  <2>1. peer' \in [Devices -> [Paths -> Nodes \cup {NoOne}]]
    BY <1>7 DEF Plug, TypeOK, Nodes
  <2>2. nextPath' \in [Devices -> Nat]
    BY <1>7 DEF Plug, TypeOK
  <2>3. QED
    BY <1>7, <2>1, <2>2, PromptType DEF Plug, TypeOK, historyVars
<1>8. CASE Tick
  BY <1>8, PromptType DEF Tick, TypeOK, deviceVars, historyVars
<1>9. CASE UNCHANGED vars
  BY <1>9 DEF vars, TypeOK, deviceVars, historyVars
<1>10. QED
  BY <1>1, <1>2, <1>3, <1>4, <1>5, <1>6, <1>7, <1>8, <1>9 DEF Next, PacketReceived

(* Every reachable state of every network is well typed. *)
THEOREM TypeCorrect == Spec => []TypeOK
<1>1. QED
  BY TypeInit, TypeStep, PTL DEF Spec

-----------------------------------------------------------------------------
(* What switches accept *)

(* The image of a sequence that has one more element *)
LEMMA LogAppend ==
  ASSUME NEW L \in Nat, NEW F(_), NEW old, NEW new, NEW r,
         \A i \in 1 .. L : new[i] = old[i], new[L + 1] = r
  PROVE  [i \in 1 .. L + 1 |-> F(new[i])] = Append([i \in 1 .. L |-> F(old[i])], F(r))
  OBVIOUS

AcceptanceOf(s, p) == [frame |-> Item0(s, p).frame, path |-> p, at |-> now]

(* Accept is an addition to both tables and to the histories of additions. *)
LEMMA AcceptAdds ==
  ASSUME TypeOK, NEW s \in Switches, NEW p \in Paths, NEW fresh, Accept(s, p, fresh)
  PROVE  LET r == AcceptanceOf(s, p)
             e == [path |-> p, at |-> now]
         IN /\ r \in Accepted /\ r.frame \in Frames /\ r.frame.src \in Addresses
            /\ r.at = now /\ r.frame = Item0(s, p).frame
            /\ e \in ForwardRecord /\ now \in Nat
            /\ accepted' = [accepted EXCEPT ![s] = Append(accepted[s], r)]
            /\ forward' = [forward EXCEPT ![s] = AddEntry(forward[s], r.frame.src, e)]
            /\ seen' = [seen EXCEPT ![s] = AddEntry(seen[s], r.frame, now)]
            /\ ForwardLog(s)' = Append(ForwardLog(s), [key |-> r.frame.src, entry |-> e])
            /\ SeenLog(s)' = Append(SeenLog(s), [key |-> r.frame, entry |-> now])
<1> DEFINE r == AcceptanceOf(s, p)
           e == [path |-> p, at |-> now]
           f == Item0(s, p).frame
           acc == accepted[s]
           L == Len(acc)
<1>1. f \in Frames /\ now \in Nat
  BY ArrivingItem DEF Accept, Devices, TypeOK
<1>2. f.src \in Addresses
  BY <1>1, NetworkAssumption DEF Addresses
<1>3. r = [frame |-> f, path |-> p, at |-> now]
  BY DEF AcceptanceOf
<1>4. r.frame = f /\ r.path = p /\ r.at = now
  BY <1>3
<1> HIDE DEF f
<1>5. r \in Accepted /\ e \in ForwardRecord
  BY <1>1, <1>3 DEF Accepted, ForwardRecord
<1>6. /\ accepted' = [accepted EXCEPT ![s] = Append(accepted[s], r)]
      /\ forward' = [forward EXCEPT ![s] = AddEntry(forward[s], f.src, e)]
      /\ seen' = [seen EXCEPT ![s] = AddEntry(seen[s], f, now)]
  BY <1>3 DEF Accept, f
<1>7. /\ accepted'[s] = Append(acc, r) /\ acc \in Seq(Accepted) /\ L \in Nat
      /\ Len(accepted'[s]) = L + 1
  BY <1>5, <1>6 DEF TypeOK
<1>8. /\ \A i \in 1 .. L : accepted'[s][i] = acc[i]
      /\ accepted'[s][L + 1] = r
  BY <1>5, <1>7
<1> HIDE DEF r, e, acc
<1>9. ForwardLog(s)' = Append(ForwardLog(s), [key |-> f.src, entry |-> e])
  <2> DEFINE F(x) == [key |-> x.frame.src, entry |-> [path |-> x.path, at |-> x.at]]
  <2>1. F(r) = [key |-> f.src, entry |-> e]
    BY <1>4 DEF e
  <2>2. ForwardLog(s) = [i \in 1 .. L |-> F(acc[i])]
    BY DEF ForwardLog, acc
  <2>3. ForwardLog(s)' = [i \in 1 .. L + 1 |-> F(accepted'[s][i])]
    BY <1>7 DEF ForwardLog
  <2> HIDE DEF F
  <2>4. QED
    BY <1>7, <1>8, <2>1, <2>2, <2>3, LogAppend
<1>10. SeenLog(s)' = Append(SeenLog(s), [key |-> f, entry |-> now])
  <2> DEFINE F(x) == [key |-> x.frame, entry |-> x.at]
  <2>1. F(r) = [key |-> f, entry |-> now]
    BY <1>4
  <2>2. SeenLog(s) = [i \in 1 .. L |-> F(acc[i])]
    BY DEF SeenLog, acc
  <2>3. SeenLog(s)' = [i \in 1 .. L + 1 |-> F(accepted'[s][i])]
    BY <1>7 DEF SeenLog
  <2> HIDE DEF F
  <2>4. QED
    BY <1>7, <1>8, <2>1, <2>2, <2>3, LogAppend
<1>11. QED
  BY <1>1, <1>2, <1>4, <1>5, <1>6, <1>9, <1>10 DEF r, e, f

-----------------------------------------------------------------------------
LEMMA InvInit == Init => IInv
<1> SUFFICES ASSUME Init PROVE IInv
  OBVIOUS
<1>1. TypeOK
  BY TypeInit
<1>2. \A s \in Switches : accepted[s] = <<>>
  BY DEF Init
<1>3. TablesRepresent
  <2>1. ASSUME NEW s \in Switches
        PROVE  ForwardLog(s) = <<>> /\ SeenLog(s) = <<>>
    BY <1>2 DEF ForwardLog, SeenLog
  <2>2. QED
    BY <2>1, EmptyRepresents DEF Init, TablesRepresent
<1>4. AcceptedInOrder /\ PassedOnOnce
  BY <1>2 DEF AcceptedInOrder, PassedOnOnce
<1>5. QED
  BY <1>1, <1>3, <1>4 DEF IInv

(* A switch that accepts what it accepted before does so after the timeout *)
(* or when its table has forgotten the packet.                             *)
LEMMA FreshIsLate ==
  ASSUME IInv, NEW s \in Switches, NEW f \in Frames, ~ IsDuplicate(s, f),
         NEW i \in 1 .. Len(accepted[s]), accepted[s][i].frame = f
  PROVE  \/ now - accepted[s][i].at >= DuplicateTimeout
         \/ i + MaxTableSize < Len(accepted[s])
<1> DEFINE log == SeenLog(s)
           L == Len(accepted[s])
<1>1. /\ L \in Nat /\ Len(log) = L
      /\ \A j \in 1 .. L : log[j].key = accepted[s][j].frame /\ log[j].entry = accepted[s][j].at
  BY DEF IInv, TypeOK, SeenLog
<1>2. /\ now \in Nat /\ DuplicateTimeout \in Nat
      /\ \A j \in 1 .. L : accepted[s][j].at \in Nat
  <2>1. accepted[s] \in Seq(Accepted)
    BY DEF IInv, TypeOK
  <2>2. \A j \in 1 .. L : accepted[s][j] \in Accepted
    BY <2>1
  <2>3. QED
    BY <2>2, NetworkAssumption DEF IInv, TypeOK, Accepted
<1>3. Recalls(seen[s], log, f)
  BY RepresentsRecalls, UnknownAssumption DEF IInv, TablesRepresent
<1> HIDE DEF log
<1>4. CASE /\ GetEntry(seen[s], f) = Unknown
           /\ \A j \in 1 .. L : log[j].key = f => j + MaxTableSize < L
  BY <1>1, <1>4
<1>5. CASE \E j \in 1 .. L : IsLatest(log, f, j, 1, L) /\ GetEntry(seen[s], f) = log[j].entry
  <2>1. PICK j \in 1 .. L : IsLatest(log, f, j, 1, L) /\ GetEntry(seen[s], f) = log[j].entry
    BY <1>5
  <2>2. GetEntry(seen[s], f) = accepted[s][j].at /\ i <= j
    BY <1>1, <2>1 DEF IsLatest
  <2>3. now - accepted[s][j].at >= DuplicateTimeout
    <3>1. GetEntry(seen[s], f) # Unknown
      BY <1>2, <2>1, <2>2, UnknownAssumption
    <3>2. QED
      BY <1>2, <2>1, <2>2, <3>1 DEF IsDuplicate
  <2>4. accepted[s][i].at <= accepted[s][j].at
    BY <2>1, <2>2 DEF IInv, AcceptedInOrder
  <2>5. QED
    BY <1>2, <2>1, <2>3, <2>4
<1>6. QED
  BY <1>1, <1>3, <1>4, <1>5 DEF Recalls

(* Steps that no switch takes only let time pass. *)
LEMMA OtherSteps ==
  ASSUME IInv, TypeOK', UNCHANGED <<forward, seen, accepted>>, now <= now'
  PROVE  IInv'
<1>1. \A s \in Switches : ForwardLog(s)' = ForwardLog(s) /\ SeenLog(s)' = SeenLog(s)
  BY DEF ForwardLog, SeenLog
<1>2. TablesRepresent'
  BY <1>1 DEF IInv, TablesRepresent
<1>3. AcceptedInOrder'
  <2>1. ASSUME NEW s \in Switches, NEW j \in 1 .. Len(accepted[s])
        PROVE  accepted[s][j].at \in Nat
    <3>1. accepted[s] \in Seq(Accepted)
      BY DEF IInv, TypeOK
    <3>2. accepted[s][j] \in Accepted
      BY <3>1
    <3>3. QED
      BY <3>2 DEF Accepted
  <2>2. now \in Nat /\ now' \in Nat
    BY DEF IInv, TypeOK
  <2>3. QED
    BY <2>1, <2>2 DEF IInv, AcceptedInOrder
<1>4. PassedOnOnce'
  BY DEF IInv, PassedOnOnce
<1>5. QED
  BY <1>2, <1>3, <1>4 DEF IInv

LEMMA AcceptStep ==
  ASSUME IInv, TypeOK', NEW s \in Switches, NEW p \in Paths,
         Accept(s, p, ~ IsDuplicate(s, Item0(s, p).frame))
  PROVE  IInv'
<1> DEFINE r == AcceptanceOf(s, p)
           e == [path |-> p, at |-> now]
           L == Len(accepted[s])
<1>0. TypeOK
  BY DEF IInv
<1>1. /\ r \in Accepted /\ r.frame \in Frames /\ r.frame.src \in Addresses
      /\ r.at = now /\ r.frame = Item0(s, p).frame
      /\ e \in ForwardRecord /\ now \in Nat
      /\ accepted' = [accepted EXCEPT ![s] = Append(accepted[s], r)]
      /\ forward' = [forward EXCEPT ![s] = AddEntry(forward[s], r.frame.src, e)]
      /\ seen' = [seen EXCEPT ![s] = AddEntry(seen[s], r.frame, now)]
      /\ ForwardLog(s)' = Append(ForwardLog(s), [key |-> r.frame.src, entry |-> e])
      /\ SeenLog(s)' = Append(SeenLog(s), [key |-> r.frame, entry |-> now])
  BY <1>0, AcceptAdds
<1> HIDE DEF r, e
<1>2. /\ now' = now /\ ~ IsDuplicate(s, r.frame)
      /\ accepted \in [Switches -> Seq(Accepted)] /\ forward \in [Switches -> Table(Addresses, ForwardRecord)]
      /\ seen \in [Switches -> Table(Frames, Nat)]
  BY <1>0, <1>1 DEF Accept, TypeOK
<1>3. \A t \in Switches \ {s} :
        /\ accepted'[t] = accepted[t] /\ forward'[t] = forward[t] /\ seen'[t] = seen[t]
        /\ ForwardLog(t)' = ForwardLog(t) /\ SeenLog(t)' = SeenLog(t)
  <2>1. ASSUME NEW t \in Switches \ {s}
        PROVE  accepted'[t] = accepted[t] /\ forward'[t] = forward[t] /\ seen'[t] = seen[t]
    BY <1>1, <1>2, <2>1
  <2>2. ASSUME NEW t \in Switches \ {s}
        PROVE  ForwardLog(t)' = ForwardLog(t)
    BY <2>1, Zenon DEF ForwardLog
  <2>3. ASSUME NEW t \in Switches \ {s}
        PROVE  SeenLog(t)' = SeenLog(t)
    BY <2>1, Zenon DEF SeenLog
  <2>4. QED
    BY <2>1, <2>2, <2>3
<1>4. /\ L \in Nat /\ Len(accepted'[s]) = L + 1
      /\ \A i \in 1 .. L : accepted'[s][i] = accepted[s][i]
      /\ accepted'[s][L + 1] = r
  BY <1>1, <1>2
<1>5. TablesRepresent'
  <2>1. /\ Represents(forward'[s], ForwardLog(s)', Addresses, ForwardRecord)
        /\ Represents(seen'[s], SeenLog(s)', Frames, Nat)
    <3>1. /\ Represents(forward[s], ForwardLog(s), Addresses, ForwardRecord)
          /\ Represents(seen[s], SeenLog(s), Frames, Nat)
      BY DEF IInv, TablesRepresent
    <3>2. /\ Represents(AddEntry(forward[s], r.frame.src, e),
                        Append(ForwardLog(s), [key |-> r.frame.src, entry |-> e]),
                        Addresses, ForwardRecord)
          /\ Represents(AddEntry(seen[s], r.frame, now),
                        Append(SeenLog(s), [key |-> r.frame, entry |-> now]), Frames, Nat)
      BY <1>1, <3>1, AddRepresents
    <3>3. forward'[s] = AddEntry(forward[s], r.frame.src, e)
          /\ seen'[s] = AddEntry(seen[s], r.frame, now)
      BY <1>1, <1>2
    <3>4. QED
      BY <1>1, <3>2, <3>3
  <2>2. QED
    BY <1>3, <2>1 DEF IInv, TablesRepresent
<1>6. AcceptedInOrder'
  <2>1. \A i \in 1 .. L : accepted[s][i].at <= now
    BY DEF IInv, AcceptedInOrder
  <2>2. ASSUME NEW j \in 1 .. L + 1
        PROVE  /\ accepted'[s][j].at <= now
               /\ \A i \in 1 .. j : accepted'[s][i].at <= accepted'[s][j].at
    <3>1. CASE j = L + 1
      BY <1>1, <1>4, <2>1, <3>1
    <3>2. CASE j \in 1 .. L
      <4>1. \A i \in 1 .. j : i \in 1 .. L
        BY <1>4, <3>2
      <4>2. QED
        BY <1>4, <2>1, <3>2, <4>1 DEF IInv, AcceptedInOrder
    <3>3. QED
      BY <1>4, <3>1, <3>2
  <2>3. QED
    BY <1>2, <1>3, <1>4, <2>2 DEF IInv, AcceptedInOrder
<1>7. PassedOnOnce'
  <2>1. ASSUME NEW i \in 1 .. L + 1, NEW j \in 1 .. L + 1, i < j,
               accepted'[s][i].frame = accepted'[s][j].frame
        PROVE  \/ accepted'[s][j].at - accepted'[s][i].at >= DuplicateTimeout
               \/ j - i > MaxTableSize + 1
    <3>1. CASE j = L + 1
      <4>1. i \in 1 .. L /\ accepted[s][i].frame = r.frame
        BY <1>4, <2>1, <3>1, SMTT(30)
      <4>2. \/ now - accepted[s][i].at >= DuplicateTimeout
            \/ i + MaxTableSize < L
        BY <1>1, <1>2, <4>1, FreshIsLate
      <4>3. QED
        BY <1>1, <1>4, <3>1, <4>1, <4>2, TableSizeAssumption, SMTT(30)
    <3>2. CASE j \in 1 .. L
      <4>1. i \in 1 .. L
        BY <1>4, <2>1, <3>2
      <4>2. QED
        BY <1>4, <2>1, <3>2, <4>1 DEF IInv, PassedOnOnce
    <3>3. QED
      BY <1>4, <3>1, <3>2
  <2>2. ASSUME NEW t \in Switches \ {s}, NEW i \in 1 .. Len(accepted'[t]),
               NEW j \in 1 .. Len(accepted'[t]), i < j,
               accepted'[t][i].frame = accepted'[t][j].frame
        PROVE  \/ accepted'[t][j].at - accepted'[t][i].at >= DuplicateTimeout
               \/ j - i > MaxTableSize + 1
    <3>1. accepted'[t] = accepted[t]
      BY <1>3, <2>2, Zenon
    <3>2. QED
      BY <2>2, <3>1 DEF IInv, PassedOnOnce
  <2>3. ASSUME NEW t \in Switches, NEW i \in 1 .. Len(accepted'[t]),
               NEW j \in 1 .. Len(accepted'[t]), i < j,
               accepted'[t][i].frame = accepted'[t][j].frame
        PROVE  \/ accepted'[t][j].at - accepted'[t][i].at >= DuplicateTimeout
               \/ j - i > MaxTableSize + 1
    <3>1. CASE t = s
      BY <1>4, <2>1, <2>3, <3>1
    <3>2. CASE t # s
      BY <2>2, <2>3, <3>2
    <3>3. QED
      BY <3>1, <3>2
  <2>4. QED
    BY <2>3, Zenon DEF PassedOnOnce
<1>8. QED
  BY <1>5, <1>6, <1>7 DEF IInv

LEMMA InvStep == IInv /\ [Next]_vars => IInv'
<1> SUFFICES ASSUME IInv, [Next]_vars PROVE IInv'
  OBVIOUS
<1>1. TypeOK' /\ now \in Nat /\ now' \in Nat
  BY TypeStep DEF IInv, TypeOK
<1>2. ASSUME NEW s \in Switches, NEW p \in Paths, PacketReceived(s, p)
      PROVE  IInv'
  <2>1. CASE Drop(s, p)
    BY <1>1, <2>1, OtherSteps DEF Drop, deviceVars, historyVars
  <2>2. CASE Accept(s, p, ~ IsDuplicate(s, Item0(s, p).frame))
    BY <1>1, <2>2, AcceptStep
  <2>3. QED
    BY <1>2, <2>1, <2>2 DEF PacketReceived
<1>3. ASSUME NEW r \in Repeaters, NEW p \in Paths, PacketRepeated(r, p)
      PROVE  IInv'
  BY <1>1, <1>3, OtherSteps DEF PacketRepeated, deviceVars, historyVars
<1>4. ASSUME NEW h \in Hosts, NEW d \in Devices,
             HostReceives(h, d) \/ Unplug(h, d) \/ Plug(h, d)
      PROVE  IInv'
  BY <1>1, <1>4, OtherSteps DEF HostReceives, Unplug, Plug, deviceVars, historyVars
<1>5. ASSUME NEW f \in Frames, NEW d \in Devices, HostSends(f, d)
      PROVE  IInv'
  BY <1>1, <1>5, OtherSteps DEF HostSends, deviceVars
<1>6. CASE Tick
  BY <1>1, <1>6, OtherSteps DEF Tick, deviceVars, historyVars
<1>7. CASE UNCHANGED vars
  BY <1>1, <1>7, OtherSteps DEF vars, deviceVars, historyVars
<1>8. QED
  BY <1>2, <1>3, <1>4, <1>5, <1>6, <1>7 DEF Next

-----------------------------------------------------------------------------
(* In every network, a switch knows the link through which it last heard   *)
(* from a host, and when it last saw a packet, as far back as its tables   *)
(* reach: PacketReceived adds to both tables what it accepts.              *)
THEOREM SwitchesRecall == Spec => []TablesRecall
<1>1. IInv => TablesRecall
  <2>1. Unknown \notin ForwardRecord /\ Unknown \notin Nat
    BY UnknownAssumption DEF ForwardRecord
  <2>2. QED
    BY <2>1, RepresentsRecalls DEF IInv, TablesRepresent, TablesRecall
<1>2. QED
  BY <1>1, InvInit, InvStep, PTL DEF Spec

(* In every network, loops included, a switch passes on no packet twice    *)
(* within the timeout, as far back as its table reaches.                   *)
THEOREM NoDuplicatesPassedOn == Spec => []PassedOnOnce
<1>1. IInv => PassedOnOnce
  BY DEF IInv
<1>2. QED
  BY <1>1, InvInit, InvStep, PTL DEF Spec

-----------------------------------------------------------------------------
(* One copy of a frame for a host *)

(* The paths that no link had yet are free. *)
NewPathsFree ==
  \A d \in Devices : \A p \in Paths : p >= nextPath[d] => peer[d][p] = NoOne

OneCable ==
  \A h \in Hosts : \A d, e \in Devices : HasLinkTo(h, d) /\ HasLinkTo(h, e) => d = e

(* What is under way was sent, no later than now; what was not sent yet no *)
(* host got.                                                               *)
ItemsWereSent ==
  /\ Len(sends) <= MaxSends
  /\ \A c \in Nodes \X Nodes : \A k \in 1 .. Len(wire[c]) :
       /\ wire[c][k].n \in 1 .. Len(sends)
       /\ wire[c][k].frame = sends[wire[c][k].n].frame
  /\ \A n \in 1 .. Len(sends) : sends[n].at <= now
  /\ \A h \in Hosts : \A n \in 1 .. MaxSends : n > Len(sends) => got[h][n] = 0

(* The switch accepted the frame since it was sent. *)
Passed(s, n) ==
  \E j \in 1 .. Len(accepted[s]) :
    accepted[s][j].frame = sends[n].frame /\ accepted[s][j].at >= sends[n].at

OnCable(d, h, n) == \E k \in 1 .. Len(wire[<<d, h>>]) : wire[<<d, h>>][k].n = n

(* A copy of a frame on its way to a host was passed on by the switch that *)
(* the host is linked to, and is the only one; so is the one that it got.  *)
OneCopyOf(h, n) ==
  /\ \A d \in Devices : OnCable(d, h, n) =>
       /\ d \in Switches /\ HasLinkTo(h, d) /\ Passed(d, n)
       /\ got[h][n] = 0
       /\ \A k, l \in 1 .. Len(wire[<<d, h>>]) :
            wire[<<d, h>>][k].n = n /\ wire[<<d, h>>][l].n = n => k = l
  /\ got[h][n] <= 1
  /\ got[h][n] > 0 => \E s \in Switches : HasLinkTo(h, s) /\ Passed(s, n)

OneCopy == \A h \in Hosts : \A n \in 1 .. Len(sends) : Excused(h, n) \/ OneCopyOf(h, n)

OneCopyInv == IInv /\ NewPathsFree /\ OneCable /\ ItemsWereSent /\ OneCopy

-----------------------------------------------------------------------------
(* What a step may do to the histories, the links, and the cables *)

(* Histories only grow, and what they say stays. *)
LEMMA HistoryGrows ==
  ASSUME IInv, [Next]_vars
  PROVE  /\ now \in Nat /\ now' \in Nat /\ now <= now'
         /\ Len(sends) \in Nat /\ Len(sends') \in Nat /\ Len(sends) <= Len(sends')
         /\ \A n \in 1 .. Len(sends) : sends'[n] = sends[n]
         /\ \A s \in Switches :
              /\ Len(accepted[s]) \in Nat /\ Len(accepted'[s]) \in Nat
              /\ Len(accepted[s]) <= Len(accepted'[s])
              /\ \A j \in 1 .. Len(accepted[s]) : accepted'[s][j] = accepted[s][j]
<1>0. TypeOK /\ TypeOK'
  BY TypeStep DEF IInv
<1>1. /\ now \in Nat /\ now' \in Nat /\ Len(sends) \in Nat
      /\ \A s \in Switches : Len(accepted[s]) \in Nat
  BY <1>0 DEF TypeOK
<1>2. ASSUME NEW s \in Switches, NEW p \in Paths, Accept(s, p, ~ IsDuplicate(s, Item0(s, p).frame))
      PROVE  now' = now /\ sends' = sends /\ \A t \in Switches :
               /\ Len(accepted'[t]) \in Nat /\ Len(accepted[t]) <= Len(accepted'[t])
               /\ \A j \in 1 .. Len(accepted[t]) : accepted'[t][j] = accepted[t][j]
  <2> DEFINE r == AcceptanceOf(s, p)
  <2>1. r \in Accepted /\ accepted' = [accepted EXCEPT ![s] = Append(accepted[s], r)]
    BY <1>0, <1>2, AcceptAdds
  <2> HIDE DEF r
  <2>2. accepted[s] \in Seq(Accepted) /\ accepted'[s] = Append(accepted[s], r)
        /\ \A t \in Switches \ {s} : accepted'[t] = accepted[t]
    BY <1>0, <2>1 DEF TypeOK
  <2>3. /\ Len(accepted'[s]) = Len(accepted[s]) + 1
        /\ \A j \in 1 .. Len(accepted[s]) : accepted'[s][j] = accepted[s][j]
    BY <2>1, <2>2
  <2>4. QED
    BY <1>1, <1>2, <2>2, <2>3 DEF Accept
<1>3. ASSUME NEW f \in Frames, NEW d \in Devices, HostSends(f, d)
      PROVE  /\ now' = now /\ accepted' = accepted
             /\ Len(sends') \in Nat /\ Len(sends) <= Len(sends')
             /\ \A n \in 1 .. Len(sends) : sends'[n] = sends[n]
  <2> DEFINE S == [frame: Frames, at: Nat, due: SUBSET Hosts]
             r == [frame |-> f, at |-> now, due |-> Due(f, d)]
  <2>1. sends \in Seq(S) /\ sends' = Append(sends, r)
    BY <1>0, <1>3 DEF TypeOK, HostSends
  <2> HIDE DEF S, r
  <2>2. QED
    BY <1>1, <1>3, <2>1 DEF HostSends
<1>4. CASE Tick
  BY <1>1, <1>4 DEF Tick, deviceVars, historyVars
<1>5. CASE UNCHANGED <<now, sends, accepted>>
  BY <1>1, <1>5
<1>6. ASSUME NEW s \in Switches, NEW p \in Paths, PacketReceived(s, p)
      PROVE  \/ Accept(s, p, ~ IsDuplicate(s, Item0(s, p).frame))
             \/ UNCHANGED <<now, sends, accepted>>
  BY <1>6 DEF PacketReceived, Drop, historyVars
<1>7. ASSUME NEW r \in Repeaters, NEW p \in Paths, PacketRepeated(r, p)
      PROVE  UNCHANGED <<now, sends, accepted>>
  BY <1>7 DEF PacketRepeated, historyVars
<1>8. ASSUME NEW h \in Hosts, NEW d \in Devices, HostReceives(h, d) \/ Unplug(h, d) \/ Plug(h, d)
      PROVE  UNCHANGED <<now, sends, accepted>>
  BY <1>8 DEF HostReceives, Unplug, Plug
<1>9. CASE UNCHANGED vars
  BY <1>5, <1>9 DEF vars, historyVars
<1>10. QED
  <2>1. CASE \E s \in Switches, p \in Paths : PacketReceived(s, p)
    BY <1>1, <1>2, <1>5, <1>6, <2>1
  <2>2. CASE \E r \in Repeaters, p \in Paths : PacketRepeated(r, p)
    BY <1>5, <1>7, <2>2
  <2>3. CASE \E h \in Hosts, d \in Devices : HostReceives(h, d) \/ Unplug(h, d) \/ Plug(h, d)
    BY <1>5, <1>8, <2>3
  <2>4. CASE \E f \in Frames, d \in Devices : HostSends(f, d)
    BY <1>1, <1>3, <2>4
  <2>5. QED
    BY <1>4, <1>9, <2>1, <2>2, <2>3, <2>4 DEF Next

(* A switch that passed a frame on did so for good. *)
LEMMA PassedStays ==
  ASSUME IInv, [Next]_vars, NEW s \in Switches, NEW n \in 1 .. Len(sends), Passed(s, n)
  PROVE  Passed(s, n)'
<1>1. PICK j \in 1 .. Len(accepted[s]) :
        accepted[s][j].frame = sends[n].frame /\ accepted[s][j].at >= sends[n].at
  BY DEF Passed
<1>2. j \in 1 .. Len(accepted'[s]) /\ accepted'[s][j] = accepted[s][j] /\ sends'[n] = sends[n]
  BY HistoryGrows
<1>3. QED
  BY <1>1, <1>2 DEF Passed

(* Only plugging in or unplugging a host changes which device it is linked *)
(* to, and which paths are taken.                                          *)
LEMMA LinksStay ==
  ASSUME IInv, NewPathsFree, [Next]_vars, NEW h \in Hosts, NEW d \in Devices,
         \A e \in Devices : ~ Plug(h, e) /\ ~ Unplug(h, e)
  PROVE  HasLinkTo(h, d)' <=> HasLinkTo(h, d)
<1>0. /\ peer \in [Devices -> [Paths -> Nodes \cup {NoOne}]] /\ nextPath \in [Devices -> Nat]
      /\ h # NoOne
  BY NetworkAssumption DEF IInv, TypeOK, Nodes
<1>1. CASE peer' = peer
  BY <1>1 DEF HasLinkTo
<1>2. ASSUME NEW g \in Hosts, NEW e \in Devices, Plug(g, e)
      PROVE  HasLinkTo(h, d)' <=> HasLinkTo(h, d)
  <2>1. g # h
    BY <1>2
  <2>2. peer' = [peer EXCEPT ![e] = [peer[e] EXCEPT ![nextPath[e]] = g]]
    BY <1>0, <1>2 DEF Plug
  <2>3. \A p \in Paths : p = nextPath[e] => peer[e][p] = NoOne
    BY <1>0 DEF NewPathsFree
  <2>4. \A p \in Paths : peer'[d][p] = h <=> peer[d][p] = h
    BY <1>0, <2>1, <2>2, <2>3
  <2>5. QED
    BY <2>4 DEF HasLinkTo
<1>3. ASSUME NEW g \in Hosts, NEW e \in Devices, Unplug(g, e)
      PROVE  HasLinkTo(h, d)' <=> HasLinkTo(h, d)
  <2>1. g # h
    BY <1>3
  <2>2. peer' = [peer EXCEPT ![e] = [p \in Paths |-> IF peer[e][p] = g THEN NoOne
                                                     ELSE peer[e][p]]]
    BY <1>3 DEF Unplug
  <2>3. \A p \in Paths : peer'[d][p] = h <=> peer[d][p] = h
    BY <1>0, <2>1, <2>2
  <2>4. QED
    BY <2>3 DEF HasLinkTo
<1>4. QED
  BY <1>1, <1>2, <1>3
  DEF Next, PacketReceived, Drop, Accept, PacketRepeated, HostReceives, HostSends, Tick, vars,
      deviceVars, historyVars

(* Only unplugging a host makes what switches learned of it stale. *)
LEMMA StaleStays ==
  ASSUME [Next]_vars, \A h \in Hosts, d \in Devices : ~ Unplug(h, d)
  PROVE  staleUntil' = staleUntil
<1>1. ASSUME NEW s \in Switches, NEW p \in Paths, PacketReceived(s, p)
      PROVE  staleUntil' = staleUntil
  BY <1>1 DEF PacketReceived, Drop, Accept, historyVars
<1>2. ASSUME NEW r \in Repeaters, NEW p \in Paths, PacketRepeated(r, p)
      PROVE  staleUntil' = staleUntil
  BY <1>2 DEF PacketRepeated, historyVars
<1>3. ASSUME NEW h \in Hosts, NEW d \in Devices, HostReceives(h, d) \/ Plug(h, d)
      PROVE  staleUntil' = staleUntil
  BY <1>3 DEF HostReceives, Plug
<1>4. ASSUME NEW f \in Frames, NEW d \in Devices, HostSends(f, d)
      PROVE  staleUntil' = staleUntil
  BY <1>4 DEF HostSends
<1>5. CASE Tick \/ UNCHANGED vars
  BY <1>5 DEF Tick, vars, historyVars
<1>6. QED
  BY <1>1, <1>2, <1>3, <1>4, <1>5 DEF Next

(* What excuses a second copy goes on excusing it. *)
LEMMA ExcusedStays ==
  ASSUME IInv, NewPathsFree, ItemsWereSent, [Next]_vars,
         NEW h \in Hosts, NEW n \in 1 .. Len(sends), Excused(h, n)
  PROVE  Excused(h, n)'
<1>1. /\ now \in Nat /\ now' \in Nat /\ now <= now' /\ sends'[n] = sends[n]
      /\ \A s \in Switches : /\ Len(accepted[s]) \in Nat /\ Len(accepted'[s]) \in Nat
                             /\ Len(accepted[s]) <= Len(accepted'[s])
  BY HistoryGrows
<1>2. sends[n].at \in Nat /\ sends[n].at <= now
  <2> DEFINE S == [frame: Frames, at: Nat, due: SUBSET Hosts]
  <2>1. sends \in Seq(S)
    BY DEF IInv, TypeOK
  <2> HIDE DEF S
  <2>2. sends[n] \in S
    BY <2>1
  <2>3. QED
    BY <2>2 DEF S, ItemsWereSent
<1>3. DuplicateTimeout \in Nat /\ ForwardTimeout \in Nat /\ MaxTableSize \in Nat
  BY NetworkAssumption, TableSizeAssumption
<1>4. CASE now - sends[n].at >= DuplicateTimeout
  BY <1>1, <1>2, <1>3, <1>4 DEF Excused
<1>5. CASE \E s \in Switches : Len(accepted[s]) > MaxTableSize + 1
  BY <1>1, <1>3, <1>5 DEF Excused
<1>6. ASSUME NEW d \in Devices, Unplug(h, d)
      PROVE  Excused(h, n)'
  <2>1. staleUntil'[h] = now + ForwardTimeout + 1
    BY <1>6 DEF Unplug, IInv, TypeOK
  <2>2. QED
    BY <1>1, <1>2, <1>3, <2>1 DEF Excused, MovedSince
<1>7. CASE \A e \in Devices : ~ Unplug(h, e)
  <2>1. staleUntil'[h] = staleUntil[h]
    <3>1. ASSUME NEW g \in Hosts, NEW d \in Devices, Unplug(g, d)
          PROVE  staleUntil'[h] = staleUntil[h]
      <4>1. g # h
        BY <1>7, <3>1
      <4>2. QED
        BY <3>1, <4>1 DEF Unplug, IInv, TypeOK
    <3>2. QED
      BY <3>1, StaleStays
  <2>2. CASE MovedSince(h, n)
    BY <1>1, <2>1, <2>2 DEF Excused, MovedSince
  <2>3. CASE \E r \in Repeaters : HasLinkTo(h, r)
    <3>1. PICK r \in Repeaters : HasLinkTo(h, r)
      BY <2>3
    <3>2. r \in Devices
      BY DEF Devices
    <3>3. \A e \in Devices : ~ Plug(h, e)
      BY <3>1, <3>2 DEF Plug, Plugged
    <3>4. HasLinkTo(h, r)'
      BY <1>7, <3>1, <3>2, <3>3, LinksStay
    <3>5. QED
      BY <3>4 DEF Excused
  <2>4. QED
    BY <1>4, <1>5, <2>2, <2>3 DEF Excused
<1>8. QED
  BY <1>6, <1>7

-----------------------------------------------------------------------------
(* Links *)

(* At most one device has a link to a host, and a new path is a free one. *)
LEMMA LinksStep ==
  ASSUME IInv, NewPathsFree, OneCable, [Next]_vars
  PROVE  NewPathsFree' /\ OneCable'
<1>0. /\ peer \in [Devices -> [Paths -> Nodes \cup {NoOne}]] /\ nextPath \in [Devices -> Nat]
      /\ \A h \in Hosts : h # NoOne
      /\ \A p \in Paths : p \in Nat
  <2>1. \A p \in Paths : p \in Nat
    BY DEF Paths
  <2>2. QED
    BY <2>1, NetworkAssumption DEF IInv, TypeOK, Nodes
<1>1. OneCable'
  <2> SUFFICES ASSUME NEW h \in Hosts, NEW d \in Devices, NEW e \in Devices,
                      HasLinkTo(h, d)', HasLinkTo(h, e)'
               PROVE  d = e
    BY DEF OneCable
  <2>1. CASE \A c \in Devices : ~ Plug(h, c) /\ ~ Unplug(h, c)
    BY <2>1, LinksStay DEF OneCable
  <2>2. ASSUME NEW c \in Devices, Plug(h, c)
        PROVE  d = e
    <3>1. \A b \in Devices : ~ HasLinkTo(h, b)
      BY <2>2 DEF Plug, Plugged
    <3>2. peer' = [peer EXCEPT ![c] = [peer[c] EXCEPT ![nextPath[c]] = h]]
      BY <1>0, <2>2 DEF Plug
    <3>3. \A b \in Devices \ {c} : ~ HasLinkTo(h, b)'
      BY <1>0, <3>1, <3>2 DEF HasLinkTo
    <3>4. QED
      BY <3>3
  <2>3. ASSUME NEW c \in Devices, Unplug(h, c)
        PROVE  d = e
    <3>1. \A b \in Devices \ {c} : ~ HasLinkTo(h, b)
      BY <2>3 DEF Unplug, OneCable
    <3>2. peer' = [peer EXCEPT ![c] = [p \in Paths |-> IF peer[c][p] = h THEN NoOne
                                                       ELSE peer[c][p]]]
      BY <2>3 DEF Unplug
    <3>3. \A b \in Devices \ {c} : ~ HasLinkTo(h, b)'
      BY <1>0, <3>1, <3>2 DEF HasLinkTo
    <3>4. QED
      BY <3>3
  <2>4. QED
    BY <2>1, <2>2, <2>3
<1>2. NewPathsFree'
  <2>1. CASE UNCHANGED <<peer, nextPath>>
    BY <2>1 DEF NewPathsFree
  <2>2. ASSUME NEW h \in Hosts, NEW d \in Devices, Plug(h, d)
        PROVE  NewPathsFree'
    <3>1. /\ peer' = [peer EXCEPT ![d] = [peer[d] EXCEPT ![nextPath[d]] = h]]
          /\ nextPath' = [nextPath EXCEPT ![d] = nextPath[d] + 1]
      BY <1>0, <2>2 DEF Plug
    <3>2. ASSUME NEW e \in Devices, NEW p \in Paths, p >= nextPath'[e]
          PROVE  peer'[e][p] = NoOne
      <4>1. nextPath[e] \in Nat /\ p \in Nat
        BY <1>0
      <4>2. CASE e = d
        <5>1. nextPath'[d] = nextPath[d] + 1
          BY <1>0, <3>1
        <5>2. p # nextPath[d] /\ p >= nextPath[d]
          BY <3>2, <4>1, <4>2, <5>1
        <5>3. peer'[d][p] = peer[d][p]
          BY <1>0, <3>1, <5>2
        <5>4. QED
          BY <4>2, <5>2, <5>3 DEF NewPathsFree
      <4>3. CASE e # d
        BY <1>0, <3>1, <3>2, <4>3 DEF NewPathsFree
      <4>4. QED
        BY <4>2, <4>3
    <3>3. QED
      BY <3>2 DEF NewPathsFree
  <2>3. ASSUME NEW h \in Hosts, NEW d \in Devices, Unplug(h, d)
        PROVE  NewPathsFree'
    <3>1. /\ peer' = [peer EXCEPT ![d] = [p \in Paths |-> IF peer[d][p] = h THEN NoOne
                                                          ELSE peer[d][p]]]
          /\ nextPath' = nextPath
      BY <2>3 DEF Unplug
    <3>2. ASSUME NEW e \in Devices, NEW p \in Paths, p >= nextPath[e]
          PROVE  peer'[e][p] = NoOne
      <4>1. peer[e][p] = NoOne
        BY <3>2 DEF NewPathsFree
      <4>2. QED
        BY <1>0, <3>1, <4>1
    <3>3. QED
      BY <3>1, <3>2 DEF NewPathsFree
  <2>4. ASSUME NEW s \in Switches, NEW p \in Paths, PacketReceived(s, p)
        PROVE  NewPathsFree'
    BY <2>1, <2>4 DEF PacketReceived, Drop, Accept, deviceVars
  <2>5. ASSUME NEW r \in Repeaters, NEW p \in Paths, PacketRepeated(r, p)
        PROVE  NewPathsFree'
    BY <2>1, <2>5 DEF PacketRepeated, deviceVars
  <2>6. ASSUME NEW h \in Hosts, NEW d \in Devices, HostReceives(h, d)
        PROVE  NewPathsFree'
    BY <2>1, <2>6 DEF HostReceives, deviceVars
  <2>7. ASSUME NEW f \in Frames, NEW d \in Devices, HostSends(f, d)
        PROVE  NewPathsFree'
    BY <2>1, <2>7 DEF HostSends, deviceVars
  <2>8. CASE Tick \/ UNCHANGED vars
    BY <2>1, <2>8 DEF Tick, vars, deviceVars
  <2>9. QED
    BY <2>2, <2>3, <2>4, <2>5, <2>6, <2>7, <2>8 DEF Next
<1>3. QED
  BY <1>1, <1>2

-----------------------------------------------------------------------------
(* Items on the cables *)

(* Forwarding puts nothing on a cable but the item that arrived. *)
LEMMA ForwardedItems ==
  ASSUME IInv, NEW d \in Devices, NEW p \in Paths, NEW out, Arrives(d, p), Forwarded(d, p, out),
         NEW c \in Nodes \X Nodes, NEW k \in 1 .. Len(wire'[c])
  PROVE  \E b \in Nodes \X Nodes : \E l \in 1 .. Len(wire[b]) : wire'[c][k] = wire[b][l]
<1> DEFINE from == <<peer[d][p], d>>
<1>1. /\ from \in Nodes \X Nodes /\ wire[from] \in Seq(Item) /\ wire[c] \in Seq(Item)
      /\ wire[from] # <<>>
  BY ArrivingItem DEF IInv, TypeOK, Arrives
<1>2. 1 \in 1 .. Len(wire[from]) /\ Item0(d, p) = wire[from][1]
  BY <1>1 DEF Item0
<1>3. \/ c = from /\ wire'[c] = Tail(wire[c])
      \/ wire'[c] = Append(wire[c], Item0(d, p))
      \/ wire'[c] = wire[c]
  BY DEF Forwarded
<1> HIDE DEF from
<1>4. CASE c = from /\ wire'[c] = Tail(wire[c])
  <2>1. k + 1 \in 1 .. Len(wire[c]) /\ wire'[c][k] = wire[c][k + 1]
    BY <1>1, <1>4
  <2>2. QED
    BY <2>1
<1>5. CASE wire'[c] = Append(wire[c], Item0(d, p))
  <2>1. CASE k = Len(wire[c]) + 1
    <3>1. wire'[c][k] = Item0(d, p)
      BY <1>1, <1>5, <2>1
    <3>2. QED
      BY <1>1, <1>2, <3>1
  <2>2. CASE k # Len(wire[c]) + 1
    <3>1. k \in 1 .. Len(wire[c]) /\ wire'[c][k] = wire[c][k]
      BY <1>1, <1>5, <2>2
    <3>2. QED
      BY <3>1
  <2>3. QED
    BY <2>1, <2>2
<1>6. CASE wire'[c] = wire[c]
  BY <1>6
<1>7. QED
  BY <1>3, <1>4, <1>5, <1>6

(* What forwarding changes on the cables to hosts *)
LEMMA ForwardedToHosts ==
  ASSUME IInv, NEW d \in Devices, NEW p \in Paths, NEW out \in SUBSET Paths,
         Arrives(d, p), Forwarded(d, p, out), NEW e \in Devices, NEW h \in Hosts
  PROVE  \/ wire'[<<e, h>>] = wire[<<e, h>>]
         \/ /\ e = d /\ HasLinkTo(h, d) /\ out # {}
            /\ wire'[<<e, h>>] = Append(wire[<<e, h>>], Item0(d, p))
<1>1. <<e, h>> \in Nodes \X Nodes /\ h \notin Devices
  BY NetworkAssumption DEF Nodes
<1>2. <<e, h>> # <<peer[d][p], d>>
  BY <1>1
<1>3. CASE wire'[<<e, h>>] = wire[<<e, h>>]
  BY <1>3
<1>4. CASE wire'[<<e, h>>] # wire[<<e, h>>]
  <2>1. /\ \E q \in out \ {p} : peer[d][q] # NoOne /\ <<e, h>> = <<d, peer[d][q]>>
        /\ wire'[<<e, h>>] = Append(wire[<<e, h>>], Item0(d, p))
    BY <1>1, <1>2, <1>4 DEF Forwarded
  <2>2. PICK q \in out \ {p} : <<e, h>> = <<d, peer[d][q]>>
    BY <2>1
  <2>3. e = d /\ peer[d][q] = h /\ out # {}
    BY <2>2
  <2>4. QED
    BY <2>1, <2>3 DEF HasLinkTo
<1>5. QED
  BY <1>3, <1>4

(* A switch forwards to paths that links may have. *)
LEMMA DestinationsArePaths ==
  ASSUME NEW s \in Switches, NEW table \in Table(Addresses, ForwardRecord), NEW a \in Addresses
  PROVE  Destinations(s, table, a) \subseteq Paths
<1>1. GetEntry(table, a) = Unknown \/ GetEntry(table, a) \in ForwardRecord
  BY DEF GetEntry, Table
<1>2. QED
  BY <1>1 DEF Destinations, LinkPaths, ForwardRecord

(* What a switch that accepts an item changes on the cables to hosts *)
LEMMA AcceptedToHosts ==
  ASSUME IInv, TypeOK', NEW s \in Switches, NEW p \in Paths, NEW fresh, Accept(s, p, fresh),
         NEW e \in Devices, NEW h \in Hosts
  PROVE  \/ wire'[<<e, h>>] = wire[<<e, h>>]
         \/ /\ e = s /\ HasLinkTo(h, s)
            /\ wire'[<<e, h>>] = Append(wire[<<e, h>>], Item0(s, p))
<1> DEFINE f == Item0(s, p).frame
           table == AddEntry(forward[s], f.src, [path |-> p, at |-> now])
           out == Destinations(s, table, f.dst)
<1>1. s \in Devices /\ Arrives(s, p) /\ Forwarded(s, p, out)
  BY DEF Accept, Devices
<1>2. f.dst \in Addresses
  <2>1. f \in Frames
    BY <1>1, ArrivingItem DEF IInv
  <2> HIDE DEF f
  <2>2. QED
    BY <2>1, NetworkAssumption
<1>3. table \in Table(Addresses, ForwardRecord)
  <2>1. forward' = [forward EXCEPT ![s] = table]
    BY DEF Accept
  <2> HIDE DEF table
  <2>2. forward'[s] = table
    BY <2>1 DEF IInv, TypeOK
  <2>3. QED
    BY <2>2 DEF TypeOK
<1> HIDE DEF table, f
<1>4. out \in SUBSET Paths
  BY <1>2, <1>3, DestinationsArePaths
<1> HIDE DEF out
<1>5. QED
  BY <1>1, <1>4, ForwardedToHosts

(* Every item under way was sent. *)
LEMMA ItemsStep ==
  ASSUME IInv, ItemsWereSent, [Next]_vars
  PROVE  ItemsWereSent'
<1> DEFINE Was(c, k) == \E b \in Nodes \X Nodes : \E l \in 1 .. Len(wire[b]) : wire'[c][k] = wire[b][l]
<1>0. TypeOK /\ TypeOK' /\ MaxSends \in Nat
  BY TypeStep, NetworkAssumption DEF IInv
<1>1. /\ now \in Nat /\ now' \in Nat /\ now <= now'
      /\ Len(sends) \in Nat /\ Len(sends') \in Nat /\ Len(sends) <= Len(sends')
      /\ \A n \in 1 .. Len(sends) : sends'[n] = sends[n]
  BY HistoryGrows
<1>2. \A n \in 1 .. Len(sends) : sends[n].at \in Nat /\ sends[n].at <= now
  <2> DEFINE S == [frame: Frames, at: Nat, due: SUBSET Hosts]
  <2>1. sends \in Seq(S)
    BY <1>0 DEF TypeOK
  <2> HIDE DEF S
  <2>2. \A n \in 1 .. Len(sends) : sends[n] \in S
    BY <2>1
  <2>3. QED
    BY <2>2 DEF S, ItemsWereSent
(* Steps that only move items, or drop them *)
<1>3. ASSUME sends' = sends, got' = got,
             \A c \in Nodes \X Nodes : \A k \in 1 .. Len(wire'[c]) : Was(c, k)
      PROVE  ItemsWereSent'
  <2>1. ASSUME NEW c \in Nodes \X Nodes, NEW k \in 1 .. Len(wire'[c])
        PROVE  /\ wire'[c][k].n \in 1 .. Len(sends)
               /\ wire'[c][k].frame = sends[wire'[c][k].n].frame
    <3>1. Was(c, k)
      BY <1>3, <2>1
    <3>2. PICK b \in Nodes \X Nodes : \E l \in 1 .. Len(wire[b]) : wire'[c][k] = wire[b][l]
      BY <3>1
    <3>3. PICK l \in 1 .. Len(wire[b]) : wire'[c][k] = wire[b][l]
      BY <3>2
    <3>4. /\ wire[b][l].n \in 1 .. Len(sends)
          /\ wire[b][l].frame = sends[wire[b][l].n].frame
      BY Zenon DEF ItemsWereSent
    <3>5. QED
      BY <3>3, <3>4, Zenon
  <2>2. \A n \in 1 .. Len(sends) : sends[n].at <= now'
    BY <1>1, <1>2
  <2>3. QED
    BY <1>3, <2>1, <2>2 DEF ItemsWereSent
<1>4. ASSUME NEW d \in Devices, NEW p \in Paths, NEW out, Arrives(d, p), Forwarded(d, p, out),
             sends' = sends, got' = got
      PROVE  ItemsWereSent'
  BY <1>3, <1>4, ForwardedItems
<1>5. CASE UNCHANGED <<wire, sends, got>>
  BY <1>3, <1>5
<1>6. ASSUME NEW h \in Hosts, NEW d \in Devices, HostReceives(h, d)
      PROVE  ItemsWereSent'
  <2> DEFINE w == wire[<<d, h>>]
             i == Head(w)
  <2>1. <<d, h>> \in Nodes \X Nodes /\ w \in Seq(Item) /\ w # <<>>
    BY <1>0, <1>6 DEF HostReceives, TypeOK, Nodes
  <2>2. /\ wire' = [wire EXCEPT ![<<d, h>>] = Tail(w)]
        /\ \/ got' = [got EXCEPT ![h] = [got[h] EXCEPT ![i.n] = got[h][i.n] + 1]]
           \/ got' = got
        /\ sends' = sends /\ now' = now
    BY <1>0, <1>6 DEF HostReceives, TypeOK
  <2>3. ASSUME NEW c \in Nodes \X Nodes, NEW k \in 1 .. Len(wire'[c])
        PROVE  Was(c, k)
    <3>1. CASE c = <<d, h>>
      <4>1. wire'[c] = Tail(w)
        BY <1>0, <2>1, <2>2, <3>1 DEF TypeOK
      <4>2. k + 1 \in 1 .. Len(w) /\ wire'[c][k] = w[k + 1]
        BY <2>1, <4>1
      <4>3. QED
        BY <2>1, <4>2
    <3>2. CASE c # <<d, h>>
      BY <1>0, <2>2, <3>2 DEF TypeOK
    <3>3. QED
      BY <3>1, <3>2
  <2>4. \A g \in Hosts, n \in 1 .. MaxSends : n > Len(sends) => got'[g][n] = 0
    <3>1. i.n \in 1 .. Len(sends)
      <4>1. 1 \in 1 .. Len(w) /\ i = w[1]
        BY <2>1
      <4>2. QED
        BY <2>1, <4>1 DEF ItemsWereSent
    <3> HIDE DEF i, w
    <3>2. ASSUME NEW g \in Hosts, NEW n \in 1 .. MaxSends, n > Len(sends)
          PROVE  got'[g][n] = got[g][n]
      <4>1. i.n # n
        BY <1>1, <3>1, <3>2
      <4>2. got \in [Hosts -> [1 .. MaxSends -> Nat]]
        BY <1>0 DEF TypeOK
      <4>3. QED
        BY <2>2, <4>1, <4>2, ZenonT(40)
    <3>3. QED
      BY <3>2 DEF ItemsWereSent
  <2>5. ASSUME NEW c \in Nodes \X Nodes, NEW k \in 1 .. Len(wire'[c])
        PROVE  /\ wire'[c][k].n \in 1 .. Len(sends)
               /\ wire'[c][k].frame = sends[wire'[c][k].n].frame
    <3> HIDE DEF i, w
    <3>1. PICK b \in Nodes \X Nodes : \E l \in 1 .. Len(wire[b]) : wire'[c][k] = wire[b][l]
      BY <2>3
    <3>2. PICK l \in 1 .. Len(wire[b]) : wire'[c][k] = wire[b][l]
      BY <3>1
    <3>3. QED
      BY <3>2 DEF ItemsWereSent
  <2> HIDE DEF i, w
  <2>6. QED
    BY <1>2, <2>2, <2>4, <2>5, SMTT(30) DEF ItemsWereSent
<1>7. ASSUME NEW f \in Frames, NEW d \in Devices, HostSends(f, d)
      PROVE  ItemsWereSent'
  <2> DEFINE i == [frame |-> f, n |-> Len(sends) + 1]
             r == [frame |-> f, at |-> now, due |-> Due(f, d)]
             w == <<f.src, d>>
             S == [frame: Frames, at: Nat, due: SUBSET Hosts]
  <2>1. i.n = Len(sends) + 1 /\ i.frame = f /\ i \in Item /\ r.frame = f /\ r.at = now
    BY <1>1 DEF Item
  <2>2. w \in Nodes \X Nodes
    BY NetworkAssumption DEF Nodes
  <2>3. /\ sends' = Append(sends, r) /\ wire' = [wire EXCEPT ![w] = Append(wire[w], i)]
        /\ got' = got /\ now' = now
    BY <1>7 DEF HostSends
  <2>4. sends \in Seq(S) /\ wire \in [Nodes \X Nodes -> Seq(Item)]
    BY <1>0 DEF TypeOK
  <2> HIDE DEF i, r, w, S
  <2>5. /\ Len(sends') = Len(sends) + 1 /\ sends'[Len(sends) + 1] = r
        /\ \A n \in 1 .. Len(sends) : sends'[n] = sends[n]
    BY <1>1, <2>3, <2>4
  <2>6. ASSUME NEW c \in Nodes \X Nodes, NEW k \in 1 .. Len(wire'[c])
        PROVE  Was(c, k) \/ wire'[c][k] = i
    <3>1. CASE c = w
      <4>1. wire[w] \in Seq(Item) /\ wire'[c] = Append(wire[w], i)
        BY <2>2, <2>3, <2>4, <3>1
      <4>2. \/ wire'[c][k] = i
            \/ k \in 1 .. Len(wire[w]) /\ wire'[c][k] = wire[w][k]
        BY <2>1, <4>1
      <4>3. QED
        BY <2>2, <4>2
    <3>2. CASE c # w
      BY <2>3, <2>4, <3>2
    <3>3. QED
      BY <3>1, <3>2
  <2>7. ASSUME NEW c \in Nodes \X Nodes, NEW k \in 1 .. Len(wire'[c])
        PROVE  /\ wire'[c][k].n \in 1 .. Len(sends')
               /\ wire'[c][k].frame = sends'[wire'[c][k].n].frame
    <3>1. CASE wire'[c][k] = i
      BY <1>1, <2>1, <2>5, <3>1
    <3>2. CASE Was(c, k)
      <4>1. /\ wire'[c][k].n \in 1 .. Len(sends)
            /\ wire'[c][k].frame = sends[wire'[c][k].n].frame
        BY <3>2 DEF ItemsWereSent
      <4>2. QED
        BY <1>1, <2>5, <4>1, SMTT(30)
    <3>3. QED
      BY <2>6, <3>1, <3>2
  <2>8. \A n \in 1 .. Len(sends') : sends'[n].at <= now'
    <3> SUFFICES ASSUME NEW n \in 1 .. Len(sends') PROVE sends'[n].at <= now'
      OBVIOUS
    <3>1. CASE n = Len(sends) + 1
      BY <1>1, <2>1, <2>3, <2>5, <3>1
    <3>2. CASE n # Len(sends) + 1
      <4>1. n \in 1 .. Len(sends)
        BY <1>1, <2>5, <3>2
      <4>2. QED
        BY <1>1, <1>2, <4>1
    <3>3. QED
      BY <3>1, <3>2
  <2>9. \A h \in Hosts : \A n \in 1 .. MaxSends : n > Len(sends') => got'[h][n] = 0
    BY <1>1, <2>3, <2>5 DEF ItemsWereSent
  <2>10. Len(sends') <= MaxSends
    BY <1>0, <1>1, <1>7, <2>5 DEF HostSends
  <2>11. QED
    BY <2>7, <2>8, <2>9, <2>10 DEF ItemsWereSent
<1>8. ASSUME NEW h \in Hosts, NEW d \in Devices, Unplug(h, d)
      PROVE  ItemsWereSent'
  <2>1. /\ wire' = [wire EXCEPT ![<<h, d>>] = <<>>] /\ sends' = sends /\ got' = got
    BY <1>8 DEF Unplug
  <2>2. ASSUME NEW c \in Nodes \X Nodes, NEW k \in 1 .. Len(wire'[c])
        PROVE  Was(c, k)
    <3>1. wire'[c] = <<>> \/ wire'[c] = wire[c]
      BY <1>0, <2>1 DEF TypeOK
    <3>2. QED
      BY <3>1
  <2>3. QED
    BY <1>3, <2>1, <2>2
<1>9. ASSUME NEW s \in Switches, NEW p \in Paths, PacketReceived(s, p)
      PROVE  ItemsWereSent'
  BY <1>4, <1>9 DEF PacketReceived, Drop, Accept, historyVars, Devices
<1>10. ASSUME NEW r \in Repeaters, NEW p \in Paths, PacketRepeated(r, p)
      PROVE  ItemsWereSent'
  BY <1>4, <1>10 DEF PacketRepeated, historyVars, Devices
<1>11. ASSUME NEW h \in Hosts, NEW d \in Devices, Plug(h, d)
       PROVE  ItemsWereSent'
  BY <1>5, <1>11 DEF Plug
<1>12. CASE Tick \/ UNCHANGED vars
  BY <1>5, <1>12 DEF Tick, vars, historyVars
<1>13. QED
  BY <1>6, <1>7, <1>8, <1>9, <1>10, <1>11, <1>12 DEF Next

-----------------------------------------------------------------------------
(* At most one copy *)

(* A step that neither changes the cables to a host, nor what it got, nor  *)
(* its links, makes no copies for it.                                      *)
LEMMA NoNewCopies ==
  ASSUME IInv, [Next]_vars, NEW h \in Hosts, NEW n \in 1 .. Len(sends), OneCopyOf(h, n),
         \A d \in Devices : wire'[<<d, h>>] = wire[<<d, h>>],
         \A d \in Devices : HasLinkTo(h, d) => HasLinkTo(h, d)',
         got'[h][n] = got[h][n]
  PROVE  OneCopyOf(h, n)'
<1>1. \A s \in Switches : Passed(s, n) => Passed(s, n)'
  BY PassedStays
<1>2. ASSUME NEW d \in Devices, OnCable(d, h, n)'
      PROVE  /\ d \in Switches /\ HasLinkTo(h, d)' /\ Passed(d, n)'
             /\ got'[h][n] = 0
             /\ \A k, l \in 1 .. Len(wire'[<<d, h>>]) :
                  wire'[<<d, h>>][k].n = n /\ wire'[<<d, h>>][l].n = n => k = l
  <2>1. OnCable(d, h, n) /\ wire'[<<d, h>>] = wire[<<d, h>>]
    BY <1>2 DEF OnCable
  <2>2. d \in Switches /\ HasLinkTo(h, d) /\ Passed(d, n) /\ got[h][n] = 0
    BY <2>1 DEF OneCopyOf
  <2>3. \A k, l \in 1 .. Len(wire[<<d, h>>]) :
          wire[<<d, h>>][k].n = n /\ wire[<<d, h>>][l].n = n => k = l
    BY <2>1 DEF OneCopyOf
  <2>4. QED
    BY <1>1, <2>1, <2>2, <2>3
<1>3. got'[h][n] <= 1 /\ (got'[h][n] > 0 => \E s \in Switches : HasLinkTo(h, s)' /\ Passed(s, n)')
  <2>1. got[h][n] <= 1 /\ (got[h][n] > 0 => \E s \in Switches : HasLinkTo(h, s) /\ Passed(s, n))
    BY DEF OneCopyOf
  <2>2. QED
    BY <1>1, <2>1 DEF Devices
<1>4. QED
  BY <1>2, <1>3 DEF OneCopyOf

(* A switch that accepts a frame again since it was sent does so later     *)
(* than the timeout or with a table that was full.                         *)
LEMMA PassedOnce ==
  ASSUME IInv, IInv', ItemsWereSent, [Next]_vars, NEW s \in Switches, NEW p \in Paths,
         Accept(s, p, ~ IsDuplicate(s, Item0(s, p).frame)),
         NEW h \in Hosts, NEW n \in 1 .. Len(sends), Item0(s, p).n = n
  PROVE  /\ Passed(s, n)'
         /\ Passed(s, n) => Excused(h, n)'
<1> DEFINE r == AcceptanceOf(s, p)
           L == Len(accepted[s])
<1>1. /\ r \in Accepted /\ r.at = now /\ r.frame = Item0(s, p).frame
      /\ accepted' = [accepted EXCEPT ![s] = Append(accepted[s], r)]
  BY AcceptAdds DEF IInv
<1>2. /\ Item0(s, p).frame = sends[n].frame /\ sends[n].at \in Nat /\ sends[n].at <= now
      /\ now \in Nat /\ now' = now /\ sends' = sends
  <2> DEFINE w == wire[<<peer[s][p], s>>]
             S == [frame: Frames, at: Nat, due: SUBSET Hosts]
  <2>1. /\ <<peer[s][p], s>> \in Nodes \X Nodes /\ w \in Seq(Item) /\ w # <<>> /\ sends \in Seq(S)
        /\ now \in Nat /\ now' = now /\ sends' = sends /\ Item0(s, p) = Head(w)
    BY ArrivingItem DEF IInv, TypeOK, Accept, Arrives, Devices, Item0
  <2> HIDE DEF w, S
  <2>2. 1 \in 1 .. Len(w) /\ Item0(s, p) = w[1] /\ sends[n] \in S
    BY <2>1
  <2>3. Item0(s, p).frame = sends[n].frame /\ sends[n].at <= now
    BY <2>1, <2>2 DEF ItemsWereSent, w
  <2>4. sends[n].at \in Nat
    BY <2>2 DEF S
  <2>5. QED
    BY <2>1, <2>3, <2>4
<1> HIDE DEF r
<1>3. /\ L \in Nat /\ Len(accepted'[s]) = L + 1 /\ accepted'[s][L + 1] = r
      /\ \A i \in 1 .. L : accepted'[s][i] = accepted[s][i]
      /\ \A i \in 1 .. L : accepted[s][i].at \in Nat
  <2>1. accepted[s] \in Seq(Accepted) /\ accepted'[s] = Append(accepted[s], r)
    BY <1>1 DEF IInv, TypeOK
  <2>2. /\ L \in Nat /\ Len(accepted'[s]) = L + 1 /\ accepted'[s][L + 1] = r
        /\ \A i \in 1 .. L : accepted'[s][i] = accepted[s][i] /\ accepted[s][i] \in Accepted
    BY <1>1, <2>1
  <2>3. QED
    BY <2>2 DEF Accepted
<1>4. Passed(s, n)'
  <2>1. L + 1 \in 1 .. Len(accepted'[s])
    BY <1>3
  <2>2. accepted'[s][L + 1].frame = sends'[n].frame /\ accepted'[s][L + 1].at >= sends'[n].at
    BY <1>1, <1>2, <1>3
  <2>3. QED
    BY <2>1, <2>2 DEF Passed
<1>5. ASSUME Passed(s, n)
      PROVE  Excused(h, n)'
  <2>1. PICK j \in 1 .. L :
          accepted[s][j].frame = sends[n].frame /\ accepted[s][j].at >= sends[n].at
    BY <1>5 DEF Passed
  <2>2. /\ j \in 1 .. Len(accepted'[s]) /\ L + 1 \in 1 .. Len(accepted'[s]) /\ j < L + 1
        /\ accepted'[s][j].frame = accepted'[s][L + 1].frame
        /\ accepted'[s][j].at = accepted[s][j].at /\ accepted'[s][L + 1].at = now
    BY <1>1, <1>2, <1>3, <2>1
  <2>3. \/ now - accepted[s][j].at >= DuplicateTimeout
        \/ L + 1 - j > MaxTableSize + 1
    <3>1. PassedOnOnce'
      BY DEF IInv
    <3>2. \A a, b \in 1 .. Len(accepted'[s]) :
            a < b /\ accepted'[s][a].frame = accepted'[s][b].frame =>
              \/ accepted'[s][b].at - accepted'[s][a].at >= DuplicateTimeout
              \/ b - a > MaxTableSize + 1
      BY <3>1 DEF PassedOnOnce
    <3>3. \/ accepted'[s][L + 1].at - accepted'[s][j].at >= DuplicateTimeout
          \/ L + 1 - j > MaxTableSize + 1
      BY <2>2, <3>2, SMTT(30)
    <3>4. QED
      BY <2>2, <3>3
  <2>4. DuplicateTimeout \in Nat /\ MaxTableSize \in Nat
    BY NetworkAssumption, TableSizeAssumption
  <2>5. CASE now - accepted[s][j].at >= DuplicateTimeout
    <3>1. now' - sends'[n].at >= DuplicateTimeout
      BY <1>2, <1>3, <2>1, <2>4, <2>5, SMTT(30)
    <3>2. QED
      BY <3>1 DEF Excused
  <2>6. CASE L + 1 - j > MaxTableSize + 1
    <3>1. Len(accepted'[s]) > MaxTableSize + 1
      BY <1>3, <2>1, <2>4, <2>6
    <3>2. QED
      BY <3>1 DEF Excused
  <2>7. QED
    BY <2>3, <2>5, <2>6
<1>6. QED
  BY <1>4, <1>5

LEMMA AcceptCopies ==
  ASSUME IInv, IInv', NewPathsFree, OneCable, ItemsWereSent, [Next]_vars,
         NEW s \in Switches, NEW p \in Paths, Accept(s, p, ~ IsDuplicate(s, Item0(s, p).frame)),
         NEW h \in Hosts, NEW n \in 1 .. Len(sends), OneCopyOf(h, n), ~ Excused(h, n)'
  PROVE  OneCopyOf(h, n)'
<1> DEFINE w == wire[<<s, h>>]
           i == Item0(s, p)
<1>1. /\ s \in Devices /\ got' = got /\ <<s, h>> \in Nodes \X Nodes /\ w \in Seq(Item)
      /\ got[h][n] \in Nat
  <2>1. n \in 1 .. MaxSends
    BY NetworkAssumption DEF ItemsWereSent, IInv, TypeOK
  <2>2. s \in Devices /\ <<s, h>> \in Nodes \X Nodes /\ got' = got
    BY DEF Accept, Devices, Nodes
  <2>3. wire \in [Nodes \X Nodes -> Seq(Item)] /\ got \in [Hosts -> [1 .. MaxSends -> Nat]]
    BY DEF IInv, TypeOK
  <2>4. QED
    BY <2>1, <2>2, <2>3
<1>2. \A d \in Devices : HasLinkTo(h, d)' <=> HasLinkTo(h, d)
  BY DEF Accept, HasLinkTo
<1>3. \A d \in Devices : wire'[<<d, h>>] = wire[<<d, h>>] \/ d = s
  BY AcceptedToHosts DEF IInv
<1>4. CASE wire'[<<s, h>>] = w
  BY <1>1, <1>2, <1>3, <1>4, NoNewCopies
<1>5. CASE wire'[<<s, h>>] # w
  <2>1. HasLinkTo(h, s) /\ wire'[<<s, h>>] = Append(w, i)
    BY <1>1, <1>5, AcceptedToHosts DEF IInv
  <2> HIDE DEF w, i
  <2>2. i \in Item
    BY ArrivingItem DEF i, Accept, Devices, IInv
  <2>3. /\ Len(w) \in Nat /\ Len(wire'[<<s, h>>]) = Len(w) + 1 /\ wire'[<<s, h>>][Len(w) + 1] = i
        /\ \A k \in 1 .. Len(w) : wire'[<<s, h>>][k] = w[k]
    BY <1>1, <2>1, <2>2
  <2>4. CASE i.n # n
    <3>1. \A k \in 1 .. Len(wire'[<<s, h>>]) :
            wire'[<<s, h>>][k].n = n => k \in 1 .. Len(w) /\ w[k].n = n
      <4> SUFFICES ASSUME NEW k \in 1 .. Len(wire'[<<s, h>>]), wire'[<<s, h>>][k].n = n
                   PROVE  k \in 1 .. Len(w) /\ w[k].n = n
        OBVIOUS
      <4>1. k # Len(w) + 1
        BY <2>3, <2>4
      <4>2. k \in 1 .. Len(w)
        BY <2>3, <4>1
      <4>3. QED
        BY <2>3, <4>2
    <3>2. ASSUME NEW d \in Devices, OnCable(d, h, n)'
          PROVE  /\ OnCable(d, h, n)
                 /\ \A k, l \in 1 .. Len(wire'[<<d, h>>]) :
                      wire'[<<d, h>>][k].n = n /\ wire'[<<d, h>>][l].n = n => k = l
      <4>1. CASE d = s
        <5>1. OnCable(s, h, n)
          BY <3>1, <3>2, <4>1 DEF OnCable, w
        <5>2. \A k, l \in 1 .. Len(w) : w[k].n = n /\ w[l].n = n => k = l
          BY <1>1, <5>1 DEF OneCopyOf, w
        <5>3. QED
          BY <3>1, <4>1, <5>1, <5>2
      <4>2. CASE d # s
        <5>1. OnCable(d, h, n) /\ wire'[<<d, h>>] = wire[<<d, h>>]
          BY <1>3, <3>2, <4>2 DEF OnCable
        <5>2. \A k, l \in 1 .. Len(wire[<<d, h>>]) :
                wire[<<d, h>>][k].n = n /\ wire[<<d, h>>][l].n = n => k = l
          BY <5>1 DEF OneCopyOf
        <5>3. QED
          BY <5>1, <5>2
      <4>3. QED
        BY <4>1, <4>2
    <3>3. ASSUME NEW d \in Devices, OnCable(d, h, n)
          PROVE  d \in Switches /\ HasLinkTo(h, d)' /\ Passed(d, n)' /\ got'[h][n] = 0
      <4>1. d \in Switches /\ HasLinkTo(h, d) /\ Passed(d, n) /\ got[h][n] = 0
        BY <3>3 DEF OneCopyOf
      <4>2. QED
        BY <1>1, <1>2, <4>1, PassedStays
    <3>4. got'[h][n] <= 1 /\ (got'[h][n] > 0 => \E t \in Switches : HasLinkTo(h, t)' /\ Passed(t, n)')
      <4>1. got[h][n] <= 1 /\ (got[h][n] > 0 => \E t \in Switches : HasLinkTo(h, t) /\ Passed(t, n))
        BY DEF OneCopyOf
      <4>2. QED
        BY <1>1, <1>2, <4>1, PassedStays DEF Devices
    <3>5. QED
      BY <3>2, <3>3, <3>4 DEF OneCopyOf
  <2>5. CASE i.n = n
    <3>1. Passed(s, n)' /\ ~ Passed(s, n)
      BY <2>5, PassedOnce DEF i
    <3>2. \A d \in Devices : HasLinkTo(h, d) => d = s
      BY <1>1, <2>1 DEF OneCable
    <3>3. \A d \in Devices : ~ OnCable(d, h, n)
      BY <3>1, <3>2 DEF OneCopyOf
    <3>4. got[h][n] = 0
      <4>1. ~ \E t \in Switches : HasLinkTo(h, t) /\ Passed(t, n)
        BY <3>1, <3>2 DEF Devices
      <4>2. QED
        BY <1>1, <4>1 DEF OneCopyOf
    <3>5. \A d \in Devices : OnCable(d, h, n)' => d = s
      BY <1>3, <3>3 DEF OnCable
    <3>6. \A k \in 1 .. Len(w) : w[k].n # n
      BY <1>1, <3>3 DEF OnCable, w
    <3>7. \A k \in 1 .. Len(wire'[<<s, h>>]) : wire'[<<s, h>>][k].n = n => k = Len(w) + 1
      <4> SUFFICES ASSUME NEW k \in 1 .. Len(wire'[<<s, h>>]), k # Len(w) + 1
                   PROVE  wire'[<<s, h>>][k].n # n
        OBVIOUS
      <4>1. k \in 1 .. Len(w)
        BY <2>3
      <4>2. QED
        BY <2>3, <3>6, <4>1
    <3>8. HasLinkTo(h, s)' /\ s \in Switches
      BY <1>1, <1>2, <2>1
    <3>9. ASSUME NEW d \in Devices, OnCable(d, h, n)'
          PROVE  /\ d \in Switches /\ HasLinkTo(h, d)' /\ Passed(d, n)'
                 /\ got'[h][n] = 0
                 /\ \A k, l \in 1 .. Len(wire'[<<d, h>>]) :
                      wire'[<<d, h>>][k].n = n /\ wire'[<<d, h>>][l].n = n => k = l
      <4>1. d = s
        BY <3>5, <3>9
      <4>2. \A k, l \in 1 .. Len(wire'[<<s, h>>]) :
              wire'[<<s, h>>][k].n = n /\ wire'[<<s, h>>][l].n = n => k = l
        BY <3>7
      <4>3. QED
        BY <1>1, <3>1, <3>4, <3>8, <4>1, <4>2
    <3>10. got'[h][n] <= 1 /\ ~ (got'[h][n] > 0)
      BY <1>1, <3>4
    <3>11. QED
      BY <3>9, <3>10 DEF OneCopyOf
  <2>6. QED
    BY <2>4, <2>5
<1>6. QED
  BY <1>4, <1>5

(* The host that takes a copy from the cable takes the only one. *)
LEMMA HostReceivesCopies ==
  ASSUME IInv, NewPathsFree, OneCable, ItemsWereSent, [Next]_vars,
         NEW g \in Hosts, NEW e \in Devices, HostReceives(g, e),
         NEW h \in Hosts, NEW n \in 1 .. Len(sends), OneCopyOf(h, n)
  PROVE  OneCopyOf(h, n)'
<1> DEFINE w == wire[<<e, g>>]
           i == Head(w)
<1>1. /\ <<e, g>> \in Nodes \X Nodes /\ w \in Seq(Item) /\ w # <<>>
      /\ n \in 1 .. MaxSends /\ got \in [Hosts -> [1 .. MaxSends -> Nat]] /\ got[h][n] \in Nat
  <2>1. n \in 1 .. MaxSends
    BY NetworkAssumption DEF ItemsWereSent, IInv, TypeOK
  <2>2. QED
    BY <2>1 DEF HostReceives, Nodes, IInv, TypeOK
<1>2. \A d \in Devices : HasLinkTo(h, d)' <=> HasLinkTo(h, d)
  BY DEF HostReceives, deviceVars, HasLinkTo
<1>3. /\ wire' = [wire EXCEPT ![<<e, g>>] = Tail(w)]
      /\ \/ got' = [got EXCEPT ![g] = [got[g] EXCEPT ![i.n] = got[g][i.n] + 1]]
         \/ got' = got
  BY <1>1 DEF HostReceives
<1>4. \A d \in Devices : d # e \/ h # g => wire'[<<d, h>>] = wire[<<d, h>>]
  BY <1>3 DEF IInv, TypeOK, Nodes
<1>5. i = w[1] /\ 1 \in 1 .. Len(w)
  BY <1>1
<1>6. \A t \in Switches : Passed(t, n) => Passed(t, n)'
  BY PassedStays
<1> HIDE DEF i
<1>7. CASE h # g
  <2>1. got'[h][n] = got[h][n]
    BY <1>1, <1>3, <1>7
  <2>2. QED
    BY <1>2, <1>4, <1>7, <2>1, NoNewCopies
<1>8. CASE h = g
  <2>1. /\ wire'[<<e, h>>] = Tail(w)
        /\ \A k \in 1 .. Len(Tail(w)) : k + 1 \in 1 .. Len(w) /\ Tail(w)[k] = w[k + 1]
    BY <1>1, <1>3, <1>8 DEF IInv, TypeOK
  <2> HIDE DEF w
  <2>2. \A d \in Devices : OnCable(d, h, n)' => OnCable(d, h, n)
    <3> SUFFICES ASSUME NEW d \in Devices, OnCable(d, h, n)' PROVE OnCable(d, h, n)
      OBVIOUS
    <3>1. CASE d = e
      <4>1. PICK k \in 1 .. Len(Tail(w)) : Tail(w)[k].n = n
        BY <2>1, <3>1 DEF OnCable
      <4>2. k + 1 \in 1 .. Len(w) /\ w[k + 1].n = n
        BY <2>1, <4>1
      <4>3. QED
        BY <1>8, <3>1, <4>2 DEF OnCable, w
    <3>2. CASE d # e
      BY <1>4, <3>2 DEF OnCable
    <3>3. QED
      BY <3>1, <3>2
  <2>3. ASSUME NEW d \in Devices, OnCable(d, h, n)'
        PROVE  /\ d \in Switches /\ HasLinkTo(h, d)' /\ Passed(d, n)' /\ got[h][n] = 0
               /\ \A k, l \in 1 .. Len(wire'[<<d, h>>]) :
                    wire'[<<d, h>>][k].n = n /\ wire'[<<d, h>>][l].n = n => k = l
    <3>1. /\ d \in Switches /\ HasLinkTo(h, d) /\ Passed(d, n) /\ got[h][n] = 0
          /\ \A k, l \in 1 .. Len(wire[<<d, h>>]) :
               wire[<<d, h>>][k].n = n /\ wire[<<d, h>>][l].n = n => k = l
      BY <2>2, <2>3 DEF OneCopyOf
    <3>2. \A k, l \in 1 .. Len(wire'[<<d, h>>]) :
            wire'[<<d, h>>][k].n = n /\ wire'[<<d, h>>][l].n = n => k = l
      <4>1. CASE d = e
        <5>1. \A k, l \in 1 .. Len(w) : w[k].n = n /\ w[l].n = n => k = l
          BY <1>8, <3>1, <4>1 DEF w
        <5>2. ASSUME NEW k \in 1 .. Len(Tail(w)), NEW l \in 1 .. Len(Tail(w)),
                     Tail(w)[k].n = n, Tail(w)[l].n = n
              PROVE  k = l
          <6>1. /\ k + 1 \in 1 .. Len(w) /\ w[k + 1].n = n
                /\ l + 1 \in 1 .. Len(w) /\ w[l + 1].n = n
            BY <2>1, <5>2
          <6>2. k + 1 = l + 1
            BY <5>1, <6>1
          <6>3. QED
            BY <6>2
        <5>3. wire'[<<d, h>>] = Tail(w)
          BY <2>1, <4>1
        <5>4. QED
          BY <5>2, <5>3
      <4>2. CASE d # e
        BY <1>4, <3>1, <4>2, SMTT(30)
      <4>3. QED
        BY <4>1, <4>2
    <3>3. QED
      BY <1>2, <1>6, <3>1, <3>2
  <2>4. CASE i.n # n
    <3>1. got'[h][n] = got[h][n]
      <4> DEFINE row == [got[h] EXCEPT ![i.n] = got[h][i.n] + 1]
      <4>1. row[n] = got[h][n]
        BY <1>1, <2>4
      <4> HIDE DEF row
      <4>2. got' = [got EXCEPT ![h] = row] \/ got' = got
        BY <1>3, <1>8 DEF row
      <4>3. QED
        BY <1>1, <4>1, <4>2
    <3>2. got[h][n] <= 1 /\ (got[h][n] > 0 => \E t \in Switches : HasLinkTo(h, t) /\ Passed(t, n))
      BY DEF OneCopyOf
    <3>3. got'[h][n] <= 1 /\ (got'[h][n] > 0 => \E t \in Switches : HasLinkTo(h, t)' /\ Passed(t, n)')
      BY <1>2, <1>6, <3>1, <3>2 DEF Devices
    <3>4. QED
      BY <2>3, <3>1, <3>3 DEF OneCopyOf
  <2>5. CASE i.n = n
    <3>1. OnCable(e, h, n)
      BY <1>5, <1>8, <2>5 DEF OnCable, w
    <3>2. /\ e \in Switches /\ HasLinkTo(h, e) /\ Passed(e, n) /\ got[h][n] = 0
          /\ \A k, l \in 1 .. Len(w) : w[k].n = n /\ w[l].n = n => k = l
      BY <1>8, <3>1 DEF OneCopyOf, w
    <3>3. ASSUME NEW d \in Devices PROVE ~ OnCable(d, h, n)'
      <4>1. CASE d = e
        <5>1. \A k \in 1 .. Len(w) : w[k].n = n => k = 1
          BY <1>5, <2>5, <3>2
        <5>2. ASSUME NEW k \in 1 .. Len(Tail(w)) PROVE Tail(w)[k].n # n
          <6>1. k + 1 # 1 /\ k + 1 \in 1 .. Len(w) /\ Tail(w)[k] = w[k + 1]
            BY <2>1
          <6>2. QED
            BY <5>1, <6>1
        <5>3. QED
          BY <2>1, <4>1, <5>2 DEF OnCable
      <4>2. CASE d # e
        <5>1. ~ HasLinkTo(h, d)
          BY <3>2, <4>2 DEF OneCable
        <5>2. ~ OnCable(d, h, n)
          BY <5>1 DEF OneCopyOf
        <5>3. QED
          BY <2>2, <5>2
      <4>3. QED
        BY <4>1, <4>2
    <3>4. got'[h][n] <= 1
      BY <1>1, <1>3, <1>8, <2>5, <3>2
    <3>5. HasLinkTo(h, e)' /\ Passed(e, n)'
      BY <1>2, <1>6, <3>2
    <3>6. QED
      BY <3>2, <3>3, <3>4, <3>5 DEF OneCopyOf
  <2>6. QED
    BY <2>4, <2>5
<1>9. QED
  BY <1>7, <1>8

(* Every step leaves at most one copy of a frame for a host, unless there  *)
(* is an excuse.                                                           *)
LEMMA OneCopyStep ==
  ASSUME OneCopyInv, IInv', [Next]_vars
  PROVE  OneCopy'
<1>0. IInv /\ NewPathsFree /\ OneCable /\ ItemsWereSent /\ OneCopy
  BY DEF OneCopyInv
<1> SUFFICES ASSUME NEW h \in Hosts, NEW n \in 1 .. Len(sends'), ~ Excused(h, n)'
             PROVE  OneCopyOf(h, n)'
  BY DEF OneCopy
<1>1. CASE n \in 1 .. Len(sends)
  <2>1. ~ Excused(h, n) /\ OneCopyOf(h, n)
    BY <1>0, <1>1, ExcusedStays DEF OneCopy
  <2>2. \A e \in Devices : ~ Unplug(h, e)
    <3> SUFFICES ASSUME NEW e \in Devices, Unplug(h, e) PROVE MovedSince(h, n)'
      BY DEF Excused
    <3>1. staleUntil'[h] = now + ForwardTimeout + 1 /\ sends' = sends
      BY <1>0 DEF Unplug, IInv, TypeOK
    <3>2. sends[n].at \in Nat /\ sends[n].at <= now /\ now \in Nat
      <4> DEFINE S == [frame: Frames, at: Nat, due: SUBSET Hosts]
      <4>1. sends \in Seq(S) /\ now \in Nat
        BY <1>0 DEF IInv, TypeOK
      <4> HIDE DEF S
      <4>2. sends[n] \in S
        BY <1>1, <4>1
      <4>3. QED
        BY <1>0, <1>1, <4>1, <4>2 DEF S, ItemsWereSent
    <3>3. QED
      BY <3>1, <3>2, NetworkAssumption DEF MovedSince
  <2>3. \A e \in Devices : HasLinkTo(h, e) => HasLinkTo(h, e)'
    <3>1. CASE \E e \in Devices : Plug(h, e)
      BY <3>1 DEF Plug, Plugged
    <3>2. CASE \A e \in Devices : ~ Plug(h, e)
      BY <1>0, <2>2, <3>2, LinksStay
    <3>3. QED
      BY <3>1, <3>2
  <2>4. ASSUME \A e \in Devices : wire'[<<e, h>>] = wire[<<e, h>>], got' = got
        PROVE  OneCopyOf(h, n)'
    BY <1>0, <1>1, <2>1, <2>3, <2>4, NoNewCopies
  <2>5. ASSUME NEW s \in Switches, NEW p \in Paths, PacketReceived(s, p)
        PROVE  OneCopyOf(h, n)'
    <3>1. CASE Drop(s, p)
      <4>1. \A e \in Devices : wire'[<<e, h>>] = wire[<<e, h>>]
        BY <1>0, <3>1, ForwardedToHosts DEF Drop, Devices
      <4>2. QED
        BY <2>4, <3>1, <4>1 DEF Drop, historyVars
    <3>2. CASE Accept(s, p, ~ IsDuplicate(s, Item0(s, p).frame))
      BY <1>0, <1>1, <2>1, <3>2, AcceptCopies
    <3>3. QED
      BY <2>5, <3>1, <3>2 DEF PacketReceived
  <2>6. ASSUME NEW r \in Repeaters, NEW p \in Paths, PacketRepeated(r, p)
        PROVE  OneCopyOf(h, n)'
    <3>1. ~ HasLinkTo(h, r) /\ r \in Devices /\ LinkPaths(r) \in SUBSET Paths
      BY <2>1 DEF Excused, Devices, LinkPaths
    <3>2. \A e \in Devices : wire'[<<e, h>>] = wire[<<e, h>>]
      BY <1>0, <2>6, <3>1, ForwardedToHosts DEF PacketRepeated
    <3>3. QED
      BY <2>4, <2>6, <3>2 DEF PacketRepeated, historyVars
  <2>7. ASSUME NEW g \in Hosts, NEW d \in Devices, HostReceives(g, d)
        PROVE  OneCopyOf(h, n)'
    BY <1>0, <1>1, <2>1, <2>7, HostReceivesCopies
  <2>8. ASSUME NEW f \in Frames, NEW d \in Devices, HostSends(f, d)
        PROVE  OneCopyOf(h, n)'
    <3>1. /\ f.src \notin Devices /\ got' = got
          /\ wire' = [wire EXCEPT ![<<f.src, d>>] = Append(@, [frame |-> f, n |-> Len(sends) + 1])]
      BY <2>8, NetworkAssumption DEF HostSends
    <3>2. \A e \in Devices : wire'[<<e, h>>] = wire[<<e, h>>]
      BY <1>0, <3>1 DEF IInv, TypeOK, Nodes
    <3>3. QED
      BY <2>4, <3>1, <3>2
  <2>9. ASSUME NEW g \in Hosts, NEW d \in Devices, Unplug(g, d)
        PROVE  OneCopyOf(h, n)'
    <3>1. g \notin Devices /\ got' = got /\ wire' = [wire EXCEPT ![<<g, d>>] = <<>>]
      BY <2>9, NetworkAssumption DEF Unplug
    <3>2. \A e \in Devices : wire'[<<e, h>>] = wire[<<e, h>>]
      BY <1>0, <3>1 DEF IInv, TypeOK, Nodes
    <3>3. QED
      BY <2>4, <3>1, <3>2
  <2>10. ASSUME NEW g \in Hosts, NEW d \in Devices, Plug(g, d)
         PROVE  OneCopyOf(h, n)'
    BY <2>4, <2>10 DEF Plug
  <2>11. CASE Tick \/ UNCHANGED vars
    BY <2>4, <2>11 DEF Tick, vars, historyVars
  <2>12. QED
    BY <2>5, <2>6, <2>7, <2>8, <2>9, <2>10, <2>11 DEF Next
(* What was sent in this step *)
<1>2. CASE n \notin 1 .. Len(sends)
  <2>1. /\ Len(sends) \in Nat /\ Len(sends') \in Nat /\ n > Len(sends)
        /\ Len(sends') <= MaxSends /\ MaxSends \in Nat
    BY <1>0, <1>2, HistoryGrows, ItemsStep, NetworkAssumption DEF ItemsWereSent
  <2>2. PICK f \in Frames, d \in Devices : HostSends(f, d)
    <3>1. sends' # sends
      BY <1>2
    <3>2. ASSUME NEW s \in Switches, NEW p \in Paths, PacketReceived(s, p)
          PROVE  sends' = sends
      BY <3>2 DEF PacketReceived, Drop, Accept, historyVars
    <3>3. ASSUME NEW r \in Repeaters, NEW p \in Paths, PacketRepeated(r, p)
          PROVE  sends' = sends
      BY <3>3 DEF PacketRepeated, historyVars
    <3>4. ASSUME NEW g \in Hosts, NEW d \in Devices,
                 HostReceives(g, d) \/ Plug(g, d) \/ Unplug(g, d)
          PROVE  sends' = sends
      BY <3>4 DEF HostReceives, Plug, Unplug
    <3>5. CASE Tick \/ UNCHANGED vars
      BY <3>1, <3>5 DEF Tick, vars, historyVars
    <3>6. QED
      BY <3>1, <3>2, <3>3, <3>4, <3>5 DEF Next
  <2>3. /\ f.src \notin Devices /\ got' = got
        /\ wire' = [wire EXCEPT ![<<f.src, d>>] = Append(@, [frame |-> f, n |-> Len(sends) + 1])]
    BY <2>2, NetworkAssumption DEF HostSends
  <2>4. \A e \in Devices : wire'[<<e, h>>] = wire[<<e, h>>] /\ <<e, h>> \in Nodes \X Nodes
    BY <1>0, <2>3 DEF IInv, TypeOK, Nodes
  <2>5. \A e \in Devices : ~ OnCable(e, h, n)'
    <3> SUFFICES ASSUME NEW e \in Devices, NEW k \in 1 .. Len(wire[<<e, h>>])
                 PROVE  wire[<<e, h>>][k].n # n
      BY <2>4 DEF OnCable
    <3>1. wire[<<e, h>>][k].n \in 1 .. Len(sends)
      BY <1>0, <2>4 DEF ItemsWereSent
    <3>2. QED
      BY <1>2, <3>1
  <2>6. got'[h][n] = 0
    <3>1. n \in 1 .. MaxSends
      BY <2>1
    <3>2. QED
      BY <1>0, <2>1, <2>3, <3>1 DEF ItemsWereSent
  <2>7. QED
    BY <2>5, <2>6 DEF OneCopyOf
<1>3. QED
  BY <1>1, <1>2

LEMMA OneCopyInit == Init => OneCopyInv
<1> SUFFICES ASSUME Init PROVE OneCopyInv
  OBVIOUS
<1>1. IInv
  BY InvInit
<1>2. \A d \in Devices : \A p \in Paths :
        /\ p \in Nat /\ p >= 1 /\ Len(Topology[d]) \in Nat /\ DOMAIN Topology[d] = 1 .. Len(Topology[d])
        /\ peer[d][p] = IF p <= Len(Topology[d]) THEN Topology[d][p] ELSE NoOne
        /\ nextPath[d] = Len(Topology[d]) + 1
  <2>1. \A p \in Paths : p \in Nat /\ p >= 1
    BY DEF Paths
  <2>2. ASSUME NEW d \in Devices
        PROVE  Len(Topology[d]) \in Nat /\ DOMAIN Topology[d] = 1 .. Len(Topology[d])
    <3>1. Topology[d] \in Seq(Nodes)
      BY TopologyAssumption
    <3>2. QED
      BY <3>1
  <2>3. QED
    BY <2>1, <2>2 DEF Init
<1>3. NewPathsFree
  <2> SUFFICES ASSUME NEW d \in Devices, NEW p \in Paths, p >= nextPath[d]
               PROVE  peer[d][p] = NoOne
    BY DEF NewPathsFree
  <2>1. ~ (p <= Len(Topology[d]))
    BY <1>2
  <2>2. QED
    BY <1>2, <2>1
<1>4. OneCable
  <2> SUFFICES ASSUME NEW h \in Hosts, NEW d \in Devices, NEW e \in Devices,
                      NEW p \in Paths, NEW q \in Paths, peer[d][p] = h, peer[e][q] = h
               PROVE  d = e
    BY DEF OneCable, HasLinkTo
  <2>1. h # NoOne
    BY NetworkAssumption DEF Nodes
  <2>2. /\ p \in DOMAIN Topology[d] /\ Topology[d][p] = h
        /\ q \in DOMAIN Topology[e] /\ Topology[e][q] = h
    BY <1>2, <2>1
  <2>3. QED
    BY <2>2, TopologyAssumption
<1>5. ItemsWereSent /\ OneCopy
  BY NetworkAssumption DEF Init, ItemsWereSent, OneCopy
<1>6. QED
  BY <1>1, <1>3, <1>4, <1>5 DEF OneCopyInv

(* In every network, however it is linked, a host gets no second copy of a *)
(* frame but for what Excused says: switches drop what they passed on      *)
(* before, and a host has one cable to one of them.                        *)
THEOREM NoSecondCopy == Spec => []ReceivedOnce
<1>1. OneCopyInv /\ [Next]_vars => OneCopyInv'
  BY InvStep, LinksStep, ItemsStep, OneCopyStep DEF OneCopyInv
<1>2. OneCopyInv => ReceivedOnce
  <2> SUFFICES ASSUME OneCopyInv, NEW h \in Hosts, NEW n \in 1 .. Len(sends),
                      got[h][n] > 1, ~ Excused(h, n)
               PROVE  FALSE
    BY DEF ReceivedOnce
  <2>1. n \in 1 .. MaxSends /\ got \in [Hosts -> [1 .. MaxSends -> Nat]]
    <3>1. TypeOK /\ Len(sends) <= MaxSends /\ MaxSends \in Nat
      BY NetworkAssumption DEF OneCopyInv, IInv, ItemsWereSent
    <3>2. Len(sends) \in Nat /\ got \in [Hosts -> [1 .. MaxSends -> Nat]]
      BY <3>1 DEF TypeOK
    <3>3. QED
      BY <3>1, <3>2
  <2>2. got[h][n] \in Nat
    BY <2>1
  <2>3. got[h][n] <= 1
    BY DEF OneCopyInv, OneCopy, OneCopyOf
  <2>4. QED
    BY <2>2, <2>3
<1>3. QED
  BY <1>1, <1>2, OneCopyInit, PTL DEF Spec

-----------------------------------------------------------------------------
(* What is sent gets there *)

(* What a proof knows of a network whose cables are prompt: the devices    *)
(* that passed on the frame sent last, and the way back to each host from  *)
(* the devices that heard from it since it was plugged in.  On this way    *)
(* the rank goes down; what passed on the last frame ranks below the top   *)
(* on the way back to its source.                                          *)
Ways ==
  [passed: SUBSET Devices, heard: [Hosts -> SUBSET Devices],
   from: [Hosts -> [Devices -> Nodes]], rank: [Hosts -> [Devices -> Nat]], top: Nat]

Latest == sends[Len(sends)]

(* The way back leads along links to the host. *)
Leads(w, h) ==
  \A d \in w.heard[h] :
    /\ HasLinkTo(w.from[h][d], d)
    /\ \/ w.from[h][d] = h
       \/ w.from[h][d] \in w.heard[h] /\ w.rank[h][w.from[h][d]] < w.rank[h][d]

(* What switches know of a host is the way back, or old. *)
EntriesLead(w, h) ==
  \A s \in Switches :
    LET e == GetEntry(forward[s], h)
    IN  e # Unknown => IF s \in w.heard[h] THEN peer[s][e.path] = w.from[h][s]
                       ELSE e.at + ForwardTimeout < staleUntil[h]

(* No packet has that source. *)
NoBroadcaster == \A s \in Switches : GetEntry(forward[s], Broadcast) = Unknown

(* What a switch saw was sent, and the frame sent last only those saw that *)
(* passed it on.                                                           *)
SeenWereSent(w) ==
  \A s \in Switches : \A f \in Frames : GetEntry(seen[s], f) # Unknown =>
    \E n \in 1 .. Len(sends) :
      /\ sends[n].frame = f /\ GetEntry(seen[s], f) <= sends[n].at
      /\ n = Len(sends) /\ ~ Quiet => s \in w.passed

(* Nothing but the frame sent last is under way, from its source or from   *)
(* what passed it on, and that learned the way back to its source.         *)
OnlyLatest(w) ==
  /\ sends # <<>> /\ now = Latest.at
  /\ \A c \in Nodes \X Nodes : wire[c] # <<>> =>
       /\ c[1] \in w.passed \cup {Latest.frame.src}
       /\ \A k \in 1 .. Len(wire[c]) : wire[c][k].n = Len(sends)
  /\ \A s \in w.passed \cap Switches : IsDuplicate(s, Latest.frame)
  /\ w.passed \subseteq w.heard[Latest.frame.src]
  /\ \A d \in w.heard[Latest.frame.src] :
       d \in w.passed <=> w.rank[Latest.frame.src][d] < w.top

(* The frame sent last came from d to x, or is about to. *)
Comes(w, d, x) ==
  \/ wire[<<d, x>>] # <<>>
  \/ x \in w.passed
  \/ x \in Hosts /\ got[x][Len(sends)] > 0

(* What d passes on for h goes the way back to h, or everywhere. *)
GoesOn(w, d, h) ==
  IF d \in w.heard[h] THEN Comes(w, d, w.from[h][d])
  ELSE \A x \in Devices \cup {h} : HasLinkTo(x, d) => Comes(w, d, x)

(* The frame sent last is on its way to h. *)
Bound(w, h) ==
  /\ Latest.frame.dst \in {h, Broadcast} /\ Latest.frame.src # h /\ ~ TooShort(Latest.frame)
  /\ now >= staleUntil[h]
  /\ \A n \in 1 .. Len(sends) - 1 :
       sends[n].frame = Latest.frame => now - sends[n].at >= DuplicateTimeout
  /\ \E d, e \in Devices :
       HasLinkTo(h, e) /\ Joined(d, e) /\ Comes(w, Latest.frame.src, d)
  /\ \A d \in w.passed : GoesOn(w, d, h)

Follows(w) ==
  /\ \A h \in Hosts : Leads(w, h) /\ EntriesLead(w, h)
  /\ NoBroadcaster /\ SeenWereSent(w)
  /\ ~ Quiet => OnlyLatest(w) /\ \A h \in Latest.due : Bound(w, h)

(* What was sent before, or is under way no longer, got there. *)
GotThere ==
  \A n \in 1 .. Len(sends) : n < Len(sends) \/ Quiet => \A h \in sends[n].due : got[h][n] > 0

NetInv == IInv /\ NewPathsFree /\ OneCable /\ ItemsWereSent
DeliveryInv == NetInv /\ (prompt => GotThere /\ \E w \in Ways : Follows(w))

-----------------------------------------------------------------------------
(* A key's entry is what was added last, or it is forgotten. *)
LEMMA AddedEntry ==
  ASSUME NEW Keys, NEW Entries, Unknown \notin Entries, NEW t \in Table(Keys, Entries),
         NEW k \in Keys, NEW e \in Entries
  PROVE  /\ GetEntry(AddEntry(t, k, e), k) = e
         /\ \A a \in Keys \ {k} : GetEntry(AddEntry(t, k, e), a) \in {GetEntry(t, a), Unknown}
<1>1. /\ DOMAIN t.newer = Keys
      /\ \A a \in Keys : Put(t.newer, k, e)[a] = IF a = k THEN e ELSE t.newer[a]
  BY DEF Table, Put
<1>2. CASE t.size < MaxTableSize
  <2>1. AddEntry(t, k, e).newer = Put(t.newer, k, e) /\ AddEntry(t, k, e).older = t.older
    BY <1>2 DEF AddEntry
  <2>2. QED
    BY <1>1, <2>1 DEF GetEntry
<1>3. CASE ~ (t.size < MaxTableSize)
  <2>1. /\ AddEntry(t, k, e).newer = Put(NoEntries(Keys), k, e)
        /\ AddEntry(t, k, e).older = t.newer
    BY <1>1, <1>3 DEF AddEntry
  <2>2. \A a \in Keys : Put(NoEntries(Keys), k, e)[a] = IF a = k THEN e ELSE Unknown
    BY DEF Put, NoEntries
  <2>3. QED
    BY <2>1, <2>2 DEF GetEntry
<1>4. QED
  BY <1>2, <1>3

(* What was sent last *)
LEMMA LatestType ==
  ASSUME TypeOK, sends # <<>>
  PROVE  /\ Len(sends) \in Nat /\ Len(sends) \in 1 .. Len(sends)
         /\ Latest.frame \in Frames /\ Latest.frame.src \in Hosts
         /\ Latest.frame.dst \in Addresses
         /\ Latest.at \in Nat /\ Latest.due \subseteq Hosts
<1> DEFINE S == [frame: Frames, at: Nat, due: SUBSET Hosts]
<1>1. sends \in Seq(S)
  BY DEF TypeOK
<1> HIDE DEF S
<1>2. Len(sends) \in Nat /\ Len(sends) \in 1 .. Len(sends) /\ Latest \in S
  BY <1>1 DEF Latest
<1>3. Latest.frame \in Frames /\ Latest.at \in Nat /\ Latest.due \subseteq Hosts
  BY <1>2 DEF S
<1>4. QED
  BY <1>2, <1>3, NetworkAssumption

(* What was appended is there. *)
LEMMA AppendedIsSome ==
  ASSUME NEW S, NEW q \in Seq(S), NEW e \in S
  PROVE  Append(q, e) # <<>>
<1>1. Len(Append(q, e)) = Len(q) + 1 /\ Len(q) \in Nat /\ Len(<<>>) = 0
  OBVIOUS
<1>2. QED
  BY <1>1

(* Hosts send. *)
LEMMA LatestTypeNext ==
  ASSUME TypeOK', sends' # <<>>
  PROVE  Latest'.frame.src \in Hosts
<1> DEFINE S == [frame: Frames, at: Nat, due: SUBSET Hosts]
<1>1. sends' \in Seq(S)
  BY DEF TypeOK
<1> HIDE DEF S
<1>2. Latest' \in S
  BY <1>1 DEF Latest
<1>3. Latest'.frame \in Frames
  BY <1>2 DEF S
<1>4. QED
  BY <1>3, NetworkAssumption

(* What forwarding does to the cables *)
LEMMA ForwardedCables ==
  ASSUME TypeOK, NEW d \in Devices, NEW p \in Paths, NEW out \in SUBSET Paths,
         Arrives(d, p), Forwarded(d, p, out)
  PROVE  /\ \A c \in Nodes \X Nodes : wire[c] # <<>> /\ c # <<peer[d][p], d>> => wire'[c] # <<>>
         /\ \A q \in out \ {p} :
              peer[d][q] # NoOne /\ <<d, peer[d][q]>> # <<peer[d][p], d>> =>
                wire'[<<d, peer[d][q]>>] # <<>>
         /\ \A c \in Nodes \X Nodes :
              wire'[c] # <<>> => wire[c] # <<>> \/ (c[1] = d /\ out # {})
<1>1. /\ <<peer[d][p], d>> \in Nodes \X Nodes /\ Item0(d, p) \in Item
      /\ wire \in [Nodes \X Nodes -> Seq(Item)] /\ wire[<<peer[d][p], d>>] # <<>>
  BY ArrivingItem DEF TypeOK, Arrives
<1>2. \A c \in Nodes \X Nodes : wire[c] \in Seq(Item) /\ Append(wire[c], Item0(d, p)) # <<>>
  BY <1>1, AppendedIsSome
<1>3. ASSUME NEW c \in Nodes \X Nodes
      PROVE  /\ wire[c] # <<>> /\ c # <<peer[d][p], d>> => wire'[c] # <<>>
             /\ wire'[c] # <<>> => wire[c] # <<>> \/ (c[1] = d /\ out # {})
  <2>1. \/ c = <<peer[d][p], d>>
        \/ wire'[c] = wire[c]
        \/ wire'[c] = Append(wire[c], Item0(d, p)) /\ \E q \in out \ {p} : c = <<d, peer[d][q]>>
    BY DEF Forwarded
  <2>2. CASE c = <<peer[d][p], d>>
    BY <1>1, <2>2
  <2>3. CASE wire'[c] = wire[c]
    BY <2>3
  <2>4. CASE /\ wire'[c] = Append(wire[c], Item0(d, p))
             /\ \E q \in out \ {p} : c = <<d, peer[d][q]>>
    <3>1. wire'[c] # <<>>
      BY <1>2, <2>4, Zenon
    <3>2. c[1] = d /\ out # {}
      BY <2>4
    <3>3. QED
      BY <3>1, <3>2
  <2>5. QED
    BY <2>1, <2>2, <2>3, <2>4
<1>4. ASSUME NEW q \in out \ {p}, peer[d][q] # NoOne, <<d, peer[d][q]>> # <<peer[d][p], d>>
      PROVE  wire'[<<d, peer[d][q]>>] # <<>>
  <2>1. <<d, peer[d][q]>> \in Nodes \X Nodes
    BY <1>4 DEF TypeOK, Nodes
  <2>2. wire'[<<d, peer[d][q]>>] = Append(wire[<<d, peer[d][q]>>], Item0(d, p))
    BY <1>4, <2>1 DEF Forwarded
  <2>3. QED
    BY <1>2, <2>1, <2>2
<1>5. QED
  BY <1>3, <1>4

-----------------------------------------------------------------------------
(* Where a frame comes to *)

(* A set of devices has one with the lowest rank. *)
LEMMA LowestRank ==
  ASSUME NEW S, NEW r \in [S -> Nat], NEW T \in SUBSET S, T # {}
  PROVE  \E x \in T : \A y \in T : ~ (r[y] < r[x])
<1> DEFINE R == {p \in Nat \X Nat : p[1] < p[2]}
           ranks == {r[y] : y \in T}
<1>1. IsWellFoundedOn(R, Nat)
  BY NatLessThanWellFounded DEF OpToRel
<1>2. \A m, n \in Nat : m < n => <<m, n>> \in R
  OBVIOUS
<1>3. ranks \subseteq Nat /\ ranks # {}
  OBVIOUS
<1> HIDE DEF R
<1>4. PICK n \in ranks : \A m \in ranks : ~ (<<m, n>> \in R)
  <2> HIDE DEF ranks
  <2>1. QED
    BY <1>1, <1>3, WFMin
<1>5. PICK x \in T : r[x] = n
  BY <1>4
<1>6. \A y \in T : ~ (r[y] < r[x])
  BY <1>2, <1>4, <1>5
<1>7. QED
  BY <1>6

(* Once the cables are quiet, the frame sent last got there: what passed   *)
(* it on would else include all the way back to the host, or, if it never  *)
(* heard from the host, all devices that are joined with the source.       *)
LEMMA Arrived ==
  ASSUME TypeOK', NEW w \in Ways, NEW h \in Hosts, sends' # <<>>,
         Leads(w, h)', Bound(w, h)', Quiet'
  PROVE  got'[h][Len(sends')] > 0
<1> SUFFICES ASSUME ~ (got'[h][Len(sends')] > 0) PROVE FALSE
  OBVIOUS
<1> DEFINE src == Latest.frame.src
<1>1. /\ w.passed \in SUBSET Devices /\ w.heard[h] \in SUBSET Devices
      /\ w.from[h] \in [Devices -> Nodes] /\ w.rank[h] \in [Devices -> Nat]
  BY DEF Ways
<1>2. src' \in Hosts /\ h \notin Devices
  BY NetworkAssumption, LatestTypeNext
<1>3. \A d \in Nodes, x \in Devices \cup {h} : Comes(w, d, x)' => x \in w.passed
  <2> SUFFICES ASSUME NEW d \in Nodes, NEW x \in Devices \cup {h}, Comes(w, d, x)'
               PROVE  x \in w.passed
    OBVIOUS
  <2>1. <<d, x>> \in Nodes \X Nodes
    BY DEF Nodes
  <2>2. wire'[<<d, x>>] = <<>>
    BY <2>1 DEF Quiet
  <2>3. x \in w.passed \/ (x \in Hosts /\ got'[x][Len(sends')] > 0)
    BY <2>2 DEF Comes
  <2>4. x \in Hosts => x = h
    BY NetworkAssumption
  <2>5. QED
    BY <2>3, <2>4
<1>4. PICK d \in Devices, e \in Devices :
        HasLinkTo(h, e)' /\ Joined(d, e)' /\ Comes(w, src, d)'
  BY DEF Bound
<1>5. d \in w.passed
  BY <1>2, <1>3, <1>4 DEF Nodes
<1>6. \A c \in w.passed : GoesOn(w, c, h)'
  BY DEF Bound
<1>7. CASE w.passed \cap w.heard[h] # {}
  <2> DEFINE T == w.passed \cap w.heard[h]
  <2>1. PICK c \in T : \A y \in T : ~ (w.rank[h][y] < w.rank[h][c])
    <3> DEFINE r == w.rank[h]
    <3>1. r \in [Devices -> Nat] /\ T \in SUBSET Devices /\ T # {}
      BY <1>1, <1>7
    <3> HIDE DEF r, T
    <3>2. \E c \in T : \A y \in T : ~ (r[y] < r[c])
      BY <3>1, LowestRank
    <3>3. QED
      BY <3>2 DEF r
  <2>2. Comes(w, c, w.from[h][c])' /\ c \in Nodes
    BY <1>1, <1>6, <2>1 DEF GoesOn, Nodes
  <2>3. \/ w.from[h][c] = h
        \/ w.from[h][c] \in w.heard[h] /\ w.rank[h][w.from[h][c]] < w.rank[h][c]
    BY <2>1 DEF Leads
  <2>4. w.from[h][c] \in w.passed
    BY <1>1, <1>3, <2>2, <2>3
  <2>5. QED
    BY <1>1, <1>2, <2>1, <2>3, <2>4
<1>8. CASE w.passed \cap w.heard[h] = {}
  <2>1. \A c \in w.passed, x \in Devices \cup {h} : HasLinkTo(x, c)' => x \in w.passed
    BY <1>1, <1>3, <1>6, <1>8 DEF GoesOn, Nodes
  <2>2. e \in w.passed
    BY <1>1, <1>4, <1>5, <2>1 DEF Joined
  <2>3. h \in w.passed
    BY <1>4, <2>1, <2>2
  <2>4. QED
    BY <1>1, <1>2, <2>3
<1>9. QED
  BY <1>7, <1>8

(* The frame goes on to its hosts if the cables are only emptied by what   *)
(* passes it on, and by the host.                                          *)
LEMMA BoundStays ==
  ASSUME TypeOK, NEW w \in Ways, NEW v \in Ways, NEW h \in Hosts,
         Leads(w, h), Bound(w, h), UNCHANGED <<now, peer, sends, staleUntil>>, sends # <<>>,
         w.passed \subseteq v.passed, v.heard[h] = w.heard[h], v.from[h] = w.from[h],
         got[h][Len(sends)] > 0 => got'[h][Len(sends)] > 0,
         \A c \in Nodes \X Nodes : wire[c] # <<>> =>
           \/ wire'[c] # <<>> \/ c[2] \in v.passed
           \/ c[2] \in Hosts \ {h}
           \/ c[2] = h /\ got'[h][Len(sends)] > 0,
         \A d \in v.passed \ w.passed : GoesOn(v, d, h)'
  PROVE  Bound(v, h)'
<1>1. w.passed \in SUBSET Devices /\ w.heard[h] \in SUBSET Devices
  BY DEF Ways
<1>2. \A d \in Nodes, x \in Devices \cup {h} : Comes(w, d, x) => Comes(v, d, x)'
  <2> SUFFICES ASSUME NEW d \in Nodes, NEW x \in Devices \cup {h}, Comes(w, d, x)
               PROVE  Comes(v, d, x)'
    OBVIOUS
  <2>1. <<d, x>> \in Nodes \X Nodes /\ (x \in Hosts => x = h)
    BY NetworkAssumption DEF Nodes
  <2>2. CASE wire[<<d, x>>] # <<>>
    BY <2>1, <2>2 DEF Comes
  <2>3. CASE x \in w.passed
    BY <2>3 DEF Comes
  <2>4. CASE x \in Hosts /\ got[x][Len(sends)] > 0
    BY <2>1, <2>4 DEF Comes
  <2>5. QED
    BY <2>2, <2>3, <2>4 DEF Comes
<1>3. \A d \in w.passed : GoesOn(v, d, h)'
  <2> SUFFICES ASSUME NEW d \in w.passed PROVE GoesOn(v, d, h)'
    OBVIOUS
  <2>1. GoesOn(w, d, h) /\ d \in Nodes
    BY <1>1 DEF Bound, Nodes
  <2>2. CASE d \in w.heard[h]
    <3>1. w.from[h][d] \in Devices \cup {h} /\ Comes(w, d, w.from[h][d])
      BY <1>1, <2>1, <2>2 DEF GoesOn, Leads
    <3>2. QED
      BY <1>2, <2>1, <2>2, <3>1 DEF GoesOn
  <2>3. CASE d \notin w.heard[h]
    BY <1>2, <2>1, <2>3 DEF GoesOn, HasLinkTo
  <2>4. QED
    BY <2>2, <2>3
<1>4. \E d, e \in Devices : HasLinkTo(h, e)' /\ Joined(d, e)' /\ Comes(v, Latest.frame.src, d)'
  <2>1. PICK d \in Devices, e \in Devices :
          HasLinkTo(h, e) /\ Joined(d, e) /\ Comes(w, Latest.frame.src, d)
    BY DEF Bound
  <2>2. Latest.frame.src \in Nodes /\ Latest' = Latest
    BY LatestType DEF Nodes, Latest
  <2>3. Comes(v, Latest.frame.src, d)'
    BY <1>2, <2>1, <2>2
  <2>4. HasLinkTo(h, e)' /\ Joined(d, e)'
    BY <2>1 DEF HasLinkTo, Joined
  <2>5. QED
    BY <2>3, <2>4
<1>5. \A d \in v.passed : GoesOn(v, d, h)'
  BY <1>3
<1>6. QED
  BY <1>4, <1>5 DEF Bound, Latest

-----------------------------------------------------------------------------
(* What passes a frame on *)

(* What arrives is the frame sent last. *)
LEMMA ArrivesLatest ==
  ASSUME NetInv, NEW w \in Ways, Follows(w), NEW d \in Devices, NEW p \in Paths, Arrives(d, p)
  PROVE  /\ ~ Quiet /\ sends # <<>> /\ OnlyLatest(w)
         /\ Item0(d, p).frame = Latest.frame
         /\ <<peer[d][p], d>> \in Nodes \X Nodes
         /\ peer[d][p] \in w.passed \cup {Latest.frame.src}
<1> DEFINE c == <<peer[d][p], d>>
<1>0. TypeOK
  BY DEF NetInv, IInv
<1>1. c \in Nodes \X Nodes /\ wire[c] # <<>> /\ wire[c] \in Seq(Item)
  BY <1>0, ArrivingItem DEF Arrives, TypeOK
<1>2. ~ Quiet
  BY <1>1 DEF Quiet
<1>3. OnlyLatest(w) /\ sends # <<>>
  BY <1>2 DEF Follows, OnlyLatest
<1>4. c[1] \in w.passed \cup {Latest.frame.src} /\ wire[c][1].n = Len(sends)
  <2>1. 1 \in 1 .. Len(wire[c])
    BY <1>1
  <2> HIDE DEF c
  <2>2. QED
    BY <1>1, <1>3, <2>1 DEF OnlyLatest
<1>5. Item0(d, p) = wire[c][1] /\ 1 \in 1 .. Len(wire[c])
  BY <1>1 DEF Item0
<1>6. Item0(d, p).frame = sends[Len(sends)].frame
  <2> HIDE DEF c
  <2>1. QED
    BY <1>1, <1>4, <1>5 DEF NetInv, ItemsWereSent
<1>7. QED
  BY <1>1, <1>2, <1>3, <1>4, <1>6 DEF Latest

(* What d forwards through a path to a device, or a host that did not send *)
(* it, comes there, if it did not come from there.                         *)
LEMMA ForwardedComes ==
  ASSUME NetInv, NEW w \in Ways, NEW v \in Ways, NEW d \in Devices, NEW p \in Paths,
         NEW out \in SUBSET Paths, Arrives(d, p), Forwarded(d, p, out),
         NEW src \in Hosts, NEW h \in Hosts, h # src,
         peer[d][p] \in w.passed \cup {src}, w.passed \subseteq v.passed,
         NEW x \in Devices \cup {h}, NEW q \in out, peer[d][q] = x
  PROVE  Comes(v, d, x)'
<1>1. CASE x = peer[d][p]
  <2>1. x # src
    BY NetworkAssumption
  <2>2. QED
    BY <1>1, <2>1 DEF Comes
<1>2. CASE x # peer[d][p]
  <2>1. q \in out \ {p} /\ peer[d][q] # NoOne /\ <<d, peer[d][q]>> # <<peer[d][p], d>>
    BY <1>2, NetworkAssumption DEF Nodes
  <2>2. wire'[<<d, x>>] # <<>>
    BY <2>1, ForwardedCables DEF NetInv, IInv
  <2>3. QED
    BY <2>2 DEF Comes
<1>3. QED
  BY <1>1, <1>2

(* What d sends everywhere goes on to every host but its source. *)
LEMMA FloodGoesOn ==
  ASSUME NetInv, NEW w \in Ways, NEW v \in Ways, NEW d \in Devices, NEW p \in Paths,
         Arrives(d, p), Forwarded(d, p, LinkPaths(d)), peer' = peer,
         NEW src \in Hosts, NEW h \in Hosts, h # src,
         peer[d][p] \in w.passed \cup {src}, w.passed \subseteq v.passed,
         Leads(w, h), v.heard[h] = w.heard[h], v.from[h] = w.from[h]
  PROVE  GoesOn(v, d, h)'
<1>1. LinkPaths(d) \in SUBSET Paths
  BY DEF LinkPaths
<1>2. \A x \in Devices \cup {h} : HasLinkTo(x, d) => Comes(v, d, x)'
  <2> SUFFICES ASSUME NEW x \in Devices \cup {h}, HasLinkTo(x, d)
               PROVE  Comes(v, d, x)'
    OBVIOUS
  <2>1. PICK q \in Paths : peer[d][q] = x
    BY DEF HasLinkTo
  <2>2. q \in LinkPaths(d)
    BY <2>1, NetworkAssumption DEF LinkPaths, Nodes
  <2>3. QED
    BY <1>1, <2>1, <2>2, ForwardedComes
<1>3. d \in w.heard[h] => HasLinkTo(w.from[h][d], d) /\ w.from[h][d] \in Devices \cup {h}
  BY DEF Leads, Ways
<1>4. QED
  BY <1>2, <1>3 DEF GoesOn, HasLinkTo

(* What a switch accepts it sends the way back to the host, or, if it has  *)
(* not heard from it, or not for long, everywhere.                         *)
LEMMA AcceptedGoesOn ==
  ASSUME NetInv, TypeOK', NEW w \in Ways, NEW v \in Ways, NEW s \in Switches, NEW p \in Paths, NEW fresh,
         Accept(s, p, fresh), NEW h \in Hosts, Item0(s, p).frame.src # h,
         Item0(s, p).frame.dst \in {h, Broadcast},
         peer[s][p] \in w.passed \cup {Item0(s, p).frame.src}, w.passed \subseteq v.passed,
         Leads(w, h), EntriesLead(w, h), NoBroadcaster, now >= staleUntil[h],
         v.heard[h] = w.heard[h], v.from[h] = w.from[h]
  PROVE  GoesOn(v, s, h)'
<1> DEFINE f == Item0(s, p).frame
           table == AddEntry(forward[s], f.src, [path |-> p, at |-> now])
           dest == GetEntry(table, f.dst)
<1>1. /\ s \in Devices /\ Arrives(s, p) /\ peer' = peer
      /\ Forwarded(s, p, Destinations(s, table, f.dst))
  BY DEF Accept, Devices, deviceVars
<1>2. f \in Frames /\ f.src \in Hosts /\ f.dst \in Addresses
  <2>1. f \in Frames
    BY <1>1, ArrivingItem DEF NetInv, IInv
  <2> HIDE DEF f
  <2>2. QED
    BY <2>1, NetworkAssumption
<1>3. CASE Destinations(s, table, f.dst) = LinkPaths(s)
  <2> HIDE DEF f, table
  <2>1. QED
    BY <1>1, <1>2, <1>3, FloodGoesOn DEF f
<1>4. CASE Destinations(s, table, f.dst) # LinkPaths(s)
  <2>1. dest # Unknown /\ ~ Outdated(dest) /\ Destinations(s, table, f.dst) = {dest.path}
    BY <1>4 DEF Destinations
  <2>2. dest \in {GetEntry(forward[s], f.dst), Unknown}
    <3> DEFINE e == [path |-> p, at |-> now]
    <3>1. forward[s] \in Table(Addresses, ForwardRecord) /\ e \in ForwardRecord
      BY DEF NetInv, IInv, TypeOK, ForwardRecord
    <3>2. Unknown \notin ForwardRecord /\ f.dst # f.src /\ f.src \in Addresses
      BY <1>2, UnknownAssumption, NetworkAssumption DEF ForwardRecord, Addresses
    <3> HIDE DEF e, f
    <3>3. \A a \in Addresses \ {f.src} :
            GetEntry(AddEntry(forward[s], f.src, e), a) \in {GetEntry(forward[s], a), Unknown}
      BY <3>1, <3>2, AddedEntry
    <3>4. QED
      BY <1>2, <3>2, <3>3 DEF e
  <2>3. f.dst = h /\ dest = GetEntry(forward[s], h)
    BY <2>1, <2>2 DEF NoBroadcaster
  <2> HIDE DEF f, table, dest
  <2>4. dest \in ForwardRecord
    <3>1. forward[s] \in Table(Addresses, ForwardRecord) /\ h \in Addresses
      BY DEF NetInv, IInv, TypeOK, Addresses
    <3>2. QED
      BY <2>1, <2>3, <3>1 DEF Table, GetEntry
  <2>5. dest.path \in Paths /\ dest.at + ForwardTimeout \in Nat /\ now \in Nat
        /\ staleUntil[h] \in Nat
    <3>1. dest.path \in Paths /\ dest.at \in Nat
      BY <2>4 DEF ForwardRecord
    <3>2. now \in Nat /\ staleUntil[h] \in Nat
      BY DEF NetInv, IInv, TypeOK
    <3>3. QED
      BY <3>1, <3>2, NetworkAssumption
  <2>6. s \in w.heard[h] /\ peer[s][dest.path] = w.from[h][s]
    <3>1. ~ (dest.at + ForwardTimeout < staleUntil[h])
      BY <2>1, <2>5 DEF Outdated
    <3>2. QED
      BY <2>1, <2>3, <3>1 DEF EntriesLead
  <2>7. w.from[h][s] \in Devices \cup {h}
    BY <2>6 DEF Leads, Ways
  <2>8. Comes(v, s, w.from[h][s])'
    BY <1>1, <1>2, <2>1, <2>5, <2>6, <2>7, ForwardedComes DEF f
  <2>9. QED
    BY <1>1, <2>6, <2>8 DEF GoesOn
<1>5. QED
  BY <1>3, <1>4

-----------------------------------------------------------------------------
(* What passing a frame on teaches *)

(* d is the next to pass on what g sent, and got it from x. *)
PassedOnBy(w, g, d, x) ==
  [passed |-> w.passed \cup {d},
   heard  |-> [w.heard EXCEPT ![g] = @ \cup {d}],
   from   |-> [w.from EXCEPT ![g] = [@ EXCEPT ![d] = x]],
   rank   |-> [w.rank EXCEPT ![g] =
                 [e \in Devices |-> IF e = d THEN w.top ELSE IF e \in w.passed THEN @[e] ELSE @[e] + 1]],
   top    |-> w.top + 1]

(* That is a way, too. *)
LEMMA PassedOnType ==
  ASSUME NEW w \in Ways, NEW g \in Hosts, NEW d \in Devices, NEW x \in Nodes, NEW v,
         v = PassedOnBy(w, g, d, x)
  PROVE  /\ v \in Ways
         /\ v.passed = w.passed \cup {d} /\ v.top = w.top + 1
         /\ v.heard[g] = w.heard[g] \cup {d}
         /\ v.from[g][d] = x /\ v.rank[g][d] = w.top
         /\ \A e \in Devices \ {d} :
              /\ v.from[g][e] = w.from[g][e]
              /\ v.rank[g][e] = IF e \in w.passed THEN w.rank[g][e] ELSE w.rank[g][e] + 1
         /\ \A h \in Hosts \ {g} :
              v.heard[h] = w.heard[h] /\ v.from[h] = w.from[h] /\ v.rank[h] = w.rank[h]
<1>1. /\ w.passed \in SUBSET Devices /\ w.heard \in [Hosts -> SUBSET Devices]
      /\ w.from \in [Hosts -> [Devices -> Nodes]] /\ w.rank \in [Hosts -> [Devices -> Nat]]
      /\ w.top \in Nat
  BY DEF Ways
<1>2. /\ v.passed = w.passed \cup {d} /\ v.top = w.top + 1
      /\ v.heard = [w.heard EXCEPT ![g] = w.heard[g] \cup {d}]
      /\ v.from = [w.from EXCEPT ![g] = [w.from[g] EXCEPT ![d] = x]]
      /\ v.rank = [w.rank EXCEPT ![g] =
                 [e \in Devices |-> IF e = d THEN w.top
                                    ELSE IF e \in w.passed THEN w.rank[g][e] ELSE w.rank[g][e] + 1]]
      /\ v = [passed |-> v.passed, heard |-> v.heard, from |-> v.from, rank |-> v.rank, top |-> v.top]
  BY <1>1 DEF PassedOnBy
<1> DEFINE r == [e \in Devices |-> IF e = d THEN w.top
                                   ELSE IF e \in w.passed THEN w.rank[g][e] ELSE w.rank[g][e] + 1]
<1>3. r \in [Devices -> Nat] /\ w.rank[g] \in [Devices -> Nat]
  BY <1>1
<1>4. v.rank = [w.rank EXCEPT ![g] = r]
  BY <1>2
<1>5. \A e \in Devices \ {d} :
        r[e] = IF e \in w.passed THEN w.rank[g][e] ELSE w.rank[g][e] + 1
  OBVIOUS
<1>6. r[d] = w.top
  OBVIOUS
<1> HIDE DEF r
<1>7. v.rank \in [Hosts -> [Devices -> Nat]] /\ v.rank[g] = r
      /\ \A h \in Hosts \ {g} : v.rank[h] = w.rank[h]
  BY <1>1, <1>3, <1>4
<1>8. v.from \in [Hosts -> [Devices -> Nodes]] /\ v.from[g][d] = x
      /\ (\A e \in Devices \ {d} : v.from[g][e] = w.from[g][e])
      /\ \A h \in Hosts \ {g} : v.from[h] = w.from[h]
  BY <1>1, <1>2
<1>9. v.heard \in [Hosts -> SUBSET Devices] /\ v.heard[g] = w.heard[g] \cup {d}
      /\ \A h \in Hosts \ {g} : v.heard[h] = w.heard[h]
  BY <1>1, <1>2
<1>10. v.passed \in SUBSET Devices /\ v.top \in Nat
  BY <1>1, <1>2
<1>11. v \in Ways
  BY <1>2, <1>7, <1>8, <1>9, <1>10 DEF Ways
<1>12. QED
  BY <1>2, <1>5, <1>6, <1>7, <1>8, <1>9, <1>11

(* The ways back to all hosts are still ones, and what passed the frame on *)
(* still ranks below the top.                                              *)
LEMMA PassedOnLeads ==
  ASSUME NEW w \in Ways, \A h \in Hosts : Leads(w, h), NEW g \in Hosts, NEW d \in Devices, NEW x \in Nodes,
         HasLinkTo(x, d), d \notin w.passed, x \in w.passed \cup {g},
         w.passed \subseteq w.heard[g],
         \A e \in w.heard[g] : e \in w.passed <=> w.rank[g][e] < w.top,
         NEW v, v = PassedOnBy(w, g, d, x), peer' = peer
  PROVE  /\ \A h \in Hosts : Leads(v, h)'
         /\ v.passed \subseteq v.heard[g]
         /\ \A e \in v.heard[g] : e \in v.passed <=> v.rank[g][e] < v.top
<1>0. /\ w.passed \in SUBSET Devices /\ w.heard[g] \in SUBSET Devices
      /\ w.rank[g] \in [Devices -> Nat] /\ w.top \in Nat
  BY DEF Ways
<1>1. /\ v.passed = w.passed \cup {d} /\ v.top = w.top + 1
      /\ v.heard[g] = w.heard[g] \cup {d}
      /\ v.from[g][d] = x /\ v.rank[g][d] = w.top
      /\ \A e \in Devices \ {d} :
           /\ v.from[g][e] = w.from[g][e]
           /\ v.rank[g][e] = IF e \in w.passed THEN w.rank[g][e] ELSE w.rank[g][e] + 1
      /\ \A h \in Hosts \ {g} :
           v.heard[h] = w.heard[h] /\ v.from[h] = w.from[h] /\ v.rank[h] = w.rank[h]
  BY PassedOnType
<1>2. \A e \in Devices : w.rank[g][e] \in Nat
  BY <1>0
<1>3. ASSUME NEW h \in Hosts \ {g}
      PROVE  Leads(v, h)'
  BY <1>1 DEF Leads, HasLinkTo
<1>4. ASSUME NEW e \in v.heard[g]
      PROVE  /\ HasLinkTo(v.from[g][e], e)
             /\ \/ v.from[g][e] = g
                \/ v.from[g][e] \in v.heard[g] /\ v.rank[g][v.from[g][e]] < v.rank[g][e]
  <2>1. CASE e = d
    <3>1. CASE x = g
      BY <1>1, <2>1, <3>1
    <3>2. CASE x # g
      <4>1. x \in w.passed /\ x \in w.heard[g] /\ x \in Devices /\ x # d
        BY <1>0, <3>2
      <4>2. v.rank[g][x] = w.rank[g][x] /\ w.rank[g][x] < w.top
        BY <1>1, <4>1
      <4>3. QED
        BY <1>1, <2>1, <4>1, <4>2
    <3>3. QED
      BY <3>1, <3>2
  <2>2. CASE e # d
    <3> DEFINE y == w.from[g][e]
    <3>1. e \in w.heard[g] /\ e \in Devices /\ v.from[g][e] = y /\ HasLinkTo(y, e)
      BY <1>0, <1>1, <1>4, <2>2 DEF Leads
    <3>2. CASE y = g
      BY <3>1, <3>2
    <3>3. CASE y # g
      <4>1. y \in w.heard[g] /\ y \in Devices /\ w.rank[g][y] < w.rank[g][e]
        BY <1>0, <3>1, <3>3 DEF Leads
      <4> HIDE DEF y
      <4>2. w.rank[g][y] \in Nat /\ w.rank[g][e] \in Nat
        BY <1>2, <3>1, <4>1
      <4>3. CASE e \in w.passed
        <5>1. w.rank[g][e] < w.top
          BY <3>1, <4>3
        <5>2. w.rank[g][y] < w.top
          BY <1>0, <4>1, <4>2, <5>1
        <5>3. y \in w.passed /\ y # d
          BY <4>1, <5>2
        <5>4. QED
          BY <1>1, <2>2, <3>1, <4>1, <4>3, <5>3
      <4>4. CASE e \notin w.passed
        <5>1. ~ (w.rank[g][e] < w.top) /\ v.rank[g][e] = w.rank[g][e] + 1
          BY <1>1, <2>2, <3>1, <4>4
        <5>2. v.rank[g][y] < v.rank[g][e]
          <6>1. CASE y = d
            BY <1>0, <1>1, <4>2, <5>1, <6>1
          <6>2. CASE y # d
            BY <1>1, <4>1, <4>2, <5>1, <6>2
          <6>3. QED
            BY <6>1, <6>2
        <5>3. QED
          BY <1>1, <3>1, <4>1, <5>2
      <4>5. QED
        BY <4>3, <4>4
    <3>4. QED
      BY <3>2, <3>3
  <2>3. QED
    BY <2>1, <2>2
<1>5. Leads(v, g)'
  BY <1>4 DEF Leads, HasLinkTo
<1>6. \A e \in v.heard[g] : e \in v.passed <=> v.rank[g][e] < v.top
  <2> SUFFICES ASSUME NEW e \in v.heard[g]
               PROVE  e \in v.passed <=> v.rank[g][e] < v.top
    OBVIOUS
  <2>1. CASE e = d
    BY <1>0, <1>1, <2>1
  <2>2. CASE e # d
    <3>1. e \in w.heard[g] /\ e \in Devices /\ w.rank[g][e] \in Nat
      BY <1>0, <1>1, <1>2, <2>2
    <3>2. e \in w.passed <=> w.rank[g][e] < w.top
      BY <3>1
    <3>3. QED
      BY <1>0, <1>1, <2>2, <3>1, <3>2
  <2>3. QED
    BY <2>1, <2>2
<1>7. QED
  BY <1>1, <1>3, <1>5, <1>6

-----------------------------------------------------------------------------
(* Steps while a frame is under way *)

(* Follows, of a frame that is under way or just got there *)
Settles(w) ==
  /\ \A h \in Hosts : Leads(w, h) /\ EntriesLead(w, h)
  /\ NoBroadcaster /\ SeenWereSent(w)
  /\ OnlyLatest(w) /\ \A h \in Latest.due : Bound(w, h)

(* On the cables is nothing but the frame sent last, after a device        *)
(* forwarded it, too.                                                      *)
LEMMA ForwardedLatest ==
  ASSUME NetInv, NEW w \in Ways, NEW v \in Ways, Follows(w), NEW d \in Devices, NEW p \in Paths,
         NEW out \in SUBSET Paths, Arrives(d, p), Forwarded(d, p, out), sends' = sends,
         w.passed \subseteq v.passed, out # {} => d \in v.passed,
         NEW c \in Nodes \X Nodes, wire'[c] # <<>>
  PROVE  /\ c[1] \in v.passed \cup {Latest.frame.src}
         /\ \A k \in 1 .. Len(wire'[c]) : wire'[c][k].n = Len(sends)
<1>1. OnlyLatest(w)
  BY ArrivesLatest
<1>2. c[1] \in v.passed \cup {Latest.frame.src}
  <2>1. wire[c] # <<>> \/ (c[1] = d /\ out # {})
    BY ForwardedCables DEF NetInv, IInv
  <2>2. QED
    BY <1>1, <2>1 DEF OnlyLatest
<1>3. ASSUME NEW k \in 1 .. Len(wire'[c])
      PROVE  wire'[c][k].n = Len(sends)
  <2>1. PICK b \in Nodes \X Nodes : \E l \in 1 .. Len(wire[b]) : wire'[c][k] = wire[b][l]
    BY ForwardedItems DEF NetInv
  <2>2. PICK l \in 1 .. Len(wire[b]) : wire'[c][k] = wire[b][l]
    BY <2>1
  <2>3. wire[b] # <<>>
    BY <2>2
  <2>4. QED
    BY <1>1, <2>2, <2>3 DEF OnlyLatest
<1>4. QED
  BY <1>2, <1>3

(* A switch that accepts the frame has not passed it on yet. *)
LEMMA AcceptFollows ==
  ASSUME NetInv, NetInv', NEW w \in Ways, Follows(w), NEW s \in Switches, NEW p \in Paths,
         Accept(s, p, ~ IsDuplicate(s, Item0(s, p).frame))
  PROVE  \E v \in Ways : Settles(v)'
<1> DEFINE f == Latest.frame
<1>0. TypeOK /\ TypeOK'
  BY DEF NetInv, IInv
<1>1. /\ s \in Devices /\ Arrives(s, p) /\ ~ IsDuplicate(s, Item0(s, p).frame)
      /\ UNCHANGED <<now, peer, sends, got, staleUntil>>
  BY DEF Accept, Devices
<1>2. /\ ~ Quiet /\ sends # <<>> /\ OnlyLatest(w)
      /\ Item0(s, p).frame = f /\ <<peer[s][p], s>> \in Nodes \X Nodes
      /\ peer[s][p] \in w.passed \cup {f.src}
  BY <1>1, ArrivesLatest
<1>3. PICK x : x = peer[s][p]
  OBVIOUS
<1>4. PICK g : g = f.src
  OBVIOUS
<1>5. PICK v : v = PassedOnBy(w, g, s, x)
  OBVIOUS
<1>6. /\ Len(sends) \in 1 .. Len(sends) /\ f \in Frames /\ g \in Hosts /\ f.dst \in Addresses
      /\ Latest.due \subseteq Hosts /\ x \in Nodes /\ now \in Nat /\ HasLinkTo(x, s) /\ g \in Addresses
  BY <1>0, <1>2, <1>3, <1>4, LatestType DEF TypeOK, HasLinkTo, Addresses
<1>7. s \notin w.passed
  BY <1>1, <1>2 DEF OnlyLatest
<1>8. /\ v \in Ways /\ v.passed = w.passed \cup {s} /\ v.heard[g] = w.heard[g] \cup {s}
      /\ v.from[g][s] = x /\ (\A e \in Devices \ {s} : v.from[g][e] = w.from[g][e])
      /\ \A h \in Hosts \ {g} : v.heard[h] = w.heard[h] /\ v.from[h] = w.from[h]
  BY <1>1, <1>5, <1>6, PassedOnType
<1>9. /\ \A h \in Hosts : Leads(v, h)'
      /\ v.passed \subseteq v.heard[g]
      /\ \A e \in v.heard[g] : e \in v.passed <=> v.rank[g][e] < v.top
  <2>1. /\ \A h \in Hosts : Leads(w, h)
        /\ w.passed \subseteq w.heard[g]
        /\ \A e \in w.heard[g] : e \in w.passed <=> w.rank[g][e] < w.top
    BY <1>2, <1>4 DEF Follows, OnlyLatest
  <2>2. x \in w.passed \cup {g} /\ peer' = peer
    BY <1>1, <1>2, <1>3, <1>4
  <2>3. QED
    BY <1>1, <1>5, <1>6, <1>7, <2>1, <2>2, PassedOnLeads
<1> DEFINE e == [path |-> p, at |-> now]
<1>10. /\ forward' = [forward EXCEPT ![s] = AddEntry(forward[s], g, e)]
       /\ seen' = [seen EXCEPT ![s] = AddEntry(seen[s], f, now)]
  BY <1>2, <1>4 DEF Accept
<1>11. /\ GetEntry(forward'[s], g) = e
       /\ \A a \in Addresses \ {g} : GetEntry(forward'[s], a) \in {GetEntry(forward[s], a), Unknown}
  <2>1. forward[s] \in Table(Addresses, ForwardRecord) /\ e \in ForwardRecord
        /\ Unknown \notin ForwardRecord
    BY <1>0, <1>6, UnknownAssumption DEF TypeOK, ForwardRecord
  <2>2. forward'[s] = AddEntry(forward[s], g, e)
    BY <1>0, <1>10 DEF TypeOK
  <2> HIDE DEF e
  <2>3. QED
    BY <1>6, <2>1, <2>2, AddedEntry
<1>12. /\ GetEntry(seen'[s], f) = now
       /\ \A k \in Frames \ {f} : GetEntry(seen'[s], k) \in {GetEntry(seen[s], k), Unknown}
  <2>1. seen[s] \in Table(Frames, Nat) /\ seen'[s] = AddEntry(seen[s], f, now) /\ Unknown \notin Nat
    BY <1>0, <1>10, UnknownAssumption DEF TypeOK
  <2> HIDE DEF f
  <2>2. QED
    BY <1>6, <2>1, AddedEntry
<1>13. \A t \in Switches \ {s} : forward'[t] = forward[t] /\ seen'[t] = seen[t]
  BY <1>0, <1>10 DEF TypeOK
<1> HIDE DEF f
<1>14. ASSUME NEW h \in Hosts
       PROVE  EntriesLead(v, h)'
  <2> SUFFICES ASSUME NEW t \in Switches, GetEntry(forward'[t], h) # Unknown
               PROVE  IF t \in v.heard[h] THEN peer'[t][GetEntry(forward'[t], h).path] = v.from[h][t]
                      ELSE GetEntry(forward'[t], h).at + ForwardTimeout < staleUntil'[h]
    BY DEF EntriesLead
  <2>1. CASE t = s /\ h = g
    BY <1>1, <1>3, <1>8, <1>11, <2>1
  <2>2. CASE ~ (t = s /\ h = g)
    <3>1. GetEntry(forward'[t], h) = GetEntry(forward[t], h)
      BY <1>11, <1>13, <2>2 DEF Addresses
    <3>2. t \in Devices /\ (t \in v.heard[h] <=> t \in w.heard[h]) /\ v.from[h][t] = w.from[h][t]
      BY <1>8, <2>2 DEF Devices
    <3>3. EntriesLead(w, h)
      BY DEF Follows
    <3>4. QED
      BY <1>1, <3>1, <3>2, <3>3 DEF EntriesLead
  <2>3. QED
    BY <2>1, <2>2
<1>15. NoBroadcaster'
  <2>1. Broadcast \in Addresses \ {g}
    BY <1>6, NetworkAssumption DEF Addresses
  <2>2. QED
    BY <1>11, <1>13, <2>1 DEF NoBroadcaster, Follows
<1>16. SeenWereSent(v)'
  <2> SUFFICES ASSUME NEW t \in Switches, NEW k \in Frames, GetEntry(seen'[t], k) # Unknown
               PROVE  \E n \in 1 .. Len(sends) :
                        /\ sends[n].frame = k /\ GetEntry(seen'[t], k) <= sends[n].at
                        /\ n = Len(sends) => t \in v.passed
    BY <1>1 DEF SeenWereSent
  <2>1. CASE t = s /\ k = f
    <3>1. GetEntry(seen'[t], k) <= sends[Len(sends)].at
      BY <1>2, <1>6, <1>12, <2>1 DEF OnlyLatest, Latest
    <3>2. sends[Len(sends)].frame = k /\ t \in v.passed
      BY <1>8, <2>1 DEF f, Latest
    <3>3. QED
      BY <1>6, <3>1, <3>2
  <2>2. CASE ~ (t = s /\ k = f)
    <3>1. GetEntry(seen'[t], k) = GetEntry(seen[t], k)
      BY <1>12, <1>13, <2>2
    <3>2. PICK n \in 1 .. Len(sends) :
            /\ sends[n].frame = k /\ GetEntry(seen[t], k) <= sends[n].at
            /\ n = Len(sends) /\ ~ Quiet => t \in w.passed
      BY <3>1 DEF Follows, SeenWereSent
    <3>3. QED
      BY <1>2, <1>8, <3>1, <3>2
  <2>3. QED
    BY <2>1, <2>2
<1> DEFINE table == AddEntry(forward[s], f.src, e)
           out == Destinations(s, table, f.dst)
<1>17. Forwarded(s, p, out) /\ out \in SUBSET Paths
  <2>1. table \in Table(Addresses, ForwardRecord)
    BY <1>0, <1>4, <1>10 DEF TypeOK
  <2>2. Forwarded(s, p, out)
    BY <1>2 DEF Accept
  <2> HIDE DEF table
  <2>3. QED
    BY <1>6, <2>1, <2>2, DestinationsArePaths
<1> HIDE DEF table, out, e
<1>18. Latest' = Latest
  BY <1>1 DEF Latest
<1>19. OnlyLatest(v)'
  <2>1. \A c \in Nodes \X Nodes : wire'[c] # <<>> =>
          /\ c[1] \in v.passed \cup {f.src}
          /\ \A k \in 1 .. Len(wire'[c]) : wire'[c][k].n = Len(sends)
    <3>1. w.passed \subseteq v.passed /\ s \in v.passed
      BY <1>8
    <3>2. QED
      BY <1>1, <1>8, <1>17, <3>1, ForwardedLatest DEF f
  <2>2. \A t \in v.passed \cap Switches : IsDuplicate(t, f)'
    <3> SUFFICES ASSUME NEW t \in v.passed \cap Switches PROVE IsDuplicate(t, f)'
      OBVIOUS
    <3>1. CASE t = s
      BY <1>1, <1>6, <1>12, <3>1, NetworkAssumption, UnknownAssumption DEF IsDuplicate, f, Latest
    <3>2. CASE t # s
      BY <1>1, <1>2, <1>8, <1>13, <3>2 DEF OnlyLatest, IsDuplicate, f, Latest
    <3>3. QED
      BY <3>1, <3>2
  <2>3. QED
    BY <1>1, <1>2, <1>4, <1>9, <1>18, <2>1, <2>2 DEF OnlyLatest, f
<1>20. ASSUME NEW h \in Latest.due
       PROVE  Bound(v, h)'
  <2>1. h \in Hosts /\ Bound(w, h) /\ Leads(w, h) /\ EntriesLead(w, h) /\ NoBroadcaster
    BY <1>2, <1>6 DEF Follows
  <2>2. h # g /\ f.dst \in {h, Broadcast} /\ now >= staleUntil[h]
    BY <1>4, <2>1 DEF Bound, f
  <2>3. v.heard[h] = w.heard[h] /\ v.from[h] = w.from[h] /\ w.passed \subseteq v.passed
    BY <1>8, <2>1, <2>2
  <2>4. GoesOn(v, s, h)'
    BY <1>0, <1>2, <1>4, <1>8, <2>1, <2>2, <2>3, AcceptedGoesOn
  <2>5. \A c \in Nodes \X Nodes : wire[c] # <<>> => wire'[c] # <<>> \/ c[2] \in v.passed
    BY <1>0, <1>1, <1>8, <1>17, ForwardedCables
  <2>6. \A d \in v.passed \ w.passed : GoesOn(v, d, h)'
    BY <1>8, <2>4
  <2>7. QED
    BY <1>0, <1>1, <1>2, <1>8, <2>1, <2>3, <2>5, <2>6, BoundStays
<1>21. QED
  BY <1>8, <1>9, <1>14, <1>15, <1>16, <1>18, <1>19, <1>20 DEF Settles

(* What a switch drops it has passed on, or it is due to nobody. *)
LEMMA DropFollows ==
  ASSUME NetInv, NetInv', NEW w \in Ways, Follows(w), NEW s \in Switches, NEW p \in Paths, Drop(s, p)
  PROVE  Settles(w)'
<1> DEFINE f == Latest.frame
<1>0. TypeOK /\ TypeOK'
  BY DEF NetInv, IInv
<1>1. /\ s \in Devices /\ Arrives(s, p) /\ Forwarded(s, p, {}) /\ {} \in SUBSET Paths
      /\ TooShort(Item0(s, p).frame) \/ IsDuplicate(s, Item0(s, p).frame)
      /\ UNCHANGED <<now, peer, forward, seen, sends, got, staleUntil>>
  BY DEF Drop, Devices, deviceVars, historyVars
<1>2. /\ ~ Quiet /\ sends # <<>> /\ OnlyLatest(w)
      /\ Item0(s, p).frame = f /\ <<peer[s][p], s>> \in Nodes \X Nodes
  BY <1>1, ArrivesLatest
<1>3. Latest' = Latest /\ Latest.due \subseteq Hosts /\ f \in Frames
  BY <1>0, <1>1, <1>2, LatestType DEF Latest
<1>4. \A h \in Hosts : Leads(w, h)' /\ EntriesLead(w, h)'
  BY <1>1 DEF Follows, Leads, EntriesLead, HasLinkTo
<1>5. NoBroadcaster' /\ SeenWereSent(w)'
  BY <1>1, <1>2 DEF Follows, NoBroadcaster, SeenWereSent
<1>6. OnlyLatest(w)'
  <2>1. \A c \in Nodes \X Nodes : wire'[c] # <<>> =>
          /\ c[1] \in w.passed \cup {f.src}
          /\ \A k \in 1 .. Len(wire'[c]) : wire'[c][k].n = Len(sends)
    BY <1>1, ForwardedLatest
  <2>2. \A t \in w.passed \cap Switches : IsDuplicate(t, f)'
    BY <1>1, <1>2, <1>3 DEF OnlyLatest, IsDuplicate
  <2>3. QED
    BY <1>1, <1>2, <1>3, <2>1, <2>2 DEF OnlyLatest
<1>7. ASSUME NEW h \in Latest.due
      PROVE  Bound(w, h)'
  <2>1. h \in Hosts /\ Bound(w, h) /\ Leads(w, h)
    BY <1>2, <1>3 DEF Follows
  <2>2. s \in w.passed
    <3> SUFFICES ASSUME s \notin w.passed PROVE FALSE
      OBVIOUS
    <3>1. GetEntry(seen[s], f) # Unknown /\ now - GetEntry(seen[s], f) < DuplicateTimeout
      BY <1>1, <1>2, <2>1 DEF Bound, IsDuplicate
    <3>2. PICK n \in 1 .. Len(sends) :
            /\ sends[n].frame = f /\ GetEntry(seen[s], f) <= sends[n].at
            /\ n = Len(sends) /\ ~ Quiet => s \in w.passed
      BY <1>3, <3>1 DEF Follows, SeenWereSent
    <3>3. n \in 1 .. Len(sends) - 1
      BY <1>0, <1>2, <3>2, LatestType
    <3>4. now - sends[n].at >= DuplicateTimeout
      BY <2>1, <3>2, <3>3 DEF Bound
    <3>5. now \in Nat /\ sends[n].at \in Nat /\ GetEntry(seen[s], f) \in Nat /\ DuplicateTimeout \in Nat
      <4> DEFINE S == [frame: Frames, at: Nat, due: SUBSET Hosts]
      <4>1. sends \in Seq(S) /\ now \in Nat /\ seen[s] \in Table(Frames, Nat)
        BY <1>0 DEF TypeOK
      <4> HIDE DEF S
      <4>2. sends[n] \in S
        BY <4>1
      <4>3. sends[n].at \in Nat
        BY <4>2 DEF S
      <4>4. GetEntry(seen[s], f) \in Nat
        BY <1>3, <3>1, <4>1 DEF GetEntry, Table
      <4>5. QED
        BY <4>1, <4>3, <4>4, NetworkAssumption
    <3>6. QED
      BY <3>1, <3>2, <3>4, <3>5
  <2>3. \A c \in Nodes \X Nodes : wire[c] # <<>> => wire'[c] # <<>> \/ c[2] \in w.passed
    BY <1>0, <1>1, <2>2, ForwardedCables
  <2>4. QED
    BY <1>0, <1>1, <1>2, <2>1, <2>3, BoundStays
<1>8. QED
  BY <1>3, <1>4, <1>5, <1>6, <1>7 DEF Settles

(* A repeater passes the frame on once, or once more. *)
LEMMA RepeatFollows ==
  ASSUME NetInv, NetInv', NEW w \in Ways, Follows(w), NEW r \in Repeaters, NEW p \in Paths,
         PacketRepeated(r, p)
  PROVE  \E v \in Ways : Settles(v)'
<1> DEFINE f == Latest.frame
<1>0. TypeOK /\ TypeOK'
  BY DEF NetInv, IInv
<1>1. /\ r \in Devices /\ Arrives(r, p) /\ Forwarded(r, p, LinkPaths(r))
      /\ LinkPaths(r) \in SUBSET Paths
      /\ UNCHANGED <<now, peer, forward, seen, sends, got, staleUntil>>
  BY DEF PacketRepeated, Devices, deviceVars, historyVars, LinkPaths
<1>2. /\ ~ Quiet /\ sends # <<>> /\ OnlyLatest(w)
      /\ Item0(r, p).frame = f /\ <<peer[r][p], r>> \in Nodes \X Nodes
      /\ peer[r][p] \in w.passed \cup {f.src}
  BY <1>1, ArrivesLatest
<1>3. PICK x : x = peer[r][p]
  OBVIOUS
<1>4. PICK g : g = f.src
  OBVIOUS
<1>5. PICK v : v = IF r \in w.passed THEN w ELSE PassedOnBy(w, g, r, x)
  OBVIOUS
<1>6. /\ f \in Frames /\ g \in Hosts /\ Latest' = Latest
      /\ Latest.due \subseteq Hosts /\ x \in Nodes /\ HasLinkTo(x, r) /\ r \notin Switches
  BY <1>0, <1>1, <1>2, <1>3, <1>4, LatestType, NetworkAssumption DEF HasLinkTo, Latest
<1>7. /\ v \in Ways /\ v.passed = w.passed \cup {r}
      /\ v.heard[g] = w.heard[g] \cup {r}
      /\ (\A e \in Devices \ {r} : v.from[g][e] = w.from[g][e])
      /\ \A h \in Hosts \ {g} : v.heard[h] = w.heard[h] /\ v.from[h] = w.from[h]
      /\ \A h \in Hosts : Leads(v, h)'
      /\ v.passed \subseteq v.heard[g]
      /\ \A e \in v.heard[g] : e \in v.passed <=> v.rank[g][e] < v.top
  <2>1. CASE r \in w.passed
    <3>1. v = w
      BY <1>5, <2>1
    <3>2. w.passed \subseteq w.heard[g] /\ \A e \in w.heard[g] : e \in w.passed <=> w.rank[g][e] < w.top
      BY <1>2, <1>4 DEF OnlyLatest
    <3>3. w.passed = w.passed \cup {r} /\ w.heard[g] = w.heard[g] \cup {r}
      BY <2>1, <3>2
    <3>4. \A h \in Hosts : Leads(w, h)'
      BY <1>1 DEF Follows, Leads, HasLinkTo
    <3>5. QED
      BY <3>1, <3>2, <3>3, <3>4
  <2>2. CASE r \notin w.passed
    <3>1. v = PassedOnBy(w, g, r, x)
      BY <1>5, <2>2
    <3>2. /\ \A h \in Hosts : Leads(v, h)'
          /\ v.passed \subseteq v.heard[g]
          /\ \A e \in v.heard[g] : e \in v.passed <=> v.rank[g][e] < v.top
      <4>1. /\ \A h \in Hosts : Leads(w, h)
            /\ w.passed \subseteq w.heard[g]
            /\ \A e \in w.heard[g] : e \in w.passed <=> w.rank[g][e] < w.top
        BY <1>2, <1>4 DEF Follows, OnlyLatest
      <4>2. x \in w.passed \cup {g} /\ peer' = peer
        BY <1>1, <1>2, <1>3, <1>4
      <4>3. QED
        BY <1>1, <1>6, <2>2, <3>1, <4>1, <4>2, PassedOnLeads
    <3>3. QED
      BY <1>1, <1>6, <3>1, <3>2, PassedOnType
  <2>3. QED
    BY <2>1, <2>2
<1>8. ASSUME NEW h \in Hosts
      PROVE  EntriesLead(v, h)'
  <2>1. \A t \in Switches : /\ t \in Devices \ {r} /\ (t \in v.heard[h] <=> t \in w.heard[h])
                            /\ v.from[h][t] = w.from[h][t]
    BY <1>6, <1>7 DEF Devices
  <2>2. EntriesLead(w, h)
    BY DEF Follows
  <2>3. QED
    BY <1>1, <2>1, <2>2 DEF EntriesLead
<1>9. NoBroadcaster' /\ SeenWereSent(v)'
  BY <1>1, <1>2, <1>7 DEF Follows, NoBroadcaster, SeenWereSent
<1>10. OnlyLatest(v)'
  <2>1. \A c \in Nodes \X Nodes : wire'[c] # <<>> =>
          /\ c[1] \in v.passed \cup {f.src}
          /\ \A k \in 1 .. Len(wire'[c]) : wire'[c][k].n = Len(sends)
    <3>1. w.passed \subseteq v.passed /\ r \in v.passed
      BY <1>7
    <3>2. QED
      BY <1>1, <1>7, <3>1, ForwardedLatest
  <2>2. \A t \in v.passed \cap Switches : IsDuplicate(t, f)'
    BY <1>1, <1>2, <1>6, <1>7 DEF OnlyLatest, IsDuplicate
  <2>3. QED
    BY <1>1, <1>2, <1>4, <1>6, <1>7, <2>1, <2>2 DEF OnlyLatest
<1>11. ASSUME NEW h \in Latest.due
       PROVE  Bound(v, h)'
  <2>1. h \in Hosts /\ Bound(w, h) /\ Leads(w, h)
    BY <1>2, <1>6 DEF Follows
  <2>2. h # g
    BY <1>4, <2>1 DEF Bound
  <2>3. v.heard[h] = w.heard[h] /\ v.from[h] = w.from[h] /\ w.passed \subseteq v.passed
    BY <1>7, <2>1, <2>2
  <2>4. GoesOn(v, r, h)'
    BY <1>1, <1>2, <1>4, <1>6, <1>7, <2>1, <2>2, <2>3, FloodGoesOn
  <2>5. \A c \in Nodes \X Nodes : wire[c] # <<>> => wire'[c] # <<>> \/ c[2] \in v.passed
    BY <1>0, <1>1, <1>7, ForwardedCables
  <2>6. \A d \in v.passed \ w.passed : GoesOn(v, d, h)'
    BY <1>7, <2>4
  <2>7. QED
    BY <1>0, <1>1, <1>2, <1>7, <2>1, <2>3, <2>5, <2>6, BoundStays
<1>12. QED
  BY <1>6, <1>7, <1>8, <1>9, <1>10, <1>11 DEF Settles

(* A host receives what is for it. *)
LEMMA ReceiveFollows ==
  ASSUME NetInv, NetInv', NEW w \in Ways, Follows(w), NEW g \in Hosts, NEW d \in Devices,
         HostReceives(g, d)
  PROVE  Settles(w)'
<1> DEFINE c0 == <<d, g>>
           i == Head(wire[c0])
           f == Latest.frame
<1>0. TypeOK /\ TypeOK'
  BY DEF NetInv, IInv
<1>1. /\ c0 \in Nodes \X Nodes /\ wire[c0] # <<>> /\ wire[c0] \in Seq(Item)
      /\ wire' = [wire EXCEPT ![c0] = Tail(wire[c0])]
      /\ got' = IF i.frame.dst \in {g, Broadcast} THEN [got EXCEPT ![g][i.n] = @ + 1] ELSE got
      /\ UNCHANGED <<now, peer, forward, seen, sends, staleUntil>>
  BY <1>0 DEF HostReceives, deviceVars, Nodes, TypeOK
<1>2. ~ Quiet /\ OnlyLatest(w) /\ sends # <<>>
  BY <1>1 DEF Quiet, Follows, OnlyLatest
<1>3. /\ Latest' = Latest /\ Latest.due \subseteq Hosts /\ f \in Frames
      /\ Len(sends) \in 1 .. MaxSends
  <2>1. Len(sends) <= MaxSends /\ MaxSends \in Nat
    BY NetworkAssumption DEF NetInv, ItemsWereSent
  <2>2. QED
    BY <1>0, <1>1, <1>2, <2>1, LatestType DEF Latest
<1>4. i.n = Len(sends) /\ i.frame = f
  <2>1. 1 \in 1 .. Len(wire[c0]) /\ i = wire[c0][1]
    BY <1>1
  <2> HIDE DEF c0, i
  <2>2. i.n = Len(sends)
    BY <1>1, <1>2, <2>1 DEF OnlyLatest
  <2>3. i.frame = sends[i.n].frame
    BY <1>1, <2>1 DEF NetInv, ItemsWereSent
  <2>4. QED
    BY <2>2, <2>3 DEF Latest
<1> HIDE DEF i
<1>5. \A c \in Nodes \X Nodes :
        /\ wire'[c] = IF c = c0 THEN Tail(wire[c0]) ELSE wire[c]
        /\ Len(wire[c]) \in Nat
  BY <1>0, <1>1 DEF TypeOK
<1>6. \A c \in Nodes \X Nodes : wire'[c] # <<>> =>
        /\ wire[c] # <<>>
        /\ \A k \in 1 .. Len(wire'[c]) : \E l \in 1 .. Len(wire[c]) : wire'[c][k] = wire[c][l]
  <2> SUFFICES ASSUME NEW c \in Nodes \X Nodes, wire'[c] # <<>>
               PROVE  /\ wire[c] # <<>>
                      /\ \A k \in 1 .. Len(wire'[c]) : \E l \in 1 .. Len(wire[c]) : wire'[c][k] = wire[c][l]
    OBVIOUS
  <2>1. CASE c = c0
    <3> DEFINE q == wire[c0]
    <3>1. q \in Seq(Item) /\ q # <<>> /\ wire'[c] = Tail(q) /\ wire[c] = q
      BY <1>1, <1>5, <2>1
    <3> HIDE DEF q
    <3>2. \A k \in 1 .. Len(Tail(q)) : k + 1 \in 1 .. Len(q) /\ Tail(q)[k] = q[k + 1]
      BY <3>1
    <3>3. QED
      BY <3>1, <3>2
  <2>2. CASE c # c0
    BY <1>5, <2>2
  <2>3. QED
    BY <2>1, <2>2
<1> HIDE DEF c0
<1>7. \A h \in Hosts : Leads(w, h)' /\ EntriesLead(w, h)'
  BY <1>1 DEF Follows, Leads, EntriesLead, HasLinkTo
<1>8. NoBroadcaster' /\ SeenWereSent(w)'
  BY <1>1, <1>2 DEF Follows, NoBroadcaster, SeenWereSent
<1>9. OnlyLatest(w)'
  <2>1. \A c \in Nodes \X Nodes : wire'[c] # <<>> =>
          /\ c[1] \in w.passed \cup {f.src}
          /\ \A k \in 1 .. Len(wire'[c]) : wire'[c][k].n = Len(sends)
    BY <1>2, <1>6 DEF OnlyLatest
  <2>2. \A t \in w.passed \cap Switches : IsDuplicate(t, f)'
    BY <1>1, <1>2, <1>3 DEF OnlyLatest, IsDuplicate
  <2>3. QED
    BY <1>1, <1>2, <1>3, <2>1, <2>2 DEF OnlyLatest
<1>10. ASSUME NEW h \in Latest.due
       PROVE  Bound(w, h)'
  <2>1. h \in Hosts /\ Bound(w, h) /\ Leads(w, h)
    BY <1>2, <1>3 DEF Follows
  <2>2. got \in [Hosts -> [1 .. MaxSends -> Nat]]
    BY <1>0 DEF TypeOK
  <2>3. got[h][Len(sends)] \in Nat
    BY <1>3, <2>1, <2>2
  <2>4. got' = got \/ got' = [got EXCEPT ![g] = [got[g] EXCEPT ![Len(sends)] = got[g][Len(sends)] + 1]]
    BY <1>1, <1>4
  <2>5. got[h][Len(sends)] > 0 => got'[h][Len(sends)] > 0
    BY <1>3, <2>1, <2>2, <2>3, <2>4
  <2>6. h = g => got'[h][Len(sends)] > 0
    <3>1. h = g => got' = [got EXCEPT ![g] = [got[g] EXCEPT ![Len(sends)] = got[g][Len(sends)] + 1]]
      BY <1>1, <1>4, <2>1 DEF Bound
    <3>2. got[g] \in [1 .. MaxSends -> Nat] /\ g \in Hosts
      BY <2>2
    <3>3. h = g => got'[h] = [got[g] EXCEPT ![Len(sends)] = got[g][Len(sends)] + 1]
      BY <2>2, <3>1
    <3>4. h = g => got'[h][Len(sends)] = got[g][Len(sends)] + 1
      BY <1>3, <3>2, <3>3
    <3>5. QED
      BY <2>3, <3>4
  <2>7. \A c \in Nodes \X Nodes : wire[c] # <<>> =>
          \/ wire'[c] # <<>> \/ c[2] \in w.passed
          \/ c[2] \in Hosts \ {h}
          \/ c[2] = h /\ got'[h][Len(sends)] > 0
    BY <1>5, <2>6 DEF c0
  <2>8. QED
    BY <1>0, <1>1, <1>2, <2>1, <2>5, <2>7, BoundStays
<1>11. QED
  BY <1>3, <1>7, <1>8, <1>9, <1>10 DEF Settles

-----------------------------------------------------------------------------
(* All steps *)

(* What a host received it has received for good. *)
LEMMA ReceivedStays ==
  ASSUME TypeOK, [Next]_vars, NEW h \in Hosts, NEW n \in 1 .. MaxSends, got[h][n] > 0
  PROVE  got'[h][n] > 0
<1>1. CASE got' = got
  BY <1>1
<1>2. ASSUME NEW g \in Hosts, NEW d \in Devices, HostReceives(g, d)
      PROVE  got'[h][n] > 0
  <2> DEFINE m == Head(wire[<<d, g>>]).n
             q == [got[g] EXCEPT ![m] = got[g][m] + 1]
  <2>1. got \in [Hosts -> [1 .. MaxSends -> Nat]]
    BY DEF TypeOK
  <2>2. got' = got \/ got' = [got EXCEPT ![g] = q]
    BY <1>2 DEF HostReceives
  <2>3. q[n] > 0 \/ g # h
    <3>1. got[h] \in [1 .. MaxSends -> Nat] /\ got[h][n] \in Nat
      BY <2>1
    <3>2. g = h => q = [got[h] EXCEPT ![m] = got[h][m] + 1]
      OBVIOUS
    <3> HIDE DEF m, q
    <3>3. CASE m = n
      BY <3>1, <3>2, <3>3
    <3>4. CASE m # n
      BY <3>1, <3>2, <3>4
    <3>5. QED
      BY <3>3, <3>4
  <2> HIDE DEF q
  <2>4. QED
    BY <2>1, <2>2, <2>3
<1>3. ASSUME NEW f \in Frames, NEW d \in Devices, HostSends(f, d)
      PROVE  got' = got
  BY <1>3 DEF HostSends
<1>4. QED
  BY <1>1, <1>2, <1>3
  DEF Next, PacketReceived, Drop, Accept, PacketRepeated, Unplug, Plug, Tick, vars, historyVars

(* A frame that is under way goes on to its hosts, or got there. *)
LEMMA SettledFollows ==
  ASSUME NetInv, NetInv', [Next]_vars, GotThere, sends' = sends, NEW w \in Ways, Settles(w)'
  PROVE  GotThere' /\ Follows(w)'
<1>1. Follows(w)'
  BY DEF Settles, Follows
<1>2. ASSUME NEW n \in 1 .. Len(sends'), n < Len(sends') \/ Quiet', NEW h \in sends'[n].due
      PROVE  got'[h][n] > 0
  <2> DEFINE S == [frame: Frames, at: Nat, due: SUBSET Hosts]
  <2>1. TypeOK /\ TypeOK' /\ Len(sends) <= MaxSends /\ MaxSends \in Nat
    BY NetworkAssumption DEF NetInv, IInv, ItemsWereSent
  <2>2. sends \in Seq(S)
    BY <2>1 DEF TypeOK
  <2> HIDE DEF S
  <2>3. Len(sends) \in Nat /\ n \in 1 .. MaxSends /\ sends[n] \in S /\ sends # <<>>
    BY <2>1, <2>2
  <2>4. h \in Hosts
    BY <2>3 DEF S
  <2>5. CASE n < Len(sends)
    <3>1. got[h][n] > 0
      BY <2>5 DEF GotThere
    <3>2. QED
      BY <2>1, <2>3, <2>4, <3>1, ReceivedStays
  <2>6. CASE ~ (n < Len(sends))
    <3>1. n = Len(sends) /\ Quiet'
      BY <1>2, <2>3, <2>6
    <3>2. Leads(w, h)' /\ Bound(w, h)'
      BY <2>4, <3>1 DEF Settles, Latest
    <3>3. QED
      BY <2>1, <2>3, <2>4, <3>1, <3>2, Arrived
  <2>7. QED
    BY <2>5, <2>6
<1>3. QED
  BY <1>1, <1>2 DEF GotThere

(* A frame that is sent while nothing is under way starts with its host. *)
LEMMA SendFollows ==
  ASSUME NetInv, NetInv', GotThere, NEW w \in Ways, Follows(w), Quiet,
         NEW f \in Frames, NEW d \in Devices, HostSends(f, d)
  PROVE  GotThere' /\ \E v \in Ways : Follows(v)'
<1> DEFINE S == [frame: Frames, at: Nat, due: SUBSET Hosts]
           r == [frame |-> f, at |-> now, due |-> Due(f, d)]
           c0 == <<f.src, d>>
           i == [frame |-> f, n |-> Len(sends) + 1]
<1>0. TypeOK /\ TypeOK'
  BY DEF NetInv, IInv
<1>1. /\ f.src \in Hosts /\ c0 \in Nodes \X Nodes
      /\ r \in S /\ sends \in Seq(S)
  <2>1. f.src \in Hosts
    BY NetworkAssumption
  <2>2. Due(f, d) \subseteq Hosts /\ now \in Nat
    BY <1>0 DEF Due, TypeOK
  <2>3. QED
    BY <1>0, <2>1, <2>2 DEF Nodes, TypeOK
<1>2. /\ sends' = Append(sends, r)
      /\ wire' = [wire EXCEPT ![c0] = Append(wire[c0], i)]
      /\ UNCHANGED <<now, peer, forward, seen, got, staleUntil>>
  BY DEF HostSends, deviceVars
<1>3. r.frame = f /\ r.at = now /\ r.due = Due(f, d) /\ i.n = Len(sends) + 1 /\ c0[1] = f.src
  OBVIOUS
<1> HIDE DEF S, r, i
<1>4. /\ Len(sends) \in Nat /\ Len(sends') = Len(sends) + 1 /\ Latest' = r /\ sends' # <<>>
      /\ \A n \in 1 .. Len(sends) : sends'[n] = sends[n]
  <2>1. /\ Len(sends) \in Nat /\ Len(sends') = Len(sends) + 1 /\ sends'[Len(sends')] = r
        /\ \A n \in 1 .. Len(sends) : sends'[n] = sends[n]
    BY <1>1, <1>2
  <2>2. sends' # <<>>
    BY <1>1, <1>2, AppendedIsSome
  <2>3. QED
    BY <2>1, <2>2 DEF Latest
<1>5. wire'[c0] = <<i>> /\ \A c \in Nodes \X Nodes : c # c0 => wire'[c] = <<>>
  <2>1. wire \in [Nodes \X Nodes -> Seq(Item)] /\ \A c \in Nodes \X Nodes : wire[c] = <<>>
    BY <1>0 DEF TypeOK, Quiet
  <2> HIDE DEF c0
  <2>2. /\ wire'[c0] = Append(wire[c0], i) /\ wire[c0] = <<>>
        /\ \A c \in Nodes \X Nodes : c # c0 => wire'[c] = wire[c]
    BY <1>1, <1>2, <2>1
  <2>3. Append(<<>>, i) = <<i>>
    OBVIOUS
  <2>4. QED
    BY <2>1, <2>2, <2>3
<1>6. wire'[c0] # <<>> /\ Len(wire'[c0]) = 1 /\ wire'[c0][1] = i
  BY <1>5
<1>7. ~ Quiet'
  BY <1>1, <1>6 DEF Quiet
<1>8. PICK v : v = [w EXCEPT !.passed = {}, !.top = 0]
  OBVIOUS
<1>9. /\ v \in Ways /\ v.passed = {} /\ v.top = 0
      /\ v.heard = w.heard /\ v.from = w.from /\ v.rank = w.rank
  BY <1>8 DEF Ways
<1>10. \A h \in Hosts : Leads(v, h)' /\ EntriesLead(v, h)'
  BY <1>2, <1>9 DEF Follows, Leads, EntriesLead, HasLinkTo
<1>11. NoBroadcaster' /\ SeenWereSent(v)'
  <2>1. NoBroadcaster'
    BY <1>2 DEF Follows, NoBroadcaster
  <2>2. ASSUME NEW s \in Switches, NEW g \in Frames, GetEntry(seen'[s], g) # Unknown
        PROVE  \E n \in 1 .. Len(sends') :
                 /\ sends'[n].frame = g /\ GetEntry(seen'[s], g) <= sends'[n].at
                 /\ n = Len(sends') /\ ~ Quiet' => s \in v.passed
    <3>1. PICK n \in 1 .. Len(sends) :
            sends[n].frame = g /\ GetEntry(seen[s], g) <= sends[n].at
      BY <1>2, <2>2 DEF Follows, SeenWereSent
    <3>2. n \in 1 .. Len(sends') /\ n # Len(sends') /\ sends'[n] = sends[n]
      BY <1>4
    <3>3. QED
      BY <1>2, <3>1, <3>2
  <2>3. QED
    BY <2>1, <2>2 DEF SeenWereSent
<1>12. OnlyLatest(v)'
  <2>1. ASSUME NEW c \in Nodes \X Nodes, wire'[c] # <<>>
        PROVE  /\ c[1] \in v.passed \cup {f.src}
               /\ \A k \in 1 .. Len(wire'[c]) : wire'[c][k].n = Len(sends')
    <3>1. c = c0
      BY <1>5, <2>1
    <3>2. ASSUME NEW k \in 1 .. Len(wire'[c])
          PROVE  wire'[c][k].n = Len(sends')
      <4>1. k \in 1 .. 1
        BY <1>6, <3>1
      <4>2. wire'[c][k] = i
        BY <1>6, <3>1, <4>1
      <4>3. QED
        BY <1>3, <1>4, <4>2
    <3>3. QED
      BY <1>3, <3>1, <3>2
  <2>2. \A e \in v.heard[f.src] : v.rank[f.src][e] \in Nat
    BY <1>1, <1>9 DEF Ways
  <2>3. \A e \in v.heard[f.src] : e \in v.passed <=> v.rank[f.src][e] < v.top
    BY <1>9, <2>2
  <2>4. QED
    BY <1>2, <1>3, <1>4, <1>9, <2>1, <2>3 DEF OnlyLatest
<1>13. ASSUME NEW h \in Latest'.due
       PROVE  Bound(v, h)'
  <2>1. h \in Due(f, d)
    BY <1>3, <1>4
  <2>2. /\ f.dst \in {h, Broadcast} /\ f.src # h /\ ~ TooShort(f)
        /\ now >= staleUntil[h]
        /\ \A n \in 1 .. Len(sends) : sends[n].frame = f => now - sends[n].at >= DuplicateTimeout
    BY <2>1 DEF Due
  <2>3. PICK e \in Devices : HasLinkTo(h, e) /\ Joined(d, e)
    BY <2>1 DEF Due
  <2>4. HasLinkTo(h, e)' /\ Joined(d, e)'
    BY <1>2, <2>3 DEF HasLinkTo, Joined
  <2>5. Comes(v, f.src, d)'
    BY <1>6 DEF Comes
  <2>6. \A n \in 1 .. Len(sends') - 1 :
          sends'[n].frame = f => now - sends'[n].at >= DuplicateTimeout
    BY <1>4, <2>2
  <2>7. Comes(v, Latest.frame.src, d)' /\ Latest'.frame = f
    BY <1>3, <1>4, <2>5
  <2>8. QED
    BY <1>2, <1>9, <2>2, <2>4, <2>6, <2>7 DEF Bound
<1>14. Follows(v)'
  BY <1>10, <1>11, <1>12, <1>13 DEF Follows
<1>15. GotThere'
  <2>1. ASSUME NEW n \in 1 .. Len(sends'), n < Len(sends'), NEW h \in sends'[n].due
        PROVE  got'[h][n] > 0
    <3>1. n \in 1 .. Len(sends)
      BY <1>4, <2>1
    <3>2. QED
      BY <1>2, <1>4, <2>1, <3>1 DEF GotThere
  <2>2. QED
    BY <1>7, <2>1 DEF GotThere
<1>16. QED
  BY <1>9, <1>14, <1>15

(* Links of hosts that come and go while nothing is under way leave the    *)
(* ways back to the other hosts.                                           *)
LEMMA LinksFollow ==
  ASSUME NetInv, NetInv', GotThere, NEW w \in Ways, Follows(w), Quiet, Quiet',
         UNCHANGED <<forward, seen, sends, got>>,
         NEW v \in Ways, NEW H \in SUBSET Hosts, v.from = w.from, v.rank = w.rank,
         \A h \in Hosts \ H : v.heard[h] = w.heard[h] /\ staleUntil'[h] = staleUntil[h],
         \A h \in H : /\ v.heard[h] = {}
                      /\ \A s \in Switches : GetEntry(forward[s], h) # Unknown =>
                           GetEntry(forward[s], h).at + ForwardTimeout < staleUntil'[h],
         \A d \in Devices, p \in Paths :
           peer[d][p] # NoOne /\ peer[d][p] \notin H => peer'[d][p] = peer[d][p]
  PROVE  GotThere' /\ Follows(v)'
<1>1. ASSUME NEW h \in Hosts \ H, NEW d \in w.heard[h]
      PROVE  d \in Devices /\ w.from[h][d] \notin H /\ w.from[h][d] # NoOne
  <2>1. d \in Devices /\ w.from[h][d] \in Devices \cup {h}
    BY DEF Ways, Follows, Leads
  <2>2. QED
    BY <2>1, NetworkAssumption DEF Nodes
<1>2. ASSUME NEW h \in Hosts
      PROVE  Leads(v, h)' /\ EntriesLead(v, h)'
  <2>1. CASE h \in H
    BY <2>1 DEF Leads, EntriesLead
  <2>2. CASE h \notin H
    <3>1. /\ Leads(w, h) /\ EntriesLead(w, h) /\ h \in Hosts \ H
          /\ v.heard[h] = w.heard[h] /\ staleUntil'[h] = staleUntil[h]
      BY <2>2 DEF Follows
    <3>2. \A d \in w.heard[h] : HasLinkTo(w.from[h][d], d)'
      BY <1>1, <3>1 DEF HasLinkTo, Leads
    <3>3. Leads(v, h)'
      BY <3>1, <3>2 DEF Leads
    <3>4. ASSUME NEW s \in Switches, GetEntry(forward[s], h) # Unknown, s \in w.heard[h]
          PROVE  peer'[s][GetEntry(forward[s], h).path] = w.from[h][s]
      <4> DEFINE e == GetEntry(forward[s], h)
      <4>1. forward[s] \in Table(Addresses, ForwardRecord) /\ h \in Addresses
        BY DEF NetInv, IInv, TypeOK, Addresses
      <4>2. e \in ForwardRecord
        BY <3>4, <4>1 DEF Table, GetEntry
      <4>3. e.path \in Paths /\ peer[s][e.path] = w.from[h][s]
        BY <3>1, <3>4, <4>2 DEF EntriesLead, ForwardRecord
      <4>4. QED
        BY <1>1, <3>1, <3>4, <4>3
    <3>5. EntriesLead(v, h)'
      BY <3>1, <3>4 DEF EntriesLead
    <3>6. QED
      BY <3>3, <3>5
  <2>3. QED
    BY <2>1, <2>2
<1>3. NoBroadcaster' /\ SeenWereSent(v)'
  BY DEF Follows, NoBroadcaster, SeenWereSent
<1>4. GotThere'
  BY DEF GotThere
<1>5. QED
  BY <1>2, <1>3, <1>4 DEF Follows

(* Cables that are plugged in lead away from nothing known. *)
LEMMA KeptLinksFollow ==
  ASSUME NetInv, NetInv', GotThere, NEW w \in Ways, Follows(w), Quiet, Quiet',
         UNCHANGED <<forward, seen, sends, got, staleUntil>>,
         \A d \in Devices, p \in Paths : peer[d][p] # NoOne => peer'[d][p] = peer[d][p]
  PROVE  GotThere' /\ Follows(w)'
<1> DEFINE H == {}
<1>1. /\ H \in SUBSET Hosts
      /\ \A h \in Hosts \ H : w.heard[h] = w.heard[h] /\ staleUntil'[h] = staleUntil[h]
      /\ \A h \in H : /\ w.heard[h] = {}
                      /\ \A s \in Switches : GetEntry(forward[s], h) # Unknown =>
                           GetEntry(forward[s], h).at + ForwardTimeout < staleUntil'[h]
      /\ \A d \in Devices, p \in Paths :
           peer[d][p] # NoOne /\ peer[d][p] \notin H => peer'[d][p] = peer[d][p]
  OBVIOUS
<1> HIDE DEF H
<1>2. QED
  BY <1>1, LinksFollow

(* What a switch knows of a host is not from the future. *)
LEMMA EntryBefore ==
  ASSUME NetInv, NEW s \in Switches, NEW h \in Hosts, GetEntry(forward[s], h) # Unknown
  PROVE  GetEntry(forward[s], h).at \in Nat /\ GetEntry(forward[s], h).at <= now
<1>1. Recalls(forward[s], ForwardLog(s), h)
  <2>1. Unknown \notin ForwardRecord /\ h \in Addresses
    BY UnknownAssumption DEF ForwardRecord, Addresses
  <2>2. Represents(forward[s], ForwardLog(s), Addresses, ForwardRecord)
    BY DEF NetInv, IInv, TablesRepresent
  <2>3. QED
    BY <2>1, <2>2, RepresentsRecalls
<1>2. PICK j \in 1 .. Len(ForwardLog(s)) : GetEntry(forward[s], h) = ForwardLog(s)[j].entry
  BY <1>1 DEF Recalls
<1>3. accepted[s] \in Seq(Accepted)
  BY DEF NetInv, IInv, TypeOK
<1>4. /\ j \in 1 .. Len(accepted[s])
      /\ ForwardLog(s)[j].entry = [path |-> accepted[s][j].path, at |-> accepted[s][j].at]
  BY <1>3 DEF ForwardLog
<1>5. accepted[s][j] \in Accepted
  BY <1>3, <1>4
<1>6. accepted[s][j].at \in Nat /\ accepted[s][j].at <= now
  BY <1>4, <1>5 DEF Accepted, NetInv, IInv, AcceptedInOrder
<1>7. QED
  BY <1>2, <1>4, <1>6

(* A host that leaves is heard no more: the way back to it begins anew. *)
LEMMA UnplugFollows ==
  ASSUME NetInv, NetInv', GotThere, NEW w \in Ways, Follows(w), Quiet,
         NEW h \in Hosts, NEW d \in Devices, Unplug(h, d)
  PROVE  GotThere' /\ \E v \in Ways : Follows(v)'
<1>0. TypeOK
  BY DEF NetInv, IInv
<1>1. PICK v : v = [w EXCEPT !.heard = [w.heard EXCEPT ![h] = {}]]
  OBVIOUS
<1>2. /\ v \in Ways /\ v.from = w.from /\ v.rank = w.rank /\ v.heard[h] = {}
      /\ \A g \in Hosts \ {h} : v.heard[g] = w.heard[g]
  BY <1>1 DEF Ways
<1>3. Quiet'
  <2>1. wire \in [Nodes \X Nodes -> Seq(Item)] /\ wire' = [wire EXCEPT ![<<h, d>>] = <<>>]
    BY <1>0 DEF TypeOK, Unplug
  <2>2. \A c \in Nodes \X Nodes : wire'[c] = <<>>
    BY <2>1 DEF Quiet
  <2>3. QED
    BY <2>2 DEF Quiet
<1>4. /\ \A g \in Hosts \ {h} : staleUntil'[g] = staleUntil[g]
      /\ staleUntil'[h] = now + ForwardTimeout + 1
  BY <1>0 DEF TypeOK, Unplug
<1>5. \A s \in Switches : GetEntry(forward[s], h) # Unknown =>
        GetEntry(forward[s], h).at + ForwardTimeout < staleUntil'[h]
  <2>1. now \in Nat /\ ForwardTimeout \in Nat
    BY <1>0, NetworkAssumption DEF TypeOK
  <2>2. QED
    BY <1>4, <2>1, EntryBefore
<1>6. \A e \in Devices, p \in Paths : peer[e][p] # NoOne /\ peer[e][p] # h =>
        peer'[e][p] = peer[e][p]
  BY <1>0 DEF TypeOK, Unplug
<1>7. UNCHANGED <<forward, seen, sends, got>>
  BY DEF Unplug
<1>8. GotThere' /\ Follows(v)'
  <2> DEFINE H == {h}
  <2>1. /\ H \in SUBSET Hosts
        /\ \A g \in Hosts \ H : v.heard[g] = w.heard[g] /\ staleUntil'[g] = staleUntil[g]
        /\ \A g \in H : /\ v.heard[g] = {}
                        /\ \A s \in Switches : GetEntry(forward[s], g) # Unknown =>
                             GetEntry(forward[s], g).at + ForwardTimeout < staleUntil'[g]
        /\ \A e \in Devices, p \in Paths :
             peer[e][p] # NoOne /\ peer[e][p] \notin H => peer'[e][p] = peer[e][p]
    BY <1>2, <1>4, <1>5, <1>6
  <2> HIDE DEF H
  <2>2. QED
    BY <1>2, <1>3, <1>7, <2>1, LinksFollow
<1>9. QED
  BY <1>2, <1>8

(* A host that is plugged in is not yet known anywhere. *)
LEMMA PlugFollows ==
  ASSUME NetInv, NetInv', GotThere, NEW w \in Ways, Follows(w), Quiet,
         NEW h \in Hosts, NEW d \in Devices, Plug(h, d)
  PROVE  GotThere' /\ Follows(w)'
<1>0. TypeOK
  BY DEF NetInv, IInv
<1>1. Quiet' /\ UNCHANGED <<forward, seen, sends, got, staleUntil>>
  BY DEF Plug, Quiet
<1>2. \A e \in Devices, p \in Paths : peer[e][p] # NoOne => peer'[e][p] = peer[e][p]
  <2>1. /\ peer \in [Devices -> [Paths -> Nodes \cup {NoOne}]] /\ nextPath \in [Devices -> Nat]
        /\ peer' = [peer EXCEPT ![d] = [peer[d] EXCEPT ![nextPath[d]] = h]]
    BY <1>0 DEF TypeOK, Plug
  <2>2. nextPath[d] \in Paths => peer[d][nextPath[d]] = NoOne
    BY <2>1 DEF NetInv, NewPathsFree
  <2>3. QED
    BY <2>1, <2>2
<1>3. QED
  BY <1>1, <1>2, KeptLinksFollow

(* Nothing is under way at first, and nobody heard from anybody. *)
LEMMA FollowsInit ==
  ASSUME Init
  PROVE  GotThere /\ \E w \in Ways : Follows(w)
<1>1. PICK w : w = [passed |-> {}, heard |-> [h \in Hosts |-> {}],
                    from |-> [h \in Hosts |-> [d \in Devices |-> d]],
                    rank |-> [h \in Hosts |-> [d \in Devices |-> 0]], top |-> 0]
  OBVIOUS
<1>2. w \in Ways /\ \A h \in Hosts : w.heard[h] = {}
  BY <1>1 DEF Ways, Nodes
<1>3. Quiet /\ GotThere
  BY DEF Init, Quiet, GotThere
<1>4. \A s \in Switches : /\ \A a \in Addresses : GetEntry(forward[s], a) = Unknown
                          /\ \A f \in Frames : GetEntry(seen[s], f) = Unknown
  BY DEF Init, EmptyTable, NoEntries, GetEntry
<1>5. \A h \in Hosts : Leads(w, h) /\ EntriesLead(w, h)
  BY <1>2, <1>4 DEF Leads, EntriesLead, Addresses
<1>6. NoBroadcaster /\ SeenWereSent(w)
  BY <1>4 DEF NoBroadcaster, SeenWereSent, Addresses
<1>7. QED
  BY <1>2, <1>3, <1>5, <1>6 DEF Follows

(* Every step of a network whose cables are prompt *)
LEMMA FollowsStep ==
  ASSUME NetInv, NetInv', [Next]_vars, prompt', GotThere, NEW w \in Ways, Follows(w)
  PROVE  GotThere' /\ \E v \in Ways : Follows(v)'
<1>1. ASSUME NEW s \in Switches, NEW p \in Paths, PacketReceived(s, p)
      PROVE  GotThere' /\ \E v \in Ways : Follows(v)'
  <2>1. \E v \in Ways : Settles(v)'
    BY <1>1, AcceptFollows, DropFollows DEF PacketReceived
  <2>2. sends' = sends
    BY <1>1 DEF PacketReceived, Drop, Accept, historyVars
  <2>3. QED
    BY <2>1, <2>2, SettledFollows
<1>2. ASSUME NEW r \in Repeaters, NEW p \in Paths, PacketRepeated(r, p)
      PROVE  GotThere' /\ \E v \in Ways : Follows(v)'
  <2>1. \E v \in Ways : Settles(v)'
    BY <1>2, RepeatFollows
  <2>2. sends' = sends
    BY <1>2 DEF PacketRepeated, historyVars
  <2>3. QED
    BY <2>1, <2>2, SettledFollows
<1>3. ASSUME NEW h \in Hosts, NEW d \in Devices, HostReceives(h, d)
      PROVE  GotThere' /\ \E v \in Ways : Follows(v)'
  <2>1. Settles(w)' /\ sends' = sends
    BY <1>3, ReceiveFollows DEF HostReceives
  <2>2. QED
    BY <2>1, SettledFollows
<1>4. ASSUME NEW f \in Frames, NEW d \in Devices, HostSends(f, d)
      PROVE  GotThere' /\ \E v \in Ways : Follows(v)'
  <2>1. Quiet
    BY <1>4 DEF HostSends, KeepsPrompt
  <2>2. QED
    BY <1>4, <2>1, SendFollows
<1>5. ASSUME NEW h \in Hosts, NEW d \in Devices, Unplug(h, d)
      PROVE  GotThere' /\ \E v \in Ways : Follows(v)'
  <2>1. Quiet
    BY <1>5 DEF Unplug, KeepsPrompt
  <2>2. QED
    BY <1>5, <2>1, UnplugFollows
<1>6. ASSUME NEW h \in Hosts, NEW d \in Devices, Plug(h, d)
      PROVE  GotThere' /\ \E v \in Ways : Follows(v)'
  <2>1. Quiet
    BY <1>6 DEF Plug, KeepsPrompt
  <2>2. QED
    BY <1>6, <2>1, PlugFollows
<1>7. CASE Tick
  <2>1. Quiet /\ Quiet' /\ UNCHANGED <<peer, forward, seen, sends, got, staleUntil>>
    BY <1>7 DEF Tick, KeepsPrompt, deviceVars, Quiet
  <2>2. QED
    BY <2>1, KeptLinksFollow
<1>8. CASE UNCHANGED vars
  <2>1. UNCHANGED <<now, peer, forward, seen, wire, sends, got, staleUntil>>
    BY <1>8 DEF vars, deviceVars, historyVars
  <2>2. GotThere'
    BY <2>1 DEF GotThere, Quiet
  <2>3. \A h \in Hosts : Leads(w, h)' /\ EntriesLead(w, h)'
    BY <2>1 DEF Follows, Leads, EntriesLead, HasLinkTo
  <2>4. NoBroadcaster' /\ SeenWereSent(w)'
    BY <2>1 DEF Follows, NoBroadcaster, SeenWereSent, Quiet
  <2>5. OnlyLatest(w) => OnlyLatest(w)'
    BY <2>1 DEF OnlyLatest, IsDuplicate, Latest
  <2>6. \A h \in Hosts \cup Latest.due : Bound(w, h) => Bound(w, h)'
    BY <2>1 DEF Bound, Latest, HasLinkTo, Joined, GoesOn, Comes
  <2>7. Follows(w)'
    BY <2>1, <2>3, <2>4, <2>5, <2>6 DEF Follows, Quiet, Latest
  <2>8. QED
    BY <2>2, <2>7
<1>9. QED
  BY <1>1, <1>2, <1>3, <1>4, <1>5, <1>6, <1>7, <1>8 DEF Next

(* The invariant holds on; where cables are not prompt it says nothing of the ways. *)
LEMMA DeliveryStep == DeliveryInv /\ [Next]_vars => DeliveryInv'
<1> SUFFICES ASSUME DeliveryInv, [Next]_vars PROVE DeliveryInv'
  OBVIOUS
<1>1. NetInv /\ NetInv'
  BY InvStep, LinksStep, ItemsStep DEF DeliveryInv, NetInv
<1>2. prompt' => prompt
  <2>1. ASSUME NEW s \in Switches, NEW p \in Paths, PacketReceived(s, p)
        PROVE  prompt' = prompt
    BY <2>1 DEF PacketReceived, Drop, Accept, historyVars
  <2>2. ASSUME NEW r \in Repeaters, NEW p \in Paths, PacketRepeated(r, p)
        PROVE  prompt' = prompt
    BY <2>2 DEF PacketRepeated, historyVars
  <2>3. ASSUME NEW h \in Hosts, NEW d \in Devices, HostReceives(h, d)
        PROVE  prompt' = prompt
    BY <2>3 DEF HostReceives
  <2>4. ASSUME NEW f \in Frames, NEW d \in Devices, HostSends(f, d)
        PROVE  KeepsPrompt
    BY <2>4 DEF HostSends
  <2>5. ASSUME NEW h \in Hosts, NEW d \in Devices, Unplug(h, d) \/ Plug(h, d)
        PROVE  KeepsPrompt
    BY <2>5 DEF Unplug, Plug
  <2>6. Tick => KeepsPrompt
    BY DEF Tick
  <2>7. UNCHANGED vars => prompt' = prompt
    BY DEF vars, historyVars
  <2>8. KeepsPrompt => (prompt' => prompt)
    BY DEF KeepsPrompt
  <2>9. QED
    BY <2>1, <2>2, <2>3, <2>4, <2>5, <2>6, <2>7, <2>8 DEF Next
<1>3. ASSUME prompt'
      PROVE  GotThere' /\ \E v \in Ways : Follows(v)'
  <2>1. GotThere /\ \E w \in Ways : Follows(w)
    BY <1>2, <1>3 DEF DeliveryInv
  <2>2. QED
    BY <1>1, <1>3, <2>1, FollowsStep
<1>4. QED
  BY <1>1, <1>3 DEF DeliveryInv

(* In every network of prompt cables, loops and moved hosts included, what *)
(* a host sends gets to every host that it should get to: switches send it *)
(* the way back that they learned, or everywhere.                          *)
THEOREM SentGetsThere == Spec => []Delivered
<1>1. Init => DeliveryInv
  BY OneCopyInit, FollowsInit DEF OneCopyInv, NetInv, DeliveryInv
<1>2. DeliveryInv => Delivered
  BY DEF DeliveryInv, GotThere, Delivered
<1>3. QED
  BY <1>1, <1>2, DeliveryStep, PTL DEF Spec
=============================================================================
