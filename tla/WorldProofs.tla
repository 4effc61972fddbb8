----------------------------- MODULE WorldProofs ------------------------------
(***************************************************************************)
(* Whatever the rooms, the players and the items: items are in one place   *)
(* and none vanishes, inventories fit, and what gravity acts on is         *)
(* simulated.                                                              *)
(***************************************************************************)
EXTENDS World, FiniteSetTheorems, TLAPS

-----------------------------------------------------------------------------
(* The inductive invariant                                                 *)

(* InOnePlace and NothingVanishes, item by item *)
InPlace ==
  /\ \A r, s \in Rooms, t \in Things : t \in contents[r] /\ t \in contents[s] => r = s
  /\ \A p, q \in Players, i \in Items : i \in inventory[p] /\ i \in inventory[q] => p = q
  /\ \A r \in Rooms, p \in Players, i \in Items : ~ (i \in contents[r] /\ i \in inventory[p])
  /\ \A i \in spent : /\ \A r \in Rooms : i \notin contents[r]
                      /\ \A p \in Players : i \notin inventory[p]
  /\ \A i \in Items : i \in made <=> \/ \E r \in Rooms : i \in contents[r]
                                     \/ \E p \in Players : i \in inventory[p]
                                     \/ i \in spent
  /\ \A p \in Players : \E r \in Rooms : p \in contents[r]

(* What an update has still to visit, and what a player has found, is      *)
(* where the update left it; those that look around are alive.             *)
PickInv ==
  /\ phase = "pickups" => todo \subseteq Players \ dead
  /\ phase = "moves" => todo \subseteq Loose
  /\ found # {} => phase = "pickups" /\ picker \in Players \ dead
  /\ found \cap Items \subseteq Loose

(* The rooms that an update simulates, or will *)
Simulated == IF phase = "pickups" THEN oldActive ELSE active

SimulatedInv == \A r \in Rooms \ Simulated : contents[r] \subseteq across

IInv == TypeOK /\ InPlace /\ PickInv /\ InventoriesFit /\ SimulatedInv

-----------------------------------------------------------------------------
(* What the operators mean for single items                                *)

LEMMA RoomOfLoose ==
  ASSUME TypeOK, NEW t \in Loose
  PROVE  RoomOf(t) \in Rooms /\ t \in contents[RoomOf(t)]
<1>1. \E r \in Rooms : t \in contents[r]
  BY DEF Loose
<1> QED
  BY <1>1 DEF RoomOf

LEMMA LooseMeans == \A t : t \in Loose <=> \E r \in Rooms : t \in contents[r]
BY DEF Loose

LEMMA PlayersLoose == InPlace => Players \subseteq Loose
BY DEF InPlace, Loose

(* A player's room is simulated: what may hang elsewhere are items. *)
LEMMA PlayersSimulated ==
  ASSUME TypeOK, InPlace, SimulatedInv, NEW p \in Players
  PROVE  RoomOf(p) \in Rooms /\ RoomOf(p) \in Simulated
<1>1. p \in Loose
  BY PlayersLoose
<1>2. RoomOf(p) \in Rooms /\ p \in contents[RoomOf(p)]
  BY <1>1, RoomOfLoose
<1>3. p \notin across
  BY WorldAssumption DEF TypeOK
<1> QED
  BY <1>2, <1>3 DEF SimulatedInv

LEMMA PlacedMeans ==
  ASSUME TypeOK, NEW items, NEW at, NEW r \in Rooms
  PROVE  \A t : t \in Placed(items, at)[r] <=> t \in contents[r] \/ (t \in items /\ at[t] = r)
BY DEF Placed

LEMMA WithoutMeans ==
  ASSUME NEW rooms, NEW x, NEW r \in Rooms
  PROVE  \A t : t \in Without(x, rooms)[r] <=> t \in rooms[r] /\ t # x
BY DEF Without

LEMMA NearAreRooms ==
  ASSUME NEW r \in Rooms
  PROVE  Near(r) \subseteq Rooms
BY WorldAssumption DEF Near

(* An item that has been found is in a room, and in no inventory. *)
LEMMA FoundIsLoose ==
  ASSUME TypeOK, InPlace, PickInv, NEW i \in found, i \in Items
  PROVE  /\ picker \in Players \ dead /\ phase = "pickups"
         /\ \E r \in Rooms : i \in contents[r]
         /\ \A p \in Players : i \notin inventory[p]
         /\ i \in made /\ i \notin spent
BY LooseMeans DEF InPlace, PickInv

-----------------------------------------------------------------------------
(* Types                                                                   *)

LEMMA TypeInit == Init => TypeOK
<1> SUFFICES ASSUME Init
             PROVE  TypeOK
  OBVIOUS
<1>1. contents \in [Rooms -> SUBSET Things]
  BY WorldAssumption DEF Init
<1>2. inventory \in [Players -> SUBSET Items]
  BY DEF Init
<1>3. energy \in [Players -> 0 .. MaxEnergy]
  BY WorldAssumption DEF Init
<1>4. active \subseteq Rooms
  BY DEF Init
<1>5. made \subseteq Items
  BY DEF Init
<1> QED
  BY <1>1, <1>2, <1>3, <1>4, <1>5 DEF Init, TypeOK

LEMMA TypeStep == TypeOK /\ InPlace /\ PickInv /\ [Next]_vars => TypeOK'
<1> SUFFICES ASSUME TypeOK, InPlace, PickInv, [Next]_vars
             PROVE  TypeOK'
  OBVIOUS
<1> USE WorldAssumption DEF itemVars, playerVars, updateVars
<1>0. \A p \in Players : RoomOf(p) \in Rooms /\ Near(RoomOf(p)) \subseteq Rooms
  BY PlayersLoose, RoomOfLoose, NearAreRooms
<1>1. CASE BeginUpdate
  BY <1>1 DEF BeginUpdate, TypeOK, Things
<1>2. ASSUME NEW p \in Players, Visit(p)
      PROVE  TypeOK'
  <2>1. todo' \subseteq Things /\ oldActive' \subseteq Rooms /\ active' \subseteq Rooms
        /\ phase' = phase
    BY <1>2 DEF Visit, TypeOK
  <2>2. CASE Kill(p)
    <3>1. PICK at \in [inventory[p] -> Near(RoomOf(p)) \cup {Gone}] :
            /\ contents' = Placed(inventory[p], at)
            /\ across' = across \cup Beyond(inventory[p], at, RoomOf(p))
            /\ spent' = spent \cup {i \in inventory[p] : at[i] = Gone}
      BY <2>2 DEF Kill
    <3>2. inventory[p] \subseteq Items
      BY DEF TypeOK
    <3>3. contents' \in [Rooms -> SUBSET Things]
      BY <3>1, <3>2 DEF Placed, TypeOK, Things
    <3>4. across' \subseteq Items /\ spent' \subseteq Items
      BY <3>1, <3>2 DEF Beyond, TypeOK
    <3>5. inventory' \in [Players -> SUBSET Items]
      BY <2>2 DEF Kill, TypeOK
    <3> QED
      BY <2>1, <2>2, <3>3, <3>4, <3>5 DEF Kill, TypeOK
  <2>3. CASE LookAround(p)
    <3>1. found' \subseteq Items \cup Doors
      BY <2>3 DEF LookAround, TypeOK
    <3> QED
      BY <2>1, <2>3, <3>1 DEF LookAround, TypeOK
  <2> QED
    BY <1>2, <2>2, <2>3 DEF Visit
<1>3. ASSUME NEW i \in Items \cup Doors, CheckFound(i)
      PROVE  TypeOK'
  <2>1. /\ found' \subseteq Items \cup Doors
        /\ UNCHANGED <<oldActive, active, phase, todo, picker>>
    BY <1>3 DEF CheckFound, TypeOK
  <2>2. picker \in Players
    BY <1>3 DEF CheckFound, PickInv
  <2>3. CASE Eat(i)
    <3>1. contents' \in [Rooms -> SUBSET Things]
      BY <2>3 DEF Eat, Without, TypeOK
    <3>2. energy' \in [Players -> 0 .. MaxEnergy]
      <4>1. MaxEnergy \in 0 .. MaxEnergy
        OBVIOUS
      <4> QED
        BY <2>3, <4>1 DEF Eat, TypeOK
    <3> QED
      BY <2>1, <2>3, <3>1, <3>2 DEF Eat, TypeOK
  <2>4. CASE Take(i)
    <3>1. contents' \in [Rooms -> SUBSET Things]
      BY <2>4 DEF Take, Without, TypeOK
    <3> DEFINE more == inventory[picker] \cup {i}
    <3>0. more \in SUBSET Items /\ inventory' = [inventory EXCEPT ![picker] = more]
      BY <2>2, <2>4 DEF Take, TypeOK
    <3> HIDE DEF more
    <3>2. inventory' \in [Players -> SUBSET Items]
      BY <3>0 DEF TypeOK
    <3> QED
      BY <2>1, <2>4, <3>1, <3>2 DEF Take, TypeOK
  <2>5. CASE Swap(i)
    <3>1. PICK k \in LessImportant(i), r \in Near(RoomOf(picker)) :
            /\ contents' = Without(i, Placed({k}, [j \in {k} |-> r]))
            /\ inventory' = [inventory EXCEPT ![picker] = (@ \cup {i}) \ {k}]
            /\ across' = (across \ {i}) \cup Beyond({k}, [j \in {k} |-> r], RoomOf(picker))
      BY <2>5 DEF Swap
    <3>2. k \in Items /\ i \in Items
      BY <2>2, <2>5 DEF Swap, LessImportant, TypeOK
    <3>3. contents' \in [Rooms -> SUBSET Things]
      BY <3>1, <3>2 DEF Without, Placed, TypeOK, Things
    <3> DEFINE swapped == (inventory[picker] \cup {i}) \ {k}
    <3>0. swapped \in SUBSET Items
      BY <2>2, <3>2 DEF TypeOK
    <3>4. inventory' \in [Players -> SUBSET Items]
      <4>1. inventory' = [inventory EXCEPT ![picker] = swapped]
        BY <3>1
      <4> HIDE DEF swapped
      <4> QED
        BY <3>0, <4>1 DEF TypeOK
    <3>5. across' \subseteq Items
      BY <3>1, <3>2 DEF Beyond, TypeOK
    <3> QED
      BY <2>1, <2>5, <3>3, <3>4, <3>5 DEF Swap, TypeOK
  <2>6. CASE LeaveBe(i)
    BY <2>1, <2>6 DEF LeaveBe, TypeOK
  <2>7. CASE OpenDoor(i)
    <3>1. closed' \subseteq Doors
      BY <2>7 DEF OpenDoor, TypeOK
    <3> QED
      BY <2>1, <2>7, <3>1 DEF OpenDoor, TypeOK
  <2> QED
    BY <1>3, <2>3, <2>4, <2>5, <2>6, <2>7 DEF CheckFound
<1>4. CASE ApplyForces
  <2>1. todo' \subseteq Things /\ active' \subseteq Rooms
    BY <1>4 DEF ApplyForces, Settled, TypeOK
  <2>2. energy' \in [Players -> 0 .. MaxEnergy]
    BY <1>4 DEF ApplyForces, TypeOK
  <2> QED
    BY <1>4, <2>1, <2>2 DEF ApplyForces, TypeOK
<1>5. ASSUME NEW t \in Things, Push(t)
      PROVE  TypeOK'
  <2>1. RoomOf(t) \in Rooms
    BY <1>5, RoomOfLoose DEF Push
  <2> QED
    BY <1>5, <2>1 DEF Push, TypeOK
<1>6. ASSUME NEW t \in Things, NEW r \in Rooms, Move(t, r)
      PROVE  TypeOK'
  <2>1. contents' \in [Rooms -> SUBSET Things]
    BY <1>6 DEF Move, Without, TypeOK
  <2> QED
    BY <1>6, <2>1 DEF Move, TypeOK
<1>7. CASE EndUpdate
  BY <1>7 DEF EndUpdate, TypeOK
<1>8. ASSUME NEW p \in Players, NEW i \in Items, Give(p, i)
      PROVE  TypeOK'
  BY <1>8 DEF Give, TypeOK
<1>9. ASSUME NEW p \in Players, NEW i \in Items, Throw(p, i)
      PROVE  TypeOK'
  <2>1. PICK r \in Near(RoomOf(p)) :
          /\ contents' = Placed({i}, [j \in {i} |-> r])
          /\ across' = across \cup Beyond({i}, [j \in {i} |-> r], RoomOf(p))
    BY <1>9 DEF Throw
  <2>2. contents' \in [Rooms -> SUBSET Things] /\ across' \subseteq Items
    BY <2>1 DEF Placed, Beyond, TypeOK, Things
  <2>3. inventory' \in [Players -> SUBSET Items]
    BY <1>9 DEF Throw, TypeOK
  <2> QED
    BY <1>9, <2>2, <2>3 DEF Throw, TypeOK
<1>10. ASSUME NEW p \in Players, Vomit(p)
       PROVE  TypeOK'
  <2>0. PICK chunks \in SUBSET (Edible \ made) : \E at \in [chunks -> Near(RoomOf(p))] :
          /\ contents' = Placed(chunks, at)
          /\ across' = across \cup Beyond(chunks, at, RoomOf(p))
          /\ made' = made \cup chunks
    BY <1>10 DEF Vomit
  <2>1. PICK at \in [chunks -> Near(RoomOf(p))] :
          /\ contents' = Placed(chunks, at)
          /\ across' = across \cup Beyond(chunks, at, RoomOf(p))
          /\ made' = made \cup chunks
    BY <2>0
  <2>2. chunks \subseteq Items
    OBVIOUS
  <2>3. /\ contents' \in [Rooms -> SUBSET Things]
        /\ across' \subseteq Items /\ made' \subseteq Items
    BY <2>1, <2>2 DEF Placed, Beyond, TypeOK, Things
  <2>4. \A e \in 0 .. MaxEnergy : e \div 2 \in 0 .. MaxEnergy
    OBVIOUS
  <2>5. energy' \in [Players -> 0 .. MaxEnergy]
    BY <1>10, <2>4 DEF Vomit, TypeOK
  <2> QED
    BY <1>10, <2>3, <2>5 DEF Vomit, TypeOK
<1>11. CASE UNCHANGED vars
  BY <1>11 DEF vars, TypeOK
<1> QED
  BY <1>1, <1>2, <1>3, <1>4, <1>5, <1>6, <1>7, <1>8, <1>9, <1>10, <1>11 DEF Next

-----------------------------------------------------------------------------
(* Items stay in one place                                                 *)

(* What a player drops is where it was put, or lost. *)
LEMMA KillKeepsPlaces ==
  ASSUME TypeOK, InPlace, NEW p \in Players, Kill(p)
  PROVE  InPlace'
<1>1. PICK at \in [inventory[p] -> Near(RoomOf(p)) \cup {Gone}] :
        /\ contents' = Placed(inventory[p], at)
        /\ spent' = spent \cup {i \in inventory[p] : at[i] = Gone}
  BY DEF Kill
<1>2. RoomOf(p) \in Rooms /\ Near(RoomOf(p)) \subseteq Rooms
  BY PlayersLoose, RoomOfLoose, NearAreRooms
<1>3. \A r \in Rooms, t \in Things :
        t \in contents'[r] <=> t \in contents[r] \/ (t \in inventory[p] /\ at[t] = r)
  BY <1>1, PlacedMeans
<1>4. \A q \in Players : inventory'[q] = IF q = p THEN {} ELSE inventory[q]
  BY DEF Kill, TypeOK
<1>5. \A i \in Items : i \in spent' <=> i \in spent \/ (i \in inventory[p] /\ at[i] = Gone)
  BY <1>1
<1>6. \A i \in inventory[p] : at[i] \in Rooms \/ at[i] = Gone
  BY <1>2
<1>7. inventory[p] \subseteq Items /\ Items \subseteq Things /\ Gone \notin Rooms
      /\ Items \cap Players = {} /\ spent \subseteq Items /\ spent' \subseteq Items
  BY <1>1, WorldAssumption DEF TypeOK, Things
<1>8. made' = made
  BY DEF Kill
<1>a. \A r, s \in Rooms, t \in Things : t \in contents'[r] /\ t \in contents'[s] => r = s
  BY <1>3, <1>7 DEF InPlace
<1>b. \A q, z \in Players, i \in Items : i \in inventory'[q] /\ i \in inventory'[z] => q = z
  BY <1>4 DEF InPlace
<1>c. \A r \in Rooms, q \in Players, i \in Items : ~ (i \in contents'[r] /\ i \in inventory'[q])
  BY <1>3, <1>4, <1>7 DEF InPlace
<1>d. \A i \in spent' : /\ \A r \in Rooms : i \notin contents'[r]
                        /\ \A q \in Players : i \notin inventory'[q]
  BY <1>3, <1>4, <1>5, <1>7 DEF InPlace
<1>e. \A i \in Items : i \in made' <=> \/ \E r \in Rooms : i \in contents'[r]
                                       \/ \E q \in Players : i \in inventory'[q]
                                       \/ i \in spent'
  BY <1>3, <1>4, <1>5, <1>6, <1>7, <1>8 DEF InPlace
<1>f. \A q \in Players : \E r \in Rooms : q \in contents'[r]
  BY <1>3 DEF InPlace, Things
<1> QED
  BY <1>a, <1>b, <1>c, <1>d, <1>e, <1>f DEF InPlace

(* What is eaten is gone. *)
LEMMA EatKeepsPlaces ==
  ASSUME TypeOK, InPlace, PickInv, NEW i \in found, Eat(i)
  PROVE  InPlace'
<1>1. i \in Items /\ spent' = spent \cup {i} /\ made' = made /\ inventory' = inventory
  BY WorldAssumption DEF Eat
<1>2. \A r \in Rooms : \A t : t \in contents'[r] <=> t \in contents[r] /\ t # i
  BY WithoutMeans DEF Eat
<1>3. /\ \A p \in Players : i \notin inventory[p]
      /\ i \in made
  BY <1>1, FoundIsLoose
<1>4. i \notin Players
  BY <1>1, WorldAssumption
<1>a. \A r, s \in Rooms, t \in Things : t \in contents'[r] /\ t \in contents'[s] => r = s
  BY <1>2 DEF InPlace
<1>c. \A r \in Rooms, q \in Players, j \in Items : ~ (j \in contents'[r] /\ j \in inventory'[q])
  BY <1>1, <1>2 DEF InPlace
<1>d. \A j \in spent' : /\ \A r \in Rooms : j \notin contents'[r]
                        /\ \A q \in Players : j \notin inventory'[q]
  BY <1>1, <1>2, <1>3 DEF InPlace
<1>e. \A j \in Items : j \in made' <=> \/ \E r \in Rooms : j \in contents'[r]
                                       \/ \E q \in Players : j \in inventory'[q]
                                       \/ j \in spent'
  BY <1>1, <1>2, <1>3 DEF InPlace
<1>f. \A q \in Players : \E r \in Rooms : q \in contents'[r]
  BY <1>2, <1>4 DEF InPlace
<1> QED
  BY <1>1, <1>a, <1>c, <1>d, <1>e, <1>f DEF InPlace

(* What is taken leaves its room. *)
LEMMA TakeKeepsPlaces ==
  ASSUME TypeOK, InPlace, PickInv, NEW i \in found, Take(i)
  PROVE  InPlace'
<1>1. i \in Items /\ UNCHANGED <<spent, made>>
  BY DEF Take
<1>2. \A r \in Rooms : \A t : t \in contents'[r] <=> t \in contents[r] /\ t # i
  BY WithoutMeans DEF Take
<1>3. /\ picker \in Players /\ i \in made /\ i \notin spent
      /\ \A p \in Players : i \notin inventory[p]
  BY <1>1, FoundIsLoose
<1>4. \A q \in Players, j \in Items :
        j \in inventory'[q] <=> j \in inventory[q] \/ (q = picker /\ j = i)
  BY <1>1, <1>3 DEF Take, TypeOK
<1>5. i \notin Players /\ spent \subseteq Items
  BY <1>1, WorldAssumption DEF TypeOK
<1>a. \A r, s \in Rooms, t \in Things : t \in contents'[r] /\ t \in contents'[s] => r = s
  BY <1>2 DEF InPlace
<1>b. \A q, z \in Players, j \in Items : j \in inventory'[q] /\ j \in inventory'[z] => q = z
  BY <1>3, <1>4 DEF InPlace
<1>c. \A r \in Rooms, q \in Players, j \in Items : ~ (j \in contents'[r] /\ j \in inventory'[q])
  BY <1>2, <1>4 DEF InPlace
<1>d. \A j \in spent' : /\ \A r \in Rooms : j \notin contents'[r]
                        /\ \A q \in Players : j \notin inventory'[q]
  BY <1>1, <1>2, <1>3, <1>4, <1>5 DEF InPlace
<1>e. \A j \in Items : j \in made' <=> \/ \E r \in Rooms : j \in contents'[r]
                                       \/ \E q \in Players : j \in inventory'[q]
                                       \/ j \in spent'
  BY <1>1, <1>2, <1>3, <1>4 DEF InPlace
<1>f. \A q \in Players : \E r \in Rooms : q \in contents'[r]
  BY <1>2, <1>5 DEF InPlace
<1> QED
  BY <1>a, <1>b, <1>c, <1>d, <1>e, <1>f DEF InPlace

(* What is swapped changes places. *)
LEMMA SwapKeepsPlaces ==
  ASSUME TypeOK, InPlace, PickInv, NEW i \in found, Swap(i)
  PROVE  InPlace'
<1>1. i \in Items /\ UNCHANGED <<spent, made>>
  BY DEF Swap
<1>2. /\ picker \in Players /\ i \in made /\ i \notin spent
      /\ \A p \in Players : i \notin inventory[p]
  BY <1>1, FoundIsLoose
<1>3. PICK k \in LessImportant(i), into \in Near(RoomOf(picker)) :
        /\ contents' = Without(i, Placed({k}, [j \in {k} |-> into]))
        /\ inventory' = [inventory EXCEPT ![picker] = (@ \cup {i}) \ {k}]
  BY DEF Swap
<1>4. k \in inventory[picker] /\ k \in Items /\ k # i /\ k \in Things
  BY <1>2 DEF LessImportant, TypeOK, Things
<1>5. into \in Rooms
  BY <1>2, PlayersLoose, RoomOfLoose, NearAreRooms
<1>6. \A r \in Rooms, t \in Things :
        t \in contents'[r] <=> t # i /\ (t \in contents[r] \/ (t = k /\ r = into))
  BY <1>3, WithoutMeans, PlacedMeans
<1>7. \A q \in Players, j \in Items :
        j \in inventory'[q] <=> IF q = picker THEN j # k /\ (j \in inventory[q] \/ j = i)
                                ELSE j \in inventory[q]
  BY <1>3 DEF TypeOK
<1>8. i \notin Players /\ spent \subseteq Items /\ Items \subseteq Things
      /\ Players \subseteq Things /\ k \notin spent /\ k \in made
      /\ \A r \in Rooms : k \notin contents[r]
  BY <1>1, <1>2, <1>4, WorldAssumption DEF TypeOK, Things, InPlace
<1>a. \A r, s \in Rooms, t \in Things : t \in contents'[r] /\ t \in contents'[s] => r = s
  BY <1>6, <1>8 DEF InPlace
<1>b. \A q, z \in Players, j \in Items : j \in inventory'[q] /\ j \in inventory'[z] => q = z
  BY <1>2, <1>7 DEF InPlace
<1>c. \A r \in Rooms, q \in Players, j \in Items : ~ (j \in contents'[r] /\ j \in inventory'[q])
  BY <1>2, <1>4, <1>6, <1>7, <1>8 DEF InPlace
<1>d. \A j \in spent' : /\ \A r \in Rooms : j \notin contents'[r]
                        /\ \A q \in Players : j \notin inventory'[q]
  BY <1>1, <1>2, <1>6, <1>7, <1>8 DEF InPlace
<1>e. \A j \in Items : j \in made' <=> \/ \E r \in Rooms : j \in contents'[r]
                                       \/ \E q \in Players : j \in inventory'[q]
                                       \/ j \in spent'
  <2> SUFFICES ASSUME NEW j \in Items
               PROVE  j \in made' <=> \/ \E r \in Rooms : j \in contents'[r]
                                      \/ \E q \in Players : j \in inventory'[q]
                                      \/ j \in spent'
    OBVIOUS
  <2>1. CASE j = i
    <3>1. i \in inventory'[picker]
      BY <1>1, <1>2, <1>4, <1>7
    <3> QED
      BY <1>1, <1>2, <2>1, <3>1
  <2>2. CASE j = k
    <3>1. k \in contents'[into]
      BY <1>4, <1>5, <1>6
    <3> QED
      BY <1>1, <1>5, <1>8, <2>2, <3>1
  <2>3. CASE j # i /\ j # k
    <3>1. /\ \A r \in Rooms : j \in contents'[r] <=> j \in contents[r]
          /\ \A q \in Players : j \in inventory'[q] <=> j \in inventory[q]
      BY <1>6, <1>7, <1>8, <2>3
    <3> QED
      BY <1>1, <3>1 DEF InPlace
  <2> QED
    BY <2>1, <2>2, <2>3
<1>f. \A q \in Players : \E r \in Rooms : q \in contents'[r]
  BY <1>6, <1>8 DEF InPlace
<1> QED
  BY <1>a, <1>b, <1>c, <1>d, <1>e, <1>f DEF InPlace

(* What moves to a neighboring room leaves the one it was in. *)
LEMMA MoveKeepsPlaces ==
  ASSUME TypeOK, InPlace, PickInv, NEW t \in Things, NEW to \in Rooms, Move(t, to)
  PROVE  InPlace'
<1>1. UNCHANGED <<inventory, spent, made>> /\ t \in todo /\ phase = "moves"
  BY DEF Move
<1>2. PICK from \in Rooms : t \in contents[from]
  BY <1>1, LooseMeans DEF PickInv
<1>3. contents' = [Without(t, contents) EXCEPT ![to] = @ \cup {t}]
  BY DEF Move
<1>4. \A r \in Rooms : \A u \in Things :
        u \in contents'[r] <=> (u \in contents[r] /\ u # t) \/ (u = t /\ r = to)
  BY <1>3, WithoutMeans DEF Without
<1>5. Items \subseteq Things /\ Players \subseteq Things /\ spent \subseteq Items
  BY DEF Things, TypeOK
<1>a. \A r, s \in Rooms, u \in Things : u \in contents'[r] /\ u \in contents'[s] => r = s
  BY <1>4 DEF InPlace
<1>c. \A r \in Rooms, q \in Players, i \in Items : ~ (i \in contents'[r] /\ i \in inventory'[q])
  BY <1>1, <1>2, <1>4, <1>5 DEF InPlace
<1>d. \A i \in spent' : /\ \A r \in Rooms : i \notin contents'[r]
                        /\ \A q \in Players : i \notin inventory'[q]
  BY <1>1, <1>2, <1>4, <1>5 DEF InPlace
<1>6. \A u \in Things : (\E r \in Rooms : u \in contents'[r]) <=> \E r \in Rooms : u \in contents[r]
  BY <1>2, <1>4
<1>e. \A i \in Items : i \in made' <=> \/ \E r \in Rooms : i \in contents'[r]
                                       \/ \E q \in Players : i \in inventory'[q]
                                       \/ i \in spent'
  BY <1>1, <1>5, <1>6 DEF InPlace
<1>f. \A q \in Players : \E r \in Rooms : q \in contents'[r]
  BY <1>5, <1>6 DEF InPlace
<1> QED
  BY <1>1, <1>a, <1>c, <1>d, <1>e, <1>f DEF InPlace

(* What is given is new. *)
LEMMA GiveKeepsPlaces ==
  ASSUME TypeOK, InPlace, NEW p \in Players, NEW i \in Items, Give(p, i)
  PROVE  InPlace'
<1>1. UNCHANGED <<contents, spent>> /\ i \notin made /\ made' = made \cup {i}
  BY DEF Give
<1>2. \A q \in Players, j \in Items :
        j \in inventory'[q] <=> j \in inventory[q] \/ (q = p /\ j = i)
  BY DEF Give, TypeOK
<1>3. /\ \A r \in Rooms : i \notin contents[r]
      /\ \A q \in Players : i \notin inventory[q]
      /\ i \notin spent /\ spent \subseteq Items
  BY <1>1 DEF InPlace, TypeOK
<1>b. \A q, z \in Players, j \in Items : j \in inventory'[q] /\ j \in inventory'[z] => q = z
  BY <1>2, <1>3 DEF InPlace
<1>c. \A r \in Rooms, q \in Players, j \in Items : ~ (j \in contents'[r] /\ j \in inventory'[q])
  BY <1>1, <1>2, <1>3 DEF InPlace
<1>d. \A j \in spent' : /\ \A r \in Rooms : j \notin contents'[r]
                        /\ \A q \in Players : j \notin inventory'[q]
  BY <1>1, <1>2, <1>3 DEF InPlace
<1>e. \A j \in Items : j \in made' <=> \/ \E r \in Rooms : j \in contents'[r]
                                       \/ \E q \in Players : j \in inventory'[q]
                                       \/ j \in spent'
  BY <1>1, <1>2 DEF InPlace
<1> QED
  BY <1>1, <1>b, <1>c, <1>d, <1>e DEF InPlace

(* What is thrown leaves the inventory for a room. *)
LEMMA ThrowKeepsPlaces ==
  ASSUME TypeOK, InPlace, NEW p \in Players, NEW i \in Items, Throw(p, i)
  PROVE  InPlace'
<1>1. UNCHANGED <<spent, made>> /\ i \in inventory[p]
  BY DEF Throw
<1>2. PICK into \in Near(RoomOf(p)) : contents' = Placed({i}, [j \in {i} |-> into])
  BY DEF Throw
<1>3. into \in Rooms
  BY PlayersLoose, RoomOfLoose, NearAreRooms
<1>4. \A r \in Rooms, t \in Things :
        t \in contents'[r] <=> t \in contents[r] \/ (t = i /\ r = into)
  BY <1>2, PlacedMeans
<1>5. \A q \in Players, j \in Items :
        j \in inventory'[q] <=> j \in inventory[q] /\ ~ (q = p /\ j = i)
  BY DEF Throw, TypeOK
<1>6. /\ \A r \in Rooms : i \notin contents[r]
      /\ i \notin spent /\ i \in made /\ spent \subseteq Items
      /\ Items \subseteq Things /\ Players \subseteq Things
      /\ \A q \in Players : i \in inventory[q] => q = p
  BY <1>1 DEF InPlace, TypeOK, Things
<1>a. \A r, s \in Rooms, t \in Things : t \in contents'[r] /\ t \in contents'[s] => r = s
  BY <1>4, <1>6 DEF InPlace
<1>b. \A q, z \in Players, j \in Items : j \in inventory'[q] /\ j \in inventory'[z] => q = z
  BY <1>5 DEF InPlace
<1>c. \A r \in Rooms, q \in Players, j \in Items : ~ (j \in contents'[r] /\ j \in inventory'[q])
  BY <1>4, <1>5, <1>6 DEF InPlace
<1>d. \A j \in spent' : /\ \A r \in Rooms : j \notin contents'[r]
                        /\ \A q \in Players : j \notin inventory'[q]
  BY <1>1, <1>4, <1>5, <1>6 DEF InPlace
<1>e. \A j \in Items : j \in made' <=> \/ \E r \in Rooms : j \in contents'[r]
                                       \/ \E q \in Players : j \in inventory'[q]
                                       \/ j \in spent'
  <2> SUFFICES ASSUME NEW j \in Items
               PROVE  j \in made' <=> \/ \E r \in Rooms : j \in contents'[r]
                                      \/ \E q \in Players : j \in inventory'[q]
                                      \/ j \in spent'
    OBVIOUS
  <2>1. CASE j = i
    <3>1. i \in contents'[into]
      BY <1>3, <1>4, <1>6
    <3> QED
      BY <1>1, <1>3, <1>6, <2>1, <3>1
  <2>2. CASE j # i
    <3>1. /\ \A r \in Rooms : j \in contents'[r] <=> j \in contents[r]
          /\ \A q \in Players : j \in inventory'[q] <=> j \in inventory[q]
      BY <1>4, <1>5, <1>6, <2>2
    <3> QED
      BY <1>1, <3>1 DEF InPlace
  <2> QED
    BY <2>1, <2>2
<1>f. \A q \in Players : \E r \in Rooms : q \in contents'[r]
  BY <1>4, <1>6 DEF InPlace
<1> QED
  BY <1>a, <1>b, <1>c, <1>d, <1>e, <1>f DEF InPlace

(* The chunks of a vomit are new. *)
LEMMA VomitKeepsPlaces ==
  ASSUME TypeOK, InPlace, NEW p \in Players, Vomit(p)
  PROVE  InPlace'
<1>1. UNCHANGED <<inventory, spent>>
  BY DEF Vomit
<1>2. PICK chunks \in SUBSET (Edible \ made) : \E at \in [chunks -> Near(RoomOf(p))] :
        contents' = Placed(chunks, at) /\ made' = made \cup chunks
  BY DEF Vomit
<1>3. PICK at \in [chunks -> Near(RoomOf(p))] :
        contents' = Placed(chunks, at) /\ made' = made \cup chunks
  BY <1>2
<1>4. \A i \in chunks : at[i] \in Rooms
  BY PlayersLoose, RoomOfLoose, NearAreRooms
<1>5. \A r \in Rooms, t \in Things :
        t \in contents'[r] <=> t \in contents[r] \/ (t \in chunks /\ at[t] = r)
  BY <1>3, PlacedMeans
<1>6. /\ chunks \subseteq Items /\ spent \subseteq Items
      /\ Items \subseteq Things /\ Players \subseteq Things
      /\ \A i \in chunks : /\ \A r \in Rooms : i \notin contents[r]
                           /\ \A q \in Players : i \notin inventory[q]
                           /\ i \notin spent
  BY WorldAssumption DEF InPlace, TypeOK, Things
<1>a. \A r, s \in Rooms, t \in Things : t \in contents'[r] /\ t \in contents'[s] => r = s
  BY <1>5, <1>6 DEF InPlace
<1>c. \A r \in Rooms, q \in Players, i \in Items : ~ (i \in contents'[r] /\ i \in inventory'[q])
  BY <1>1, <1>5, <1>6 DEF InPlace
<1>d. \A i \in spent' : /\ \A r \in Rooms : i \notin contents'[r]
                        /\ \A q \in Players : i \notin inventory'[q]
  BY <1>1, <1>5, <1>6 DEF InPlace
<1>e. \A i \in Items : i \in made' <=> \/ \E r \in Rooms : i \in contents'[r]
                                       \/ \E q \in Players : i \in inventory'[q]
                                       \/ i \in spent'
  BY <1>1, <1>3, <1>4, <1>5, <1>6 DEF InPlace
<1>f. \A q \in Players : \E r \in Rooms : q \in contents'[r]
  BY <1>5, <1>6 DEF InPlace
<1> QED
  BY <1>1, <1>a, <1>c, <1>d, <1>e, <1>f DEF InPlace

LEMMA PlacesStep == TypeOK /\ InPlace /\ PickInv /\ [Next]_vars => InPlace'
<1> SUFFICES ASSUME TypeOK, InPlace, PickInv, [Next]_vars
             PROVE  InPlace'
  OBVIOUS
<1>1. CASE UNCHANGED <<contents, inventory, spent, made>>
  BY <1>1 DEF InPlace
<1>2. ASSUME NEW p \in Players, Visit(p)
      PROVE  InPlace'
  BY <1>1, <1>2, KillKeepsPlaces DEF Visit, LookAround, itemVars
<1>3. ASSUME NEW i \in Items \cup Doors, CheckFound(i)
      PROVE  InPlace'
  BY <1>1, <1>3, EatKeepsPlaces, TakeKeepsPlaces, SwapKeepsPlaces
  DEF CheckFound, LeaveBe, OpenDoor, itemVars
<1> QED
  BY <1>1, <1>2, <1>3, MoveKeepsPlaces, GiveKeepsPlaces, ThrowKeepsPlaces, VomitKeepsPlaces
  DEF Next, BeginUpdate, ApplyForces, Push, EndUpdate, itemVars, vars

-----------------------------------------------------------------------------
(* What an update goes through stays where it was found                    *)

LEMMA PickStep == TypeOK /\ InPlace /\ PickInv /\ [Next]_vars => PickInv'
<1> SUFFICES ASSUME TypeOK, InPlace, PickInv, [Next]_vars
             PROVE  PickInv'
  OBVIOUS
<1> USE DEF itemVars, playerVars, updateVars
<1>0. phase # "pickups" => found = {}
  BY DEF PickInv
<1>1. CASE BeginUpdate
  <2>1. /\ phase' = "pickups" /\ todo' \subseteq Players \ dead /\ found' = found /\ dead' = dead
        /\ found = {}
    BY <1>0, <1>1 DEF BeginUpdate
  <2> QED
    BY <2>1 DEF PickInv
<1>2. ASSUME NEW p \in Players, Visit(p)
      PROVE  PickInv'
  <2>1. /\ phase = "pickups" /\ phase' = "pickups" /\ p \in todo /\ todo' = todo \ {p}
        /\ found = {}
    BY <1>2 DEF Visit
  <2>2. CASE Kill(p)
    BY <2>1, <2>2 DEF Kill, PickInv
  <2>3. CASE LookAround(p)
    <3>1. found' \cap Items \subseteq UNION {contents[r] : r \in Near(RoomOf(p))}
      <4> DEFINE Seen(r) == (contents[r] \cap Items) \cup {d \in closed : DoorRoom[d] = r}
      <4>1. found' \subseteq UNION {Seen(r) : r \in Near(RoomOf(p))}
        BY <2>3 DEF LookAround
      <4> SUFFICES ASSUME NEW i \in found', i \in Items
                   PROVE  \E r \in Near(RoomOf(p)) : i \in contents[r]
        OBVIOUS
      <4> HIDE DEF Seen
      <4>2. PICK r \in Near(RoomOf(p)) : i \in Seen(r)
        BY <4>1
      <4>3. i \notin closed
        BY WorldAssumption DEF TypeOK, Things
      <4> QED
        BY <4>2, <4>3 DEF Seen
    <3>2. Near(RoomOf(p)) \subseteq Rooms
      BY PlayersLoose, RoomOfLoose, NearAreRooms
    <3>3. found' \cap Items \subseteq Loose'
      BY <2>3, <3>1, <3>2 DEF LookAround, Loose
    <3> QED
      BY <2>1, <2>3, <3>3 DEF LookAround, PickInv
  <2> QED
    BY <1>2, <2>2, <2>3 DEF Visit
<1>3. ASSUME NEW i \in Items \cup Doors, CheckFound(i)
      PROVE  PickInv'
  <2>1. /\ i \in found /\ found' = found \ {i} /\ UNCHANGED <<phase, todo, picker>>
        /\ phase = "pickups" /\ picker \in Players \ dead
    BY <1>3 DEF CheckFound, PickInv
  <2>2. dead' = dead
    BY <1>3 DEF CheckFound, Eat, Take, Swap, LeaveBe, OpenDoor
  <2>3. ASSUME NEW t, t # i, t \in Loose
        PROVE  t \in Loose'
    <3>1. PICK r \in Rooms : t \in contents[r]
      BY <2>3, LooseMeans
    <3>2. t \in contents'[r]
      <4>1. CASE contents' = Without(i, contents)
        BY <2>3, <3>1, <4>1, WithoutMeans
      <4>2. CASE Swap(i)
        <5>1. PICK k \in LessImportant(i), into \in Near(RoomOf(picker)) :
                contents' = Without(i, Placed({k}, [j \in {k} |-> into]))
          BY <4>2 DEF Swap
        <5> QED
          BY <2>3, <3>1, <5>1, WithoutMeans, PlacedMeans
      <4>3. CASE contents' = contents
        BY <3>1, <4>3
      <4> QED
        BY <1>3, <4>1, <4>2, <4>3 DEF CheckFound, Eat, Take, LeaveBe, OpenDoor
    <3> QED
      BY <3>2 DEF Loose
  <2>4. found' \cap Items \subseteq Loose'
    BY <2>1, <2>3 DEF PickInv
  <2> QED
    BY <2>1, <2>2, <2>4 DEF PickInv
<1>4. CASE ApplyForces
  <2>1. todo' \subseteq Loose /\ Loose' = Loose /\ phase' = "moves" /\ found = {} /\ found' = {}
    BY <1>4 DEF ApplyForces, Loose, TypeOK
  <2> QED
    BY <2>1 DEF PickInv
<1>5. ASSUME NEW t \in Things, Push(t)
      PROVE  PickInv'
  BY <1>5 DEF Push, PickInv, Loose
<1>6. ASSUME NEW t \in Things, NEW to \in Rooms, Move(t, to)
      PROVE  PickInv'
  <2>1. phase = "moves" /\ UNCHANGED <<phase, todo, found>> /\ todo \subseteq Loose /\ found = {}
    BY <1>0, <1>6 DEF Move, PickInv
  <2>2. contents' = [Without(t, contents) EXCEPT ![to] = @ \cup {t}]
    BY <1>6 DEF Move
  <2>3. \A r \in Rooms : \A u : (u \in contents[r] /\ u # t) => u \in contents'[r]
    BY <2>2 DEF Without
  <2>4. t \in contents'[to]
    BY <2>2 DEF Without
  <2>5. Loose \subseteq Loose'
    BY <2>3, <2>4, LooseMeans DEF Loose
  <2> QED
    BY <2>1, <2>5 DEF PickInv
<1>7. CASE EndUpdate
  BY <1>0, <1>7 DEF EndUpdate, PickInv
<1>8. ASSUME NEW p \in Players, NEW i \in Items, Give(p, i) \/ Throw(p, i)
      PROVE  PickInv'
  BY <1>0, <1>8 DEF Give, Throw, PickInv
<1>9. ASSUME NEW p \in Players, Vomit(p)
      PROVE  PickInv'
  BY <1>0, <1>9 DEF Vomit, PickInv
<1>10. CASE UNCHANGED vars
  BY <1>10 DEF vars, PickInv, Loose
<1> QED
  BY <1>1, <1>2, <1>3, <1>4, <1>5, <1>6, <1>7, <1>8, <1>9, <1>10 DEF Next

-----------------------------------------------------------------------------
(* Inventories fit                                                         *)

LEMMA InventoriesFinite ==
  ASSUME TypeOK, NEW p \in Players
  PROVE  IsFiniteSet(inventory[p]) /\ Cardinality(inventory[p]) \in Nat
<1>1. inventory[p] \subseteq Items /\ IsFiniteSet(Items)
  BY WorldAssumption DEF TypeOK
<1> QED
  BY <1>1, FS_Subset, FS_CardinalityType

LEMMA FitStep == TypeOK /\ InPlace /\ PickInv /\ InventoriesFit /\ [Next]_vars => InventoriesFit'
<1> SUFFICES ASSUME TypeOK, InPlace, PickInv, InventoriesFit, [Next]_vars
             PROVE  InventoriesFit'
  OBVIOUS
<1> USE DEF itemVars, playerVars, updateVars
<1>0. \A p \in Players :
        /\ IsFiniteSet(inventory[p]) /\ Cardinality(inventory[p]) \in Nat
        /\ Cardinality(inventory[p]) <= InventorySize
        /\ p \in dead => inventory[p] = {}
  BY InventoriesFinite DEF InventoriesFit
<1>1. CASE UNCHANGED <<inventory, dead>>
  BY <1>1 DEF InventoriesFit
<1>2. ASSUME NEW p \in Players, Visit(p)
      PROVE  InventoriesFit'
  <2>1. CASE Kill(p)
    <3>1. \A q \in Players : inventory'[q] = IF q = p THEN {} ELSE inventory[q]
      BY <2>1 DEF Kill, TypeOK
    <3>2. dead' = dead \cup {p}
      BY <2>1 DEF Kill
    <3>3. Cardinality({}) = 0 /\ 0 <= InventorySize
      BY FS_EmptySet, WorldAssumption
    <3> QED
      BY <1>0, <3>1, <3>2, <3>3 DEF InventoriesFit
  <2>2. CASE LookAround(p)
    BY <1>1, <2>2 DEF LookAround
  <2> QED
    BY <1>2, <2>1, <2>2 DEF Visit
<1>3. ASSUME NEW i \in Items \cup Doors, CheckFound(i)
      PROVE  InventoriesFit'
  <2>1. i \in found /\ picker \in Players /\ picker \notin dead
    BY <1>3 DEF CheckFound, PickInv
  <2>2. CASE Take(i)
    <3>1. dead' = dead /\ Cardinality(inventory[picker]) < InventorySize
      BY <2>2 DEF Take, HasSpace
    <3>2. \A q \in Players : inventory'[q] = IF q = picker THEN inventory[q] \cup {i}
                                             ELSE inventory[q]
      BY <2>2 DEF Take, TypeOK
    <3>3. Cardinality(inventory[picker] \cup {i}) <= Cardinality(inventory[picker]) + 1
      <4>1. \/ Cardinality(inventory[picker] \cup {i}) = Cardinality(inventory[picker])
            \/ Cardinality(inventory[picker] \cup {i}) = Cardinality(inventory[picker]) + 1
        BY <1>0, <2>1, FS_AddElement
      <4> QED
        BY <1>0, <2>1, <4>1
    <3>4. Cardinality(inventory[picker] \cup {i}) \in Nat
      BY <1>0, <2>1, FS_AddElement, FS_CardinalityType
    <3>5. Cardinality(inventory[picker] \cup {i}) <= InventorySize
      BY <1>0, <2>1, <3>1, <3>3, <3>4, WorldAssumption
    <3> QED
      BY <1>0, <2>1, <3>1, <3>2, <3>5 DEF InventoriesFit
  <2>3. CASE Swap(i)
    <3>1. PICK k \in LessImportant(i) :
            inventory' = [inventory EXCEPT ![picker] = (@ \cup {i}) \ {k}]
      BY <2>3 DEF Swap
    <3>2. i \in Items /\ dead' = dead
      BY <2>3 DEF Swap
    <3> DEFINE had == inventory[picker]
               more == had \cup {i}
    <3>3. k \in had /\ i \notin had /\ IsFiniteSet(had) /\ Cardinality(had) \in Nat
      BY <1>0, <2>1, <3>2, FoundIsLoose DEF LessImportant
    <3>4. \A q \in Players : inventory'[q] = IF q = picker THEN more \ {k} ELSE inventory[q]
      BY <3>1 DEF TypeOK
    <3>5. k \in more
      BY <3>3
    <3>6. IsFiniteSet(more) /\ Cardinality(more) = Cardinality(had) + 1
      BY <3>3, FS_AddElement
    <3> HIDE DEF more
    <3>7. Cardinality(more \ {k}) = Cardinality(more) - 1
      BY <3>5, <3>6, FS_RemoveElement
    <3>8. Cardinality(more \ {k}) <= InventorySize
      BY <1>0, <2>1, <3>3, <3>6, <3>7
    <3> QED
      BY <1>0, <2>1, <3>2, <3>4, <3>8 DEF InventoriesFit
  <2> QED
    BY <1>1, <1>3, <2>2, <2>3 DEF CheckFound, Eat, LeaveBe, OpenDoor
<1>4. ASSUME NEW p \in Players, NEW i \in Items, Give(p, i)
      PROVE  InventoriesFit'
  <2>1. dead' = dead /\ p \notin dead /\ Cardinality(inventory[p]) < InventorySize
    BY <1>4 DEF Give, HasSpace
  <2>2. \A q \in Players : inventory'[q] = IF q = p THEN inventory[q] \cup {i} ELSE inventory[q]
    BY <1>4 DEF Give, TypeOK
  <2>3. Cardinality(inventory[p] \cup {i}) <= Cardinality(inventory[p]) + 1
    <3>1. \/ Cardinality(inventory[p] \cup {i}) = Cardinality(inventory[p])
          \/ Cardinality(inventory[p] \cup {i}) = Cardinality(inventory[p]) + 1
      BY <1>0, FS_AddElement
    <3> QED
      BY <1>0, <3>1
  <2>4. Cardinality(inventory[p] \cup {i}) \in Nat
    BY <1>0, FS_AddElement, FS_CardinalityType
  <2>5. Cardinality(inventory[p] \cup {i}) <= InventorySize
    BY <1>0, <2>1, <2>3, <2>4, WorldAssumption
  <2> QED
    BY <1>0, <2>1, <2>2, <2>5 DEF InventoriesFit
<1>5. ASSUME NEW p \in Players, NEW i \in Items, Throw(p, i)
      PROVE  InventoriesFit'
  <2>1. dead' = dead /\ i \in inventory[p]
    BY <1>5 DEF Throw
  <2>2. \A q \in Players : inventory'[q] = IF q = p THEN inventory[q] \ {i} ELSE inventory[q]
    BY <1>5 DEF Throw, TypeOK
  <2>3. Cardinality(inventory[p] \ {i}) = Cardinality(inventory[p]) - 1
    BY <1>0, <2>1, FS_RemoveElement
  <2>4. Cardinality(inventory[p] \ {i}) <= InventorySize
    BY <1>0, <2>3, WorldAssumption
  <2> QED
    BY <1>0, <2>1, <2>2, <2>4 DEF InventoriesFit
<1> QED
  BY <1>1, <1>2, <1>3, <1>4, <1>5
  DEF Next, BeginUpdate, ApplyForces, Push, Move, EndUpdate, Vomit, vars

-----------------------------------------------------------------------------
(* What gravity acts on is simulated                                       *)

LEMMA SimulatedStep ==
  TypeOK /\ InPlace /\ PickInv /\ SimulatedInv /\ [Next]_vars => SimulatedInv'
<1> SUFFICES ASSUME TypeOK, InPlace, PickInv, SimulatedInv, [Next]_vars
             PROVE  SimulatedInv'
  OBVIOUS
<1> USE DEF itemVars, playerVars, updateVars
<1>0. \A p \in Players : RoomOf(p) \in Rooms /\ RoomOf(p) \in Simulated
  BY PlayersSimulated
<1>1. CASE UNCHANGED <<contents, across>> /\ Simulated' = Simulated
  BY <1>1 DEF SimulatedInv
<1>2. CASE BeginUpdate
  <2>1. Simulated' = Simulated
    BY <1>2 DEF BeginUpdate, Simulated
  <2> QED
    BY <1>1, <1>2, <2>1 DEF BeginUpdate
<1>3. ASSUME NEW p \in Players, Visit(p)
      PROVE  SimulatedInv'
  <2>1. Simulated' = Simulated
    BY <1>3 DEF Visit, Simulated
  <2>2. CASE Kill(p)
    <3>1. PICK at \in [inventory[p] -> Near(RoomOf(p)) \cup {Gone}] :
            /\ contents' = Placed(inventory[p], at)
            /\ across' = across \cup Beyond(inventory[p], at, RoomOf(p))
      BY <2>2 DEF Kill
    <3> SUFFICES ASSUME NEW r \in Rooms \ Simulated, NEW t \in contents'[r]
                 PROVE  t \in across'
      BY <2>1 DEF SimulatedInv
    <3>2. t \in contents[r] \/ (t \in inventory[p] /\ at[t] = r)
      BY <3>1, PlacedMeans
    <3>3. r # RoomOf(p) /\ r # Gone
      BY <1>0, WorldAssumption
    <3> QED
      BY <3>1, <3>2, <3>3 DEF Beyond, SimulatedInv
  <2>3. CASE LookAround(p)
    BY <1>1, <2>1, <2>3 DEF LookAround
  <2> QED
    BY <1>3, <2>2, <2>3 DEF Visit
<1>4. ASSUME NEW i \in Items \cup Doors, CheckFound(i)
      PROVE  SimulatedInv'
  <2>1. Simulated' = Simulated /\ picker \in Players
    BY <1>4 DEF CheckFound, Simulated, PickInv
  <2>2. CASE contents' = Without(i, contents) /\ across' = across \ {i}
    <3> SUFFICES ASSUME NEW r \in Rooms \ Simulated, NEW t \in contents'[r]
                 PROVE  t \in across'
      BY <2>1 DEF SimulatedInv
    <3>1. t \in contents[r] /\ t # i
      BY <2>2, WithoutMeans
    <3> QED
      BY <2>2, <3>1 DEF SimulatedInv
  <2>3. CASE Swap(i)
    <3>1. PICK k \in LessImportant(i), into \in Near(RoomOf(picker)) :
            /\ contents' = Without(i, Placed({k}, [j \in {k} |-> into]))
            /\ across' = (across \ {i}) \cup Beyond({k}, [j \in {k} |-> into], RoomOf(picker))
      BY <2>3 DEF Swap
    <3> SUFFICES ASSUME NEW r \in Rooms \ Simulated, NEW t \in contents'[r]
                 PROVE  t \in across'
      BY <2>1 DEF SimulatedInv
    <3>2. t # i /\ (t \in contents[r] \/ (t = k /\ into = r))
      BY <3>1, WithoutMeans, PlacedMeans
    <3>3. r # RoomOf(picker) /\ r # Gone
      BY <1>0, <2>1, WorldAssumption
    <3> QED
      BY <3>1, <3>2, <3>3 DEF Beyond, SimulatedInv
  <2>4. CASE LeaveBe(i) \/ OpenDoor(i)
    BY <1>1, <2>1, <2>4 DEF LeaveBe, OpenDoor
  <2> QED
    BY <1>4, <2>2, <2>3, <2>4 DEF CheckFound, Eat, Take
<1>5. CASE ApplyForces
  <2>1. Simulated' = Settled /\ Simulated = oldActive /\ UNCHANGED <<contents, across>>
    BY <1>5 DEF ApplyForces, Simulated
  <2> QED
    BY <2>1 DEF Settled, SimulatedInv
<1>6. ASSUME NEW t \in Things, Push(t)
      PROVE  SimulatedInv'
  <2>1. /\ Simulated = active /\ Simulated' = active \cup {RoomOf(t)}
        /\ contents' = contents /\ across' = across \ {t} /\ t \in Loose
    BY <1>6 DEF Push, Simulated
  <2>2. RoomOf(t) \in Rooms /\ t \in contents[RoomOf(t)]
    BY <2>1, RoomOfLoose
  <2>3. \A r \in Rooms \ Simulated' : t \notin contents[r]
    BY <2>1, <2>2 DEF InPlace
  <2> QED
    BY <2>1, <2>3 DEF SimulatedInv
<1>7. ASSUME NEW t \in Things, NEW to \in Rooms, Move(t, to)
      PROVE  SimulatedInv'
  <2>1. /\ Simulated = active /\ Simulated' = active \cup {to} /\ across' = across \ {t}
        /\ contents' = [Without(t, contents) EXCEPT ![to] = @ \cup {t}]
    BY <1>7 DEF Move, Simulated
  <2>2. \A r \in Rooms \ {to} : \A u : u \in contents'[r] <=> u \in contents[r] /\ u # t
    BY <2>1 DEF Without
  <2> QED
    BY <2>1, <2>2 DEF SimulatedInv
<1>8. CASE EndUpdate
  <2>1. Simulated' = Simulated
    BY <1>8 DEF EndUpdate, Simulated
  <2> QED
    BY <1>1, <1>8, <2>1 DEF EndUpdate
<1>9. ASSUME NEW p \in Players, NEW i \in Items, Give(p, i)
      PROVE  SimulatedInv'
  <2>1. Simulated' = Simulated
    BY <1>9 DEF Give, Simulated
  <2> QED
    BY <1>1, <1>9, <2>1 DEF Give
<1>10. ASSUME NEW p \in Players, NEW i \in Items, Throw(p, i)
       PROVE  SimulatedInv'
  <2>1. Simulated' = Simulated
    BY <1>10 DEF Throw, Simulated
  <2>2. PICK into \in Near(RoomOf(p)) :
          /\ contents' = Placed({i}, [j \in {i} |-> into])
          /\ across' = across \cup Beyond({i}, [j \in {i} |-> into], RoomOf(p))
    BY <1>10 DEF Throw
  <2> SUFFICES ASSUME NEW r \in Rooms \ Simulated, NEW t \in contents'[r]
               PROVE  t \in across'
    BY <2>1 DEF SimulatedInv
  <2>3. t \in contents[r] \/ (t = i /\ into = r)
    BY <2>2, PlacedMeans
  <2>4. r # RoomOf(p) /\ r # Gone
    BY <1>0, WorldAssumption
  <2> QED
    BY <2>2, <2>3, <2>4 DEF Beyond, SimulatedInv
<1>11. ASSUME NEW p \in Players, Vomit(p)
       PROVE  SimulatedInv'
  <2>1. Simulated' = Simulated
    BY <1>11 DEF Vomit, Simulated
  <2>2. PICK chunks \in SUBSET (Edible \ made) : \E at \in [chunks -> Near(RoomOf(p))] :
          /\ contents' = Placed(chunks, at)
          /\ across' = across \cup Beyond(chunks, at, RoomOf(p))
    BY <1>11 DEF Vomit
  <2>3. PICK at \in [chunks -> Near(RoomOf(p))] :
          /\ contents' = Placed(chunks, at)
          /\ across' = across \cup Beyond(chunks, at, RoomOf(p))
    BY <2>2
  <2> SUFFICES ASSUME NEW r \in Rooms \ Simulated, NEW t \in contents'[r]
               PROVE  t \in across'
    BY <2>1 DEF SimulatedInv
  <2>4. t \in contents[r] \/ (t \in chunks /\ at[t] = r)
    BY <2>3, PlacedMeans
  <2>5. r # RoomOf(p) /\ r # Gone
    BY <1>0, WorldAssumption
  <2> QED
    BY <2>3, <2>4, <2>5 DEF Beyond, SimulatedInv
<1>12. CASE UNCHANGED vars
  <2>1. Simulated' = Simulated
    BY <1>12 DEF vars, Simulated
  <2> QED
    BY <1>1, <1>12, <2>1 DEF vars
<1> QED
  BY <1>2, <1>3, <1>4, <1>5, <1>6, <1>7, <1>8, <1>9, <1>10, <1>11, <1>12 DEF Next

-----------------------------------------------------------------------------
LEMMA InitInvariant == Init => IInv
<1> SUFFICES ASSUME Init
             PROVE  IInv
  OBVIOUS
<1>1. TypeOK
  BY TypeInit
<1>2. InPlace
  <2>1. /\ contents = Start /\ spent = {}
        /\ \A p \in Players : inventory[p] = {}
        /\ \A i : i \in made <=> i \in Items /\ \E r \in Rooms : i \in Start[r]
    BY DEF Init
  <2> QED
    BY <2>1, WorldAssumption DEF InPlace
<1>3. PickInv
  BY DEF Init, PickInv
<1>4. InventoriesFit
  <2>1. Cardinality({}) = 0 /\ 0 <= InventorySize
    BY FS_EmptySet, WorldAssumption
  <2> QED
    BY <2>1 DEF Init, InventoriesFit
<1>5. SimulatedInv
  BY DEF Init, SimulatedInv, Simulated
<1> QED
  BY <1>1, <1>2, <1>3, <1>4, <1>5 DEF IInv

LEMMA Invariant == Spec => []IInv
<1>1. IInv /\ [Next]_vars => IInv'
  BY TypeStep, PlacesStep, PickStep, FitStep, SimulatedStep DEF IInv
<1> QED
  BY InitInvariant, <1>1, PTL DEF Spec

-----------------------------------------------------------------------------
(* The properties                                                          *)

(* Whatever is picked up, swapped, dropped, thrown, eaten or lost, by any  *)
(* number of players in any rooms, each item stays in one place and is     *)
(* accounted for.                                                          *)
THEOREM NoItemLost == Spec => []ItemsAreKept
<1>1. IInv => ItemsAreKept
  <2> SUFFICES ASSUME IInv
               PROVE  ItemsAreKept
    OBVIOUS
  <2>0. TypeOK /\ InPlace
    BY DEF IInv
  <2>1. \A i : i \in Held <=> \E p \in Players : i \in inventory[p]
    BY DEF Held
  <2>2. \A p \in Players : inventory[p] \subseteq Items
    BY <2>0 DEF TypeOK
  <2>3. \A r \in Rooms : contents[r] \subseteq Things
    BY <2>0 DEF TypeOK
  <2>4. InOnePlace
    BY <2>0, <2>1, <2>2, <2>3, LooseMeans DEF InPlace, InOnePlace
  <2>5. made = (Loose \cap Items) \cup Held \cup spent
    <3>1. made \subseteq Items /\ spent \subseteq Items /\ Held \subseteq Items
      BY <2>0, <2>1, <2>2 DEF TypeOK
    <3>2. \A i \in Items : i \in made <=> i \in Loose \/ i \in Held \/ i \in spent
      BY <2>0, <2>1, LooseMeans DEF InPlace
    <3> QED
      BY <3>1, <3>2
  <2> QED
    BY <2>0, <2>4, <2>5, PlayersLoose DEF ItemsAreKept, NothingVanishes
<1> QED
  BY Invariant, <1>1, PTL

(* No inventory ever holds more than fits, and the dead hold nothing. *)
THEOREM NoInventoryOverflows == Spec => []InventoriesFit
<1>1. IInv => InventoriesFit
  BY DEF IInv
<1> QED
  BY Invariant, <1>1, PTL

(* Between updates, what is in a room that the next one will not simulate  *)
(* was put there from a neighboring room, and not touched since.           *)
THEOREM NothingHangs == Spec => []ThingsAreSimulated
<1>1. IInv => ThingsAreSimulated
  BY DEF IInv, SimulatedInv, Simulated, ThingsAreSimulated
<1> QED
  BY Invariant, <1>1, PTL
=============================================================================
