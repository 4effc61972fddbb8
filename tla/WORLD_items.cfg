\* Two players and three items in three rooms; inventories hold one item.
CONSTANTS
  r1 = r1
  r2 = r2
  r3 = r3
  p1 = p1
  p2 = p2
  food = food
  cup = cup
  key = key
  door = door
  Rooms = {r1, r2, r3}
  Neighbors <- Row
  Players = {p1, p2}
  Items = {food, cup, key}
  Doors = {door}
  DoorRoom <- InTheMiddle
  Edible = {food}
  Keys = {key}
  Importance <- KeyFirst
  InventorySize = 1
  MaxEnergy = 1
  Start <- Party
  Gone = Gone
SYMMETRY EitherPlayer
SPECIFICATION Spec
INVARIANTS
  ItemsAreKept
  InventoriesFit
  ThingsAreSimulated
