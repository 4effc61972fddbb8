\* A tree of four tiles, and four entities in the room next to it.
CONSTANTS
  r1 = r1
  r2 = r2
  tree = tree
  nw = nw
  ne = ne
  se = se
  sw = sw
  cornerN = cornerN
  cornerS = cornerS
  lamp = lamp
  player = player
  Rooms = {r1, r2}
  Neighbors <- SideBySide
  Bounds <- FourWide
  Singles = {cornerN, cornerS, lamp, player}
  Tiles = {nw, ne, se, sw}
  Trees = {tree}
  TreeOf <- InTree
  RoomOf <- Where
  Position <- At
  ClassOf <- Class
  Wires <- WiresOf
  Subsystems <- SubsystemsOf
  Inputs <- SixInputs
  MaxWaiting = 2
SPECIFICATION Spec
INVARIANTS
  SinglesKeepChanges
  TilesKeepChanges
  HeardWithinReach
PROPERTIES
  ActionsRunOut
CHECK_DEADLOCK FALSE
