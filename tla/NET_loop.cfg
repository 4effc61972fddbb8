\* Two switches and a repeater in a loop: packets under way while time passes
\* and others are sent, and hosts that are plugged in elsewhere.
CONSTANTS
  s1 = s1
  s2 = s2
  s3 = s3
  a = a
  b = b
  Switches = {s1, s2}
  Repeaters = {s3}
  Hosts = {a, b}
  Broadcast = Broadcast
  Frames <- TalkAndShort
  Topology <- Loop
  Unknown = Unknown
  NoOne = NoOne
  MaxTableSize = 1
  DuplicateTimeout = 1
  ForwardTimeout = 1
  MaxSends = 3
  MaxMoves = 1
  MaxTime = 2
SPECIFICATION Spec
INVARIANTS
  PassedOnOnce
  ReceivedOnce
  Delivered
CHECK_DEADLOCK FALSE
CONSTRAINTS
  SeldomLate
  FewSends
