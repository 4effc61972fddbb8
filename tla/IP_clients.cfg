\* Two clients, three connections, two pings by anyone to anyone, links removed.
CONSTANTS
  Nowhere = Nowhere
  Internal = Internal
  None = None
  Uplink = Uplink
  Clients = {c1, c2}
  c1 = c1
  c2 = c2
  Sockets <- ThreeSockets
  Maker <- TwoByOne
  MaxPings = 2
  MaxRemovals = 1
  LinkIds <- SocketLinks
  Addresses <- AllAddresses
  RouterAddress <- Router0
  AllNodes <- All
  ToAllNodes <- All
  Unspecified <- Zero
  NewAddress <- FreshAddress
  AutoRoutePrefixes <- OnePrefix
  StaticRoutes <- DefaultRoute
  PingIds <- PingNumbers
SPECIFICATION Spec
INVARIANTS
  RoutesLeadToLinks
  PacketsKeepOrder
  PageShowsConnection
  OwnPacketsOnly
PROPERTIES
  RoutesStay
CHECK_DEADLOCK FALSE
