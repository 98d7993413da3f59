SPECIFICATION ServedSpec
CONSTANTS
  ip1 = ip1
  ip2 = ip2
  port1 = port1
  port2 = port2
  port3 = port3
  Ips = {ip1, ip2}
  Ports = {port1, port2}
  Loopback = {ip2}
  Limits = {0, 1, 2}
  MaxConnections = 2
  Loop = Loop
  Grace = 2
INVARIANTS
  NoPhantomCount
PROPERTIES
  ShutdownCompletes
  QueuedIsTaken
