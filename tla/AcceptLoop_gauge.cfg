SPECIFICATION FairSpec
CONSTANTS
  ip1 = ip1
  ip2 = ip2
  port1 = port1
  port2 = port2
  port3 = port3
  Ips = {ip1, ip2}
  Ports = {port1}
  Loopback = {ip2}
  Limits = {1, 2}
  MaxConnections = 2
  Loop = Loop
  Grace = 1
PROPERTIES
  SustainedZeroMeansBottleneck
