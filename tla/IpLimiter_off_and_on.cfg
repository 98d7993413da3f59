SPECIFICATION Spec
CONSTANTS
  ip1 = ip1
  port1 = port1
  port2 = port2
  port3 = port3
  Ips = {ip1}
  Ports = {port1, port2, port3}
  Loopback = {}
  Limits = {0, 1}
SYMMETRY PortSymmetry
PROPERTIES
  AdmissionWithinLimit
