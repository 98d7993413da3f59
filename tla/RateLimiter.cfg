SPECIFICATION Spec
CONSTANTS
  ip1 = ip1
  lo = lo
  Ips = {ip1, lo}
  Loopback = {lo}
  Limits <- SomeLimits
  Unit = 2
  MaxRate = 1
  MaxNow = 4
  MaxReloads = 2
INVARIANTS
  TypeOK
  ForgettingIsBounded
  AdmissionsBounded
PROPERTIES
  NoFalseRefusal
