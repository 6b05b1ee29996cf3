SPECIFICATION Spec
CONSTANTS
  ipv4 = ipv4
  ipv6 = ipv6
  c1 = c1
  v1 = v1
  r1 = r1
  Clients = {c1}
  Servers = {v1}
  Raws = {r1}
  Socks = {c1, v1, r1}
  Families = {ipv4, ipv6}
  MaxFd = 2
  Ports = {1}
  Backlog = 1
  Process = Process
  Nobody = Nobody
  RetrySame = TRUE
SYMMETRY Symmetry
INVARIANTS
  CSTypeOK
  NoOrphan
  FlagsAgree
  RemoteMatchesKernel
  NamedPortBound
PROPERTIES
  ImplementsSockets
