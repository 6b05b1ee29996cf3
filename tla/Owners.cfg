SPECIFICATION OSpec
CONSTANTS
  c1 = c1
  c2 = c2
  v1 = v1
  x1 = x1
  x2 = x2
  y1 = y1
  Clients = {c1, c2}
  Servers = {v1}
  Raws = {}
  Socks = {c1, c2, v1}
  ClientObjs = {x1, x2}
  ServerObjs = {y1}
  Null = Null
  Gone = Gone
  Families = {"ipv4"}
  MaxFd = 2
  Ports = {1}
  Backlog = 1
  Process = Process
  Nobody = Nobody
  RetrySame = TRUE
SYMMETRY Symmetry
INVARIANTS
  OTypeOK
  OneOwner
  NothingLeft
