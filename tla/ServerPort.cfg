SPECIFICATION Spec
CONSTANTS
  c1 = c1
  v1 = v1
  Clients = {c1}
  Servers = {v1}
  Raws = {}
  Socks = {c1, v1}
  Families = {"ipv4"}
  MaxFd = 3
  Ports = {1}
  Backlog = 1
  Process = Process
  Nobody = Nobody
  RetrySame = TRUE
INVARIANT
  ServerAddressIsBound
