SPECIFICATION PSpec
CONSTANTS
  s1 = s1
  s2 = s2
  Socks = {s1, s2}
  Families = {"ipv4"}
  MaxFd = 2
  Ports = {1}
  Backlog = 1
  Process = Process
  Nobody = Nobody
  Room = 2
  StrayBit = 1
SYMMETRY Symmetry
INVARIANTS
  TypeOK
  HandlesOwned
  NoLeak
  PTypeOK
  PollCounts
  WatchesOwn
PROPERTIES
  ReleasedByOwner
  ImplementsRegistry
