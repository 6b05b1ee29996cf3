SPECIFICATION ASpec
CONSTANTS
  a1 = a1
  c1 = c1
  v1 = v1
  m1 = m1
  m2 = m2
  Callers = {a1}
  ClientRecs = {c1}
  ServerRecs = {v1}
  Numbers = {"any", "loop"}
  Any = "any"
  Texts <- MCTexts
  Num <- MCNum
  Canon <- MCCanon
  Hosts <- MCHosts
  Ports = {0, 80}
  Macs = {m1, m2}
  Bytes = {1, 2}
  Scan <- MCScan
  Hex <- MCHex
  Unwritten = Unwritten
INVARIANTS
  AddressTypeOK
  ConnectsAsTold
  PrintsWhatConnects
  EqualPrintAlike
