SPECIFICATION RSpec
CONSTANTS
  Urls <- MCUrls
  UrlMax = 10
  SchemeMax = 1
  HostMax = 6
  Atoi <- MCAtoi
  Keys = {"Host", "Connection", "X", "long", "cut"}
  Values = {"v1", "v2"}
  Stored <- MCStored
  MaxHeaders = 2
  Bodies = {1, 3}
  Size = 8
  Wrap = 64
  Unset = "unset"
INVARIANTS
  RTypeOK
  SentOnce
  UrlTakenApart
PROPERTY
  ImplementsMap
