SPECIFICATION Spec
CONSTANTS
  Urls <- MCUrls
  UrlMax = 8
  SchemeMax = 1
  HostMax = 6
  Atoi <- MCAtoi
  Keys = {"Host", "Connection"}
  Values = {"keep"}
  Stored <- MCStored
  MaxHeaders = 1
  Bodies = {1}
  Size = 6
  Wrap = 64
  Unset = "unset"
  MaxCalls = 2
  BufSize = 8
  Strays <- MCStrays
  HeaderCounts = {0, 2}
  BodyParts <- MCBodies
PROPERTY
  BodyDelivered
CHECK_DEADLOCK FALSE
