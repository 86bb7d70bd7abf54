SPECIFICATION Spec
CONSTANTS
  p1 = p1  p2 = p2  e1 = e1  e2 = e2  Unknown = Unknown
  AccessPoint = {p1, p2}
  Supported = {p1}
  NoAccessPoint = NoAccessPoint
  Event = {e1, e2}
  Char = {"a", "&", ".", ":"}
  GoodChar = {"a", "."}
  Dot = "."
  GoodDccChar = {"a", ".", ":"}
  Colon = ":"
  MaxRlzLength = 1
  MaxDccLength = 1
  MaxLines = 4
  Response <- AnyResponse
INVARIANTS
  AppliedAtOnce
CHECK_DEADLOCK FALSE
