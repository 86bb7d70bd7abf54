SPECIFICATION DealSpec
CONSTANTS
  AccessPoint = {"I7"}
  NoAccessPoint = NoAccessPoint
  Supported = {"I7"}
  Char = {"a", "b", "&", ".", ":"}
  GoodChar = {"a", "b", "."}
  Dot = "."
  MaxRlzLength = 1
  MaxLines = 3
  Response <- SomeAnswers
  GoodDccChar = {"a", "b", ".", ":"}
  Colon = ":"
  MaxDccLength = 1
  Code <- SomeCodes
  Caller = {c1, c2}
  NoAnswer = NoAnswer
  GetMayFail = FALSE
PROPERTIES
  DirectCallConfirms
