CONSTANTS
  Req = {r1, r2, r3}
  Handle = {h1}
  first = h1
  Entry = {e1}
  Reference = {}
  MaxItems = 0
  Null = Null
SPECIFICATION LiveSpec
PROPERTIES
  LostLinkReported
CHECK_DEADLOCK FALSE
