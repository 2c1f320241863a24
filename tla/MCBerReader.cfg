CONSTANTS
  Message <- Messages
  MaxSent = 2
  WordSizes = {4, 8}
  MaxRead = 9
  Null = Null
SPECIFICATION ReaderSpec
INVARIANTS MessagesIntact HeaderFits
PROPERTY AllReturned
CHECK_DEADLOCK FALSE
