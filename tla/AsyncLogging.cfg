SPECIFICATION FairSpec
CONSTANTS
  Size = 4
  Lengths = {1, 2, 3}
  Limit = 4
  MaxAppends = 6
  Null = Null
INVARIANTS LoggingInv Conservation
PROPERTIES MessagesLogged
