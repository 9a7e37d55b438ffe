SPECIFICATION FairSpec
CONSTANTS
  u1 = u1
  u2 = u2
  stranger = stranger
  Units = {u1, u2, stranger}
  Configured = {u1, u2}
  AddressOf <- InOrder
  Former <- OnceTheFirst
  Control = Control
  NoUnit = NoUnit
  Rounds = 3
  MaxId = 2
  MaxAsked = 2
  MaxLine = 1
INVARIANT StatusIsOwn
INVARIANT AddressesAreUnique
PROPERTY InitializationEnds
CHECK_DEADLOCK FALSE
