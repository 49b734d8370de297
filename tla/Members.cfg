CONSTANTS
  a = a
  b = b
  Players = {a, b}
  NumClients = 2
  NoPlayer = NoPlayer
  MaxJoins = 3
  MaxMaps = 1
  MaxTrouble = 1
  MaxPending = 1
SPECIFICATION Spec
SYMMETRY MCSymmetry
INVARIANTS TypeOK MembersAgree
CHECK_DEADLOCK FALSE
