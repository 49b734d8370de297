SPECIFICATION Spec
CONSTANTS
  s1 = s1  
  Senders = {s1}
  MaxFragments = 3
  MaxId = 0
  MaxPackets = 1
  MaxStarts = 1
  Lengths = {3}
  MaxDuplicates = 1
  Hole = Hole
CHECK_DEADLOCK FALSE
INVARIANTS ReconstructsPacket
