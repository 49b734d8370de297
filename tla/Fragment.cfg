SPECIFICATION FairSpec
CONSTANTS
  Senders = {s1}
  s1 = s1 
  MaxFragments = 3
  MaxId = 1
  MaxPackets = 2
  MaxStarts = 2
  Lengths = {1, 2, 3, 4}
  MaxDuplicates = 1
  Hole = Hole
CHECK_DEADLOCK FALSE
INVARIANTS TypeOK DeliveredWhole DeliveredOnce DeliveredInPlace EntriesIncomplete
PROPERTIES EntriesGo
