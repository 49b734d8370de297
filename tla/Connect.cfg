CONSTANTS
  modded = modded
  plain = plain
  modA = modA
  modFF = modFF
  modSabl = modSabl
  mapFF = mapFF
  h1 = h1
  h2 = h2
  Missing = Missing
  NoMod = NoMod
  NoServer = NoServer
  Servers = {modded, plain}
  Hashes = {h1, h2}
  ModOf <- MCModOf
  ModFiles <- MCModFiles
  MapFiles <- MCMapFiles
  Want <- MCWant
  HasUrl <- MCHasUrl
  Found <- MCFound
  MaxAsks = 2
  MaxDuplicates = 0
SPECIFICATION FairConnectSpec
INVARIANTS ConnectTypeOK
PROPERTIES NoAttemptResurrected ModSwitchedBeforeJoin ConnectSettles
CHECK_DEADLOCK FALSE
