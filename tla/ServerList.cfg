CONSTANTS
  a = a
  b = b
  Absent = Absent
  Unasked = Unasked
  NoServer = NoServer
  NoMaster = NoMaster
  Servers = {a, b}
  Masters = {"m1", "m2"}
  MasterPackets <- MCMasterPackets
  Suitable = {a, b}
  Clients <- MCClients
  Bots <- MCBots
  QueryLimit = 1
  RequestTimeout = 1
  QueryTimeout = 2
  PingCap = 1
  MaxStrays = 1
  MaxRefreshes = 2
  MaxJoins = 1
SPECIFICATION FairSpec
INVARIANTS TypeOK RowsAccounted
PROPERTIES ListSettles
