CONSTANTS
  Items = {1, 2, 3, 4, 5}
  Crates = {1, 2}
  CrateCost <- MCCrateCost
  ItemCost <- MCOnes
  Returned <- MCOnes
  Contents <- MCContents
  HeroOf <- MCHeroOf
  Pack <- MCPack
  Team <- MCTeam
  Contracts <- MCContracts
  Matches <- MCMatches
  DailyKeys = 1
  Quantities = {1}
  OldFiles <- MCOldFiles
  FirstDay = 2
  PageSize = 2
  Unloaded = Unloaded
  NoFile = NoFile
  Torn = Torn
  NoAnswer = NoAnswer
  Changed = Changed
  MaxBalance = 2
  MaxDays = 2
  MaxTurns = 3
  MaxIndex = 4
  MaxTasks = 4
SPECIFICATION Spec
INVARIANTS TypeOK Durable ListingComplete
