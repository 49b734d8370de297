SPECIFICATION HealSpec
CONSTANTS
  exe = exe  data = data  extra = extra  mine = mine  v1 = v1  v2 = v2
  Files <- MCFiles
  Binary = exe
  Ignored = {mine}
  Contents = {v1, v2}
  Absent = Absent
  Torn = Torn
  Release <- MCRelease
  MaxThreads = 2
  MaxAttempts = 2
  Wine = TRUE
INVARIANTS TypeOK CompleteBeforeInstall BinaryRecoverable CompleteUpdateInstalls
PROPERTIES OnlyReleaseContent UpdateEnds RunsHeal
