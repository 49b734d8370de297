CONSTANTS
  Components <- MCComponents
  MaxFiles = 2
SPECIFICATION FairSpec
INVARIANTS TypeOK NoThreadOutlivesDestroy KillStopsDownload CallbacksNeedDiscord
PROPERTIES ShutdownEnds
CHECK_DEADLOCK FALSE
