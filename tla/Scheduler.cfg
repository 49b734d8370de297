SPECIFICATION FairSpec
CONSTANTS
  prompt = prompt  poll = poll  gate = gate  gated = gated
  Tasks <- MCTasks
  Pipe <- MCPipe
  Kind <- MCKind
  Delay <- MCDelay
  Then <- MCThen
INVARIANTS TypeOK NoTaskLostOrDoubled PromptTasksInOrder QuietAfterJoin
PROPERTIES PassMissesNothing EveryTaskRuns ShutdownEnds
