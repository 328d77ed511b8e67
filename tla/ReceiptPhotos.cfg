\* One receipt stored, one to scan; a purge run that may die, and its next ones.
SPECIFICATION FairSpec
CONSTANTS
  Receipt = {r1, r2}
  Stored = {r1}
  Editor = {q1}
  Worker = {w1}
  RESTORE_WINDOW = 1
  BATCH_SIZE = 2
  LastDay = 2
  MaxCrashes = 1
  MaxTries = 1
INVARIANTS TypeOK RestorableHasPhoto FilesHaveRows
PROPERTIES OnlyExpiredErased PurgedInTheEnd
CHECK_DEADLOCK FALSE
