\* A scan and a deletion of the account at once.
SPECIFICATION Spec
CONSTANTS
  Receipt = {r1}
  Stored = {}
  Editor = {q1}
  Worker = {w1}
  RESTORE_WINDOW = 1
  BATCH_SIZE = 1
  LastDay = 2
  MaxCrashes = 0
  MaxTries = 1
INVARIANTS NoPhotoOutlivesAccount
CHECK_DEADLOCK FALSE
