\* Two workers, a notification for two devices, requests of one message.
SPECIFICATION FairSpec
CONSTANTS
  ann = ann  bob = bob  t1 = t1  t2 = t2   w1 = w1  w2 = w2
  Last = 2
  User = {ann, bob}
  Token = {t1, t2}
  Worker = {w1, w2}
  UserOf <- MCUserOf
  Owner0 <- MCOwner0
  NoUser = NoUser
  BATCH_SIZE = 2
  EXPO_MAX_BATCH = 1
  MaxCrashes = 1
  MaxMoves = 1
INVARIANTS TypeOK StatusIsTrue
PROPERTIES KeepsPromise EverySettles
