\* Two users, two deliveries and a refresh at once.
SPECIFICATION Spec
CONSTANTS
  User = {ann, bob}
  Worker = {w1, w2}
  Reader = {q1}
  Never = Never
  Nobody = Nobody
  LastExpiry = 2
  MaxEvents = 3
  HasKey = TRUE
SYMMETRY Same
INVARIANTS TypeOK Converges OwedAtStamp
PROPERTIES NewerStands
CHECK_DEADLOCK FALSE
