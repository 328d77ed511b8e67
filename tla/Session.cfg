CONSTANTS
    Accounts = {ann, bob}
    NoOne = NoOne
    MaxFamily = 2
    MaxActs = 3
    MaxExpiry = 1
    MaxCalls = 2
    MaxFault = 1
SYMMETRY Symmetry
SPECIFICATION Spec
INVARIANTS TypeOK NoSelfReuse OneLiveRefresh RegisteredIsMine NobodyWaitsInVain
CHECK_DEADLOCK FALSE
