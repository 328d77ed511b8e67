CONSTANTS
    Accounts = {ann, bob}
    NoOne = NoOne
    Quota = 1
    MaxPhotos = 2
    MaxActs = 2
    MaxFaults = 1
SPECIFICATION FairSpec
INVARIANTS TypeOK OnlyOwnersReceive NoPhotoTwice PhotoKept OverQuotaOnlyAtOnce
PROPERTY QueuedUploads
CHECK_DEADLOCK FALSE
