CONSTANTS
    Accounts = {ann, bob}
    NoOne = NoOne
    Quota = 1
    MaxPhotos = 2
    MaxActs = 2
    MaxFaults = 1
SPECIFICATION Spec
INVARIANTS UploadsWhenQueued
CHECK_DEADLOCK FALSE
