CONSTANTS
    A = A
    Hashes <- MCHashes
    Accounts <- MCAccounts
    Account <- MCAccount
    Height <- MCHeight
    Dependencies <- MCDependencies
    Buckets <- MCBuckets
    Bucket <- MCBucket
    Timestamp <- MCTimestamp
    Stored = {1, 2}
    max_backlog = 1
    batch_size = 1
    max_ledger_notifications = 1
    MaxBatches = 1
    MaxCemented = 1
    MaxUses = 1
SPECIFICATION Spec
PROPERTY
    BacklogSparesUsed
CHECK_DEADLOCK FALSE
