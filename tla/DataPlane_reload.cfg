\* One endpoint, a reload while requests run.
SPECIFICATION FairSpec
CONSTANTS
    get = get
    post = post
    Requests <- GetAndPost
    Retryable <- OnlyGet
    Count = 1
    Concurrency = 1
    Retries = 1
    Failures = 1
    MaxSnapshots = 2
INVARIANTS SlotsAreExact RefusedForACause
PROPERTIES EveryRequestAnswered RetiredSnapshotsWindDown
