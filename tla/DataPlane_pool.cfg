\* Three endpoints, health checks and breakers, no reload.
SPECIFICATION Spec
CONSTANTS
    get = get
    post = post
    Requests <- GetAndPost
    Retryable <- OnlyGet
    Count = 3
    Concurrency = 0
    Retries = 1
    Failures = 2
    MaxSnapshots = 1
INVARIANTS NeverSentTooOften ResponsesAreClosed PickFindsSteadyEndpoint
