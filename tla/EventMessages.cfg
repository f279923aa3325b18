CONSTANTS
    MaxLength = 256
    MaxChanged = 2
    MaxTargets = 2
    Kinds <- MCKinds
    Calls <- MCCalls
    MaxSpans = 3
    MaxContexts = 2
    MaxEvents = 3
    MaxBefore = 1
    CacheSize = 1
    DiffCacheSize = 1
SPECIFICATION Spec
INVARIANTS TypeOK SentNamesEvent TracedEventIsSentTraced NoFieldsWithoutHooks BoundedAttributes CallSpansAgree
