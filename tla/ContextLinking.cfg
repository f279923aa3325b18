CONSTANTS
    t1 = t1
    t2 = t2
    Task <- MCTask
    Carriers <- MCCarriers
    MaxSpans = 5
    MaxContexts = 2
    MaxDepth = 2
SPECIFICATION Spec
INVARIANTS TypeOK LinkAgreement TraceFollowsCause TracestateStays
SYMMETRY MCSymmetry
CHECK_DEADLOCK FALSE
