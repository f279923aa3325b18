CONSTANTS
    api1 = api1
    api2 = api2
    page = page
    i1 = i1
    i2 = i2
    i3 = i3
    i4 = i4
    i5 = i5
    i6 = i6
    i7 = i7
    Route <- MCRoute
    Api <- MCApi
    Id <- MCId
    None = None
    MaxInstalls = 3
SYMMETRY IdSymmetry
SPECIFICATION Spec
INVARIANTS TypeOK OneSpanPerRequest UninstallRestores WhoTraces
CHECK_DEADLOCK FALSE
