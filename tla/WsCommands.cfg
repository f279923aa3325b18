CONSTANTS
    callService = callService
    other = other
    Command <- MCCommand
    CallService <- callService
    None = None
    MaxInstalls = 3
    MaxRegistrations = 4
SPECIFICATION Spec
INVARIANTS TypeOK SpansPerMessage AsRegistered NewestInForce
CHECK_DEADLOCK FALSE
