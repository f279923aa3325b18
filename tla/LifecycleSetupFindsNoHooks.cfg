CONSTANTS
    None = None
    MaxRuntimes = 3
SPECIFICATION Spec
INVARIANTS SetupFindsNoHooks
