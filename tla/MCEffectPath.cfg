SPECIFICATION PathSpec
CONSTANTS
    Calls = {"k1", "k2", "k3"}
    Processes = {"p", "q"}
    ProcessOf <- MCProcessOf
    Capabilities = {cap1, cap2}
    None = None
    MaxInjections = 1
INVARIANTS ClaimTypeOK WonOnce NoOrphanedLock ReferencesUnique FailuresInjected
PROPERTIES PathImplementsLife PathsReturn
