SPECIFICATION Spec
CONSTANTS
    Candidates = {"base"}
    Act <- MCAct
    Payloads = {"nfc", "nfd", "other"}
    Canon <- MCCanon
    Sources = {"s1"}
    Nonces = {"n1"}
    Policy <- MCPolicy
    Absent = Absent
    DefaultQuota = 1
    DefaultBudget = 2
    Configurations = {}
    Costs = {1}
    MaxClock = 2
    Aliased = {"base"}
    Authorizers = {a1}
    CapabilityTTL = 1
    Stores = {"db", "memory"}
    Durable = {"db"}
    Callers = {t1}
    Sinks = {"main"}
    Context <- MCContext
    StoreOf <- MCStoreOf
    ChannelOf <- MCChannelOf
    Channels = {"channel"}
    Offset <- MCOffset
    MaxClockSkew = 1
    CanSignReceipts = {"main"}
    Strict = {}
    Keys = {}
    RegisteredKeys = {}
    ProofFreshness = 1
    MaxProofs = 0
    ProofTimes = {}
    MaxSafeInteger = 2
    RestartTimes = {}
INVARIANTS MutatedHasNoEffect
