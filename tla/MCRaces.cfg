SPECIFICATION Spec
CONSTANTS
    Candidates = {"base", "twin"}
    Act <- MCAct
    Payloads = {"nfc"}
    Canon <- MCCanon
    Sources = {"s1"}
    Nonces = {"n1", "n2"}
    Policy <- MCPolicy
    Absent = Absent
    DefaultQuota = 1
    DefaultBudget = 2
    Configurations = {}
    Costs = {1}
    MaxClock = 2
    Aliased = {}
    Authorizers = {a1}
    CapabilityTTL = 1
    Stores = {"db", "memory"}
    Durable = {"db"}
    Callers = {t1, t2}
    Sinks = {"main", "mirror"}
    Context <- MCContext
    StoreOf <- MCStoreOf
    ChannelOf <- MCChannelOf
    Channels = {"channel"}
    Offset <- MCOffset
    MaxClockSkew = 1
    CanSignReceipts = {"main"}
    Strict = {"main"}
    Keys = {"k1", "k2"}
    RegisteredKeys = {"k1", "k2"}
    ProofFreshness = 1
    MaxProofs = 1
    ProofTimes <- MCProofTimes
    MaxSafeInteger = 2
    RestartTimes = {}
SYMMETRY Threads
INVARIANTS TypeOK AtMostOneEffect ExactActBinding StrictEffectsProven FreshCapabilityUsable
PROPERTIES GenuineNeverRefused
