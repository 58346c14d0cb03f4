SPECIFICATION Spec
CONSTANTS
    Candidates = {"base", "twin", "second", "third"}
    Act <- MCAct
    Payloads = {"nfc"}
    Canon <- MCCanon
    Sources = {"s1"}
    Nonces = {"n1", "n2", "n3"}
    Policy <- MCPolicy
    Absent = Absent
    DefaultQuota = 2
    DefaultBudget = 3
    Configurations = {}
    Costs = {1, 2}
    MaxClock = 0
    Aliased = {}
    Authorizers = {a1}
    CapabilityTTL = 1
    Stores = {"db", "memory"}
    Durable = {"db"}
    Callers = {t1, t2}
    Sinks = {"main", "other"}
    Context <- MCContext
    StoreOf <- MCStoreOf
    ChannelOf <- MCChannelOf
    Channels = {"channel"}
    Offset <- MCOffset
    MaxClockSkew = 1
    CanSignReceipts = {"other"}
    Strict = {}
    Keys = {}
    RegisteredKeys = {}
    ProofFreshness = 1
    MaxProofs = 0
    ProofTimes = {}
    MaxSafeInteger = 2
    RestartTimes = {}
SYMMETRY Threads
INVARIANTS EffectsWithinQuota ReceiptsTruthful VerifiersAgree
