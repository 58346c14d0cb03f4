SPECIFICATION LockedSpec
CONSTANTS
    Candidates <- MCCandidates
    Act <- MCAct
    Payloads = {"p1"}
    Canon <- MCCanon
    Sources = {"s1"}
    Nonces = {"n1", "n2"}
    Policy <- MCPolicy
    Absent = Absent
    DefaultQuota = 2
    DefaultBudget = 3
    Configurations <- MCConfigurations
    Costs = {1, 2}
    Threads = {t1, t2}
INVARIANTS LockedTypeOK SnapshotNotTorn LookupsCurrent
PROPERTIES ImplementsProtectedState LockIsReleased
