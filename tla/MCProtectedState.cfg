SPECIFICATION StateSpec
CONSTANTS
    Candidates <- MCCandidates
    Act <- MCAct
    Payloads = {"p1", "p2"}
    Canon <- MCCanon
    Sources = {"s1", "s2"}
    Nonces = {"n1", "n2", "n3"}
    Policy <- MCPolicy
    Absent = Absent
    DefaultQuota = 2
    DefaultBudget = 3
    Configurations <- MCConfigurations
    Costs = {0, 1, 2}
INVARIANTS StateTypeOK NonceSpentOnce QuotaConserved BudgetConserved VersionChain NoOverdraft
