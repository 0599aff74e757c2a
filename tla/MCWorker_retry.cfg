SPECIFICATION Spec
CONSTANTS
    Task <- MCTask
    Combines <- MCCombines
    CombineKey <- MCCombineKey
    NoKey = "none"
    None = None
    DepOf <- MCDepOf
    Rows <- MCRows
    PartOf <- MCPartOf
    NumPartition = 2
    Load <- RetryLoad
    Call = {1, 2, 3}
    Half = 0
    Full = 2
    MaxGen = 3
    MaxTries = 3
INVARIANTS
    RunDeposits
