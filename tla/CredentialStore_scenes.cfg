SPECIFICATION SceneSpec
CONSTANTS
    Refreshers = {r1, r2, r3}
    Ensurers = {e1}
    Appliers = {p1}
    Accounts = {1, 2}
    Only = 1
    MaxRenewed = 2
    MaxTurns = 2
    NoTask = NoTask
    NoLock = NoLock
    NoAccount = NoAccount
    MaxIssued = 2
    MaxSwitches = 2
    MaxRestarts = 1
SYMMETRY Interchangeable
INVARIANTS OneRefresher NoReuse IInv SameOnDisk CurrentInStore
PROPERTIES RenewsOnly GivesUpForCause
