SPECIFICATION FairSpec
CONSTANTS
    Refreshers = {}
    Ensurers = {e1}
    Appliers = {p1}
    Accounts = {1, 2}
    MaxTurns = 1
    NoTask = NoTask
    NoLock = NoLock
    NoAccount = NoAccount
    MaxIssued = 1
    MaxSwitches = 1
    MaxRestarts = 0
PROPERTIES NotSwitchedBack
