SPECIFICATION Spec
CONSTANTS
    alice = alice  oscar = oscar  mal = mal
    doc = doc  other = other
    j1 = j1  j2 = j2
    Accounts = {alice, oscar}
    Oracles = {oscar}
    Owner = alice
    Existing = 0
    Endowment = 1
    MaxId = 1
    Contents = {doc, other}
    None = None
    Nothing = Nothing
    Tasks = {t1, t2}
    Instances = {j1}
    Requests <- AbortRequests
SYMMETRY TaskSymmetry
CHECK_DEADLOCK FALSE
INVARIANTS
    OverMeansRefunded
