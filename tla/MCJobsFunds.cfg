SPECIFICATION Spec
CONSTANTS
    alice = alice  oscar = oscar  mal = mal
    doc = doc  other = other
    j1 = j1  j2 = j2
    Accounts = {alice, oscar, mal}
    Oracles = {oscar}
    Owner = alice
    Existing = 1
    Endowment = 1
    MaxId = 3
    Contents = {doc, other}
    None = None
    Nothing = Nothing
    Tasks = {t1, t2, t3}
    Instances = {j1}
    Requests <- FundRequests
SYMMETRY TaskSymmetry
CHECK_DEADLOCK FALSE
INVARIANTS
    TypeOK
    ReportsAreTrue
    LaunchFundsItsEscrow
    ClosingIsFinal
    RepliesAddUp
