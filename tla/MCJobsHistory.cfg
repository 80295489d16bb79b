SPECIFICATION HistorySpec
CONSTANTS
    alice = alice  oscar = oscar  mal = mal
    doc = doc  other = other
    j1 = j1  j2 = j2
    Accounts = {alice, oscar, mal}
    Oracles = {oscar}
    Owner = alice
    Existing = 2
    Endowment = 1
    MaxId = 2
    Contents = {doc, other}
    None = None
    Nothing = Nothing
    Tasks = {t1, t2, t3}
    Instances = {j1, j2}
    Requests <- ResultRequests
SYMMETRY TaskSymmetry
CHECK_DEADLOCK FALSE
INVARIANTS
    PostedIsStored
    NotesAreOnChain
    ResultsReadWerePosted
    ResultsReadAreFresh
