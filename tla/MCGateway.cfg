SPECIFICATION GwFairSpec
CONSTANTS
    alice = alice  mal = mal  doc = doc
    Accounts = {alice, mal}
    Oracles = {}
    Owner = alice
    Existing = 1
    Endowment = 1
    MaxId = 2
    Contents = {doc}
    None = None
    Nothing = Nothing
    Requests <- AllRequests
    Tasks = {r1, r2}
    Instances = {r1, r2}
    Messages <- AllMessages
CHECK_DEADLOCK FALSE
INVARIANTS
    GwTypeOK
    StatusIsTrue
    UntrustedIsUnauthorized
    AnsweredOnce
    NothingBeforeSetUp
PROPERTIES
    EveryRequestAnswered
