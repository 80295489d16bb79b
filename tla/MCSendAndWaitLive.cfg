SPECIFICATION FairSpec
CONSTANTS
    w1 = w1  f1 = f1
    alice = alice
    Calls = {w1, f1}
    Filtered = {f1}
    Senders = {alice}
    SenderOf <- MCSenderOf
    Ids = {1, 2}
    Nothing = Nothing
    Faults = {}
    MaxReorgs = 1
CHECK_DEADLOCK FALSE
INVARIANTS
    FinalMeansSettled
PROPERTIES
    EveryCallSettles
