CONSTANTS
    a = a
    b = b
    Infos <- MCInfos
    MaxList = 3
INIT Init
NEXT Next
INVARIANT TypeOK
INVARIANT ResultAccountsForEveryResource
CHECK_DEADLOCK FALSE
