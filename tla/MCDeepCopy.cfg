CONSTANTS
    Payloads <- MCPayloads
    Originals <- MCOriginals
    FirstFree = 2
INIT Init
NEXT Copy
INVARIANT CopyIsDeep
CHECK_DEADLOCK FALSE
