CONSTANTS
    Roots <- MCRoots
    DestChars <- MCDestChars
    MaxLen = 5
INIT Init
NEXT Call
INVARIANT TypeOK
INVARIANT AcceptedStaysInRoot
CHECK_DEADLOCK FALSE
