CONSTANTS
    MaxDocs = 3
    NumTransforms = 2
INIT Init
NEXT Next
INVARIANT TypeOK
INVARIANT TransformAllOrNothing
CHECK_DEADLOCK FALSE
