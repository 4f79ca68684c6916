CONSTANTS
    r1 = r1
    r2 = r2
    Res <- MCRes2
    Repr = "typed"
    LabelsConfigured = TRUE
SPECIFICATION Spec
SYMMETRY MCSymmetry
INVARIANT TypeOK
INVARIANT NoOrphanedRelease
PROPERTY DeletionPreempts
PROPERTY ImplementsLifecycle
