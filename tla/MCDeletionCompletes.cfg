CONSTANTS
    r1 = r1
    r2 = r2
    Res <- MCRes1
    Repr = "typed"
    LabelsConfigured = FALSE
SPECIFICATION Spec
PROPERTY DeletionCompletes
