CONSTANTS
    r1 = r1
    r2 = r2
    Res <- MCRes1
    Repr = "unstructured"
    LabelsConfigured = FALSE
SPECIFICATION Spec
PROPERTY CreatedLeavesInitial
