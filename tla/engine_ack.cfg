SPECIFICATION Spec
CONSTANTS
    a = a
    b = b
    p = p
    q = q
    v1 = v1
    s1 = s1
    g1 = g1
    g2 = g2
    g3 = g3
    g4 = g4
    None = None
    Ids <- MCIds
    Attrs <- MCAttrs
    Vecs <- MCVecs
    Documents <- MCDocuments
    Schemas <- MCSchemas
    Gens <- MCGens2
    MaxRevision = 1
    MaxDocuments = 2
    MaxBytes = 3
    MaxPending = 2
    MaxFaults = 2
    EraseErrors = TRUE
CHECK_DEADLOCK FALSE
INVARIANT AckedIsDurable
