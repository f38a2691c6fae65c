SPECIFICATION Spec
CONSTANTS
    a = a
    b = b
    p = p
    q = q
    v1 = v1
    s1 = s1
    g1 = g1
    g2 = g2
    g3 = g3
    g4 = g4
    None = None
    Ids <- MCIds
    Attrs <- MCAttrs
    Vecs <- MCVecs
    Documents <- MCDocuments
    Schemas <- MCSchemas
    Gens <- MCGens4
    MaxRevision = 2
    MaxDocuments = 1
    MaxBytes = 3
    MaxPending = 2
    MaxFaults = 2
    EraseErrors = TRUE
SYMMETRY Symmetry4
INVARIANTS
    CountersNeverWrap
    GarbageIsMarked
    IndexInv
PROPERTIES
    OnlyErasureLosesAcked
