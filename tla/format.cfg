SPECIFICATION Spec
CONSTANTS
    Order <- ThreeDocs
    Spaces <- TwoSpaces
    Attrs = {a}
    Vectors = {x}
    None = None
    Batch = 2
    MaxWrites = 1
    MaxFaults = 2
INVARIANTS TypeOK NothingLost EngineMayOpen BackupIsOneRevision
PROPERTIES BackupNotOverwritten RestoreIsAllOrNothing RestoreNeedsEmpty MigrationFinishes
\* A prefix with an unrecognized keyspace is refused for good: nothing happens.
CHECK_DEADLOCK FALSE
