SPECIFICATION Spec
CONSTANTS
    Requests = {1, 2, 3}
    Indexer = Indexer
    Closer = Closer
    Mixes <- AllMixes
    MaxRequests = 2
    MaxQueries = 1
INVARIANTS TypeOK WorkIsBounded SnapshotsAreSettled ClosedQuietly
PROPERTIES PermitsReturn Drains
\* The server stops.
CHECK_DEADLOCK FALSE
