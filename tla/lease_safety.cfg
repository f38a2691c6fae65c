SPECIFICATION Spec
CONSTANTS
    quick = quick
    slow = slow
    Workers <- MCWorkers
    Etags <- MCEtags
    Ttl <- MCTtl
    None = None
    MaxFaults = 2
INVARIANTS
    TypeOK
    OneOwner
    NoStaleOwner
